------------------------------- MODULE Store -------------------------------
(***************************************************************************)
(* The SQLite store of Nops (internal/store): the deployments table, the   *)
(* audit log of every deployment and the Deploy now requests.              *)
(*                                                                         *)
(* Open() allows one connection, so every exported method is one atomic    *)
(* step here: a call that returns an error changes nothing and is a        *)
(* stuttering step.  A deployment's ID is its position in creation order,  *)
(* the order LatestDeployment and ListActive sort by.                      *)
(*                                                                         *)
(* Text columns are left out; a column that is only ever tested for being  *)
(* set (decided_by, retried_at, window_lifted_by, promotion_wait_since,    *)
(* promoted_at) is a BOOLEAN, and plan_diff is whether it is non-empty.    *)
(***************************************************************************)
EXTENDS Naturals, Sequences, FiniteSets

CONSTANTS
    Jobs,            \* (namespace, job_id) pairs
    Specs,           \* spec hashes
    Diffs,           \* hashes of a full plan diff
    NoDiff,          \* diff_hash IS NULL
    NoLift,          \* no window_lifts row for a job
    Requests,        \* the deployments callers ask CreateDeployment for
    MaxDeployments,  \* bound: rows of the deployments table
    MaxIndex,        \* bound: Nomad modify indexes
    MaxEvents        \* bound: rows of the events table

Policies == {"auto", "approval"}

\* What a caller of CreateDeployment fills in; the store sets the rest.
Request == [job: Jobs, spec: Specs, policy: Policies, cas: Nat,
            diff: Diffs \cup {NoDiff}, planDiff: BOOLEAN, retryOf: Nat, lifted: BOOLEAN]

ASSUME StoreAssumption ==
    /\ MaxDeployments \in Nat
    /\ MaxIndex \in Nat
    /\ MaxEvents \in Nat
    /\ NoDiff \notin Diffs
    /\ NoLift \notin Specs
    /\ Requests \subseteq Request

VARIABLES
    deployments,     \* the deployments table, in creation order
    events,          \* events[id]: the audit log of deployment id
    lifts            \* window_lifts: the spec hash asked for, per job

storeVars == <<deployments, events, lifts>>

-----------------------------------------------------------------------------
(***************************************************************************)
(* The state machine of a deployment.                                      *)
(***************************************************************************)
ActiveStates == {"detected", "pending_approval", "pre_hook", "applying", "post_hook"}
TerminalStates == {"completed", "failed", "rejected", "superseded"}
States == ActiveStates \cup TerminalStates

IsActive(s) == s \in ActiveStates

\* mutant: an applying deployment can be superseded
allowed_supersedesApplying ==
    [s \in States |->
        CASE s = "detected" -> {"pending_approval", "pre_hook", "applying",
                                "completed", "failed", "superseded"}
          [] s = "pending_approval" -> {"pre_hook", "applying", "rejected",
                                        "superseded", "completed"}
          [] s = "pre_hook" -> {"applying", "failed"}
          [] s = "applying" -> {"post_hook", "completed", "failed", "superseded"}
          [] s = "post_hook" -> {"completed", "failed"}
          [] OTHER -> {}]

allowed ==
    [s \in States |->
        CASE s = "detected" -> {"pending_approval", "pre_hook", "applying",
                                "completed", "failed", "superseded"}
          [] s = "pending_approval" -> {"pre_hook", "applying", "rejected",
                                        "superseded", "completed"}
          [] s = "pre_hook" -> {"applying", "failed"}
          [] s = "applying" -> {"post_hook", "completed", "failed"}
          [] s = "post_hook" -> {"completed", "failed"}
          [] OTHER -> {}]

canTransition(from, to) == to \in allowed[from]

Indexes == 0..MaxIndex

Deployment ==
    [job: Jobs, spec: Specs, policy: Policies, state: States,
     cas: Nat, diff: Diffs \cup {NoDiff}, planDiff: BOOLEAN,
     applied: Nat,                    \* applied_index, 0 for NULL
     decided: BOOLEAN, retried: BOOLEAN, retryOf: Nat, lifted: BOOLEAN,
     waited: BOOLEAN, promoted: BOOLEAN]

Event == [from: States \cup {""}, to: States]

Ids == DOMAIN deployments
Row(id) == deployments[id]

NewRow(r, born) ==
    [job |-> r.job, spec |-> r.spec, policy |-> r.policy, state |-> born,
     cas |-> r.cas, diff |-> r.diff, planDiff |-> r.planDiff, applied |-> 0,
     decided |-> FALSE, retried |-> FALSE, retryOf |-> r.retryOf, lifted |-> r.lifted,
     waited |-> FALSE, promoted |-> FALSE]

-----------------------------------------------------------------------------
(***************************************************************************)
(* Queries.                                                                *)
(***************************************************************************)
ListActive == {id \in Ids : IsActive(Row(id).state)}

ActiveOf(j) == {id \in ListActive : Row(id).job = j}

\* LatestDeployment's row: 0 when the job never had one.
LatestDeployment(j) ==
    IF \E id \in Ids : Row(id).job = j
    THEN CHOOSE id \in Ids : /\ Row(id).job = j
                             /\ \A k \in Ids : Row(k).job = j => k <= id
    ELSE 0

-----------------------------------------------------------------------------
(***************************************************************************)
(* Writes to the deployments table.  Each guard is the WHERE clause or the *)
(* constraint that decides whether the call writes.                        *)
(***************************************************************************)

\* The log of a new deployment: born pending_approval or failed, it reads as if
\* it had been created detected and moved on.
BirthEvents(born, lifted) ==
    LET found == <<[from |-> "", to |-> "detected"]>>
        asked == IF lifted THEN Append(found, [from |-> "detected", to |-> "detected"]) ELSE found
    IN  IF born = "detected" THEN asked ELSE Append(asked, [from |-> "detected", to |-> born])

\* The partial unique index one_active_per_job: a row born terminal is outside it.
\* mutant: the index covers only the states after the decision
UniqueActive_startedOnly(j, born) ==
    IsActive(born) => \A id \in ActiveOf(j) : Row(id).state \in {"detected", "pending_approval"}

UniqueActive(j, born) == IsActive(born) => ActiveOf(j) = {}

\* mutant: the first events are left to a later write
CreateDeployment_noEvents(r, born) ==
    /\ born \in {"detected", "pending_approval", "failed"}
    /\ UniqueActive(r.job, born)
    /\ Len(deployments) < MaxDeployments
    /\ deployments' = Append(deployments, NewRow(r, born))
    /\ lifts' = IF r.lifted THEN [lifts EXCEPT ![r.job] = NoLift] ELSE lifts
    /\ UNCHANGED events

\* mutant: a Deploy now request outlives the deployment it asked for
CreateDeployment_keepsLift(r, born) ==
    /\ born \in {"detected", "pending_approval", "failed"}
    /\ UniqueActive(r.job, born)
    /\ Len(deployments) < MaxDeployments
    /\ deployments' = Append(deployments, NewRow(r, born))
    /\ events' = Append(events, BirthEvents(born, r.lifted))
    /\ UNCHANGED lifts

CreateDeployment(r, born) ==
    /\ born \in {"detected", "pending_approval", "failed"}
    /\ UniqueActive(r.job, born)
    /\ Len(deployments) < MaxDeployments
    /\ deployments' = Append(deployments, NewRow(r, born))
    /\ events' = Append(events, BirthEvents(born, r.lifted))
    /\ lifts' = IF r.lifted THEN [lifts EXCEPT ![r.job] = NoLift] ELSE lifts

LogEvent(id, from, to) ==
    events' = [events EXCEPT ![id] = Append(@, [from |-> from, to |-> to])]

\* mutant: UPDATE ... WHERE id = ?, without AND state = ?
CanMove_anyState(id, from, to) ==
    id \in Ids /\ from \in States /\ canTransition(from, to)

CanMove(id, from, to) ==
    id \in Ids /\ from \in States /\ canTransition(from, to) /\ Row(id).state = from

\* A zero AppliedIndex is not written.
Moved(row, to, by, index) ==
    [row EXCEPT !.state = to, !.decided = row.decided \/ by,
                !.applied = IF index # 0 THEN index ELSE row.applied]

\* by: whether the transition carries a DecidedBy; index: its AppliedIndex, 0
\* for none.
Transition(id, from, to, by, index) ==
    /\ CanMove(id, from, to)
    /\ deployments' = [deployments EXCEPT ![id] = Moved(Row(id), to, by, index)]
    /\ LogEvent(id, from, to)
    /\ UNCHANGED lifts

\* No event: the state does not change.
\* mutant: UPDATE ... WHERE id = ?, without AND state = 'applying'
SetApplied_anyState(id, index) ==
    /\ id \in Ids /\ index # 0
    /\ deployments' = [deployments EXCEPT ![id] = [Row(id) EXCEPT !.applied = index]]
    /\ UNCHANGED <<events, lifts>>

SetApplied(id, index) ==
    /\ id \in Ids /\ index # 0
    /\ Row(id).state = "applying"
    /\ deployments' = [deployments EXCEPT ![id] = [Row(id) EXCEPT !.applied = index]]
    /\ UNCHANGED <<events, lifts>>

\* mutant: without AND applied_index IS NULL
MoveCASIndex_afterRegister(id, in, from, to) ==
    /\ id \in Ids /\ in \in {"detected", "pending_approval", "applying"}
    /\ Row(id).state = in /\ Row(id).cas = from
    /\ deployments' = [deployments EXCEPT ![id] = [Row(id) EXCEPT !.cas = to]]
    /\ LogEvent(id, in, in)
    /\ UNCHANGED lifts

MoveCASIndex(id, in, from, to) ==
    /\ id \in Ids /\ in \in {"detected", "pending_approval", "applying"}
    /\ Row(id).state = in /\ Row(id).cas = from /\ Row(id).applied = 0
    /\ deployments' = [deployments EXCEPT ![id] = [Row(id) EXCEPT !.cas = to]]
    /\ LogEvent(id, in, in)
    /\ UNCHANGED lifts

\* No caller passes an index of 0: both come from a job Nomad returned.
MoveAppliedIndex(id, from, to) ==
    /\ id \in Ids /\ from # 0 /\ to # 0
    /\ Row(id).state = "applying" /\ Row(id).applied = from
    /\ deployments' = [deployments EXCEPT ![id] = [Row(id) EXCEPT !.applied = to]]
    /\ LogEvent(id, "applying", "applying")
    /\ UNCHANGED lifts

MarkRetried(id) ==
    /\ id \in Ids
    /\ Row(id).state \in {"failed", "rejected"} /\ ~Row(id).retried
    /\ deployments' = [deployments EXCEPT ![id] = [Row(id) EXCEPT !.retried = TRUE]]
    /\ LogEvent(id, Row(id).state, Row(id).state)
    /\ UNCHANGED lifts

MarkAwaitingPromotion(id) ==
    /\ id \in Ids
    /\ Row(id).state = "applying" /\ ~Row(id).waited
    /\ deployments' = [deployments EXCEPT ![id] = [Row(id) EXCEPT !.waited = TRUE]]
    /\ LogEvent(id, "applying", "applying")
    /\ UNCHANGED lifts

MarkPromoted(id) ==
    /\ id \in Ids
    /\ Row(id).state = "applying" /\ Row(id).waited /\ ~Row(id).promoted
    /\ deployments' = [deployments EXCEPT ![id] = [Row(id) EXCEPT !.promoted = TRUE]]
    /\ LogEvent(id, "applying", "applying")
    /\ UNCHANGED lifts

MarkPromotionRequested(id) ==
    /\ id \in Ids
    /\ Row(id).state = "applying"
    /\ LogEvent(id, "applying", "applying")
    /\ UNCHANGED <<deployments, lifts>>

-----------------------------------------------------------------------------
(***************************************************************************)
(* Deploy now requests: one per job, a new one replaces the one waiting.   *)
(***************************************************************************)

RequestWindowLift(j, s) ==
    /\ lifts' = [lifts EXCEPT ![j] = s]
    /\ UNCHANGED <<deployments, events>>

DropWindowLift(j) ==
    /\ lifts' = [lifts EXCEPT ![j] = NoLift]
    /\ UNCHANGED <<deployments, events>>

-----------------------------------------------------------------------------
(***************************************************************************)
(* The store under any caller: every method with any argument, in any      *)
(* order.  What holds here holds whatever the engine does.                 *)
(***************************************************************************)

\* A row an older Nops left behind: under approval it wrote `detected` first and
\* moved it in a second write, and it recorded no diff hash.
LegacyRow(j, s) ==
    NewRow([job |-> j, spec |-> s, policy |-> "approval", cas |-> 0, diff |-> NoDiff,
            planDiff |-> TRUE, retryOf |-> 0, lifted |-> FALSE], "detected")

StoreInit ==
    /\ \/ deployments = <<>> /\ events = <<>>
       \/ \E j \in Jobs, s \in Specs :
            /\ deployments = <<LegacyRow(j, s)>>
            /\ events = <<BirthEvents("detected", FALSE)>>
    /\ lifts = [j \in Jobs |-> NoLift]

Create ==
    \E r \in Requests, born \in {"detected", "pending_approval", "failed"} :
        CreateDeployment(r, born)

Move == \E id \in Ids, from, to \in States, by \in BOOLEAN, i \in Indexes :
            Transition(id, from, to, by, i)

Mark ==
    \E id \in Ids :
        \/ \E in \in States, from, to \in Indexes : MoveCASIndex(id, in, from, to)
        \/ \E from, to \in Indexes : MoveAppliedIndex(id, from, to)
        \/ MarkRetried(id)
        \/ MarkAwaitingPromotion(id)
        \/ MarkPromoted(id)
        \/ MarkPromotionRequested(id)

HasRoom == Cardinality(UNION {{id} \X DOMAIN events[id] : id \in Ids}) < MaxEvents

StoreNext ==
    \/ HasRoom /\ (Create \/ Move \/ Mark)
    \/ \E id \in Ids, i \in Indexes : SetApplied(id, i)
    \/ \E j \in Jobs, s \in Specs : RequestWindowLift(j, s)
    \/ \E j \in Jobs : DropWindowLift(j)

StoreSpec == StoreInit /\ [][StoreNext]_storeVars

-----------------------------------------------------------------------------
(***************************************************************************)
(* Properties.                                                             *)
(***************************************************************************)

\* Every row and every event has the shape the schema gives it, and a
\* deployment has its log from the moment it exists.
StoreTypeOK ==
    /\ deployments \in Seq(Deployment)
    /\ events \in Seq(Seq(Event))
    /\ Len(events) = Len(deployments)
    /\ lifts \in [Jobs -> Specs \cup {NoLift}]

\* Invariant 6 of docs/philosophy.md: no job ever has two deployments in states
\* that hold the per-job lock, whatever order creations and transitions come in.
OneActivePerJob ==
    \A i, k \in Ids : /\ IsActive(Row(i).state) /\ IsActive(Row(k).state)
                      /\ Row(i).job = Row(k).job
                      => i = k

\* An event is a legal move of the state machine, a mark that moves nothing, or
\* the creation.
LegalEvent(e) ==
    \/ e.from = "" /\ e.to = "detected"
    \/ e.from \in States /\ (e.from = e.to \/ canTransition(e.from, e.to))

\* The log of one deployment: starts at its creation, every event leaves from
\* where the one before it ended, and the last one ends at the row's state.
IsTrail(log, state) ==
    /\ Len(log) >= 1
    /\ log[1].from = ""
    /\ \A n \in 1..Len(log) : LegalEvent(log[n])
    /\ \A n \in 1..(Len(log) - 1) : log[n + 1].from = log[n].to
    /\ log[Len(log)].to = state

\* The audit log tells the whole story of the row: replaying a deployment's
\* events from its creation is a legal path that ends in the state the row has
\* (every write of the state and its event are one transaction).
AuditTrail == \A id \in Ids : IsTrail(events[id], Row(id).state)

\* What a person approved cannot change under them: the job, the spec, the
\* policy and the recorded diff of a row are written once; a decision and a retry
\* are never taken back; a row never disappears; a terminal state is final and
\* an index recorded in it stays what it was.
RowsOnlyProgress ==
    [][ \A id \in Ids :
          /\ id \in DOMAIN deployments'
          /\ LET old == Row(id)
                 new == deployments'[id]
             IN  /\ \A f \in {"job", "spec", "policy", "diff", "planDiff", "retryOf", "lifted"} :
                        new[f] = old[f]
                 /\ old.decided => new.decided
                 /\ old.retried => new.retried
                 /\ ~IsActive(old.state) =>
                        new.state = old.state /\ new.cas = old.cas /\ new.applied = old.applied
      ]_storeVars

\* The CAS index of a deployment never moves once its register is on record:
\* it is the index the register was made at (MoveCASIndex asks applied IS NULL).
CASFixedOnceApplied ==
    [][ \A id \in Ids : Row(id).applied # 0 => deployments'[id].cas = Row(id).cas
      ]_storeVars

-----------------------------------------------------------------------------
(***************************************************************************)
(* The store implements the promise of Attempts.                           *)
(***************************************************************************)
PhaseOf(state) ==
    CASE state \in {"detected", "pending_approval"} -> "waiting"
      [] state \in {"pre_hook", "applying", "post_hook"} -> "running"
      [] state \in {"completed", "failed"} -> "finished"
      [] OTHER -> "dropped"

attemptsOf == [id \in Ids |-> [job |-> Row(id).job, phase |-> PhaseOf(Row(id).state)]]

Abstract == INSTANCE Attempts WITH attempts <- attemptsOf

\* Seen through their phases, the rows behave as docs/deployment-lifecycle.md
\* says: one attempt per job that is not over, a started one is never dropped
\* ("a deployment already applying finishes first"), an ended one never resumes.
ImplementsAttempts == Abstract!Spec

=============================================================================
