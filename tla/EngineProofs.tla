---------------------------- MODULE EngineProofs ----------------------------
(***************************************************************************)
(* Proofs about the engine in its surroundings, for every set of specs and *)
(* bodies and every bound: any number of deployments, commits, edits,      *)
(* pauses, crashes and errors, in any order.                               *)
(***************************************************************************)
EXTENDS Engine, StoreProofs

-----------------------------------------------------------------------------
(***************************************************************************)
(* The inductive invariant.  The loops and the people work on copies: of a *)
(* row as it was listed, of the live job's index and plan as they were     *)
(* read.  What the copies say is true of rows that only progress and of    *)
(* indexes Nomad gives once, so it stays true while they wait.             *)
(***************************************************************************)

\* A deployment that was applying at some time.
PastApplying == {"applying", "post_hook", "completed", "failed"}

\* A diff of spec s was told on the live job l of index at: it is what there is to
\* change, as long as the live job is at that index.  (No job is at index 0.)
ToldAt(diff, s, at, l) ==
    at # 0 /\ l.index = at => l.body = IF diff = NoDiff THEN s.body ELSE diff

\* What a copy of a row, taken when the row was in a state at a CAS index, tells of
\* the row as it is now.
CopyTells(state, cas, row, l) ==
    /\ state = "applying" => row.state \in PastApplying
    /\ state \in Started /\ row.policy = "approval" => row.decided
    /\ ToldAt(row.diff, row.spec, cas, l)

RowHolds(row, l, n) ==
    /\ row.cas <= n /\ row.applied <= n
    /\ CopyTells(row.state, row.cas, row, l)

RowsHold == /\ Len(deployments) <= MaxDeployments
            /\ \A id \in Ids : RowHolds(Row(id), live, raft)

\* What reached Nomad had been applying, and was approved if it had to be.
RegisteredRow(row) == /\ row.state \in PastApplying
                      /\ row.policy = "approval" => row.decided

RegisteredHold == registered \subseteq Ids /\ \A id \in registered : RegisteredRow(Row(id))

ListedHolds(l) ==
    /\ l \in [id: Ids, state: ActiveStates, cas: 0..raft, applied: 0..raft, waiting: BOOLEAN]
    /\ CopyTells(l.state, l.cas, Row(l.id), live)

AppShape(n) == [pc: AppPCs, state: ActiveStates \cup {""}, cas: 0..n, applied: 0..n,
                waiting: BOOLEAN, index: 0..n, to: States \cup {""}]

\* What is true of a goroutine a in flight on a row.
AppTells(a, row, l) ==
    /\ CopyTells(a.state, a.cas, row, l)
    /\ a.pc \in AppPCs \ {"begin", "all", "commit"} => a.state = "applying"
    /\ a.pc \in {"all", "commit"} => a.state \in Started \/ row.policy = "auto"
    /\ a.pc = "move" => ToldAt(row.diff, row.spec, a.index, l)
    /\ a.pc = "register" /\ a.cas # 0 /\ l.index = a.cas =>
          l.body = row.diff /\ l.body # row.spec.body

AppHolds == /\ app \in [1..MaxDeployments -> AppShape(raft)]
            /\ \A id \in 1..MaxDeployments :
                 Working(id) => id \in Ids /\ AppTells(app[id], Row(id), live)

\* A cycle that has a spec, one that has its plan, and one that may create.
Reconciling == {"live", "plan", "active", "cas", "revalidate", "latest", "create"}
Planned == {"active", "cas", "revalidate", "latest", "create"}

\* The deployment a retry retries is the last one, and asks for it.
RetryTold(d, rows) ==
    d.retryOf # 0 =>
        LET of == rows[d.retryOf]
        IN  /\ d.retryOf = Len(rows)
            /\ of.retried /\ of.spec = d.head /\ of.state \in {"failed", "rejected"}
            /\ d.diff # NoDiff \/ of.applied # 0

DetTells(d, rows, l) ==
    /\ d.pc \in Reconciling => d.head \in Specs
    /\ d.pc \in {"latest", "create"} => d.head.policy # "none"
    /\ d.pc \in Planned => ToldAt(d.diff, d.head, d.index, l)
    /\ d.pc = "cas" => /\ d.active \in DOMAIN rows
                       /\ rows[d.active].spec = d.head /\ rows[d.active].diff = d.diff
    /\ d.pc = "create" => RetryTold(d, rows)
    /\ d.lifted => d.lift = d.head

DetHolds == /\ DetectTypeOK
            /\ DetTells(det, deployments, live)
            /\ det.lifted /\ det.pc \in Reconciling => lifts[Job] # NoLift

ObsHolds == obs = NoObs \/ obs.spec \in Specs

UsedHolds == /\ used \in [commits: Nat, edits: Nat, holds: Nat, laps: Nat, faults: Nat]
             /\ Turns <= MaxTurns

ApprovalHolds ==
    approval \in [pc: {"idle", "all", "decide", "promote", "promoted"}, id: 0..Len(deployments)]

CoreInv ==
    /\ StoreInv
    /\ WorldTypeOK
    /\ RowsHold
    /\ RetriesAreFaithful
    /\ RegisteredHold
    /\ expired \subseteq Ids
    /\ \A l \in listed : ListedHolds(l)
    /\ AppHolds
    /\ DetHolds
    /\ ObsHolds
    /\ ApprovalHolds

EngineInv == CoreInv /\ UsedHolds

\* What a cycle asks CreateDeployment for.
Wish == [job |-> Job, spec |-> spec, policy |-> spec.policy, cas |-> det.index,
         diff |-> det.diff, planDiff |-> drift, retryOf |-> det.retryOf, lifted |-> det.lifted]

\* The table is written a row at a time, and only detection adds one.
Stores == \/ Wrote /\ Len(deployments') = Len(deployments)
          \/ At("create") /\ CreateDeployment(Wish, Born)

\* What there is to show of a step: the invariant goes on, the rows only progress, and
\* the table is written as it should be.
Goes == CoreInv' /\ Progress /\ Stores

-----------------------------------------------------------------------------
(***************************************************************************)
(* Rows progress and indexes are given once: what a copy tells stays true. *)
(***************************************************************************)

\* What a step may make of a row of the engine.
RowMoves(old, new) ==
    /\ old.spec = new.spec /\ old.policy = new.policy /\ old.diff = new.diff
    /\ old.planDiff = new.planDiff /\ old.retryOf = new.retryOf
    /\ old.decided => new.decided
    /\ old.retried => new.retried
    /\ ~IsActive(old.state) => new.applied = old.applied
    /\ new.state = old.state \/ canTransition(old.state, new.state)

RowsMove == \A id \in Ids : id \in DOMAIN deployments' /\ RowMoves(Row(id), deployments'[id])

\* What a step may make of the live job, n being the last index Nomad gave: the job
\* as it was, gone, or changed under a new index.
LiveMoves(l, new, n) == new = l \/ new.index = 0 \/ new.index > n

LEMMA ToldStays ==
    ASSUME NEW n \in Nat, NEW at \in 0..n, NEW l, NEW new, LiveMoves(l, new, n),
           NEW diff, NEW s, ToldAt(diff, s, at, l)
    PROVE  ToldAt(diff, s, at, new)
BY DEF LiveMoves, ToldAt

\* From applying a deployment only goes on.
LEMMA PastStays ==
    ASSUME NEW old, NEW new, old.state \in States, RowMoves(old, new)
    PROVE  old.state \in PastApplying => new.state \in PastApplying
BY DEF RowMoves, PastApplying, canTransition, allowed, States, ActiveStates, TerminalStates

LEMMA CopyStays ==
    ASSUME NEW n \in Nat, NEW cas \in 0..n, NEW l, NEW l2, LiveMoves(l, l2, n),
           NEW old, NEW new, old.state \in States, RowMoves(old, new),
           NEW state, CopyTells(state, cas, old, l)
    PROVE  CopyTells(state, cas, new, l2)
<1>1. state = "applying" => new.state \in PastApplying
  BY PastStays DEF CopyTells
<1>2. ToldAt(new.diff, new.spec, cas, l2)
  BY ToldStays DEF CopyTells, RowMoves
<1> QED BY <1>1, <1>2 DEF CopyTells, RowMoves

LEMMA AppStays ==
    ASSUME NEW n \in Nat, NEW a \in AppShape(n), NEW l, NEW l2, LiveMoves(l, l2, n),
           NEW old, NEW new, old.state \in States, RowMoves(old, new),
           AppTells(a, old, l)
    PROVE  AppTells(a, new, l2)
<1>0. a.cas \in 0..n /\ a.index \in 0..n
  BY DEF AppShape
<1>1. CopyTells(a.state, a.cas, new, l2)
  BY <1>0, CopyStays DEF AppTells
<1>2. a.pc = "move" => ToldAt(new.diff, new.spec, a.index, l2)
  BY <1>0, ToldStays DEF AppTells, RowMoves
<1>3. a.pc = "register" /\ a.cas # 0 /\ l2.index = a.cas => l2.body = new.diff /\ l2.body # new.spec.body
  BY <1>0 DEF AppTells, RowMoves, LiveMoves
<1> QED BY <1>1, <1>2, <1>3 DEF AppTells, RowMoves

\* A row that stays is a row that moves.
LEMMA RowStays == \A row : RowMoves(row, row)
BY DEF RowMoves

-----------------------------------------------------------------------------
(***************************************************************************)
(* What a step leaves alone keeps holding.                                 *)
(***************************************************************************)
LEMMA Rows ==
    ASSUME CoreInv
    PROVE  /\ deployments \in Seq(Deployment) /\ Ids = 1..Len(deployments)
           /\ Len(deployments) \in Nat /\ MaxDeployments \in Nat /\ raft \in Nat
           /\ Ids \subseteq 1..MaxDeployments
           /\ \A id \in Ids : Row(id) \in Deployment /\ Row(id).state \in States
<1>1. deployments \in Seq(Deployment) /\ raft \in Nat /\ Len(deployments) <= MaxDeployments
  BY DEF CoreInv, StoreInv, StoreTypeOK, WorldTypeOK, RowsHold
<1>2. \A id \in Ids : Row(id) \in Deployment
  BY <1>1 DEF Ids, Row
<1>3. \A id \in Ids : Row(id).state \in States
  BY <1>2 DEF Deployment
<1> QED BY <1>1, <1>2, <1>3, StoreAssumption DEF Ids

\* The step may move the live job, as Nomad lets it.
NomadMoves == raft' \in Nat /\ raft <= raft' /\ LiveMoves(live, live', raft)

LEMMA NomadStays == ASSUME CoreInv, UNCHANGED <<live, raft>> PROVE NomadMoves
BY Rows DEF NomadMoves, LiveMoves

LEMMA RegisteredStay ==
    ASSUME CoreInv, RowsMove, registered' = registered
    PROVE  RegisteredHold'
<1> SUFFICES ASSUME NEW id \in registered
             PROVE  id \in DOMAIN deployments' /\ RegisteredRow(deployments'[id])
  BY DEF RegisteredHold, Ids, Row
<1>1. /\ id \in Ids /\ id \in DOMAIN deployments'
      /\ RowMoves(Row(id), deployments'[id]) /\ RegisteredRow(Row(id))
  BY DEF CoreInv, RegisteredHold, RowsMove
<1> QED BY <1>1, Rows, PastStays DEF RegisteredRow, RowMoves

LEMMA ListedStay ==
    ASSUME CoreInv, RowsMove, NomadMoves, NEW l, ListedHolds(l)
    PROVE  ListedHolds(l)'
<1>1. /\ l \in [id: Ids, state: ActiveStates, cas: 0..raft, applied: 0..raft, waiting: BOOLEAN]
      /\ CopyTells(l.state, l.cas, Row(l.id), live)
  BY DEF ListedHolds
<1>2. l.id \in Ids /\ l.cas \in 0..raft
  BY <1>1
<1>3. l.id \in DOMAIN deployments' /\ CopyTells(l.state, l.cas, deployments'[l.id], live')
  BY <1>1, <1>2, Rows, CopyStays DEF RowsMove, NomadMoves
<1>4. Ids \subseteq Ids' /\ 0..raft \subseteq 0..raft'
  BY Rows DEF RowsMove, NomadMoves, Ids
<1>5. l \in [id: Ids', state: ActiveStates, cas: 0..raft', applied: 0..raft', waiting: BOOLEAN]
  BY <1>1, <1>4
<1> QED BY <1>3, <1>5 DEF ListedHolds, Row

LEMMA AppStay ==
    ASSUME CoreInv, RowsMove, NomadMoves, NEW id \in 1..MaxDeployments
    PROVE  /\ app[id] \in AppShape(raft')
           /\ Working(id) => id \in Ids' /\ AppTells(app[id], deployments'[id], live')
<1>1. app[id] \in AppShape(raft) /\ (Working(id) => id \in Ids /\ AppTells(app[id], Row(id), live))
  BY DEF CoreInv, AppHolds
<1>2. 0..raft \subseteq 0..raft'
  BY Rows DEF NomadMoves
<1>3. app[id] \in AppShape(raft')
  BY <1>1, <1>2 DEF AppShape
<1>4. Working(id) => id \in Ids' /\ AppTells(app[id], deployments'[id], live')
  <2> SUFFICES ASSUME Working(id) PROVE id \in Ids' /\ AppTells(app[id], deployments'[id], live')
    OBVIOUS
  <2>1. id \in Ids /\ id \in DOMAIN deployments' /\ RowMoves(Row(id), deployments'[id])
    BY <1>1 DEF RowsMove
  <2> QED BY <1>1, <2>1, Rows, AppStays DEF NomadMoves, Ids
<1> QED BY <1>3, <1>4

LEMMA AppHoldsStay ==
    ASSUME CoreInv, RowsMove, NomadMoves, app' = app
    PROVE  AppHolds'
<1>1. app' \in [1..MaxDeployments -> AppShape(raft')]
  BY AppStay DEF CoreInv, AppHolds
<1>2. ASSUME NEW id \in 1..MaxDeployments, Working(id)'
      PROVE  id \in Ids' /\ AppTells(app'[id], deployments'[id], live')
  BY <1>2, AppStay DEF Working
<1> QED BY <1>1, <1>2 DEF AppHolds, Row

LEMMA DetStay ==
    ASSUME CoreInv, RowsMove, NomadMoves, Len(deployments') = Len(deployments), det' = det,
           deployments' \in Seq(Deployment),
           lifts'[Job] # NoLift \/ lifts'[Job] = lifts[Job]
    PROVE  DetHolds'
<1>1. DetectTypeOK /\ DetTells(det, deployments, live)
  BY DEF CoreInv, DetHolds
<1>2. 0..raft \subseteq 0..raft'
  BY Rows DEF NomadMoves
<1>3. DetectTypeOK'
  BY <1>1, <1>2 DEF DetectTypeOK
<1>4. det.index \in 0..raft /\ det.retryOf \in 0..Len(deployments)
  BY <1>1 DEF DetectTypeOK
<1>5. det.pc \in Planned => ToldAt(det.diff, det.head, det.index, live')
  BY <1>1, <1>4, Rows, ToldStays DEF DetTells, NomadMoves
<1>6. det.pc = "cas" => /\ det.active \in DOMAIN deployments'
                        /\ deployments'[det.active].spec = det.head
                        /\ deployments'[det.active].diff = det.diff
  BY <1>1 DEF DetTells, RowsMove, RowMoves, Ids, Row
<1>7. det.pc = "create" => RetryTold(det, deployments')
  <2> SUFFICES ASSUME det.pc = "create", det.retryOf # 0 PROVE RetryTold(det, deployments')
    BY DEF RetryTold
  <2>1. RetryTold(det, deployments)
    BY <1>1 DEF DetTells
  <2> DEFINE old == deployments[det.retryOf]
             new == deployments'[det.retryOf]
  <2>2. det.retryOf \in Ids /\ RowMoves(old, new)
    BY <1>4, Rows DEF RowsMove, Row
  <2>3. old.state \in {"failed", "rejected"}
    BY <2>1 DEF RetryTold
  <2>4. ~IsActive(old.state) /\ \A to : ~canTransition(old.state, to)
    BY <2>3 DEF IsActive, ActiveStates, canTransition, allowed, States, TerminalStates
  <2>5. new.state = old.state /\ new.applied = old.applied
    BY <2>2, <2>4 DEF RowMoves
  <2> QED BY <2>1, <2>2, <2>5 DEF RetryTold, RowMoves
<1>8. DetTells(det, deployments', live')
  BY <1>1, <1>5, <1>6, <1>7 DEF DetTells
<1> QED BY <1>3, <1>8 DEF CoreInv, DetHolds

LEMMA ApprovalStays ==
    ASSUME CoreInv, RowsMove, Len(deployments') = Len(deployments), approval' = approval
    PROVE  ApprovalHolds'
BY DEF CoreInv, ApprovalHolds

-----------------------------------------------------------------------------
(***************************************************************************)
(* What the store's writes do to the rows of the engine.                   *)
(***************************************************************************)

\* Rows were rewritten, none was created, and the rows are as the invariant has them.
RowsKept == /\ StoreInv' /\ RowsHold' /\ RetriesAreFaithful' /\ RowsMove /\ Progress
            /\ Wrote /\ Len(deployments') = Len(deployments)

\* A retry stays one of a deployment that ended.
LEMMA RetriesStay ==
    ASSUME CoreInv, RowsMove, DOMAIN deployments' = Ids
    PROVE  RetriesAreFaithful'
<1> SUFFICES ASSUME NEW id \in Ids, deployments'[id].retryOf # 0
             PROVE  LET of == deployments'[id].retryOf
                    IN  /\ of < id /\ deployments'[of].retried
                        /\ deployments'[of].spec = deployments'[id].spec
                        /\ deployments'[of].state \in {"failed", "rejected"}
                        /\ deployments'[id].planDiff \/ deployments'[of].applied # 0
                        /\ \A k \in Ids : deployments'[k].retryOf = of => k = id
  BY DEF RetriesAreFaithful, Ids, Row
<1> DEFINE of == deployments[id].retryOf
<1>1. RowMoves(deployments[id], deployments'[id])
  BY DEF RowsMove, Row
<1>2. /\ of # 0 /\ deployments'[id].retryOf = of
      /\ deployments'[id].planDiff = deployments[id].planDiff
      /\ deployments'[id].spec = deployments[id].spec
  BY <1>1 DEF RowMoves
<1>3. /\ of < id /\ deployments[of].retried /\ deployments[of].spec = deployments[id].spec
      /\ deployments[of].state \in {"failed", "rejected"}
      /\ deployments[id].planDiff \/ deployments[of].applied # 0
      /\ \A k \in Ids : deployments[k].retryOf = of => k = id
  BY <1>2 DEF CoreInv, RetriesAreFaithful, Row
<1>4. of \in Ids
  <2>1. deployments[id] \in Deployment /\ Ids = 1..Len(deployments) /\ Len(deployments) \in Nat
    BY Rows DEF Row
  <2>2. of \in Nat
    BY <2>1 DEF Deployment
  <2> QED BY <2>1, <2>2, <1>2, <1>3
<1>5. RowMoves(deployments[of], deployments'[of])
  BY <1>4 DEF RowsMove, Row
<1>6. ~IsActive(deployments[of].state) /\ \A to : ~canTransition(deployments[of].state, to)
  BY <1>3 DEF IsActive, ActiveStates, canTransition, allowed, States, TerminalStates
<1>7. /\ deployments'[of].state = deployments[of].state /\ deployments'[of].retried
      /\ deployments'[of].applied = deployments[of].applied
      /\ deployments'[of].spec = deployments[of].spec
  BY <1>3, <1>5, <1>6 DEF RowMoves
<1>8. \A k \in Ids : deployments'[k].retryOf = deployments[k].retryOf
  BY DEF RowsMove, RowMoves, Row
<1> QED BY <1>2, <1>3, <1>7, <1>8

\* No row is written.
LEMMA StillRows ==
    ASSUME CoreInv, UNCHANGED <<deployments, events>>,
           lifts' \in [Jobs -> Specs \cup {NoLift}], NomadMoves
    PROVE  RowsKept
<1>1. StoreInv' /\ Progress
  BY RowsUntouched DEF CoreInv
<1>2. RowsMove
  BY RowStays DEF RowsMove, Ids, Row
<1>3. RowsHold'
  <2> SUFFICES ASSUME NEW id \in Ids PROVE RowHolds(deployments[id], live', raft')
    BY DEF RowsHold, CoreInv, Ids, Row
  <2>1. RowHolds(deployments[id], live, raft) /\ deployments[id] \in Deployment
    BY Rows DEF CoreInv, RowsHold, Row
  <2>2. deployments[id].state \in States /\ deployments[id].cas \in Nat /\ deployments[id].applied \in Nat
    BY <2>1 DEF Deployment
  <2>3. deployments[id].cas \in 0..raft /\ deployments[id].cas <= raft' /\ deployments[id].applied <= raft'
    BY <2>1, <2>2, Rows DEF RowHolds, NomadMoves
  <2>4. CopyTells(deployments[id].state, deployments[id].cas, deployments[id], live')
    <3>1. CopyTells(deployments[id].state, deployments[id].cas, deployments[id], live)
      BY <2>1 DEF RowHolds
    <3>2. RowMoves(deployments[id], deployments[id]) /\ LiveMoves(live, live', raft) /\ raft \in Nat
      BY RowStays, Rows DEF NomadMoves
    <3> QED BY <3>1, <3>2, <2>2, <2>3, CopyStays
  <2> QED BY <2>3, <2>4 DEF RowHolds
<1>4. RetriesAreFaithful'
  BY DEF CoreInv, RetriesAreFaithful, Ids, Row
<1> QED BY <1>1, <1>2, <1>3, <1>4 DEF RowsKept, Wrote

LEMMA NoWrite ==
    ASSUME CoreInv, UNCHANGED storeVars, NomadMoves
    PROVE  RowsKept /\ lifts' = lifts
BY StillRows DEF storeVars, CoreInv, StoreInv, StoreTypeOK

\* One row is rewritten: what the invariant says of it is still to be shown where the
\* write starts it or moves its CAS index.
LEMMA RewriteHolds ==
    ASSUME CoreInv, NEW id, \E row : Rewrites(id, row), lifts' = lifts, UNCHANGED <<live, raft>>,
           deployments'[id].cas <= raft, deployments'[id].applied <= raft,
           \/ deployments'[id].state \notin Started
           \/ Row(id).state \in Started
           \/ Row(id).policy = "auto"
           \/ deployments'[id].decided,
           \/ deployments'[id].cas = Row(id).cas
           \/ ToldAt(Row(id).diff, Row(id).spec, deployments'[id].cas, live)
    PROVE  RowsKept
<1>1. PICK row : Rewrites(id, row)
  OBVIOUS
<1>2. /\ id \in Ids /\ row \in Deployment /\ Later(Row(id), row)
      /\ deployments' = [deployments EXCEPT ![id] = row]
      /\ row.state = Row(id).state \/ canTransition(Row(id).state, row.state)
  BY <1>1 DEF Rewrites
<1>3. /\ deployments'[id] = row /\ DOMAIN deployments' = Ids
      /\ \A k \in Ids : k # id => deployments'[k] = Row(k)
  BY <1>2 DEF Ids, Row
<1>4. StoreInv' /\ Progress
  BY <1>1, RewriteKeeps DEF CoreInv
<1>5. RowMoves(Row(id), row)
  BY <1>2 DEF Later, RowMoves
<1>6. RowsMove
  BY <1>3, <1>5, RowStays DEF RowsMove
<1>7. Len(deployments') = Len(deployments)
  BY <1>2, Rows
<1>8. RetriesAreFaithful'
  BY <1>3, <1>6, RetriesStay
<1>9. RowHolds(Row(id), live, raft) /\ Row(id) \in Deployment
  BY <1>2, Rows DEF CoreInv, RowsHold
<1>10. RowHolds(row, live, raft)
  <2>1. row.state = "applying" => row.state \in PastApplying
    BY DEF PastApplying
  <2>2. row.state \in Started /\ row.policy = "approval" => row.decided
    BY <1>3, <1>5, <1>9 DEF RowMoves, RowHolds, CopyTells
  <2>3. ToldAt(row.diff, row.spec, row.cas, live)
    BY <1>3, <1>5, <1>9 DEF RowMoves, RowHolds, CopyTells
  <2> QED BY <1>3, <2>1, <2>2, <2>3 DEF RowHolds, CopyTells
<1>11. RowsHold'
  BY <1>3, <1>7, <1>10 DEF CoreInv, RowsHold, Ids, Row
<1> QED BY <1>1, <1>4, <1>6, <1>7, <1>8, <1>11 DEF RowsKept, Wrote

\* A transition, with no index on record.
LEMMA MoveHolds ==
    ASSUME CoreInv, NEW id, NEW from, NEW to, NEW by \in BOOLEAN,
           Transition(id, from, to, by, 0), UNCHANGED <<live, raft>>,
           to \notin Started \/ from \in Started \/ Row(id).policy = "auto" \/ by
    PROVE  RowsKept /\ lifts' = lifts
<1>1. (\E row : Rewrites(id, row)) /\ lifts' = lifts
  BY TransitionRewrites DEF CoreInv, StoreInv
<1>2. /\ id \in Ids /\ Row(id).state = from
      /\ deployments' = [deployments EXCEPT ![id] = Moved(Row(id), to, by, 0)]
  BY DEF Transition, CanMove
<1>3. Row(id) \in Deployment /\ Row(id).cas <= raft /\ Row(id).applied <= raft
  BY <1>2, Rows DEF CoreInv, RowsHold, RowHolds
<1>4. deployments'[id] = Moved(Row(id), to, by, 0)
  BY <1>2 DEF Ids
<1>5. /\ deployments'[id].state = to /\ deployments'[id].cas = Row(id).cas
      /\ deployments'[id].applied = Row(id).applied /\ (by => deployments'[id].decided)
  BY <1>3, <1>4 DEF Moved, Deployment
<1> QED BY <1>1, <1>2, <1>3, <1>5, RewriteHolds

LEMMA SkipHolds ==
    ASSUME CoreInv, NEW id, NEW from, NEW to, TransitionOrSkip(id, from, to),
           UNCHANGED <<live, raft>>,
           to \notin Started \/ from \in Started \/ (id \in Ids => Row(id).policy = "auto")
    PROVE  RowsKept /\ lifts' = lifts
<1>1. CASE CanMove(id, from, to)
  <2>1. Transition(id, from, to, FALSE, 0) /\ id \in Ids
    BY <1>1 DEF TransitionOrSkip, CanMove
  <2> QED BY <2>1, MoveHolds
<1>2. CASE ~CanMove(id, from, to)
  BY <1>2, NomadStays, NoWrite DEF TransitionOrSkip
<1> QED BY <1>1, <1>2

\* A CAS index moved to one the diff was told at.
LEMMA MoveCASHolds ==
    ASSUME CoreInv, NEW id, NEW in, NEW from, NEW to \in 0..raft,
           MoveCASOrSkip(id, in, from, to), UNCHANGED <<live, raft>>,
           id \in Ids => ToldAt(Row(id).diff, Row(id).spec, to, live),
           in \in {"detected", "pending_approval", "applying"}
    PROVE  RowsKept /\ lifts' = lifts
<1>1. CASE CanKeep(id, in, from)
  <2>1. MoveCASIndex(id, in, from, to)
    BY <1>1 DEF MoveCASOrSkip
  <2>2. to \in Nat /\ to <= raft
    BY Rows
  <2>3. (\E row : Rewrites(id, row)) /\ lifts' = lifts
    BY <2>1, <2>2, MoveCASIndexRewrites DEF CoreInv, StoreInv
  <2>4. id \in Ids /\ deployments' = [deployments EXCEPT ![id] = [Row(id) EXCEPT !.cas = to]]
    BY <2>1 DEF MoveCASIndex
  <2>5. Row(id) \in Deployment /\ Row(id).applied <= raft
    BY <2>4, Rows DEF CoreInv, RowsHold, RowHolds
  <2>6. deployments'[id] = [Row(id) EXCEPT !.cas = to]
    BY <2>4 DEF Ids
  <2>7. /\ deployments'[id].cas = to /\ deployments'[id].state = Row(id).state
        /\ deployments'[id].applied = Row(id).applied
    BY <2>5, <2>6 DEF Deployment
  <2> QED BY <2>2, <2>3, <2>4, <2>5, <2>7, RewriteHolds
<1>2. CASE ~CanKeep(id, in, from)
  BY <1>2, NomadStays, NoWrite DEF MoveCASOrSkip
<1> QED BY <1>1, <1>2

\* The index of a register that went through, put on record or followed.
LEMMA AppliedHolds ==
    ASSUME CoreInv, NEW id, NEW from, NEW to \in 0..raft,
           SetApplied(id, to) \/ MoveAppliedIndex(id, from, to), UNCHANGED <<live, raft>>
    PROVE  RowsKept /\ lifts' = lifts
<1>1. to \in Nat /\ to <= raft
  BY Rows
<1>2. (\E row : Rewrites(id, row)) /\ lifts' = lifts
  BY <1>1, SetAppliedRewrites, MoveAppliedIndexRewrites DEF CoreInv, StoreInv
<1>3. id \in Ids /\ deployments' = [deployments EXCEPT ![id] = [Row(id) EXCEPT !.applied = to]]
  BY DEF SetApplied, MoveAppliedIndex
<1>4. Row(id) \in Deployment /\ Row(id).cas <= raft
  BY <1>3, Rows DEF CoreInv, RowsHold, RowHolds
<1>5. deployments'[id] = [Row(id) EXCEPT !.applied = to]
  BY <1>3 DEF Ids
<1>6. /\ deployments'[id].cas = Row(id).cas /\ deployments'[id].state = Row(id).state
      /\ deployments'[id].applied = to
  BY <1>4, <1>5 DEF Deployment
<1> QED BY <1>1, <1>2, <1>4, <1>6, RewriteHolds

\* The marks that move nothing.
LEMMA MarkHolds ==
    ASSUME CoreInv, NEW id, UNCHANGED <<live, raft>>,
           \/ MarkRetried(id) \/ MarkAwaitingPromotion(id)
           \/ MarkPromoted(id) \/ MarkPromotionRequested(id)
    PROVE  RowsKept /\ lifts' = lifts
<1>1. (\E row : Rewrites(id, row)) /\ lifts' = lifts
  BY MarkRewrites DEF CoreInv, StoreInv
<1>2. id \in Ids
  BY DEF MarkRetried, MarkAwaitingPromotion, MarkPromoted, MarkPromotionRequested
<1>3. Row(id) \in Deployment /\ Row(id).cas <= raft /\ Row(id).applied <= raft
  BY <1>2, Rows DEF CoreInv, RowsHold, RowHolds
<1>4. \/ deployments' = [deployments EXCEPT ![id] = [Row(id) EXCEPT !.retried = TRUE]]
      \/ deployments' = [deployments EXCEPT ![id] = [Row(id) EXCEPT !.waited = TRUE]]
      \/ deployments' = [deployments EXCEPT ![id] = [Row(id) EXCEPT !.promoted = TRUE]]
      \/ deployments' = deployments
  BY DEF MarkRetried, MarkAwaitingPromotion, MarkPromoted, MarkPromotionRequested
<1>5. \/ deployments'[id] = [Row(id) EXCEPT !.retried = TRUE]
      \/ deployments'[id] = [Row(id) EXCEPT !.waited = TRUE]
      \/ deployments'[id] = [Row(id) EXCEPT !.promoted = TRUE]
      \/ deployments'[id] = Row(id)
  BY <1>2, <1>4 DEF Ids, Row
<1>6. /\ deployments'[id].cas = Row(id).cas /\ deployments'[id].state = Row(id).state
      /\ deployments'[id].applied = Row(id).applied
  BY <1>3, <1>5 DEF Deployment
<1> QED BY <1>1, <1>3, <1>6, RewriteHolds

-----------------------------------------------------------------------------
(***************************************************************************)
(* The goroutines of the apply loop.                                       *)
(***************************************************************************)

\* One goroutine moves, to a state that tells of its row what it should.
LEMMA AppSetHolds ==
    ASSUME CoreInv, RowsMove, NomadMoves, NEW id \in Ids, NEW a \in AppShape(raft),
           a.pc # "idle" => AppTells(a, Row(id), live),
           app' = [app EXCEPT ![id] = a]
    PROVE  AppHolds'
<1>0. /\ app \in [1..MaxDeployments -> AppShape(raft)] /\ id \in 1..MaxDeployments
      /\ 0..raft \subseteq 0..raft'
  BY Rows DEF CoreInv, AppHolds, NomadMoves
<1>1. a \in AppShape(raft')
  BY <1>0 DEF AppShape
<1>2. app' \in [1..MaxDeployments -> AppShape(raft')]
  BY <1>0, <1>1, AppStay
<1>3. ASSUME NEW k \in 1..MaxDeployments, app'[k].pc # "idle"
      PROVE  k \in Ids' /\ AppTells(app'[k], deployments'[k], live')
  <2>1. CASE k = id
    <3>1. app'[k] = a /\ id \in Ids' /\ RowMoves(Row(id), deployments'[id])
      BY <1>0, <2>1 DEF RowsMove, Ids
    <3>2. LiveMoves(live, live', raft) /\ raft \in Nat /\ Row(id).state \in States
      BY Rows DEF NomadMoves
    <3> QED BY <1>3, <2>1, <3>1, <3>2, AppStays
  <2>2. CASE k # id
    <3>1. app'[k] = app[k]
      BY <1>0, <2>2
    <3> QED BY <1>3, <3>1, AppStay DEF Working
  <2> QED BY <2>1, <2>2
<1> QED BY <1>2, <1>3 DEF AppHolds, Working, Row

\* The goroutine goes on to pc with the copy it has.
Onward(id, pc, index) ==
    \E a \in AppShape(raft) :
        /\ app' = [app EXCEPT ![id] = a]
        /\ a.state = app[id].state /\ a.cas = app[id].cas
        /\ a.pc = pc /\ a.index = index

\* Where a goroutine can be with the state its copy has.
Fits(id, pc) ==
    /\ pc \in AppPCs \ {"begin", "all", "commit"} => app[id].state = "applying"
    /\ pc \in {"all", "commit"} => app[id].state \in Started \/ Row(id).policy = "auto"

LEMMA InFlight ==
    ASSUME CoreInv, NEW id \in Ids
    PROVE  /\ app[id] \in AppShape(raft)
           /\ Working(id) => AppTells(app[id], Row(id), live)
BY Rows DEF CoreInv, AppHolds

LEMMA ProceedOnward ==
    ASSUME CoreInv, NEW id \in Ids, NEW pc \in AppPCs, Proceed(id, pc)
    PROVE  Onward(id, pc, app[id].index)
<1> DEFINE a == [app[id] EXCEPT !.pc = pc]
<1>1. app[id] \in AppShape(raft)
  BY InFlight
<1>2. /\ a \in AppShape(raft) /\ a.state = app[id].state /\ a.cas = app[id].cas
      /\ a.pc = pc /\ a.index = app[id].index
  BY <1>1 DEF AppShape
<1>3. app' = [app EXCEPT ![id] = a]
  BY DEF Proceed
<1> QED BY <1>2, <1>3 DEF Onward

LEMMA NoteOnward ==
    ASSUME CoreInv, NEW id \in Ids, NEW pc \in AppPCs, NEW index \in 0..raft, Note(id, pc, index)
    PROVE  Onward(id, pc, index)
<1> DEFINE a == [app[id] EXCEPT !.pc = pc, !.index = index]
<1>1. app[id] \in AppShape(raft)
  BY InFlight
<1>2. /\ a \in AppShape(raft) /\ a.state = app[id].state /\ a.cas = app[id].cas
      /\ a.pc = pc /\ a.index = index
  BY <1>1 DEF AppShape
<1>3. app' = [app EXCEPT ![id] = a]
  BY <1>1, Rows DEF Note, CoreInv, AppHolds
<1> QED BY <1>2, <1>3 DEF Onward

LEMMA DecideOnward ==
    ASSUME CoreInv, NEW id \in Ids, NEW to \in States, Decide(id, to)
    PROVE  Onward(id, "commit", app[id].index)
<1> DEFINE a == [app[id] EXCEPT !.pc = "commit", !.to = to]
<1>1. app[id] \in AppShape(raft)
  BY InFlight
<1>2. /\ a \in AppShape(raft) /\ a.state = app[id].state /\ a.cas = app[id].cas
      /\ a.pc = "commit" /\ a.index = app[id].index
  BY <1>1 DEF AppShape, AppPCs
<1>3. app' = [app EXCEPT ![id] = a]
  BY <1>1, Rows DEF Decide, CoreInv, AppHolds
<1> QED BY <1>2, <1>3 DEF Onward

LEMMA OnwardHolds ==
    ASSUME CoreInv, RowsMove, NomadMoves, NEW id \in Ids, Working(id),
           NEW pc \in AppPCs, NEW index, Onward(id, pc, index), Fits(id, pc),
           pc = "move" => ToldAt(Row(id).diff, Row(id).spec, index, live),
           pc = "register" /\ app[id].cas # 0 /\ live.index = app[id].cas =>
              live.body = Row(id).diff /\ live.body # Row(id).spec.body
    PROVE  AppHolds'
<1>1. PICK a \in AppShape(raft) :
         /\ app' = [app EXCEPT ![id] = a]
         /\ a.state = app[id].state /\ a.cas = app[id].cas
         /\ a.pc = pc /\ a.index = index
  BY DEF Onward
<1>2. AppTells(a, Row(id), live)
  BY <1>1, InFlight DEF AppTells, Fits
<1> QED BY <1>1, <1>2, AppSetHolds

LEMMA FinishHolds ==
    ASSUME CoreInv, RowsMove, NomadMoves, NEW id \in Ids, Finish(id)
    PROVE  AppHolds'
<1>1. Idle \in AppShape(raft) /\ Idle.pc = "idle"
  BY Rows DEF Idle, AppShape, AppPCs
<1> QED BY <1>1, AppSetHolds DEF Finish

\* The rest of the invariant, when the step is of the apply loop or of a goroutine.
LEMMA ApplyRest ==
    ASSUME CoreInv, RowsKept, lifts' = lifts, NomadMoves, WorldTypeOK',
           UNCHANGED <<det, obs, approval>>, RegisteredHold', expired' \subseteq Ids,
           \A l \in listed' : ListedHolds(l)', AppHolds'
    PROVE  Goes
<1>1. /\ StoreInv' /\ RowsHold' /\ RetriesAreFaithful' /\ RowsMove
      /\ Len(deployments') = Len(deployments) /\ deployments' \in Seq(Deployment)
  BY DEF RowsKept, StoreInv, StoreTypeOK
<1>2. DetHolds'
  BY <1>1, DetStay
<1>3. ApprovalHolds'
  BY <1>1, ApprovalStays
<1>4. ObsHolds'
  BY DEF CoreInv, ObsHolds
<1>5. Ids \subseteq Ids'
  BY <1>1 DEF RowsMove, Ids
<1>6. (expired \subseteq Ids)'
  BY <1>5
<1>7. CoreInv'
  BY <1>1, <1>2, <1>3, <1>4, <1>6 DEF CoreInv
<1> QED BY <1>7 DEF Goes, RowsKept, Stores

\* The step of a goroutine that leaves Nomad alone.
LEMMA GoroutineHolds ==
    ASSUME CoreInv, RowsKept, lifts' = lifts, UNCHANGED worldVars,
           UNCHANGED <<det, obs, approval, listed, registered>>, expired' \subseteq Ids, AppHolds'
    PROVE  Goes
<1>1. NomadMoves
  BY NomadStays DEF worldVars
<1>2. RowsMove
  BY DEF RowsKept
<1>3. WorldTypeOK'
  BY DEF CoreInv, WorldTypeOK, worldVars
<1>4. RegisteredHold'
  BY <1>2, RegisteredStay
<1>5. \A l \in listed' : ListedHolds(l)'
  BY <1>1, <1>2, ListedStay DEF CoreInv
<1> QED BY <1>1, <1>3, <1>4, <1>5, ApplyRest

\* A step that only moves one goroutine on.
LEMMA OnlyOnward ==
    ASSUME CoreInv, UNCHANGED <<storeVars, worldVars, listed, expired, registered>>,
           UNCHANGED <<det, obs, approval>>, NEW id \in Ids, Working(id),
           \/ Finish(id)
           \/ \E pc \in AppPCs, index \in 0..raft :
                /\ Onward(id, pc, index)
                /\ Fits(id, pc)
                /\ pc = "move" => ToldAt(Row(id).diff, Row(id).spec, index, live)
                /\ pc = "register" /\ app[id].cas # 0 /\ live.index = app[id].cas =>
                     live.body = Row(id).diff /\ live.body # Row(id).spec.body
    PROVE  Goes
<1>1. NomadMoves
  BY NomadStays DEF worldVars
<1>2. RowsKept /\ lifts' = lifts
  BY <1>1, NoWrite
<1>3. AppHolds'
  BY <1>1, <1>2, FinishHolds, OnwardHolds DEF RowsKept
<1>4. expired' \subseteq Ids
  BY DEF CoreInv
<1> QED BY <1>2, <1>3, <1>4, GoroutineHolds

\* The common case: the goroutine goes to pc, or gives up for this cycle.
LEMMA OnlyProceed ==
    ASSUME CoreInv, UNCHANGED <<storeVars, worldVars, listed, expired, registered>>,
           UNCHANGED <<det, obs, approval>>, NEW id \in Ids, Working(id),
           NEW pc \in AppPCs \ {"move", "register"}, Fits(id, pc),
           \/ Proceed(id, pc)
           \/ \E index \in 0..raft : Note(id, pc, index)
           \/ pc = "commit" /\ \E to \in States : Decide(id, to)
           \/ Finish(id)
    PROVE  Goes
<1>1. app[id].index \in 0..raft
  BY InFlight DEF AppShape
<1>2. Finish(id) \/ \E index \in 0..raft : Onward(id, pc, index)
  BY <1>1, ProceedOnward, NoteOnward, DecideOnward
<1> QED BY <1>2, OnlyOnward

\* What pc tells of the copy a goroutine has.
LEMMA CopyAt ==
    ASSUME CoreInv, NEW id \in Ids, Working(id)
    PROVE  /\ app[id].pc \in AppPCs \ {"begin", "all", "commit"} => app[id].state = "applying"
           /\ app[id].pc \in {"all", "commit"} => app[id].state \in Started \/ Row(id).policy = "auto"
           /\ app[id].cas \in 0..raft /\ app[id].applied \in 0..raft /\ app[id].index \in 0..raft
           /\ app[id].pc \in AppPCs /\ app[id].to \in States \cup {""}
           /\ CopyTells(app[id].state, app[id].cas, Row(id), live)
BY InFlight DEF AppTells, AppShape

LEMMA StatesAre ==
    /\ {"failed", "completed", "applying", "pre_hook", "post_hook"} \subseteq States
    /\ Started \subseteq States
    /\ "applying" \in Started
BY DEF States, ActiveStates, TerminalStates, Started

LEMMA PCsAre == AppPCs = {"idle", "begin", "all", "plan", "move", "register", "reread", "record",
                          "scaled", "follow", "health", "commit"}
BY DEF AppPCs

\* The steps before the register.
LEMMA StepDetectedHolds ==
    ASSUME CoreInv, NEW id \in Ids, UNCHANGED <<det, obs, approval>>,
           StepDetected(id) \/ StepDetectedAll(id) \/ StepPending(id) \/ StepHook(id)
    PROVE  Goes
<1>0. /\ UNCHANGED <<storeVars, worldVars, listed, expired, registered>> /\ Working(id)
      /\ app[id].pc \in {"begin", "all"}
  BY DEF StepDetected, StepDetectedAll, StepPending, StepHook, In, Working
<1>1. CASE StepDetected(id)
  <2>1. Finish(id) \/ (Row(id).policy = "auto" /\ Proceed(id, "all"))
    BY <1>1 DEF StepDetected
  <2> QED BY <1>0, <2>1, OnlyProceed, PCsAre DEF Fits
<1>2. CASE StepDetectedAll(id)
  <2>1. Finish(id) \/ Decide(id, nextAfterDecision(id))
    BY <1>2 DEF StepDetectedAll
  <2>2. nextAfterDecision(id) \in States
    BY StatesAre DEF nextAfterDecision
  <2>3. Fits(id, "commit")
    BY <1>0, <1>2, CopyAt, PCsAre DEF Fits, StepDetectedAll, In
  <2> QED BY <1>0, <2>1, <2>2, <2>3, OnlyProceed, PCsAre
<1>3. CASE StepPending(id)
  BY <1>0, <1>3, OnlyOnward DEF StepPending
<1>4. CASE StepHook(id)
  <2>1. \E to \in States : Decide(id, to)
    BY <1>4, StatesAre DEF StepHook
  <2>2. Fits(id, "commit")
    BY <1>4 DEF StepHook, Fits, Started
  <2> QED BY <1>0, <2>1, <2>2, OnlyProceed, PCsAre
<1> QED BY <1>1, <1>2, <1>3, <1>4

\* A goroutine of a deployment that was applying fits wherever one goes.
LEMMA ApplyingFits ==
    ASSUME NEW id, app[id].state = "applying", NEW pc
    PROVE  Fits(id, pc)
BY DEF Fits, Started

LEMMA RetryGoes ==
    ASSUME NEW id, registerRetry(id)
    PROVE  Finish(id) \/ \E to \in States : Decide(id, to)
BY StatesAre DEF registerRetry

\* A plan told on the live job as it was at the index read before it.
LEMMA PlanTells ==
    ASSUME NEW s, NEW index, NEW diff \in PlanDiffs(s, index), WorldTypeOK
    PROVE  /\ ToldAt(diff, s, index, live)
           /\ diff # NoDiff /\ index # 0 /\ live.index = index =>
                live.body = diff /\ live.body # s.body
BY StoreAssumption, WorldAssumption DEF PlanDiffs, ToldAt, WorldTypeOK

LEMMA StepPlanHolds ==
    ASSUME CoreInv, NEW id \in Ids, UNCHANGED <<det, obs, approval>>, StepPlan(id)
    PROVE  Goes
<1>0. /\ UNCHANGED <<storeVars, worldVars, listed, expired, registered>> /\ Working(id)
      /\ app[id].pc = "plan"
  BY DEF StepPlan, In, Working
<1>1. app[id].state = "applying" /\ CopyTells(app[id].state, app[id].cas, Row(id), live)
  BY <1>0, CopyAt, PCsAre
<1>2. \A pc : Fits(id, pc)
  BY <1>1, ApplyingFits
<1> DEFINE index == app[id].index
           s == Row(id).spec
           still == app[id].index = app[id].cas
<1>3. index \in 0..raft /\ WorldTypeOK
  BY InFlight DEF AppShape, CoreInv
<1>4. PICK diff \in PlanDiffs(s, index) :
         \/ diff # NoDiff /\ still /\ Proceed(id, "register")
         \/ /\ diff # NoDiff /\ ~still
            /\ IF sameDiff(Row(id).diff, diff) THEN Proceed(id, "move") ELSE Decide(id, "failed")
         \/ /\ diff = NoDiff
            /\ IF still /\ ~Rerun(id) THEN Decide(id, "completed") ELSE Proceed(id, "reread")
  BY DEF StepPlan
<1>5. /\ ToldAt(diff, s, index, live)
      /\ diff # NoDiff /\ index # 0 /\ live.index = index => live.body = diff /\ live.body # s.body
  BY <1>3, PlanTells
<1>6. CASE diff # NoDiff /\ still /\ Proceed(id, "register")
  <2>1. app[id].cas # 0 /\ live.index = app[id].cas => live.body = Row(id).diff /\ live.body # s.body
    BY <1>1, <1>5, <1>6 DEF CopyTells, ToldAt
  <2>2. Onward(id, "register", index)
    BY <1>6, ProceedOnward, PCsAre
  <2> HIDE DEF index, still, s
  <2>3. "register" \in AppPCs /\ "register" # "move"
    BY PCsAre
  <2> QED BY <1>0, <1>2, <1>3, <2>1, <2>2, <2>3, OnlyOnward DEF s
<1>7. CASE sameDiff(Row(id).diff, diff) /\ Proceed(id, "move")
  <2>1. ToldAt(Row(id).diff, s, index, live)
    BY <1>5, <1>7 DEF sameDiff
  <2>2. Onward(id, "move", index)
    BY <1>7, ProceedOnward, PCsAre
  <2> HIDE DEF index, still, s
  <2>3. "move" \in AppPCs /\ "register" # "move"
    BY PCsAre
  <2> QED BY <1>0, <1>2, <1>3, <2>1, <2>2, <2>3, OnlyOnward DEF s
<1>8. CASE Decide(id, "failed") \/ Decide(id, "completed")
  BY <1>0, <1>2, <1>8, StatesAre, PCsAre, OnlyProceed
<1>9. CASE Proceed(id, "reread")
  BY <1>0, <1>2, <1>9, PCsAre, OnlyProceed
<1> QED BY <1>4, <1>6, <1>7, <1>8, <1>9

\* The steps that only read, once the row is applying.
LEMMA StepReadsHolds ==
    ASSUME CoreInv, NEW id \in Ids, UNCHANGED <<det, obs, approval>>,
           \/ StepRegister(id) \/ StepReread(id) \/ StepHealth(id) \/ StepScaled(id)
           \/ StepVerdict(id) \/ RegisterConflict(id) \/ RegisterError(id) \/ StepError(id)
    PROVE  Goes
<1>0. UNCHANGED <<storeVars, worldVars, listed, expired, registered>> /\ Working(id)
  BY DEF StepRegister, StepReread, StepHealth, StepScaled, StepVerdict, RegisterConflict,
         RegisterError, StepError, In, Working
<1>1. live.index \in 0..raft
  BY DEF CoreInv, WorldTypeOK
<1>2. CASE StepError(id)
  BY <1>0, <1>2, OnlyOnward DEF StepError
<1>3. CASE ~StepError(id)
  <2>1. app[id].state = "applying"
    BY <1>0, <1>3, CopyAt, PCsAre DEF StepRegister, StepReread, StepHealth, StepScaled, StepVerdict,
         RegisterConflict, RegisterError, In
  <2>2. \A pc : Fits(id, pc)
    BY <2>1, ApplyingFits
  <2>3. \/ Finish(id)
        \/ \E to \in States : Decide(id, to)
        \/ \E pc \in {"plan", "record", "scaled"} : Note(id, pc, live.index)
        \/ \E pc \in {"health", "follow"} : Proceed(id, pc)
    <3>1. StepRegister(id) => Note(id, "plan", live.index)
      BY DEF StepRegister
    <3>2. StepReread(id) => Finish(id) \/ Note(id, "record", live.index)
      BY DEF StepReread
    <3>3. StepHealth(id) => \/ Decide(id, "failed") \/ Proceed(id, "health")
                            \/ Note(id, "scaled", live.index)
      BY DEF StepHealth
    <3>4. StepScaled(id) => Proceed(id, "follow") \/ Decide(id, "failed")
      BY DEF StepScaled
    <3>5. StepVerdict(id) => Finish(id) \/ \E to \in States : Decide(id, to)
      BY StatesAre DEF StepVerdict, AfterHealthy
    <3>6. RegisterConflict(id) \/ RegisterError(id) => Finish(id) \/ \E to \in States : Decide(id, to)
      BY RetryGoes, StatesAre DEF RegisterConflict, RegisterError
    <3> QED BY <1>3, <3>1, <3>2, <3>3, <3>4, <3>5, <3>6, StatesAre
  <2>4. CASE Finish(id)
    BY <1>0, <2>4, OnlyOnward
  <2>5. CASE \E to \in States : Decide(id, to)
    BY <1>0, <2>2, <2>5, OnlyProceed, PCsAre
  <2>6. CASE \E pc \in {"plan", "record", "scaled"} : Note(id, pc, live.index)
    BY <1>0, <1>1, <2>2, <2>6, OnlyProceed, PCsAre
  <2>7. CASE \E pc \in {"health", "follow"} : Proceed(id, pc)
    BY <1>0, <2>2, <2>7, OnlyProceed, PCsAre
  <2> QED BY <2>3, <2>4, <2>5, <2>6, <2>7
<1> QED BY <1>2, <1>3

\* The steps that end in a write to the store.
LEMMA StepWritesHolds ==
    ASSUME CoreInv, NEW id \in Ids, UNCHANGED <<det, obs, approval>>,
           \/ Commit(id) \/ StepMove(id) \/ StepSetApplied(id)
           \/ StepAwaitPromotion(id) \/ StepPromoted(id)
    PROVE  Goes
<1>0. /\ UNCHANGED <<worldVars, listed, registered>> /\ Working(id) /\ Finish(id)
      /\ expired' \subseteq expired
  BY DEF Commit, StepMove, StepSetApplied, StepAwaitPromotion, StepPromoted, In, Working
<1>1. UNCHANGED <<live, raft>> /\ NomadMoves /\ expired' \subseteq Ids
  BY <1>0, NomadStays DEF worldVars, CoreInv
<1>2. /\ app[id].index \in 0..raft
      /\ Row(id).state \in States
  BY <1>0, CopyAt, Rows
<1>3. RowsKept /\ lifts' = lifts
  <2>1. CASE Commit(id)
    <3>1. app[id].pc = "commit" /\ TransitionOrSkip(id, app[id].state, app[id].to)
      BY <2>1 DEF Commit, In
    <3>2. app[id].state \in Started \/ Row(id).policy = "auto"
      BY <1>0, <3>1, CopyAt
    <3> QED BY <1>1, <3>1, <3>2, SkipHolds
  <2>2. CASE StepMove(id)
    <3>1. app[id].pc = "move" /\ MoveCASOrSkip(id, "applying", app[id].cas, app[id].index)
      BY <2>2 DEF StepMove, In
    <3>2. ToldAt(Row(id).diff, Row(id).spec, app[id].index, live)
      BY <1>0, <3>1, InFlight DEF AppTells
    <3> QED BY <1>1, <1>2, <3>1, <3>2, MoveCASHolds
  <2>3. CASE StepSetApplied(id)
    BY <1>1, <1>2, <2>3, AppliedHolds, NoWrite DEF StepSetApplied
  <2>4. CASE StepAwaitPromotion(id)
    BY <1>1, <2>4, MarkHolds, NoWrite DEF StepAwaitPromotion
  <2>5. CASE StepPromoted(id)
    BY <1>1, <2>5, MarkHolds, NoWrite DEF StepPromoted
  <2> QED BY <2>1, <2>2, <2>3, <2>4, <2>5
<1>4. AppHolds'
  BY <1>0, <1>1, <1>3, FinishHolds DEF RowsKept
<1> QED BY <1>0, <1>1, <1>3, <1>4, GoroutineHolds

LEMMA StepFollowHolds ==
    ASSUME CoreInv, NEW id \in Ids, UNCHANGED <<det, obs, approval>>, StepFollow(id)
    PROVE  Goes
<1>0. /\ UNCHANGED <<worldVars, listed, expired, registered>> /\ Working(id)
      /\ app[id].pc = "follow"
  BY DEF StepFollow, In, Working
<1>1. UNCHANGED <<live, raft>> /\ NomadMoves /\ expired' \subseteq Ids
  BY <1>0, NomadStays DEF worldVars, CoreInv
<1>2. app[id].index \in 0..raft /\ \A pc : Fits(id, pc)
  BY <1>0, CopyAt, PCsAre, ApplyingFits
<1>3. /\ \/ MoveAppliedIndex(id, app[id].applied, app[id].index) /\ Proceed(id, "health")
         \/ UNCHANGED storeVars /\ Finish(id)
  BY DEF StepFollow
<1>4. RowsKept /\ lifts' = lifts
  BY <1>1, <1>2, <1>3, AppliedHolds, NoWrite
<1>5. AppHolds'
  <2>1. CASE Finish(id)
    BY <1>1, <1>4, <2>1, FinishHolds DEF RowsKept
  <2>2. CASE Proceed(id, "health")
    <3>1. Onward(id, "health", app[id].index)
      BY <2>2, ProceedOnward, PCsAre
    <3> QED BY <1>0, <1>1, <1>2, <1>4, <3>1, PCsAre, OnwardHolds DEF RowsKept
  <2> QED BY <1>3, <2>1, <2>2
<1> QED BY <1>0, <1>1, <1>4, <1>5, GoroutineHolds

\* Nomad takes a register: the job is the deployment's now, under a new index.
LEMMA RegisterHolds ==
    ASSUME CoreInv, NEW id \in Ids, UNCHANGED <<det, obs, approval>>,
           RegisterOK(id) \/ RegisterLost(id)
    PROVE  Goes
<1>0. /\ UNCHANGED <<storeVars, head, pauses, windowOpen, listed, expired>> /\ Working(id)
      /\ app[id].pc = "register" /\ Changed(Row(id).spec.body)
      /\ registered' = registered \cup {id}
  BY DEF RegisterOK, RegisterLost, In, Working
<1>1. /\ app[id].state = "applying" /\ CopyTells(app[id].state, app[id].cas, Row(id), live)
      /\ \A pc : Fits(id, pc)
  BY <1>0, CopyAt, PCsAre, ApplyingFits
<1>2. Row(id).spec \in Specs /\ Row(id).spec.body \in Bodies
  <2>1. Row(id).spec \in Specs
    BY Rows DEF Deployment
  <2> QED BY <2>1, WorldAssumption DEF SpecShape
<1>3. /\ raft' = raft + 1 /\ raft \in Nat
      /\ live' = [index |-> raft + 1, body |-> Row(id).spec.body]
  BY <1>0, Rows DEF Changed
<1>4. NomadMoves
  BY <1>3 DEF NomadMoves, LiveMoves
<1>5. WorldTypeOK'
  BY <1>0, <1>2, <1>3, WorldAssumption DEF CoreInv, WorldTypeOK
<1>6. RowsKept /\ lifts' = lifts /\ RowsMove
  BY <1>0, <1>4, NoWrite DEF RowsKept
<1>7. RegisteredHold'
  <2>1. Row(id).state \in PastApplying /\ (Row(id).policy = "approval" => Row(id).decided)
    BY <1>1 DEF CopyTells, Started
  <2>2. deployments' = deployments
    BY <1>0 DEF storeVars
  <2> QED BY <1>0, <2>1, <2>2 DEF CoreInv, RegisteredHold, RegisteredRow, Ids, Row
<1>8. AppHolds'
  <2>1. \/ Note(id, "reread", 0)
        \/ Finish(id)
        \/ \E to \in States : Decide(id, to)
    BY RetryGoes DEF RegisterOK, RegisterLost
  <2>2. 0 \in 0..raft /\ {"reread", "commit"} \subseteq AppPCs
    BY <1>3, PCsAre
  <2>3. CASE Finish(id)
    BY <1>4, <1>6, <2>3, FinishHolds
  <2>4. CASE \E to \in States : Decide(id, to)
    <3>1. Onward(id, "commit", app[id].index)
      BY <2>4, DecideOnward
    <3> QED BY <1>0, <1>1, <1>4, <1>6, <2>2, <3>1, OnwardHolds
  <2>5. CASE Note(id, "reread", 0)
    <3>1. Onward(id, "reread", 0)
      BY <2>2, <2>5, NoteOnward
    <3> QED BY <1>0, <1>1, <1>4, <1>6, <2>2, <3>1, OnwardHolds
  <2> QED BY <2>1, <2>3, <2>4, <2>5
<1>9. expired' \subseteq Ids /\ \A l \in listed' : ListedHolds(l)'
  BY <1>0, <1>4, <1>6, ListedStay DEF CoreInv
<1> QED BY <1>4, <1>5, <1>6, <1>7, <1>8, <1>9, ApplyRest

LEMMA ApplyStepHolds ==
    ASSUME CoreInv, NEW id \in Ids, UNCHANGED <<det, obs, approval>>,
           ApplyStep(id) \/ RegisterError(id) \/ StepError(id) \/ RegisterLost(id)
    PROVE  Goes
<1>1. CASE StepDetected(id) \/ StepDetectedAll(id) \/ StepPending(id) \/ StepHook(id)
  BY <1>1, StepDetectedHolds
<1>2. CASE StepPlan(id)
  BY <1>2, StepPlanHolds
<1>3. CASE \/ StepRegister(id) \/ StepReread(id) \/ StepHealth(id) \/ StepScaled(id)
           \/ StepVerdict(id) \/ RegisterConflict(id) \/ RegisterError(id) \/ StepError(id)
  BY <1>3, StepReadsHolds
<1>4. CASE \/ Commit(id) \/ StepMove(id) \/ StepSetApplied(id)
           \/ StepAwaitPromotion(id) \/ StepPromoted(id)
  BY <1>4, StepWritesHolds
<1>5. CASE StepFollow(id)
  BY <1>5, StepFollowHolds
<1>6. CASE RegisterOK(id) \/ RegisterLost(id)
  BY <1>6, RegisterHolds
<1> QED BY <1>1, <1>2, <1>3, <1>4, <1>5, <1>6 DEF ApplyStep

\* A row as a cycle lists it.
LEMMA SnapshotHolds ==
    ASSUME CoreInv, NEW id \in ListActive
    PROVE  ListedHolds(Snapshot(id)) /\ Snapshot(id).id = id
<1>1. id \in Ids /\ Row(id).state \in ActiveStates
  BY DEF ListActive, IsActive
<1>2. Row(id) \in Deployment /\ RowHolds(Row(id), live, raft) /\ raft \in Nat
  BY <1>1, Rows DEF CoreInv, RowsHold
<1>3. /\ Row(id).cas \in 0..raft /\ Row(id).applied \in 0..raft
      /\ AwaitingPromotion(id) \in BOOLEAN
      /\ CopyTells(Row(id).state, Row(id).cas, Row(id), live)
  BY <1>2 DEF Deployment, RowHolds, AwaitingPromotion
<1> QED BY <1>1, <1>3 DEF ListedHolds, Snapshot

\* The goroutine that starts on it.
LEMMA BeginHolds ==
    ASSUME CoreInv, NEW l, ListedHolds(l)
    PROVE  Begin(l) \in AppShape(raft) /\ AppTells(Begin(l), Row(l.id), live)
<1>1. /\ l \in [id: Ids, state: ActiveStates, cas: 0..raft, applied: 0..raft, waiting: BOOLEAN]
      /\ CopyTells(l.state, l.cas, Row(l.id), live)
  BY DEF ListedHolds
<1>2. /\ l.state \in ActiveStates /\ l.cas \in 0..raft /\ l.applied \in 0..raft
      /\ l.waiting \in BOOLEAN /\ 0 \in 0..raft
  BY <1>1, Rows
<1>3. Idle \in AppShape(raft)
  BY Rows DEF Idle, AppShape, AppPCs
<1>4. /\ Begin(l).pc = "begin" /\ Begin(l).state = l.state /\ Begin(l).cas = l.cas
      /\ Begin(l) \in AppShape(raft)
  BY <1>2, <1>3 DEF Begin, AppShape, AppPCs
<1> QED BY <1>1, <1>4 DEF AppTells

LEMMA ApplyCycleHolds ==
    ASSUME CoreInv, UNCHANGED <<det, obs, approval>>, ApplyCycle
    PROVE  Goes
<1>0. /\ UNCHANGED <<storeVars, worldVars, listed, expired, registered>>
      /\ app' = [id \in DOMAIN app |-> IF id \in ListActive /\ ~Working(id)
                                       THEN Begin(Snapshot(id)) ELSE app[id]]
  BY DEF ApplyCycle
<1>1. NomadMoves
  BY <1>0, NomadStays DEF worldVars
<1>2. RowsKept /\ lifts' = lifts
  BY <1>0, <1>1, NoWrite
<1>3. /\ app \in [1..MaxDeployments -> AppShape(raft)]
      /\ \A id \in 1..MaxDeployments :
           Working(id) => id \in Ids /\ AppTells(app[id], Row(id), live)
  BY DEF CoreInv, AppHolds
<1>4. ASSUME NEW id \in 1..MaxDeployments
      PROVE  /\ app'[id] \in AppShape(raft)
             /\ app'[id].pc # "idle" => id \in Ids /\ AppTells(app'[id], Row(id), live)
  <2>1. CASE id \in ListActive /\ ~Working(id)
    <3>1. app'[id] = Begin(Snapshot(id))
      BY <1>0, <1>3, <2>1
    <3>2. /\ Begin(Snapshot(id)) \in AppShape(raft) /\ id \in Ids
          /\ AppTells(Begin(Snapshot(id)), Row(id), live)
      BY <2>1, SnapshotHolds, BeginHolds DEF ListActive
    <3> QED BY <3>1, <3>2
  <2>2. CASE ~(id \in ListActive /\ ~Working(id))
    <3>1. app'[id] = app[id]
      BY <1>0, <1>3, <2>2
    <3> QED BY <3>1, <1>3 DEF Working
  <2> QED BY <2>1, <2>2
<1>5. AppHolds'
  <2>1. DOMAIN app' = 1..MaxDeployments /\ raft' = raft /\ live' = live /\ deployments' = deployments
    BY <1>0, <1>3 DEF worldVars, storeVars
  <2>2. app' \in [1..MaxDeployments -> AppShape(raft)]
    <3>1. app' = [id \in 1..MaxDeployments |-> app'[id]]
      BY <1>0, <1>3
    <3> QED BY <3>1, <1>4
  <2> QED BY <1>4, <2>1, <2>2 DEF AppHolds, Working, Ids, Row
<1>6. expired' \subseteq Ids
  BY <1>0 DEF CoreInv
<1> QED BY <1>0, <1>2, <1>5, <1>6, GoroutineHolds

\* The list of a cycle, and the goroutine of a deployment that was on it.
LEMMA ApplyListHolds ==
    ASSUME CoreInv, UNCHANGED <<det, obs, approval>>,
           ApplyList \/ \E l \in listed : ApplyStart(l)
    PROVE  Goes
<1>0. UNCHANGED <<storeVars, worldVars, expired, registered>>
  BY DEF ApplyList, ApplyStart
<1>1. NomadMoves
  BY <1>0, NomadStays DEF worldVars
<1>2. RowsKept /\ lifts' = lifts /\ RowsMove
  BY <1>0, <1>1, NoWrite DEF RowsKept
<1>3. RegisteredHold' /\ WorldTypeOK' /\ expired' \subseteq Ids
  BY <1>0, <1>2, RegisteredStay DEF CoreInv, WorldTypeOK, worldVars
<1>4. CASE ApplyList
  <2>1. app' = app
    BY <1>4 DEF ApplyList
  <2>2. AppHolds'
    BY <1>1, <1>2, <2>1, AppHoldsStay
  <2>3. \A l \in listed' : ListedHolds(l)'
    BY <1>1, <1>2, <1>4, SnapshotHolds, ListedStay DEF ApplyList
  <2> QED BY <1>1, <1>2, <1>3, <2>2, <2>3, ApplyRest
<1>5. CASE \E l \in listed : ApplyStart(l)
  <2>1. PICK l \in listed : ApplyStart(l)
    BY <1>5
  <2>2. listed' \subseteq listed /\ ListedHolds(l)
    BY <2>1 DEF ApplyStart, CoreInv
  <2>3. \A k \in listed' : ListedHolds(k)'
    BY <1>1, <1>2, <2>2, ListedStay DEF CoreInv
  <2>4. AppHolds'
    <3>1. CASE Working(l.id)
      BY <1>1, <1>2, <2>1, <3>1, AppHoldsStay DEF ApplyStart
    <3>2. CASE ~Working(l.id)
      <4>1. l.id \in Ids /\ app' = [app EXCEPT ![l.id] = Begin(l)]
        BY <2>1, <2>2, <3>2 DEF ApplyStart, ListedHolds
      <4> QED BY <1>1, <1>2, <2>2, <4>1, BeginHolds, AppSetHolds
    <3> QED BY <3>1, <3>2
  <2> QED BY <1>1, <1>2, <1>3, <2>3, <2>4, ApplyRest
<1> QED BY <1>4, <1>5

LEMMA ExpireHolds ==
    ASSUME CoreInv, UNCHANGED <<det, obs, approval>>, NEW id \in Ids, Expire(id)
    PROVE  Goes
<1>1. UNCHANGED <<storeVars, worldVars, listed, app, registered>> /\ expired' \subseteq Ids
  BY DEF Expire, CoreInv
<1>2. NomadMoves
  BY <1>1, NomadStays DEF worldVars
<1>3. RowsKept /\ lifts' = lifts
  BY <1>1, <1>2, NoWrite
<1>4. AppHolds'
  BY <1>1, <1>2, <1>3, AppHoldsStay DEF RowsKept
<1> QED BY <1>1, <1>3, <1>4, GoroutineHolds

-----------------------------------------------------------------------------
(***************************************************************************)
(* The detection loop.                                                     *)
(***************************************************************************)

\* The rest of the invariant, when the step is of a detection cycle.
LEMMA DetectRest ==
    ASSUME CoreInv, RowsKept, UNCHANGED <<worldVars, applyVars, approval>>,
           DetHolds', ObsHolds', WorldTypeOK'
    PROVE  Goes
<1>1. NomadMoves /\ RowsMove
  BY NomadStays DEF worldVars, RowsKept
<1>2. RegisteredHold' /\ AppHolds' /\ \A l \in listed' : ListedHolds(l)'
  BY <1>1, RegisteredStay, AppHoldsStay, ListedStay DEF applyVars, CoreInv
<1>3. ApprovalHolds'
  BY <1>1, ApprovalStays DEF RowsKept
<1>4. (expired \subseteq Ids)'
  BY <1>1 DEF CoreInv, applyVars, RowsMove, Ids
<1>5. CoreInv'
  BY <1>2, <1>3, <1>4 DEF CoreInv, RowsKept
<1> QED BY <1>5 DEF Goes, RowsKept, Stores

\* A step that moves the cycle only.
LEMMA CycleHolds ==
    ASSUME CoreInv, UNCHANGED <<storeVars, obs>>, UNCHANGED <<worldVars, applyVars, approval>>,
           DetHolds'
    PROVE  Goes
<1>1. RowsKept
  BY NomadStays, NoWrite DEF worldVars
<1>2. WorldTypeOK' /\ ObsHolds'
  BY DEF CoreInv, WorldTypeOK, ObsHolds, worldVars
<1> QED BY <1>1, <1>2, DetectRest

\* The fields of a cycle, with n the last index and m the last deployment.
DetShape(n, m) ==
    [pc: DetPCs, head: Specs \cup {Gone, Broken}, hold: HoldKinds, lifted: BOOLEAN,
     lift: Specs \cup {NoLift}, index: 0..n, diff: Diffs \cup {NoDiff},
     nomadError: BOOLEAN, blocked: BOOLEAN, active: 0..m,
     state: States \cup {""}, cas: 0..n, retryOf: 0..m]

LEMMA ShapeGrows ==
    ASSUME NEW n \in Nat, NEW n2 \in Nat, n <= n2, NEW m \in Nat, NEW m2 \in Nat, m <= m2
    PROVE  DetShape(n, m) \subseteq DetShape(n2, m2)
<1>1. 0..n \subseteq 0..n2 /\ 0..m \subseteq 0..m2
  OBVIOUS
<1> QED BY <1>1 DEF DetShape

LEMMA CycleShape ==
    ASSUME CoreInv
    PROVE  /\ det \in DetShape(raft, Len(deployments))
           /\ DetTells(det, deployments, live)
           /\ det.lifted /\ det.pc \in Reconciling => lifts[Job] # NoLift
BY DEF CoreInv, DetHolds, DetectTypeOK, DetShape

LEMMA DetPCsAre ==
    /\ DetPCs = {"idle", "holds", "live", "plan", "active", "cas", "revalidate", "latest", "create",
                 "drop", "publish", "removed", "supersede", "dropGone"}
    /\ Leave \in {"publish", "drop"}
BY DEF DetPCs, Leave

LEMMA IdleShape ==
    ASSUME NEW n \in Nat, NEW m \in Nat
    PROVE  IdleDet \in DetShape(n, m) /\ IdleDet.pc = "idle" /\ IdleDet.lifted = FALSE
BY DEF IdleDet, DetShape, DetPCs, HoldKinds

\* What there is to show of a cycle in a step that leaves Nomad and the requests alone.
LEMMA DetSetHolds ==
    ASSUME UNCHANGED <<raft, live, lifts>>, Len(deployments') = Len(deployments),
           det' \in DetShape(raft, Len(deployments)),
           DetTells(det', deployments', live),
           det'.lifted /\ det'.pc \in Reconciling => lifts[Job] # NoLift
    PROVE  DetHolds'
<1>1. det' \in DetShape(raft', Len(deployments'))
  OBVIOUS
<1>2. DetectTypeOK'
  BY <1>1 DEF DetectTypeOK, DetShape
<1> QED BY <1>2 DEF DetHolds

\* The cycle that does nothing, as it is left and as it is lost.
LEMMA IdleCycle ==
    ASSUME det' = IdleDet, Len(deployments') \in Nat, raft' \in Nat
    PROVE  DetHolds'
<1>1. det' \in DetShape(raft', Len(deployments')) /\ det'.pc = "idle" /\ det'.lifted = FALSE
  BY IdleShape
<1>2. DetectTypeOK'
  BY <1>1 DEF DetectTypeOK, DetShape
<1> QED BY <1>1, <1>2 DEF DetHolds, DetTells, Reconciling, Planned

LEMMA DetectBeginHolds ==
    ASSUME CoreInv, UNCHANGED <<worldVars, applyVars, approval>>, DetectBegin
    PROVE  Goes
<1> DEFINE hold == IF "own" \in pauses THEN "paused" ELSE "none"
<1>1. /\ det' = [IdleDet EXCEPT !.pc = "holds", !.head = head, !.hold = hold]
      /\ UNCHANGED <<storeVars, obs>>
  BY DEF DetectBegin
<1>2. head \in Specs \cup {Gone, Broken} /\ hold \in HoldKinds
  BY DEF CoreInv, WorldTypeOK, HoldKinds
<1>3. IdleDet \in DetShape(raft, Len(deployments)) /\ IdleDet.lifted = FALSE
  BY Rows, IdleShape
<1> HIDE DEF hold
<1>4. /\ det' \in DetShape(raft, Len(deployments))
      /\ det'.pc = "holds" /\ det'.lifted = FALSE
  BY <1>1, <1>2, <1>3, DetPCsAre DEF DetShape
<1>5. DetTells(det', deployments', live)
  BY <1>4 DEF DetTells, Reconciling, Planned
<1>6. DetHolds'
  BY <1>1, <1>4, <1>5, DetSetHolds DEF storeVars, worldVars
<1> QED BY <1>1, <1>6, CycleHolds

LEMMA DetectHoldsHolds ==
    ASSUME CoreInv, UNCHANGED <<worldVars, applyVars, approval>>, DetectHolds
    PROVE  Goes
<1> DEFINE lift == lifts[Job]
           hold == IF spec \in Specs
                   THEN holdFrom(det.hold = "paused", "all" \in pauses, WindowClosed(spec))
                   ELSE "none"
           lifted == hold = "window" /\ lift = spec
           pc == IF spec \in Specs THEN "live" ELSE "publish"
           shown == IF lifted THEN "none" ELSE hold
<1>1. /\ det' = [det EXCEPT !.pc = pc, !.hold = shown, !.lifted = lifted, !.lift = lift]
      /\ UNCHANGED <<storeVars, obs>>
  BY DEF DetectHolds
<1>2. lift \in Specs \cup {NoLift}
  BY WorldAssumption DEF CoreInv, StoreInv, StoreTypeOK
<1>3. hold \in HoldKinds
  BY DEF holdFrom, HoldKinds
<1>4. shown \in HoldKinds /\ lifted \in BOOLEAN /\ pc \in DetPCs /\ pc \notin Planned
  BY <1>3 DEF HoldKinds, DetPCs, Planned
<1>5. lifted => lift = det.head /\ lift # NoLift
  BY StoreAssumption DEF spec
<1>6. pc \in Reconciling => det.head \in Specs
  BY DEF Reconciling, spec
<1> HIDE DEF lift, hold, lifted, pc, shown
<1>7. /\ det' \in DetShape(raft, Len(deployments))
      /\ det'.pc = pc /\ det'.lifted = lifted /\ det'.head = det.head /\ det'.lift = lift
  BY <1>1, <1>2, <1>4, CycleShape DEF DetShape
<1>8. DetTells(det', deployments', live)
  BY <1>4, <1>5, <1>6, <1>7 DEF DetTells, Planned
<1>9. det'.lifted /\ det'.pc \in Reconciling => lifts[Job] # NoLift
  BY <1>5, <1>7 DEF lift
<1>10. DetHolds'
  BY <1>1, <1>7, <1>8, <1>9, DetSetHolds DEF storeVars, worldVars
<1> QED BY <1>1, <1>10, CycleHolds

\* The cycle moves to pc with what it knows of the job as it was.
SameJob(d) == /\ d.head = det.head /\ d.lifted = det.lifted /\ d.lift = det.lift
              /\ d.index = det.index /\ d.diff = det.diff

\* It goes on reconciling, or leaves: what it tells is what it told.
LEMMA SameJobTells ==
    ASSUME CoreInv, NEW d, SameJob(d), NEW rows,
           d.pc \in Reconciling => det.pc \in Reconciling,
           d.pc \in Planned => det.pc \in Planned,
           d.pc \in {"latest", "create"} => det.head.policy # "none",
           d.pc \notin {"cas", "create"}
    PROVE  /\ DetTells(d, rows, live)
           /\ d.lifted /\ d.pc \in Reconciling => lifts[Job] # NoLift
BY CycleShape DEF SameJob, DetTells

\* The live job's index, the plan, and Nomad's errors.
LEMMA DetectLiveHolds ==
    ASSUME CoreInv, UNCHANGED <<worldVars, applyVars, approval>>,
           DetectLive \/ DetectPlan \/ DetectNomadError
    PROVE  Goes
<1>0. /\ UNCHANGED <<storeVars, obs>> /\ det.pc \in {"live", "plan"}
      /\ deployments' = deployments /\ lifts' = lifts /\ live' = live /\ raft' = raft
  BY DEF DetectLive, DetectPlan, DetectNomadError, At, storeVars, worldVars
<1>1. /\ det \in DetShape(raft, Len(deployments)) /\ DetTells(det, deployments, live)
      /\ det.lifted /\ det.pc \in Reconciling => lifts[Job] # NoLift
      /\ WorldTypeOK /\ live.index \in 0..raft /\ det.index \in 0..raft
  BY CycleShape DEF CoreInv, WorldTypeOK, DetShape
<1>2. det.head \in Specs /\ (det.lifted => lifts[Job] # NoLift /\ det.lift = det.head)
  BY <1>0, <1>1 DEF DetTells, Reconciling
<1>3. DetHolds'
  <2>1. CASE DetectLive
    <3>1. /\ det' \in DetShape(raft, Len(deployments)) /\ det'.pc = "plan"
          /\ det'.head = det.head /\ det'.lifted = det.lifted /\ det'.lift = det.lift
      BY <1>1, <2>1, DetPCsAre DEF DetectLive, DetShape
    <3>2. DetTells(det', deployments', live)
      BY <1>2, <3>1 DEF DetTells, Planned
    <3> QED BY <1>0, <1>2, <3>1, <3>2, DetSetHolds
  <2>2. CASE DetectPlan
    <3>1. PICK diff \in PlanDiffs(det.head, det.index) : det' = [det EXCEPT !.pc = "active", !.diff = diff]
      BY <2>2 DEF DetectPlan, spec
    <3>2. diff \in Diffs \cup {NoDiff}
      BY <1>1, WorldAssumption DEF PlanDiffs, WorldTypeOK
    <3>3. /\ det' \in DetShape(raft, Len(deployments)) /\ det'.pc = "active"
          /\ det'.head = det.head /\ det'.lifted = det.lifted /\ det'.lift = det.lift
          /\ det'.index = det.index /\ det'.diff = diff
      BY <1>1, <3>1, <3>2, DetPCsAre DEF DetShape
    <3>4. ToldAt(diff, det.head, det.index, live)
      BY <1>1, PlanTells
    <3>5. DetTells(det', deployments', live)
      BY <1>2, <3>3, <3>4 DEF DetTells
    <3> QED BY <1>0, <1>2, <3>3, <3>5, DetSetHolds
  <2>3. CASE DetectNomadError
    <3>1. /\ det' \in DetShape(raft, Len(deployments)) /\ det'.pc = "publish"
          /\ det'.head = det.head /\ det'.lifted = det.lifted /\ det'.lift = det.lift
      BY <1>1, <2>3, DetPCsAre DEF DetectNomadError, DetShape
    <3>2. DetTells(det', deployments', live)
      BY <1>2, <3>1 DEF DetTells, Planned, Reconciling
    <3> QED BY <1>0, <1>2, <3>1, <3>2, DetSetHolds
  <2> QED BY <2>1, <2>2, <2>3
<1> QED BY <1>0, <1>3, CycleHolds

\* What is waiting, looked at and kept or not.
LEMMA DetectActiveHolds ==
    ASSUME CoreInv, UNCHANGED <<worldVars, applyVars, approval>>, DetectActive
    PROVE  Goes
<1>0. /\ UNCHANGED <<storeVars, obs>> /\ det.pc = "active"
      /\ deployments' = deployments /\ lifts' = lifts /\ live' = live /\ raft' = raft
  BY DEF DetectActive, At, storeVars, worldVars
<1>1. /\ det \in DetShape(raft, Len(deployments)) /\ DetTells(det, deployments, live)
      /\ det.pc \in Planned /\ det.pc \in Reconciling
  BY <1>0, CycleShape DEF Planned, Reconciling
<1>2. CASE \E pc \in {Afresh, Leave} : Goto(pc)
  <2>1. PICK pc \in {Afresh, Leave} : det' = [det EXCEPT !.pc = pc]
    BY <1>2 DEF Goto
  <2>2. pc \in {"latest", "publish", "drop"} /\ (pc = "latest" => det.head.policy # "none")
    BY DEF Afresh, Leave, spec
  <2>3. det' \in DetShape(raft, Len(deployments)) /\ det'.pc = pc /\ SameJob(det')
    BY <1>1, <2>1, <2>2, DetPCsAre DEF DetShape, SameJob
  <2>4. /\ DetTells(det', deployments', live)
        /\ det'.lifted /\ det'.pc \in Reconciling => lifts[Job] # NoLift
    BY <1>1, <2>2, <2>3, SameJobTells
  <2> QED BY <1>0, <2>3, <2>4, DetSetHolds, CycleHolds
<1>3. CASE \A pc \in {Afresh, Leave} : ~Goto(pc)
  <2> DEFINE id == CHOOSE i \in ActiveOf(Job) : TRUE
             moved == /\ spec.policy # "none" /\ Row(id).spec = spec
                      /\ Row(id).cas # det.index /\ sameDiff(Row(id).diff, det.diff)
             pc == IF moved THEN "cas" ELSE "revalidate"
  <2>1. /\ ActiveOf(Job) # {}
        /\ det' = [det EXCEPT !.pc = pc, !.active = id, !.state = Row(id).state, !.cas = Row(id).cas]
    BY <1>3 DEF DetectActive
  <2>2. id \in Ids
    BY <2>1 DEF ActiveOf, ListActive
  <2>3. moved => Row(id).spec = det.head /\ Row(id).diff = det.diff
    BY DEF sameDiff, spec
  <2> HIDE DEF id, moved
  <2>4. /\ Row(id).state \in States /\ Row(id).cas \in 0..raft /\ id \in 0..Len(deployments)
    <3>1. Row(id) \in Deployment /\ Row(id).cas <= raft /\ raft \in Nat
      BY <2>2, Rows DEF CoreInv, RowsHold, RowHolds
    <3> QED BY <2>2, <3>1, Rows DEF Deployment
  <2>5. /\ det' \in DetShape(raft, Len(deployments)) /\ det'.pc = pc /\ SameJob(det') /\ det'.active = id
    BY <1>1, <2>1, <2>4, DetPCsAre DEF DetShape, SameJob
  <2>6. pc = "cas" => /\ id \in DOMAIN deployments'
                      /\ deployments'[id].spec = det.head /\ deployments'[id].diff = det.diff
    BY <1>0, <2>2, <2>3 DEF Ids, Row
  <2>7. DetTells(det', deployments', live)
    BY <1>1, <2>5, <2>6 DEF DetTells, SameJob
  <2>8. det'.lifted /\ det'.pc \in Reconciling => lifts[Job] # NoLift
    BY <1>1, <2>5, CycleShape DEF SameJob
  <2> QED BY <1>0, <2>5, <2>7, <2>8, DetSetHolds, CycleHolds
<1> QED BY <1>2, <1>3

\* A step of the cycle that may rewrite a row.
LEMMA RewriteCycle ==
    ASSUME CoreInv, UNCHANGED <<worldVars, applyVars, approval>>, RowsKept, lifts' = lifts,
           UNCHANGED obs, DetHolds'
    PROVE  Goes
BY DetectRest DEF CoreInv, WorldTypeOK, ObsHolds, worldVars

LEMMA DetectMoveCASHolds ==
    ASSUME CoreInv, UNCHANGED <<worldVars, applyVars, approval>>, DetectMoveCAS
    PROVE  Goes
<1> DEFINE cas == IF CanKeep(det.active, det.state, det.cas) THEN det.index ELSE det.cas
<1>0. /\ UNCHANGED <<obs, live, raft>> /\ det.pc = "cas"
      /\ MoveCASOrSkip(det.active, det.state, det.cas, det.index)
      /\ det' = [det EXCEPT !.pc = "revalidate", !.cas = cas]
  BY DEF DetectMoveCAS, At, worldVars
<1>1. /\ det \in DetShape(raft, Len(deployments)) /\ DetTells(det, deployments, live)
      /\ det.pc \in Planned /\ det.pc \in Reconciling
  BY <1>0, CycleShape DEF Planned, Reconciling
<1>2. det.index \in 0..raft /\ det.cas \in 0..raft /\ cas \in 0..raft
  BY <1>1 DEF DetShape
<1>3. RowsKept /\ lifts' = lifts
  <2>1. CASE CanKeep(det.active, det.state, det.cas) /\ det.state \in {"detected", "pending_approval", "applying"}
    <3>1. ToldAt(Row(det.active).diff, Row(det.active).spec, det.index, live)
      BY <1>0, <1>1 DEF DetTells, Row
    <3> QED BY <1>0, <1>2, <2>1, <3>1, MoveCASHolds
  <2>2. CASE ~(CanKeep(det.active, det.state, det.cas) /\ det.state \in {"detected", "pending_approval", "applying"})
    <3>1. UNCHANGED storeVars
      BY <1>0, <2>2 DEF MoveCASOrSkip, MoveCASIndex
    <3> QED BY <1>0, <3>1, NomadStays, NoWrite
  <2> QED BY <2>1, <2>2
<1> HIDE DEF cas
<1>4. det' \in DetShape(raft, Len(deployments)) /\ det'.pc = "revalidate" /\ SameJob(det')
  BY <1>0, <1>1, <1>2, DetPCsAre DEF DetShape, SameJob
<1>5. /\ DetTells(det', deployments', live)
      /\ det'.lifted /\ det'.pc \in Reconciling => lifts[Job] # NoLift
  BY <1>1, <1>4, SameJobTells
<1>6. DetHolds'
  BY <1>0, <1>3, <1>4, <1>5, DetSetHolds DEF RowsKept
<1> QED BY <1>0, <1>3, <1>6, RewriteCycle

\* Detection starts nothing.
LEMMA VerdictsStartNothing ==
    /\ \A id, state, cas : Verdict(id, state, cas) \notin Started
    /\ \A id, state : LegacyVerdict(id, state) \notin Started
BY DEF Verdict, LegacyVerdict, Started

LEMMA DetectRevalidateHolds ==
    ASSUME CoreInv, UNCHANGED <<worldVars, applyVars, approval>>, DetectRevalidate
    PROVE  Goes
<1>0. UNCHANGED <<obs, live, raft>> /\ det.pc = "revalidate"
  BY DEF DetectRevalidate, At, worldVars
<1>1. /\ det \in DetShape(raft, Len(deployments)) /\ DetTells(det, deployments, live)
      /\ det.pc \in Planned /\ det.pc \in Reconciling
  BY <1>0, CycleShape DEF Planned, Reconciling
<1>2. /\ \/ UNCHANGED storeVars
         \/ \E to : to \notin Started /\ TransitionOrSkip(det.active, det.state, to)
      /\ \E pc \in {Afresh, Leave} : PutDown(pc)
  BY VerdictsStartNothing DEF DetectRevalidate
<1>3. RowsKept /\ lifts' = lifts
  BY <1>0, <1>2, NomadStays, NoWrite, SkipHolds
<1>4. PICK pc \in {Afresh, Leave} :
        det' = [det EXCEPT !.pc = pc, !.active = 0, !.state = "", !.cas = 0]
  BY <1>2 DEF PutDown
<1>5. pc \in {"latest", "publish", "drop"} /\ (pc = "latest" => det.head.policy # "none")
  BY DEF Afresh, Leave, spec
<1>9. 0 \in 0..raft /\ 0 \in 0..Len(deployments)
  BY Rows
<1>6. det' \in DetShape(raft, Len(deployments)) /\ det'.pc = pc /\ SameJob(det')
  BY <1>1, <1>4, <1>5, <1>9, DetPCsAre DEF DetShape, SameJob
<1>7. /\ DetTells(det', deployments', live)
      /\ det'.lifted /\ det'.pc \in Reconciling => lifts[Job] # NoLift
  BY <1>1, <1>5, <1>6, SameJobTells
<1>8. DetHolds'
  BY <1>0, <1>3, <1>6, <1>7, DetSetHolds DEF RowsKept
<1> QED BY <1>0, <1>3, <1>8, RewriteCycle

\* There is one job, so its latest deployment is the last one.
LEMMA LatestIsLast ==
    ASSUME CoreInv
    PROVE  LatestDeployment(Job) = Len(deployments)
<1>1. /\ Ids = 1..Len(deployments) /\ Len(deployments) \in Nat
      /\ \A id \in Ids : Row(id).job = Job
  BY Rows, WorldAssumption DEF Deployment
<1>2. CASE Len(deployments) = 0
  BY <1>1, <1>2 DEF LatestDeployment
<1>3. CASE Len(deployments) # 0
  <2> DEFINE last == Len(deployments)
             Latest(id) == /\ Row(id).job = Job
                           /\ \A k \in Ids : Row(k).job = Job => k <= id
  <2>1. last \in Ids /\ Latest(last)
    BY <1>1, <1>3
  <2>2. \A id \in Ids : Latest(id) => id = last
    BY <1>1, <2>1
  <2>3. LatestDeployment(Job) = CHOOSE id \in Ids : Latest(id)
    BY <1>1, <2>1 DEF LatestDeployment
  <2> HIDE DEF last, Latest
  <2>4. (CHOOSE id \in Ids : Latest(id)) = last
    BY <2>1, <2>2
  <2> QED BY <2>3, <2>4 DEF last
<1> QED BY <1>2, <1>3

LEMMA DetectLatestHolds ==
    ASSUME CoreInv, UNCHANGED <<worldVars, applyVars, approval>>, DetectLatest
    PROVE  Goes
<1> DEFINE latest == LatestDeployment(Job)
           blocked == drift /\ blockedRetry(latest)
           creates == Wanted(latest) /\ ~blocked /\ det.hold = "none"
           pc == IF creates THEN "create" ELSE Leave
           of == IF retried(latest) THEN latest ELSE 0
<1>0. /\ UNCHANGED <<storeVars, obs>> /\ det.pc = "latest"
      /\ deployments' = deployments /\ lifts' = lifts /\ live' = live /\ raft' = raft
      /\ det' = [det EXCEPT !.pc = pc, !.blocked = blocked, !.retryOf = of]
  BY DEF DetectLatest, At, storeVars, worldVars
<1>1. /\ det \in DetShape(raft, Len(deployments)) /\ DetTells(det, deployments, live)
      /\ det.pc \in Planned /\ det.pc \in Reconciling
  BY <1>0, CycleShape DEF Planned, Reconciling
<1>2. latest = Len(deployments) /\ Len(deployments) \in Nat
  BY LatestIsLast, Rows
<1>3. of \in 0..Len(deployments) /\ blocked \in BOOLEAN /\ pc \in {"create", "publish", "drop"}
  BY <1>2 DEF Leave, drift, blockedRetry
<1>4. pc = "create" /\ of # 0 =>
        /\ of = Len(deployments) /\ deployments[of].retried /\ deployments[of].spec = det.head
        /\ deployments[of].state \in {"failed", "rejected"}
        /\ det.diff # NoDiff \/ deployments[of].applied # 0
  BY <1>2 DEF Leave, Wanted, retried, drift, spec, Row
<1> HIDE DEF latest, blocked, creates, pc, of
<1>5. /\ det' \in DetShape(raft, Len(deployments)) /\ det'.pc = pc /\ SameJob(det') /\ det'.retryOf = of
  BY <1>0, <1>1, <1>3, DetPCsAre DEF DetShape, SameJob
<1>6. pc = "create" => RetryTold(det', deployments')
  BY <1>0, <1>4, <1>5 DEF RetryTold, SameJob
<1>7. DetTells(det', deployments', live)
  BY <1>0, <1>1, <1>3, <1>5, <1>6 DEF DetTells, SameJob, Planned, Reconciling
<1>8. det'.lifted /\ det'.pc \in Reconciling => lifts[Job] # NoLift
  BY <1>1, <1>5, CycleShape DEF SameJob
<1> QED BY <1>0, <1>5, <1>7, <1>8, DetSetHolds, CycleHolds

\* What a cycle creates: the row asked for, and what the invariant says of it.
LEMMA WishHolds ==
    ASSUME CoreInv, At("create")
    PROVE  /\ Wish \in Request
           /\ Born \in {"detected", "pending_approval", "failed"}
           /\ RowHolds(NewRow(Wish, Born), live, raft)
           /\ RetryTold(det, deployments)
<1>1. /\ det \in DetShape(raft, Len(deployments)) /\ DetTells(det, deployments, live)
      /\ det.pc = "create"
  BY CycleShape DEF At
<1>2. /\ det.head \in Specs /\ det.head.policy # "none"
      /\ ToldAt(det.diff, det.head, det.index, live) /\ RetryTold(det, deployments)
  BY <1>1 DEF DetTells, Reconciling, Planned
<1>3. det.head.policy \in {"auto", "approval"}
  BY <1>2, WorldAssumption DEF SpecShape
<1>4. /\ det.index \in 0..raft /\ det.diff \in Diffs \cup {NoDiff} /\ det.lifted \in BOOLEAN
      /\ det.retryOf \in 0..Len(deployments) /\ Len(deployments) \in Nat /\ raft \in Nat
      /\ drift \in BOOLEAN /\ Job \in Jobs
  BY <1>1, Rows, WorldAssumption DEF DetShape, drift
<1>5. Wish \in Request
  <2>1. det.index \in Nat /\ det.retryOf \in Nat
    BY <1>4
  <2> QED BY <1>2, <1>3, <1>4, <2>1 DEF Wish, Request, Policies, spec
<1>6. Born \in {"detected", "pending_approval", "failed"}
  BY DEF Born
<1> DEFINE row == NewRow(Wish, Born)
<1>7. /\ row.state = Born /\ row.cas = det.index /\ row.applied = 0
      /\ row.diff = det.diff /\ row.spec = det.head
  BY DEF NewRow, Wish, spec
<1> HIDE DEF row
<1>8. CopyTells(row.state, row.cas, row, live)
  BY <1>2, <1>6, <1>7 DEF CopyTells, Started
<1>9. RowHolds(row, live, raft)
  BY <1>4, <1>7, <1>8 DEF RowHolds
<1> QED BY <1>2, <1>5, <1>6, <1>9 DEF row

LEMMA DetectCreateHolds ==
    ASSUME CoreInv, UNCHANGED <<worldVars, applyVars, approval>>, DetectCreate
    PROVE  Goes
<1>0. /\ UNCHANGED <<obs, live, raft>> /\ det.pc = "create" /\ det' = [det EXCEPT !.pc = Leave]
      /\ IF UniqueActive(Job, Born) /\ RoomForRow THEN CreateDeployment(Wish, Born) ELSE UNCHANGED storeVars
  BY DEF DetectCreate, At, Goto, worldVars, Wish
<1>1. /\ det \in DetShape(raft, Len(deployments)) /\ DetTells(det, deployments, live)
  BY CycleShape
<1>2. /\ det' \in DetShape(raft, Len(deployments)) /\ det'.pc \in {"publish", "drop"} /\ SameJob(det')
  BY <1>0, <1>1, DetPCsAre DEF DetShape, SameJob
<1>3. \A rows : DetTells(det', rows, live)
  BY <1>1, <1>2 DEF DetTells, SameJob, Planned, Reconciling
<1>4. det'.pc \notin Reconciling
  BY <1>2 DEF Reconciling
<1>5. CASE UNCHANGED storeVars
  <2>1. DetHolds'
    BY <1>0, <1>2, <1>3, <1>4, <1>5, DetSetHolds DEF storeVars
  <2> QED BY <1>0, <1>5, <2>1, CycleHolds
<1>6. CASE CreateDeployment(Wish, Born) /\ RoomForRow
  <2> DEFINE row == NewRow(Wish, Born)
             new == Len(deployments) + 1
  <2>1. /\ Wish \in Request /\ Born \in {"detected", "pending_approval", "failed"}
        /\ RowHolds(row, live, raft) /\ RetryTold(det, deployments)
    BY <1>0, WishHolds DEF At
  <2>2. StoreInv' /\ Progress
    BY <1>6, <2>1, CreateKeeps DEF CoreInv
  <2>3. /\ row \in Deployment /\ row.retryOf = det.retryOf /\ row.spec = det.head
        /\ row.planDiff = (det.diff # NoDiff)
    BY <2>1 DEF NewRow, Wish, Deployment, Request, States, ActiveStates, TerminalStates, drift, spec
  <2> HIDE DEF row
  <2>4. /\ deployments' \in Seq(Deployment) /\ Len(deployments') = new
        /\ DOMAIN deployments' = Ids \cup {new} /\ new \notin Ids
        /\ \A id \in Ids : deployments'[id] = deployments[id]
        /\ deployments'[new] = row
    <3>1. deployments' = Append(deployments, row)
      BY <1>6 DEF CreateDeployment, row
    <3> QED BY <2>3, <3>1, Rows, SeqAppend DEF Ids
  <2>5. Len(deployments) \in Nat /\ Ids = 1..Len(deployments) /\ MaxDeployments \in Nat
        /\ Len(deployments) < MaxDeployments
    BY <1>6, Rows DEF RoomForRow
  <2> HIDE DEF new
  <2>6. RowsMove
    BY <2>4, RowStays DEF RowsMove, Row
  <2>7. RowsHold'
    <3>1. \A id \in Ids : RowHolds(deployments[id], live, raft)
      BY DEF CoreInv, RowsHold, Row
    <3>2. \A id \in Ids \cup {new} : RowHolds(deployments'[id], live, raft)
      BY <2>1, <2>4, <3>1
    <3>3. Len(deployments') <= MaxDeployments
      BY <2>4, <2>5 DEF new
    <3> QED BY <1>0, <2>4, <3>2, <3>3 DEF RowsHold, Ids, Row
  <2>8. RetriesAreFaithful'
    <3> SUFFICES ASSUME NEW id \in Ids \cup {new}, deployments'[id].retryOf # 0
                 PROVE  LET of == deployments'[id].retryOf
                        IN  /\ of < id /\ deployments'[of].retried
                            /\ deployments'[of].spec = deployments'[id].spec
                            /\ deployments'[of].state \in {"failed", "rejected"}
                            /\ deployments'[id].planDiff \/ deployments'[of].applied # 0
                            /\ \A k \in Ids \cup {new} : deployments'[k].retryOf = of => k = id
      BY <2>4 DEF RetriesAreFaithful, Ids, Row
    <3>1. \A k \in Ids : deployments[k].retryOf \in Nat
                         /\ (deployments[k].retryOf # 0 =>
                               /\ deployments[k].retryOf < k
                               /\ deployments[k].retryOf \in Ids)
      <4> SUFFICES ASSUME NEW k \in Ids
                   PROVE  deployments[k].retryOf \in Nat
                          /\ (deployments[k].retryOf # 0 =>
                                deployments[k].retryOf < k /\ deployments[k].retryOf \in Ids)
        OBVIOUS
      <4>1. deployments[k] \in Deployment
        BY Rows DEF Row
      <4>2. deployments[k].retryOf \in Nat
        BY <4>1 DEF Deployment
      <4>3. deployments[k].retryOf # 0 => deployments[k].retryOf < k
        BY DEF CoreInv, RetriesAreFaithful, Row
      <4> QED BY <2>5, <4>2, <4>3
    <3>2. CASE id \in Ids
      <4> DEFINE of == deployments[id].retryOf
      <4>1. /\ deployments'[id] = deployments[id] /\ of # 0 /\ of \in Ids /\ of < id
            /\ deployments'[of] = deployments[of]
        BY <2>4, <3>1, <3>2
      <4>2. /\ deployments[of].retried /\ deployments[of].spec = deployments[id].spec
            /\ deployments[of].state \in {"failed", "rejected"}
            /\ deployments[id].planDiff \/ deployments[of].applied # 0
            /\ \A k \in Ids : deployments[k].retryOf = of => k = id
        BY <3>2, <4>1 DEF CoreInv, RetriesAreFaithful, Row
      <4>3. deployments'[new].retryOf # of
        <5>1. det.retryOf # 0 => det.retryOf = Len(deployments)
          BY <2>1 DEF RetryTold
        <5>2. of # 0 /\ of # Len(deployments)
          BY <2>5, <3>2, <4>1
        <5> QED BY <2>3, <2>4, <5>1, <5>2
      <4> QED BY <2>4, <4>1, <4>2, <4>3
    <3>3. CASE id = new
      <4> DEFINE of == det.retryOf
      <4>1. of # 0 /\ deployments'[id] = row /\ row.retryOf = of
        BY <2>3, <2>4, <3>3
      <4>2. /\ of = Len(deployments) /\ deployments[of].retried /\ deployments[of].spec = row.spec
            /\ deployments[of].state \in {"failed", "rejected"}
            /\ row.planDiff \/ deployments[of].applied # 0
        BY <2>1, <2>3, <4>1 DEF RetryTold
      <4>3. of \in Ids /\ of < new /\ deployments'[of] = deployments[of]
        BY <2>4, <2>5, <4>1, <4>2 DEF new
      <4>4. \A k \in Ids : deployments'[k].retryOf # of
        BY <2>4, <2>5, <3>1, <4>2
      <4> QED BY <3>3, <4>1, <4>2, <4>3, <4>4
    <3> QED BY <3>2, <3>3
  <2>9. DetHolds'
    <3>1. det' \in DetShape(raft', Len(deployments'))
      BY <1>0, <1>2, <2>4, <2>5, Rows, ShapeGrows DEF new
    <3>2. DetectTypeOK'
      BY <3>1 DEF DetectTypeOK, DetShape
    <3> QED BY <1>0, <1>3, <1>4, <3>2 DEF DetHolds
  <2>10. NomadMoves
    BY <1>0, NomadStays
  <2>11. RegisteredHold' /\ AppHolds' /\ \A l \in listed' : ListedHolds(l)'
    BY <2>6, <2>10, RegisteredStay, AppHoldsStay, ListedStay DEF applyVars, CoreInv
  <2>12. ApprovalHolds'
    BY <2>4, <2>5 DEF CoreInv, ApprovalHolds, new
  <2>13. (expired \subseteq Ids)'
    BY <2>4 DEF CoreInv, applyVars, Ids
  <2>14. ObsHolds' /\ WorldTypeOK'
    BY <1>0 DEF CoreInv, WorldTypeOK, ObsHolds, worldVars
  <2>15. CoreInv'
    BY <2>2, <2>7, <2>8, <2>9, <2>11, <2>12, <2>13, <2>14 DEF CoreInv
  <2> QED BY <1>0, <1>6, <2>2, <2>15 DEF Goes, Stores, At
<1> QED BY <1>0, <1>5, <1>6

\* The cycle is over with the job's deployment, or over.
LEMMA OverTells ==
    ASSUME NEW d, d.lifted => d.lift = d.head, d.pc \notin Reconciling, NEW rows, NEW l
    PROVE  DetTells(d, rows, l)
BY DEF DetTells, Reconciling, Planned

LEMMA OverHolds ==
    ASSUME CoreInv, RowsKept, UNCHANGED worldVars,
           \/ det' = IdleDet
           \/ /\ det' \in DetShape(raft, Len(deployments))
              /\ det'.pc \notin Reconciling /\ det'.lifted = det.lifted
              /\ det'.lift = det.lift /\ det'.head = det.head
    PROVE  DetHolds'
<1>1. raft' = raft /\ Len(deployments') = Len(deployments) /\ Len(deployments) \in Nat /\ raft \in Nat
  BY Rows DEF RowsKept, worldVars
<1>2. CASE det' = IdleDet
  BY <1>1, <1>2, IdleCycle
<1>3. CASE /\ det' \in DetShape(raft, Len(deployments))
           /\ det'.pc \notin Reconciling /\ det'.lifted = det.lifted
           /\ det'.lift = det.lift /\ det'.head = det.head
  <2>1. det.lifted => det.lift = det.head
    BY CycleShape DEF DetTells
  <2>2. DetTells(det', deployments', live')
    BY <1>3, <2>1, OverTells
  <2>3. det' \in DetShape(raft', Len(deployments'))
    BY <1>1, <1>3
  <2>4. DetectTypeOK'
    BY <2>3 DEF DetectTypeOK, DetShape
  <2> QED BY <1>3, <2>2, <2>4 DEF DetHolds
<1> QED BY <1>2, <1>3

LEMMA GotoOver ==
    ASSUME CoreInv, NEW pc \in DetPCs \ Reconciling, Goto(pc)
    PROVE  /\ det' \in DetShape(raft, Len(deployments))
           /\ det'.pc \notin Reconciling /\ det'.lifted = det.lifted
           /\ det'.lift = det.lift /\ det'.head = det.head
BY CycleShape DEF Goto, DetShape

LEMMA DetectDropHolds ==
    ASSUME CoreInv, UNCHANGED <<worldVars, applyVars, approval>>, DetectDrop
    PROVE  Goes
<1>1. /\ UNCHANGED <<deployments, events>> /\ lifts' = [lifts EXCEPT ![Job] = NoLift]
      /\ obs' = obs /\ (Goto("publish") \/ det' = IdleDet)
  BY DEF DetectDrop, DropWindowLift
<1>2. lifts' \in [Jobs -> Specs \cup {NoLift}]
  BY <1>1 DEF CoreInv, StoreInv, StoreTypeOK
<1>3. RowsKept
  BY <1>1, <1>2, NomadStays, StillRows DEF worldVars
<1>4. DetHolds'
  BY <1>1, <1>3, GotoOver, OverHolds, DetPCsAre DEF Reconciling
<1>5. ObsHolds' /\ WorldTypeOK'
  BY <1>1 DEF CoreInv, WorldTypeOK, ObsHolds, worldVars
<1> QED BY <1>3, <1>4, <1>5, DetectRest

LEMMA ObservedShape ==
    ASSUME CoreInv, spec \in Specs
    PROVE  Observed \in [spec: Specs \cup {Gone}, drift: BOOLEAN, nomadError: BOOLEAN,
                         hold: HoldKinds, blocked: BOOLEAN] /\ Observed.spec \in Specs
<1>1. det \in DetShape(raft, Len(deployments))
  BY CycleShape
<1> QED BY <1>1 DEF Observed, DetShape, drift, spec

LEMMA NoObsShape ==
    NoObs \in [spec: Specs \cup {Gone}, drift: BOOLEAN, nomadError: BOOLEAN,
               hold: HoldKinds, blocked: BOOLEAN]
BY DEF NoObs, HoldKinds

LEMMA DetectPublishHolds ==
    ASSUME CoreInv, UNCHANGED <<worldVars, applyVars, approval>>, DetectPublish
    PROVE  Goes
<1>1. /\ UNCHANGED storeVars /\ (Goto("removed") \/ det' = IdleDet)
      /\ obs' = IF spec \in Specs THEN Observed ELSE NoObs
  BY DEF DetectPublish
<1>2. RowsKept
  BY <1>1, NomadStays, NoWrite DEF worldVars
<1>3. DetHolds'
  BY <1>1, <1>2, GotoOver, OverHolds, DetPCsAre DEF Reconciling
<1>4. ObsHolds'
  BY <1>1, ObservedShape DEF ObsHolds
<1>5. obs' \in [spec: Specs \cup {Gone}, drift: BOOLEAN, nomadError: BOOLEAN,
                hold: HoldKinds, blocked: BOOLEAN]
  BY <1>1, ObservedShape, NoObsShape
<1>6. WorldTypeOK'
  BY <1>5 DEF CoreInv, WorldTypeOK, worldVars
<1> QED BY <1>2, <1>3, <1>4, <1>6, DetectRest

LEMMA AfterRemovedOver ==
    ASSUME CoreInv, AfterRemoved
    PROVE  det' = IdleDet \/ Goto("dropGone")
BY DEF AfterRemoved

LEMMA DetectRemovedHolds ==
    ASSUME CoreInv, UNCHANGED <<worldVars, applyVars, approval>>, DetectRemoved
    PROVE  Goes
<1> DEFINE waiting == {i \in ActiveOf(Job) : Row(i).state \in {"detected", "pending_approval"}}
           id == CHOOSE i \in waiting : TRUE
<1>1. /\ UNCHANGED <<storeVars, obs>>
      /\ \/ AfterRemoved
         \/ /\ waiting # {}
            /\ det' = [det EXCEPT !.pc = "supersede", !.active = id, !.state = Row(id).state]
  BY DEF DetectRemoved
<1>2. RowsKept
  BY <1>1, NomadStays, NoWrite DEF worldVars
<1>3. CASE AfterRemoved
  <2>1. DetHolds'
    BY <1>2, <1>3, AfterRemovedOver, GotoOver, OverHolds, DetPCsAre DEF Reconciling
  <2> QED BY <1>1, <2>1, CycleHolds
<1>4. CASE /\ waiting # {}
           /\ det' = [det EXCEPT !.pc = "supersede", !.active = id, !.state = Row(id).state]
  <2>1. id \in Ids
    BY <1>4 DEF ActiveOf, ListActive
  <2>2. id \in 0..Len(deployments) /\ Row(id).state \in States
    BY <2>1, Rows
  <2> HIDE DEF id
  <2>3. /\ det' \in DetShape(raft, Len(deployments))
        /\ det'.pc = "supersede" /\ det'.lifted = det.lifted
        /\ det'.lift = det.lift /\ det'.head = det.head
    BY <1>4, <2>2, CycleShape, DetPCsAre DEF DetShape
  <2>4. DetHolds'
    BY <1>2, <2>3, OverHolds DEF Reconciling
  <2> QED BY <1>1, <2>4, CycleHolds
<1> QED BY <1>1, <1>3, <1>4

LEMMA DetectSupersedeHolds ==
    ASSUME CoreInv, UNCHANGED <<worldVars, applyVars, approval>>, DetectSupersede
    PROVE  Goes
<1>1. /\ TransitionOrSkip(det.active, det.state, "superseded") /\ AfterRemoved /\ obs' = obs
      /\ UNCHANGED <<live, raft>>
  BY DEF DetectSupersede, worldVars
<1>2. RowsKept /\ lifts' = lifts
  BY <1>1, SkipHolds DEF Started
<1>3. DetHolds'
  BY <1>1, <1>2, AfterRemovedOver, GotoOver, OverHolds, DetPCsAre DEF Reconciling
<1> QED BY <1>1, <1>2, <1>3, RewriteCycle

LEMMA DetectAbortHolds ==
    ASSUME CoreInv, UNCHANGED <<worldVars, applyVars, approval>>, DetectAbort
    PROVE  Goes
<1>1. UNCHANGED <<storeVars, obs>> /\ det' = IdleDet
  BY DEF DetectAbort
<1>2. RowsKept
  BY <1>1, NomadStays, NoWrite DEF worldVars
<1>3. DetHolds'
  BY <1>1, <1>2, OverHolds
<1> QED BY <1>1, <1>3, CycleHolds

\* Every step of the detection loop.
LEMMA DetectStepHolds ==
    ASSUME CoreInv, UNCHANGED <<worldVars, applyVars, approval>>,
           DetectStep \/ DetectNomadError \/ DetectAbort
    PROVE  Goes
BY DetectBeginHolds, DetectHoldsHolds, DetectLiveHolds, DetectActiveHolds, DetectMoveCASHolds,
   DetectRevalidateHolds, DetectLatestHolds, DetectCreateHolds, DetectDropHolds,
   DetectPublishHolds, DetectRemovedHolds, DetectSupersedeHolds, DetectAbortHolds DEF DetectStep

-----------------------------------------------------------------------------
(***************************************************************************)
(* The people, the crash and what goes on outside.                         *)
(***************************************************************************)

\* The rest of the invariant, when neither loop moves.
LEMMA OutsideRest ==
    ASSUME CoreInv, RowsKept, NomadMoves, UNCHANGED <<det, listed, app, registered>>,
           lifts'[Job] # NoLift \/ lifts'[Job] = lifts[Job],
           expired' \subseteq expired, WorldTypeOK', ObsHolds', ApprovalHolds'
    PROVE  Goes
<1>1. /\ RowsMove /\ Len(deployments') = Len(deployments) /\ deployments' \in Seq(Deployment)
  BY DEF RowsKept, StoreInv, StoreTypeOK
<1>2. DetHolds'
  BY <1>1, DetStay
<1>3. RegisteredHold' /\ AppHolds' /\ \A l \in listed' : ListedHolds(l)'
  BY <1>1, RegisteredStay, AppHoldsStay, ListedStay DEF CoreInv
<1>4. (expired \subseteq Ids)'
  BY <1>1 DEF CoreInv, RowsMove, Ids
<1>5. CoreInv'
  BY <1>2, <1>3, <1>4 DEF CoreInv, RowsKept
<1> QED BY <1>5 DEF Goes, RowsKept, Stores

\* People who write, and leave the world as it is.
LEMMA PeopleRest ==
    ASSUME CoreInv, RowsKept, UNCHANGED <<worldVars, det, obs, listed, app, registered>>,
           lifts'[Job] # NoLift \/ lifts'[Job] = lifts[Job],
           expired' \subseteq expired, ApprovalHolds'
    PROVE  Goes
<1>1. NomadMoves
  BY NomadStays DEF worldVars
<1>2. WorldTypeOK' /\ ObsHolds'
  BY DEF CoreInv, WorldTypeOK, ObsHolds, worldVars
<1> QED BY <1>1, <1>2, OutsideRest

ApprovalPCs == {"idle", "all", "decide", "promote", "promoted"}

LEMMA ApprovalKept ==
    ASSUME CoreInv, Len(deployments') = Len(deployments),
           \/ approval' = approval
           \/ approval' = NoApproval
           \/ \E pc \in ApprovalPCs : approval' = [approval EXCEPT !.pc = pc]
           \/ \E pc \in ApprovalPCs, id \in Ids : approval' = [pc |-> pc, id |-> id]
    PROVE  ApprovalHolds'
<1>1. approval \in [pc: ApprovalPCs, id: 0..Len(deployments)]
  BY DEF CoreInv, ApprovalHolds, ApprovalPCs
<1>2. NoApproval \in [pc: ApprovalPCs, id: 0..Len(deployments)]
  BY Rows DEF NoApproval, ApprovalPCs
<1>3. Ids \subseteq 0..Len(deployments)
  BY Rows
<1>4. approval' \in [pc: ApprovalPCs, id: 0..Len(deployments)]
  BY <1>1, <1>2, <1>3
<1> QED BY <1>4 DEF ApprovalHolds, ApprovalPCs

\* The steps of Approve: a person decides, so under approval what starts is approved.
LEMMA ApproveHolds ==
    ASSUME CoreInv, (\E id \in Ids : Approve(id)) \/ ApproveAll \/ ApproveDecide
    PROVE  Goes
<1>1. /\ UNCHANGED <<worldVars, det, obs, listed, app, registered>>
      /\ expired' \subseteq expired /\ UNCHANGED <<live, raft>>
  BY DEF Approve, ApproveAll, ApproveDecide, applyVars, worldVars
<1>2. /\ UNCHANGED storeVars \/ \E id, to : Transition(id, "pending_approval", to, TRUE, 0)
      /\ \/ approval' = NoApproval
         \/ \E pc \in ApprovalPCs : approval' = [approval EXCEPT !.pc = pc]
         \/ \E pc \in ApprovalPCs, id \in Ids : approval' = [pc |-> pc, id |-> id]
  BY DEF Approve, ApproveAll, ApproveDecide, ApprovalPCs
<1>3. RowsKept /\ lifts' = lifts
  BY <1>1, <1>2, NomadStays, NoWrite, MoveHolds
<1>4. ApprovalHolds'
  BY <1>2, <1>3, ApprovalKept DEF RowsKept
<1> QED BY <1>1, <1>3, <1>4, PeopleRest

\* The steps of Promote.
LEMMA PromoteHolds ==
    ASSUME CoreInv,
           (\E id \in Ids : Promote(id)) \/ PromoteRequested \/ PromoteRecorded \/ PromoteError
    PROVE  Goes
<1>1. /\ UNCHANGED <<worldVars, det, obs, listed, app, registered>>
      /\ expired' \subseteq expired /\ UNCHANGED <<live, raft>>
  BY DEF Promote, PromoteRequested, PromoteRecorded, PromoteError, applyVars, worldVars
<1>2. /\ UNCHANGED storeVars \/ \E id : MarkPromotionRequested(id) \/ MarkPromoted(id)
      /\ \/ approval' = NoApproval
         \/ \E pc \in ApprovalPCs : approval' = [approval EXCEPT !.pc = pc]
         \/ \E pc \in ApprovalPCs, id \in Ids : approval' = [pc |-> pc, id |-> id]
  BY DEF Promote, PromoteRequested, PromoteRecorded, PromoteError, ApprovalPCs
<1>3. RowsKept /\ lifts' = lifts
  BY <1>1, <1>2, NomadStays, NoWrite, MarkHolds
<1>4. ApprovalHolds'
  BY <1>2, <1>3, ApprovalKept DEF RowsKept
<1> QED BY <1>1, <1>3, <1>4, PeopleRest

LEMMA RejectRetryHolds ==
    ASSUME CoreInv, NEW id, Reject(id) \/ Retry(id)
    PROVE  Goes
<1>1. /\ UNCHANGED <<worldVars, det, obs, listed, app, registered, approval>>
      /\ expired' \subseteq expired /\ UNCHANGED <<live, raft>>
  BY DEF Reject, Retry, engineVars, applyVars, worldVars
<1>2. Transition(id, "pending_approval", "rejected", TRUE, 0) \/ MarkRetried(id)
  BY DEF Reject, Retry
<1>3. RowsKept /\ lifts' = lifts
  BY <1>1, <1>2, MoveHolds, MarkHolds
<1>4. ApprovalHolds'
  BY <1>1, <1>3, ApprovalKept DEF RowsKept
<1> QED BY <1>1, <1>3, <1>4, PeopleRest

\* A request is for a spec that was observed: it is there for a cycle to find.
LEMMA DeployNowHolds ==
    ASSUME CoreInv, DeployNow
    PROVE  Goes
<1>1. /\ UNCHANGED <<worldVars, det, obs, listed, app, registered, approval>>
      /\ expired' \subseteq expired
      /\ UNCHANGED <<deployments, events>> /\ lifts' = [lifts EXCEPT ![Job] = obs.spec]
  BY DEF DeployNow, RequestWindowLift, engineVars, applyVars
<1>2. obs.spec \in Specs
  BY DEF DeployNow, DeployNowable, CoreInv, ObsHolds
<1>3. lifts \in [Jobs -> Specs \cup {NoLift}] /\ Job \in Jobs
  BY WorldAssumption DEF CoreInv, StoreInv, StoreTypeOK
<1>4. lifts' \in [Jobs -> Specs \cup {NoLift}] /\ lifts'[Job] # NoLift
  BY <1>1, <1>2, <1>3, StoreAssumption
<1>5. RowsKept
  BY <1>1, <1>4, NomadStays, StillRows DEF worldVars
<1>6. ApprovalHolds'
  BY <1>1, <1>5, ApprovalKept DEF RowsKept
<1> QED BY <1>1, <1>4, <1>5, <1>6, PeopleRest

\* Steps that write nothing, and leave the job in Nomad as it is or change it.
LEMMA WorldHolds ==
    ASSUME CoreInv, UNCHANGED <<storeVars, det, applyVars, approval>>,
           NomadMoves, WorldTypeOK', ObsHolds'
    PROVE  Goes
<1>1. RowsKept /\ lifts' = lifts
  BY NoWrite
<1>2. ApprovalHolds'
  BY <1>1, ApprovalKept DEF RowsKept
<1>3. UNCHANGED <<listed, app, registered>> /\ expired' \subseteq expired
  BY DEF applyVars
<1> QED BY <1>1, <1>2, <1>3, OutsideRest

LEMMA SetPausesHolds ==
    ASSUME CoreInv, NEW now \in SUBSET {"own", "all"}, NEW hold,
           obs # NoObs => hold \in HoldKinds, SetPauses(now, hold)
    PROVE  Goes
<1>1. /\ UNCHANGED <<storeVars, head, live, raft, windowOpen, det, applyVars, approval>>
      /\ pauses' = now /\ obs' = IF obs = NoObs THEN obs ELSE [obs EXCEPT !.hold = hold]
  BY DEF SetPauses
<1>2. obs \in [spec: Specs \cup {Gone}, drift: BOOLEAN, nomadError: BOOLEAN,
               hold: HoldKinds, blocked: BOOLEAN]
  BY DEF CoreInv, WorldTypeOK
<1>3. obs' \in [spec: Specs \cup {Gone}, drift: BOOLEAN, nomadError: BOOLEAN,
                hold: HoldKinds, blocked: BOOLEAN]
  BY <1>1, <1>2
<1>4. obs' = NoObs \/ obs'.spec \in Specs
  BY <1>1, <1>2 DEF CoreInv, ObsHolds
<1>5. WorldTypeOK' /\ ObsHolds'
  BY <1>1, <1>3, <1>4 DEF CoreInv, WorldTypeOK, ObsHolds
<1> QED BY <1>1, <1>5, NomadStays, WorldHolds

LEMMA PausesHold ==
    ASSUME CoreInv, Pause \/ Resume \/ PauseAll \/ ResumeAll
    PROVE  Goes
<1>1. /\ pauses \subseteq {"own", "all"}
      /\ obs \in [spec: Specs \cup {Gone}, drift: BOOLEAN, nomadError: BOOLEAN,
                  hold: HoldKinds, blocked: BOOLEAN]
  BY DEF CoreInv, WorldTypeOK
<1>2. obs.hold \in HoldKinds /\ {"paused", "none", "all"} \subseteq HoldKinds
  BY <1>1 DEF HoldKinds
<1>3. \E now \in SUBSET {"own", "all"}, hold \in HoldKinds : SetPauses(now, hold)
  <2>1. CASE Pause
    <3>1. SetPauses(pauses \cup {"own"}, "paused")
      BY <2>1 DEF Pause
    <3> QED BY <1>1, <1>2, <3>1
  <2>2. CASE Resume
    <3>1. SetPauses(pauses \ {"own"}, "none")
      BY <2>2 DEF Resume
    <3> QED BY <1>1, <1>2, <3>1
  <2>3. CASE PauseAll
    <3>1. \E hold \in HoldKinds : SetPauses(pauses \cup {"all"}, hold)
      BY <1>2, <2>3 DEF PauseAll
    <3> QED BY <1>1, <3>1
  <2>4. CASE ResumeAll
    <3>1. \E hold \in HoldKinds : SetPauses(pauses \ {"all"}, hold)
      BY <1>2, <2>4 DEF ResumeAll
    <3> QED BY <1>1, <3>1
  <2> QED BY <2>1, <2>2, <2>3, <2>4
<1> QED BY <1>3, SetPausesHolds

\* The process dies: the copies go, the rows and Nomad stay.
LEMMA CrashHolds ==
    ASSUME CoreInv, Crash
    PROVE  Goes
<1>1. /\ det' = IdleDet /\ obs' = NoObs /\ listed' = {}
      /\ app' = [id \in DOMAIN app |-> Idle] /\ approval' = NoApproval
      /\ UNCHANGED <<storeVars, worldVars, expired, registered>>
  BY DEF Crash
<1>2. NomadMoves
  BY <1>1, NomadStays DEF worldVars
<1>3. RowsKept
  BY <1>1, <1>2, NoWrite
<1>4. /\ RowsMove /\ Len(deployments') = Len(deployments) /\ Len(deployments) \in Nat
      /\ raft' \in Nat
  BY <1>2, <1>3, Rows DEF RowsKept, NomadMoves
<1>5. DetHolds'
  BY <1>1, <1>4, IdleCycle
<1>6. AppHolds'
  <2>1. DOMAIN app = 1..MaxDeployments
    BY DEF CoreInv, AppHolds
  <2>2. Idle \in AppShape(raft') /\ Idle.pc = "idle"
    BY <1>4 DEF Idle, AppShape, AppPCs
  <2> HIDE DEF Idle
  <2>3. /\ app' \in [1..MaxDeployments -> AppShape(raft')]
        /\ \A id \in 1..MaxDeployments : app'[id].pc = "idle"
    BY <1>1, <2>1, <2>2
  <2> QED BY <2>3 DEF AppHolds, Working
<1>7. RegisteredHold'
  BY <1>1, <1>4, RegisteredStay
<1>8. WorldTypeOK' /\ ObsHolds'
  BY <1>1, NoObsShape DEF CoreInv, WorldTypeOK, ObsHolds, worldVars
<1>9. ApprovalHolds'
  BY <1>1, <1>4, ApprovalKept
<1>10. (expired \subseteq Ids)'
  BY <1>1 DEF CoreInv, storeVars, Ids
<1>11. CoreInv'
  BY <1>1, <1>3, <1>5, <1>6, <1>7, <1>8, <1>9, <1>10 DEF CoreInv, RowsKept
<1> QED BY <1>3, <1>11 DEF Goes, RowsKept, Stores

LEMMA ChangedMoves ==
    ASSUME CoreInv, NEW b \in Bodies, Changed(b)
    PROVE  /\ NomadMoves
           /\ live' \in [index: 0..raft', body: Bodies \cup {Absent}]
           /\ live'.index # 0 /\ live'.body # Absent
<1>1. raft \in Nat /\ raft' = raft + 1 /\ live' = [index |-> raft + 1, body |-> b]
  BY Rows DEF Changed
<1> QED BY <1>1, WorldAssumption DEF NomadMoves, LiveMoves

\* Commits, edits, scales and purges of the live job, the clock of the window.
LEMMA OutsideHolds ==
    ASSUME CoreInv, Commit2Git \/ OutsideChange \/ TurnWindow
    PROVE  Goes
<1>0. UNCHANGED <<storeVars, det, applyVars, approval, obs, pauses>> /\ ObsHolds'
  BY DEF Commit2Git, OutsideChange, TurnWindow, engineVars, CoreInv, ObsHolds
<1>1. CASE Commit2Git \/ TurnWindow
  <2>1. UNCHANGED <<live, raft>> /\ WorldTypeOK'
    BY <1>1 DEF Commit2Git, TurnWindow, engineVars, CoreInv, WorldTypeOK
  <2> QED BY <1>0, <2>1, NomadStays, WorldHolds
<1>2. CASE OutsideChange
  <2>1. UNCHANGED <<head, windowOpen>>
    BY <1>2 DEF OutsideChange
  <2>2. live \in [index: 0..raft, body: Bodies \cup {Absent}] /\ raft \in Nat
    BY DEF CoreInv, WorldTypeOK
  <2>3. /\ NomadMoves /\ raft' \in Nat
        /\ live' \in [index: 0..raft', body: Bodies \cup {Absent}]
        /\ live'.index = 0 <=> live'.body = Absent
    <3>1. CASE OutsidePurge
      BY <2>2, <3>1 DEF OutsidePurge, NomadMoves, LiveMoves
    <3>2. CASE OutsideEdit \/ OutsideScale
      <4>1. PICK b \in Bodies : Changed(b)
        BY <2>2, <3>2 DEF OutsideEdit, OutsideScale
      <4> QED BY <4>1, ChangedMoves DEF NomadMoves
    <3> QED BY <1>2, <3>1, <3>2 DEF OutsideChange
  <2>4. WorldTypeOK'
    BY <1>0, <2>1, <2>3 DEF CoreInv, WorldTypeOK
  <2> QED BY <1>0, <2>3, <2>4, WorldHolds
<1> QED BY <1>1, <1>2

-----------------------------------------------------------------------------
(***************************************************************************)
(* The specification.                                                      *)
(***************************************************************************)

LEMMA SpendKeeps ==
    ASSUME UsedHolds, NEW f \in {"commits", "edits", "holds", "laps", "faults"}, NEW bound,
           Spend(f, bound)
    PROVE  UsedHolds'
<1>1. /\ used \in [commits: Nat, edits: Nat, holds: Nat, laps: Nat, faults: Nat]
      /\ Turns < MaxTurns /\ MaxTurns \in Nat /\ used' = [used EXCEPT ![f] = @ + 1]
  BY EngineAssumption DEF UsedHolds, Spend
<1>2. used' \in [commits: Nat, edits: Nat, holds: Nat, laps: Nat, faults: Nat]
  BY <1>1
<1>3. Turns' = Turns + 1 /\ Turns \in Nat
  BY <1>1 DEF Turns
<1> QED BY <1>1, <1>2, <1>3 DEF UsedHolds

\* Each step, a commit as much as a crash, keeps the invariant and lets rows only progress.
LEMMA NextHolds ==
    ASSUME EngineInv, Next
    PROVE  EngineInv' /\ Progress /\ Stores
<1>1. CoreInv /\ UsedHolds
  BY DEF EngineInv
<1>2. UsedHolds'
  <2>1. CASE Free
    BY <1>1, <2>1 DEF Free, UsedHolds, Turns
  <2>2. CASE \E f \in {"commits", "edits", "holds", "laps", "faults"} : \E bound : Spend(f, bound)
    BY <1>1, <2>2, SpendKeeps
  <2> QED BY <2>1, <2>2 DEF Next
<1>3. Goes
  <2>1. CASE Detecting
    BY <1>1, <2>1, DetectStepHolds DEF Detecting
  <2>2. CASE Applying
    <3>1. UNCHANGED <<det, obs, approval>>
      BY <2>2 DEF Applying
    <3>2. CASE ApplyCycle
      BY <1>1, <3>1, <3>2, ApplyCycleHolds
    <3>3. CASE \E l \in listed : ApplyStart(l)
      BY <1>1, <3>1, <3>3, ApplyListHolds
    <3>4. CASE \E id \in Ids : ApplyStep(id)
      BY <1>1, <3>1, <3>4, ApplyStepHolds
    <3> QED BY <2>2, <3>2, <3>3, <3>4 DEF Applying
  <2>3. CASE Expiring
    BY <1>1, <2>3, ExpireHolds DEF Expiring
  <2>4. CASE Approving \/ PromoteError
    BY <1>1, <2>4, ApproveHolds, PromoteHolds DEF Approving
  <2>5. CASE Deciding
    BY <1>1, <2>5, ApproveHolds, RejectRetryHolds DEF Deciding
  <2>6. CASE DeployNow
    BY <1>1, <2>6, DeployNowHolds
  <2>7. CASE Resume \/ ResumeAll \/ Pause \/ PauseAll
    BY <1>1, <2>7, PausesHold
  <2>8. CASE \E id \in Ids : Promote(id)
    BY <1>1, <2>8, PromoteHolds
  <2>9. CASE Commit2Git \/ OutsideChange \/ TurnWindow
    BY <1>1, <2>9, OutsideHolds
  <2>10. CASE ApplyList /\ UNCHANGED <<det, obs, approval>>
    BY <1>1, <2>10, ApplyListHolds
  <2>11. CASE Fault
    <3>1. CASE (DetectNomadError \/ DetectAbort) /\ UNCHANGED <<worldVars, applyVars, approval>>
      BY <1>1, <3>1, DetectStepHolds
    <3>2. CASE /\ \E id \in Ids : RegisterError(id) \/ StepError(id) \/ RegisterLost(id)
               /\ UNCHANGED <<det, obs, approval>>
      BY <1>1, <3>2, ApplyStepHolds
    <3>3. CASE Crash
      BY <1>1, <3>3, CrashHolds
    <3> QED BY <2>11, <3>1, <3>2, <3>3 DEF Fault
  <2> QED BY <2>1, <2>2, <2>3, <2>4, <2>5, <2>6, <2>7, <2>8, <2>9, <2>10, <2>11 DEF Next
<1> QED BY <1>2, <1>3 DEF EngineInv, Goes

LEMMA StutterHolds ==
    ASSUME EngineInv, UNCHANGED vars
    PROVE  EngineInv' /\ Progress /\ Stores
<1>1. CoreInv /\ UsedHolds /\ used' = used
  BY DEF EngineInv, vars
<1>2. UNCHANGED <<storeVars, worldVars, det, obs, applyVars, approval>>
  BY DEF vars, engineVars
<1>3. WorldTypeOK' /\ ObsHolds' /\ NomadMoves
  BY <1>1, <1>2, NomadStays DEF CoreInv, WorldTypeOK, ObsHolds, worldVars
<1>4. Goes
  BY <1>1, <1>2, <1>3, WorldHolds
<1> QED BY <1>1, <1>4 DEF EngineInv, Goes, UsedHolds, Turns

LEMMA EngineStep ==
    ASSUME EngineInv, [Next]_vars
    PROVE  EngineInv' /\ Progress /\ Stores
BY NextHolds, StutterHolds

\* Nothing runs yet, and the row an older Nops left was registered by no one.
LEMMA EngineInit ==
    ASSUME Init
    PROVE  EngineInv
<1>0. /\ StoreInit /\ head \in Specs /\ pauses = {} /\ windowOpen \in {TRUE, ~head.window}
      /\ obs = NoObs /\ det = IdleDet /\ approval = NoApproval
      /\ listed = {} /\ expired = {} /\ registered = {}
      /\ app = [id \in 1..MaxDeployments |-> Idle]
      /\ used = [commits |-> 0, edits |-> 0, holds |-> 0, laps |-> 0, faults |-> 0]
  BY DEF Init, WorldInit, ApplyInit
<1>1. StoreInv
  BY <1>0, InitHolds
<1>2. /\ raft \in Nat /\ live \in [index: 0..raft, body: Bodies \cup {Absent}]
      /\ live.index = 0 <=> live.body = Absent
  BY WorldAssumption DEF Init, WorldInit
<1>3. WorldTypeOK
  <2>1. windowOpen \in BOOLEAN
    BY <1>0, WorldAssumption DEF SpecShape
  <2> QED BY <1>0, <1>2, <2>1, NoObsShape DEF WorldTypeOK
<1>4. \/ deployments = <<>>
      \/ \E s \in Specs : deployments = <<LegacyRow(Job, s)>>
  BY <1>0, WorldAssumption DEF StoreInit
<1>5. /\ Len(deployments) \in {0, 1}
      /\ \A id \in Ids : /\ Row(id).state = "detected" /\ Row(id).cas = 0
                         /\ Row(id).applied = 0 /\ Row(id).retryOf = 0
  <2>1. CASE deployments = <<>>
    BY <2>1 DEF Ids
  <2>2. ASSUME NEW s \in Specs, deployments = <<LegacyRow(Job, s)>>
        PROVE  /\ Len(deployments) = 1
               /\ \A id \in Ids : /\ Row(id).state = "detected" /\ Row(id).cas = 0
                                  /\ Row(id).applied = 0 /\ Row(id).retryOf = 0
    <3> DEFINE row == LegacyRow(Job, s)
    <3>1. row.state = "detected" /\ row.cas = 0 /\ row.applied = 0 /\ row.retryOf = 0
      BY DEF LegacyRow, NewRow
    <3> HIDE DEF row
    <3>2. deployments = <<row>>
      BY <2>2 DEF row
    <3>3. Len(deployments) = 1 /\ Ids = {1} /\ Row(1) = row
      BY <3>2 DEF Ids, Row
    <3> QED BY <3>1, <3>3
  <2> QED BY <1>4, <2>1, <2>2
<1>6. RowsHold
  <2>1. Len(deployments) <= MaxDeployments
    <3>1. MaxDeployments \in Nat /\ MaxDeployments # 0
      BY StoreAssumption, EngineAssumption
    <3>2. Len(deployments) = 0 \/ Len(deployments) = 1
      BY <1>5
    <3> QED BY <3>1, <3>2
  <2>2. \A id \in Ids : RowHolds(Row(id), live, raft)
    BY <1>2, <1>5 DEF RowHolds, CopyTells, ToldAt, Started, PastApplying
  <2> QED BY <2>1, <2>2 DEF RowsHold
<1>7. RetriesAreFaithful
  BY <1>5 DEF RetriesAreFaithful
<1>8. AppHolds
  <2>1. Idle \in AppShape(raft) /\ Idle.pc = "idle"
    BY <1>2 DEF Idle, AppShape, AppPCs
  <2> HIDE DEF Idle
  <2> QED BY <1>0, <2>1 DEF AppHolds, Working
<1>9. DetHolds
  <2>1. /\ det \in DetShape(raft, Len(deployments)) /\ det.pc = "idle" /\ det.lifted = FALSE
    BY <1>0, <1>2, <1>5, IdleShape
  <2>2. DetectTypeOK
    BY <2>1 DEF DetectTypeOK, DetShape
  <2> QED BY <2>1, <2>2 DEF DetHolds, DetTells, Reconciling, Planned
<1>10. ApprovalHolds
  BY <1>0, <1>5 DEF ApprovalHolds, NoApproval
<1>11. UsedHolds
  BY <1>0, EngineAssumption DEF UsedHolds, Turns
<1>12. CoreInv
  BY <1>0, <1>1, <1>3, <1>6, <1>7, <1>8, <1>9, <1>10 DEF CoreInv, RegisteredHold, ObsHolds
<1> QED BY <1>11, <1>12 DEF EngineInv

\* The invariant of the loops and the people together, whatever happens outside and in
\* whatever order: every copy a step works on is still true of the row and of the job it
\* was taken from.
THEOREM EngineInvariant == Spec => []EngineInv
<1>1. EngineInv /\ [Next]_vars => EngineInv'
  BY EngineStep
<1> QED BY <1>1, EngineInit, PTL DEF Spec

-----------------------------------------------------------------------------
(***************************************************************************)
(* Theorems: what the rows, and the calls they lead to, never show.        *)
(***************************************************************************)

\* Every variable keeps its shape, copies of rows and indexes included, and the
\* bounds hold.
THEOREM EngineTypes == Spec => []EngineTypeOK
<1>1. EngineInv => EngineTypeOK
  <2> SUFFICES ASSUME EngineInv PROVE EngineTypeOK
    OBVIOUS
  <2>0. CoreInv /\ UsedHolds
    BY DEF EngineInv
  <2>1. StoreTypeOK /\ WorldTypeOK /\ DetectTypeOK /\ Turns <= MaxTurns
    BY <2>0 DEF CoreInv, StoreInv, DetHolds, UsedHolds
  <2>2. listed \subseteq [id: Ids, state: States, cas: 0..raft, applied: 0..raft, waiting: BOOLEAN]
    <3> SUFFICES ASSUME NEW l \in listed
                 PROVE  l \in [id: Ids, state: States, cas: 0..raft, applied: 0..raft,
                               waiting: BOOLEAN]
      OBVIOUS
    <3>1. l \in [id: Ids, state: ActiveStates, cas: 0..raft, applied: 0..raft, waiting: BOOLEAN]
      BY <2>0 DEF CoreInv, ListedHolds
    <3>2. ActiveStates \subseteq States
      BY DEF States
    <3> QED BY <3>1, <3>2
  <2>3. ApplyTypeOK
    BY <2>0, <2>2 DEF ApplyTypeOK, CoreInv, AppHolds, AppShape, RegisteredHold
  <2> QED BY <2>0, <2>1, <2>3 DEF EngineTypeOK, CoreInv, ApprovalHolds
<1> QED BY <1>1, EngineInvariant, PTL

\* Invariant 3 of docs/philosophy.md: under approval nothing starts, and nothing
\* reaches Nomad, that a person did not approve, whatever was listed before the
\* decision, whoever crashed between two steps.
THEOREM ApprovedFirst == Spec => []ApprovedBeforeStart
<1>1. EngineInv => ApprovedBeforeStart
  BY DEF EngineInv, CoreInv, RowsHold, RowHolds, CopyTells, RegisteredHold, RegisteredRow,
         ApprovedBeforeStart
<1> QED BY <1>1, EngineInvariant, PTL

\* What reached Nomad is not superseded or rejected afterwards as if it had not:
\* detection and people only put aside what has not started.
THEOREM NeverDropped == Spec => []RegisteredNeverDropped
<1>1. EngineInv => RegisteredNeverDropped
  BY DEF EngineInv, CoreInv, RegisteredHold, RegisteredRow, PastApplying, RegisteredNeverDropped
<1> QED BY <1>1, EngineInvariant, PTL

\* A retry is one of an ended deployment of its spec, asked for by a person, and the
\* only one.
THEOREM FaithfulRetries == Spec => []RetriesAreFaithful
<1>1. EngineInv => RetriesAreFaithful
  BY DEF EngineInv, CoreInv
<1> QED BY <1>1, EngineInvariant, PTL

\* Invariant 6 holds with the engine's calls as the store's, for every bound: the
\* per-job lock.
THEOREM OneAtATime == Spec => []OneActivePerJob
<1>1. EngineInv => OneActivePerJob
  BY DEF EngineInv, CoreInv, StoreInv
<1> QED BY <1>1, EngineInvariant, PTL

\* The audit log of every deployment the engine makes replays to its row.
THEOREM EngineAudited == Spec => []AuditTrail
<1>1. EngineInv => AuditTrail
  BY DEF EngineInv, CoreInv, StoreInv
<1> QED BY <1>1, EngineInvariant, PTL

\* Nothing the engine does takes back a decision, revives an ended deployment or
\* rewrites what was approved.
THEOREM EngineOnlyProgress == Spec => RowsOnlyProgress
<1> DEFINE P == \A id \in Ids :
          /\ id \in DOMAIN deployments'
          /\ LET old == Row(id)
                 new == deployments'[id]
             IN  /\ \A f \in {"job", "spec", "policy", "diff", "planDiff", "retryOf", "lifted"} :
                        new[f] = old[f]
                 /\ old.decided => new.decided
                 /\ old.retried => new.retried
                 /\ ~IsActive(old.state) =>
                        new.state = old.state /\ new.cas = old.cas /\ new.applied = old.applied
<1>1. Progress => P
  BY DEF Progress, Later
<1>2. EngineInv /\ [Next]_vars => [P]_storeVars
  BY <1>1, EngineStep
<1> QED BY <1>2, EngineInvariant, PTL DEF Spec, RowsOnlyProgress

\* The CAS index of a register on record is never rewritten by the loops or by a recovery
\* (store.go MoveCASIndex, apply.go).
THEOREM EngineCASFixed == Spec => CASFixedOnceApplied
<1> DEFINE P == \A id \in Ids : Row(id).applied # 0 => deployments'[id].cas = Row(id).cas
<1>1. Progress => P
  BY DEF Progress, Later
<1>2. EngineInv /\ [Next]_vars => [P]_storeVars
  BY <1>1, EngineStep
<1> QED BY <1>2, EngineInvariant, PTL DEF Spec, CASFixedOnceApplied

\* The engine keeps the promise of docs/deployment-lifecycle.md: whatever it, the
\* people and Nomad do, deployments are attempts, one per job that is not over, and a
\* started one finishes and is never dropped.
THEOREM EngineMakesAttempts == Spec => ImplementsAttempts
<1>1. EngineInv /\ [Next]_vars => [Abstract!Next]_attemptsOf
  <2> SUFFICES ASSUME EngineInv, [Next]_vars PROVE [Abstract!Next]_attemptsOf
    OBVIOUS
  <2>1. CoreInv /\ StoreInv /\ Stores
    BY EngineStep DEF EngineInv, CoreInv
  <2>2. CASE Wrote
    BY <2>1, <2>2, WroteIsAttempt
  <2>3. CASE At("create") /\ CreateDeployment(Wish, Born)
    BY <2>1, <2>3, WishHolds, CreateIsAttempt
  <2> QED BY <2>1, <2>2, <2>3 DEF Stores
<1>2. Init => Abstract!Init
  BY InitIsAttempt DEF Init, WorldInit
<1> QED BY <1>1, <1>2, EngineInvariant, PTL DEF Spec, ImplementsAttempts, Abstract!Spec

\* Deploy now deploys once what was asked: the one step that adds a deployment outside
\* its window finds the request, for the very spec, and uses it up.
THEOREM LiftsAreSpent == Spec => LiftIsSpent
<1> DEFINE P == \A id \in DOMAIN deployments' \ Ids :
          deployments'[id].lifted => /\ lifts[Job] # NoLift /\ det.lift = deployments'[id].spec
                                     /\ lifts'[Job] = NoLift
<1>1. EngineInv /\ [Next]_vars => [P]_vars
  <2> SUFFICES ASSUME EngineInv, [Next]_vars, NEW id \in DOMAIN deployments' \ Ids,
                      deployments'[id].lifted
               PROVE  /\ lifts[Job] # NoLift /\ det.lift = deployments'[id].spec
                      /\ lifts'[Job] = NoLift
    OBVIOUS
  <2>1. CoreInv /\ CoreInv' /\ Stores
    BY EngineStep DEF EngineInv
  <2>2. Ids = 1..Len(deployments) /\ DOMAIN deployments' = 1..Len(deployments')
    <3>1. deployments \in Seq(Deployment) /\ deployments' \in Seq(Deployment)
      BY <2>1 DEF CoreInv, StoreInv, StoreTypeOK
    <3> QED BY <3>1 DEF Ids
  <2>3. At("create") /\ CreateDeployment(Wish, Born)
    BY <2>1, <2>2 DEF Stores
  <2> DEFINE row == NewRow(Wish, Born)
  <2>4. Wish \in Request /\ Born \in {"detected", "pending_approval", "failed"}
    BY <2>1, <2>3, WishHolds
  <2>5. row \in Deployment /\ row.lifted = det.lifted /\ row.spec = det.head
    BY <2>4 DEF NewRow, Wish, Deployment, Request, States, ActiveStates, TerminalStates, spec
  <2> HIDE DEF row
  <2>6. deployments' = Append(deployments, row)
    BY <2>3 DEF CreateDeployment, row
  <2>7. deployments'[id] = row
    <3>1. deployments \in Seq(Deployment)
      BY <2>1 DEF CoreInv, StoreInv, StoreTypeOK
    <3> QED BY <2>5, <2>6, <3>1, SeqAppend DEF Ids
  <2>8. det.lifted /\ det.lift = det.head /\ lifts[Job] # NoLift
    BY <2>1, <2>3, <2>5, <2>7, CycleShape DEF DetTells, At, Reconciling
  <2>9. lifts' = [lifts EXCEPT ![Job] = NoLift]
    BY <2>3, <2>8 DEF CreateDeployment, Wish
  <2>10. Job \in DOMAIN lifts
    BY <2>1, WorldAssumption DEF CoreInv, StoreInv, StoreTypeOK
  <2> QED BY <2>5, <2>7, <2>8, <2>9, <2>10
<1> QED BY <1>1, EngineInvariant, PTL DEF Spec, LiftIsSpent

-----------------------------------------------------------------------------
(***************************************************************************)
(* Theorems: what a register replaces.                                     *)
(***************************************************************************)

\* A register that Nomad takes is one its goroutine makes, at the index it planned at.
LEMMA RegisterSteps ==
    ASSUME CoreInv, [Next]_vars, NEW id \in Ids, Registers(id)
    PROVE  app[id].pc = "register" /\ live.index = app[id].cas
<1>0. app[id].pc = "register" /\ raft' # raft /\ app'[id] # app[id]
  BY DEF Registers, In
<1>1. id \in DOMAIN app
  BY Rows DEF CoreInv, AppHolds
<1>2. \E k \in Ids : RegisterOK(k) \/ RegisterLost(k)
  <2>1. CASE Detecting \/ Expiring \/ Approving \/ PromoteError \/ Deciding \/ DeployNow
    BY <1>0, <2>1 DEF Detecting, Expiring, Expire, Approving, ApproveAll, ApproveDecide,
       PromoteRequested, PromoteRecorded, PromoteError, Deciding, Approve, Reject, Retry,
       DeployNow, worldVars
  <2>2. CASE Applying
    <3>1. CASE ApplyCycle \/ \E l \in listed : ApplyStart(l)
      BY <1>0, <3>1 DEF ApplyCycle, ApplyStart, worldVars
    <3>2. CASE \E k \in Ids : ApplyStep(k)
      BY <1>0, <3>2 DEF ApplyStep, Commit, StepDetected, StepDetectedAll, StepPending, StepHook,
         StepRegister, StepPlan, StepMove, RegisterConflict, StepReread, StepSetApplied,
         StepHealth, StepScaled, StepFollow, StepVerdict, StepAwaitPromotion, StepPromoted,
         worldVars
    <3> QED BY <2>2, <3>1, <3>2 DEF Applying
  <2>3. CASE \/ Resume \/ ResumeAll \/ Pause \/ PauseAll \/ TurnWindow
             \/ Commit2Git \/ \E k \in Ids : Promote(k)
    BY <1>0, <2>3 DEF Resume, ResumeAll, Pause, PauseAll, SetPauses, TurnWindow, Commit2Git,
       Promote, worldVars
  <2>4. CASE ApplyList
    BY <1>0, <2>4 DEF ApplyList, worldVars
  <2>5. CASE OutsideChange
    BY <1>0, <2>5 DEF OutsideChange, engineVars, applyVars
  <2>6. CASE Fault
    BY <1>0, <2>6 DEF Fault, RegisterError, StepError, Crash, worldVars
  <2>7. CASE UNCHANGED vars
    BY <1>0, <2>7 DEF vars, worldVars
  <2> QED BY <2>1, <2>2, <2>3, <2>4, <2>5, <2>6, <2>7 DEF Next
<1>3. PICK k \in Ids : RegisterOK(k) \/ RegisterLost(k)
  BY <1>2
<1>4. k = id
  <2>1. Note(k, "reread", 0) \/ Finish(k) \/ Decide(k, "failed")
    BY <1>3 DEF RegisterOK, RegisterLost, registerRetry
  <2> QED BY <1>0, <1>1, <2>1 DEF Note, Finish, Decide
<1> QED BY <1>0, <1>3, <1>4 DEF RegisterOK, RegisterLost, CASHolds

\* The job a register replaces is the one its diff was shown on, and not what it makes.
LEMMA RegisterReplaces ==
    ASSUME CoreInv, [Next]_vars, NEW id \in Ids, Registers(id)
    PROVE  /\ live.body \in {ShownAgainst(id), Absent}
           /\ live.body # Row(id).spec.body
<1>1. app[id].pc = "register" /\ live.index = app[id].cas
  BY RegisterSteps
<1>2. AppTells(app[id], Row(id), live)
  BY <1>1, InFlight DEF Working
<1>3. live.index = 0 <=> live.body = Absent
  BY DEF CoreInv, WorldTypeOK
<1>4. Row(id).spec.body # Absent
  <2>1. Row(id) \in Deployment
    BY Rows
  <2>2. Row(id).spec \in SpecShape
    BY <2>1, WorldAssumption DEF Deployment
  <2> QED BY <2>2, WorldAssumption DEF SpecShape
<1>5. CASE live.index = 0
  BY <1>3, <1>4, <1>5
<1>6. CASE live.index # 0
  <2>1. live.body = Row(id).diff /\ live.body # Row(id).spec.body
    BY <1>1, <1>2, <1>6 DEF AppTells
  <2>2. Row(id).diff # NoDiff
    BY <2>1, StoreAssumption, WorldAssumption, <1>3, <1>6 DEF CoreInv, WorldTypeOK
  <2> QED BY <2>1, <2>2 DEF ShownAgainst
<1> QED BY <1>5, <1>6

\* Invariant 2 of docs/philosophy.md, for every bound: whatever happened since
\* detection (edits, scales, crashes, answers lost, a plan read after the index it goes
\* with), the job a register replaces is the one the recorded diff was computed against.
THEOREM NothingUnseenOverwritten == Spec => NeverOverwritesUnseen
<1> DEFINE P == \A id \in Ids : Registers(id) => live.body \in {ShownAgainst(id), Absent}
<1>1. EngineInv /\ [Next]_vars => [P]_vars
  BY RegisterReplaces DEF EngineInv
<1> QED BY <1>1, EngineInvariant, PTL DEF Spec, NeverOverwritesUnseen

\* Invariant 1 of docs/philosophy.md, for every bound: a register always changes something.
THEOREM EveryRegisterChanges == Spec => NoUselessRegister
<1> DEFINE P == \A id \in Ids : Registers(id) => live.body # Row(id).spec.body
<1>1. EngineInv /\ [Next]_vars => [P]_vars
  BY RegisterReplaces DEF EngineInv
<1> QED BY <1>1, EngineInvariant, PTL DEF Spec, NoUselessRegister

=============================================================================
