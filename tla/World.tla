------------------------------- MODULE World -------------------------------
(***************************************************************************)
(* What the loops of the engine share besides the deployments: the spec in *)
(* git, the job in Nomad, the pauses, the sync window's clock and the last *)
(* detection cycle's observation of the job.                               *)
(*                                                                         *)
(* One managed job.  Everything the engine does is per job, and the store  *)
(* composes jobs (see Store), so one is enough for the loops.              *)
(*                                                                         *)
(* A spec is what the spec hash covers: the job as registered, and with it *)
(* its meta (policy, hooks, window).  The job as registered is a body; a   *)
(* body leaves out the counts of groups with a scaling block, which a plan *)
(* copies from the live job.  So two live jobs with one body differ by a   *)
(* scale only, and a plan's diff is told by the live body it was made on   *)
(* (unless the job moved after its counts were copied).                    *)
(***************************************************************************)
EXTENDS Store

CONSTANTS
    Job,          \* the managed job
    Bodies,       \* jobs as registered
    Absent,       \* no such job in Nomad
    Recount,      \* a diff that shows counts too: see PlanDiffs
    Gone,         \* git no longer has the job
    Broken        \* some file in git does not parse, the job's own among them

SpecShape == [body: Bodies, policy: {"auto", "approval", "none"},
              pre: BOOLEAN, post: BOOLEAN,   \* declares pre-hooks, post-hooks
              window: BOOLEAN,               \* declares a sync window
              canary: BOOLEAN,               \* has canaries a person promotes
              problem: BOOLEAN]              \* a hook it declares is missing or invalid

ASSUME WorldAssumption ==
    /\ Jobs = {Job}
    /\ Specs \subseteq SpecShape
    /\ Absent \notin Bodies
    /\ Diffs = Bodies \cup {Absent, Recount}
    /\ Recount \notin Bodies \cup {Absent}
    /\ Gone \notin Specs /\ Broken \notin Specs /\ Gone # Broken

VARIABLES
    head,         \* the job's spec in the latest git snapshot, Gone or Broken
    live,         \* the job in Nomad: its modify index (0: none) and its body
    raft,         \* the last modify index Nomad gave
    pauses,       \* the pauses in force: "own" on the job, "all" on every job
    windowOpen,   \* whether the sync window is open now
    obs           \* Engine.observations[Job], NoObs if there is none

worldVars == <<head, live, raft, pauses, windowOpen>>

HoldKinds == {"none", "paused", "all", "window"}

NoObs == [spec |-> Gone, drift |-> FALSE, nomadError |-> FALSE, hold |-> "none", blocked |-> FALSE]

-----------------------------------------------------------------------------
(***************************************************************************)
(* Nomad: one modify index per change; a register with a modify index goes *)
(* through only if it is the job's current one (0: only if there is none). *)
(***************************************************************************)
Changed(body) == /\ raft' = raft + 1
                 /\ live' = [index |-> raft + 1, body |-> body]

\* Someone else registers, reverts or removes the job, or scales it (same body).
OutsideEdit == \E b \in Bodies \ {live.body} : Changed(b)
OutsideScale == live.body # Absent /\ Changed(live.body)
OutsidePurge == /\ live.body # Absent
                /\ live' = [index |-> 0, body |-> Absent]
                /\ UNCHANGED raft

\* What a plan of spec s, with the counts of the live job as read at an index, can
\* show now: NoDiff when there is nothing to change; a live job that moved since
\* may have other counts by now, a change of their own.
PlanDiffs(s, index) ==
    {IF live.body = s.body THEN NoDiff ELSE live.body}
    \cup (IF live.body # Absent /\ live.index # index THEN {Recount} ELSE {})

-----------------------------------------------------------------------------
(***************************************************************************)
(* Holds: a person's pause, of the job or of every job, or a closed sync   *)
(* window, which only a job under auto has.                                *)
(***************************************************************************)
WindowClosed(s) == s.policy = "auto" /\ s.window /\ ~windowOpen

holdFrom(own, all, closed) == CASE own -> "paused" [] ~own /\ all -> "all"
                                [] ~own /\ ~all /\ closed -> "window" [] OTHER -> "none"

\* A closed window does not hold the deployment it was lifted for.
holdOn(hold, lifted) == IF hold = "window" /\ lifted THEN "none" ELSE hold

Rerun(id) == Row(id).retryOf # 0 /\ ~Row(id).planDiff

\* Two diffs that show counts are taken to be of different counts.
sameDiff(stored, fresh) == stored \notin {NoDiff, Recount} /\ stored = fresh

\* mutant: the row is written whatever state it is in by now
TransitionOrSkip_blind(id, from, to) ==
    /\ deployments' = [deployments EXCEPT ![id] = Moved(Row(id), to, FALSE, 0)]
    /\ LogEvent(id, from, to)
    /\ UNCHANGED lifts

\* A transition of the engine: skipped on a conflict, like any step that finds
\* the deployment moved by someone else.
TransitionOrSkip(id, from, to) ==
    IF CanMove(id, from, to) THEN Transition(id, from, to, FALSE, 0)
                             ELSE UNCHANGED storeVars

CanKeep(id, in, from) == Row(id).state = in /\ Row(id).cas = from /\ Row(id).applied = 0

MoveCASOrSkip(id, in, from, to) ==
    IF CanKeep(id, in, from)
    THEN MoveCASIndex(id, in, from, to)
    ELSE UNCHANGED storeVars

WorldInit ==
    /\ StoreInit
    /\ \A id \in Ids : Row(id).policy = Row(id).spec.policy
    /\ head \in Specs
    /\ \/ raft = 0 /\ live = [index |-> 0, body |-> Absent]
       \/ raft = 1 /\ \E b \in Bodies : live = [index |-> 1, body |-> b]
    /\ pauses = {}
    /\ windowOpen \in {TRUE, ~head.window}
    /\ obs = NoObs

WorldTypeOK ==
    /\ head \in Specs \cup {Gone, Broken}
    /\ raft \in Nat
    /\ live \in [index: 0..raft, body: Bodies \cup {Absent}]
    /\ live.index = 0 <=> live.body = Absent
    /\ pauses \subseteq {"own", "all"}
    /\ windowOpen \in BOOLEAN
    /\ obs \in [spec: Specs \cup {Gone}, drift: BOOLEAN, nomadError: BOOLEAN,
                hold: HoldKinds, blocked: BOOLEAN]

=============================================================================
