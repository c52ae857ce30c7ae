# A verification project for Nops

Nops (`src/`) is a GitOps controller for Nomad: it compares the jobs declared in
git with the ones that run, and deploys the difference, by itself or after an
approval. These TLA+ modules model the store of deployments, the two loops that
work on it, the hooks deployments run, how commits and files reach detection, who
may do what, and how people log in and out, with the crashes, the failures and the
changes made outside that all of them have to live with. TLC checks them on small
instances; TLAPS proves the safety of the store, the engine, the hooks, the watchers
and the files, access control and logins for every instance.

- [The system](#the-system)
- [The modules](#the-modules)
- [How state and actions correspond to the code](#how-state-and-actions-correspond-to-the-code)
- [The runs](#the-runs)
- [Where the code and its documents disagree](#where-the-code-and-its-documents-disagree)
- [Fairness](#fairness)
- [The proofs](#the-proofs)
- [What is not modelled](#what-is-not-modelled)
- [What is left](#what-is-left)

## The system

| Component | State | Operations | Hard behaviour |
|---|---|---|---|
| **Store** (`internal/store`) | `deployments`, `events`, `window_lifts`, pauses, hook runs, tokens, in SQLite behind one connection | create, transition, record of a register, marks, requests | the only thing two loops and the people agree on; everything else they hold is a copy |
| **Detection loop** (`engine/detect.go`) | observations, parse cache, orphans (memory) | one cycle: git snapshot, pauses, live job, plan, revalidate, create, publish | each read is a request of its own: git, Nomad, pauses and rows move in between |
| **Apply loop** (`engine/apply.go`) | the in-flight set (memory), a row as listed per goroutine | one step of one deployment per goroutine: start, hooks, register, health | a goroutine per deployment, side by side with detection and people; crash or lost answer around the register |
| **People** (`engine/apply.go`, `retry.go`, `deploynow.go`, `hold.go`) | - | approve, reject, retry, deploy now, pause, resume, promote | they act on what a page showed |
| **Nomad** (external, `internal/nomadx`) | live job, modify index | read, plan, register at an index | edited, scaled, reverted, purged by others |
| **Hook runner** (`internal/hooks`) | `hook_runs` | dispatch once, recover, await | a crash around a dispatch; a deadline racing an outcome |
| **Hook revisions** (`engine/hookrev.go`) | jobs in Nomad | register before dispatch, collect | the collector racing a registration |
| **Git watcher** (`internal/gitwatch`) | last good snapshot of each repository, a trigger each, one changed signal | first clone, poll, fetch, signal, trigger | coalesced signals, the head moving between two requests, snapshots read one by one |
| **Files** (`engine/detect.go`, `parsecache.go`, `orphans.go`) | parse cache, observations, orphans (memory) | parse, classify, supersede what is removed, find orphans | a job that is not there and a file that does not parse look alike; results cached at another commit |
| **Meta** (`internal/meta`) | - | parse of a job's keys, sync windows | boundaries of windows that overlap, touch or never close |
| **Access** (`internal/acl`, `store/acl.go`, `web/access.go`) | policies, binding rules, tokens, their log | allow, scope, bind, create, revoke, purge | every check is made some requests before the write it lets through; two modes that share the tokens |
| **Login** (`internal/web`, `internal/cli/login.go`) | failure counts, slots and codes (memory), cookies of browsers, the file of the command line | log in, come back from the provider, exchange a code, paste a token, log out | tabs and browsers side by side; answers lost, late, or opened elsewhere; a new process in between |
| **Notifier, metrics, redaction, config, pages** | - | - | stateless towards the engine |

The loops meet only in the store and in Nomad. Detection reads git, the pauses,
Nomad and the store, writes deployments and replaces the observations; the apply
loop reads active deployments, writes their states and registers in Nomad; people
read observations and rows and write decisions. A write of a row is guarded by
the state (or the index) its author believes the row has; a register is guarded
by the modify index. The watchers share one signal with detection; a request to the
API or the dashboard is let in by a token and its policies, and what it then does is
one of people's actions. Everything below is about whether those guards are enough.

What makes each component correct:

- **Store**: at most one active deployment per job; a state and its event are
  written together, so the log explains the row; what was approved never changes;
  terminal is final; the CAS index is frozen once the register is on record; seen
  from afar, a deployment is an attempt that waits, may run, and ends once.
- **Engine**: a register never overwrites a change nobody was shown (invariant 2
  of `docs/philosophy.md`) and always changes something (1); nothing under
  approval starts or reaches Nomad undecided (3); what reached Nomad is never
  filed as superseded or rejected; a retry and a Deploy now create what was asked,
  once; started deployments end; drift is deployed or reported; a pause puts
  aside what waits.
- **Hooks**: a hook runs at most once, and its outcome is final and never guessed;
  hooks run in order and a phase goes on only past successes; a hook out of time is
  stopped; a phase ends whatever becomes of its children, once errors and crashes stop
  coming; a revision an active deployment is about to dispatch is not collected.
- **Git watcher and files**: the last commit of a quiet branch is detected; what
  detection says of a job is what its one file says, at the commit it names; nothing
  is taken for removed by a cycle that has not read every file.
- **Meta**: a window is open or closed until the time that was told.
- **Access**: nobody changes what their token, in this mode, does not let them; a
  deny that stood all along holds whatever is rewritten meanwhile; lists and checks
  agree; the log explains every token; a revocation takes all it names.
- **Login**: a session goes once, to who began its login, and is of who
  authenticated; it ends with its logout; the limit bounds the guesses.

## The modules

| Module | What it is |
|---|---|
| `Attempts` | the abstract specification: attempts of jobs, as `docs/deployment-lifecycle.md` describes them |
| `Store` | the deployments table, the audit log and the Deploy now requests; one operator per method; `StoreSpec` is the store under any caller |
| `StoreProofs` | theorems about `Store`, proved with TLAPS |
| `World` | what the loops share besides: git, the live job, pauses, window, observation; holds and diffs |
| `Detection` | the detection cycle, one step per read or write |
| `Apply` | the apply cycle and the step of each goroutine |
| `Engine` | the composition: detection, apply, people, crash, outside changes, fairness and the engine's properties |
| `EngineProofs` | theorems about `Engine`, its refinement of `Attempts` included, over `StoreProofs` |
| `HookOnce` | the abstract specification of a hook run: at most one run, one outcome |
| `Hooks` | hook phases, the runner, the revisions and their collector, over `hook_runs` and Nomad's children |
| `HooksProofs` | theorems about `Hooks`, the refinement of `HookOnce` included |
| `Meta` | the keys of a job, their issues and fallbacks; sync windows |
| `Watch` | the watchers of all repositories, the detection loop's reading of files, observations, removed jobs, orphans |
| `WatchProofs` | theorems about `Watch`: no wake-up lost, what is told and removed |
| `ACL` | policies, what an ACL allows, scopes of lists, binding rules |
| `Access` | policies, rules, tokens and their log in the store; requests of the API and the dashboard; the session a login makes |
| `AccessProofs` | theorems about `Access`: the log of tokens and what a request is let in with |
| `Login` | local users, the provider, cookies, the command line, logouts, over `Access` |
| `NumberProofs` | what is least, what is greatest, what comes again: facts for the proofs |
| `LoginProofs` | theorems about `Login`, its refinement of `Access` included |
| `RequestProofs` | theorems about requests and `ACL`: who may change what, denies, scopes, recursive revocations |
| `MCStore`, `MCEngine`, `MCHooks`, `MCWatch`, `MCAccess` | instances for TLC |

`World` extends `Store`; `Detection` and `Apply` extend `World`; `Engine` extends
both. `Watch` extends `Meta`, `Access` extends `ACL` and `Login` extends `Access`.
`Store` instantiates `Attempts` and `Hooks` instantiates `HookOnce` for the
refinements; `Login` refines the specification of `Access` it extends.

`Hooks` is apart from `Engine`: `Apply` takes the outcome of a phase (succeeds,
fails, still runs) as a choice, which every outcome `Hooks` reaches is one of, and
`Hooks` takes what happens between phases as one. `Watch` is apart too: `Detection`
is what a cycle does with one managed job from the moment its file has been read,
`Watch` what a cycle does with all files until then, and after it with jobs that no
file declares. `Access` ends where a handler calls the engine; the action it calls
is one of `Engine`'s.

## How state and actions correspond to the code

**Store.** `deployments` is a sequence: an ID is a position in creation order, the
order `LatestDeployment` and `ListActive` sort by. Columns only ever tested for
being set are Booleans; text columns are left out; `applied = 0` is a NULL
`applied_index`. `Open()` allows one connection, so a method is one step. Its
guard is the `WHERE` clause of its `UPDATE` or the unique index; a call that
returns an error is a stuttering step. `CreateDeployment` writes the row, all its
first events and uses up a Deploy now request in one step, as its transaction
does.

**World.** One managed job: everything the engine does is per job, and `Store`
composes several. A spec is what the spec hash covers. The job a spec registers is
its `body`, which leaves out the counts of groups with a `scaling` block, since a
plan copies those from the live job: a scale changes the index and not the body.
The hash of a diff is told by the live body it was computed against, except that a
plan made with counts that have moved since shows those too (`Recount`), and is
then equal to no other.

**Detection.** `detectMu` lets one cycle run, so `det` is one record, its `pc`
where the cycle is. `DetectBegin` reads the git snapshot and the job's pause,
`DetectHolds` the pause of every job, the requests and the clock, `DetectLive` and
`DetectPlan` are the two requests to Nomad, `DetectActive` to `DetectCreate` are
`reconcileDeployment` with a step per read or write of the store, `DetectDrop`
the deletion of a request not used, `DetectPublish` the observations, and
`DetectRemoved`, `DetectSupersede` the end of a cycle for a job git no longer has.
`DetectNomadError` and `DetectAbort` are its error paths.

**Apply.** `app[id]` is the goroutine of a deployment: the columns of the row as
listed that are rewritten elsewhere (state, CAS index, applied index, promotion),
what it has read since, and the transition it is about to write. `ApplyCycle`
lists and starts what is idle; `ApplyList` and `ApplyStart` separate the listing
from the start for a deployment in flight, because only then it matters. Steps
are named for the functions: `StepDetected`, `StepHook`, `StepRegister`,
`StepPlan`, `RegisterOK`, `StepReread`, `StepSetApplied`, `StepHealth`... A lost
answer (`RegisterLost`) is a register Nomad took and Nops sees as an error.
`expired` says that `ApplyTimeout` has passed since the event that entered
applying, or since the promotion. The model keeps one piece of history,
`registered`: the deployments a register of which reached Nomad.

**Engine.** `Approve` reads the row, the observation and the job's pause;
`ApproveAll` the pause of every job; `ApproveDecide` writes. `Promote` reads the row
and what Nomad says of the canaries, `PromoteRequested` writes who asked, and
`PromoteRecorded` that they are promoted, if the apply loop has not seen it first.
`Retry` and `DeployNow` write their request; the cycle they run is the next to begin.
`Crash` drops what is in memory: the cycle, the observations, the goroutines and the
approval or the promotion in progress.

**Watch.** A watcher is at a state of its goroutine: `Start` is the first clone,
`poll` the request for the head, `fetch` the clone that may hold a later commit than
the one asked for, `signal` the send on the channel all repositories share, which
holds one; `pollFails` and `fetchFails` are the errors. A commit is a set of entries
in a tree, and a file's content one of a few. `runOnce` takes one signal or none (the
ticker), `readSnapshot` reads one repository at a time, `parseFiles` asks Nomad for
what the cache of the last cycle does not hold, for some of which Nomad may not
answer; then `classify`, `reconcileJob`, `replaceObservations`, `supersedeRemoved`,
`findOrphans` and `setOrphans` in the order of `detect`. `Abort` is a cycle that
ends on an error. History: `told`, `checked` and `gone` keep the snapshots the
observations, the orphans and the last removal were made of.

**Meta.** `Parse` reads the keys with every issue and fallback. A time is a number;
an expression is the set of the times it matches, periodic, perhaps with a last one,
and `NextMatch` what the cron library answers. `NextClose` is stated over the same
successive starts the code's loop visits, `MaxCloseSteps` at most.

**ACL.** A policy is the rules its blocks make, a label a sequence of letters and
stars. `Match` says what `path.Match` answers for such a label: each character of the
name goes to a place of the label, in order, a literal takes exactly its like and a star
any number. `Allow` follows the code's choice of the most specific blocks, `Scope` its
levels; `ScopeAgrees` compares the two on every ACL a request ever reads.

**Access.** `policies`, `rules`, `live`, `born` and `log` are the tables; a token's
columns never change, so `born` keeps them, `live` says which rows there are and
`expired` whose time has passed. `requests[q]` is a request from its token
(`tokenSubject`) through its policies, read one at a time (`clientACL`), the check
of its route and its handler, which may read, answer, and write in a later step
(`putBindingRule`, then `PutBindingRule`; `revokeTokens`, then `RevokeACLTokens`).
`apiEndpoints` and `pageRoutes` are the tables of routes that change something; an
action asked of the engine is on a job of a namespace or, like the pause of every job,
on everything, and `Act` records which. A login's session takes three steps: `bindLogin`,
`purgeTokens`, `createSession`.
`Restart` starts a process in either mode. History: `swept` are the tokens that
ended revocations were about, worked out from the rows when they were asked; in a
request, `barred` are the denies in force all along since it was let in, and `given` the
capabilities on everything that a policy of its token has given at any time since.

**Login.** `cookies[b]` are a browser's three; `flows[f]` who began a login through
the provider, `answers` what the provider sends back, which may be opened in any
browser; `visits[l]` is a request in progress: waiting for a slot, comparing,
answering, leaving. `codes` are the command line's, `clients[k]` its runs and what
they saved. The challenge of a code is the run whose verifier it was made of. Two
clocks are sets, `lapsed` and `late`. `NewProcess` is `Restart` with the counts, the
codes and the key of cookies lost. History: `handed` and `ended`.

**Hooks.** A run is named by its token, deployment, phase and position. `ListActive` is
the read of `applyCycle`: `listed` are the rows in a hook phase as they were then. `Begin`
comes to one of them, at any later time, and starts a goroutine if none is in flight: on
the phase of the row as listed, for nothing reads the state again. The deployment may
have failed or moved on since; `Transition` then changes nothing, as the guard of
`store.Transition` has it. `work[d]` is that goroutine, its `pc` the next request or
write: `ReadLive`, `Plan`, `Register` are `registerRevision`; `Ensure` is
`EnsureHookRun` and the branch `Run` takes on it; `Validate`, `Mark`, `Dispatch`,
`SaveChild` are `dispatch`; `RecoverChild` is `recoverChild`; `AwaitJob`,
`AwaitAllocs`, `Stop` are the poll of `await`; `Finish` is the save of an outcome
and `Result` what `stepHook` makes of it. Two clocks are sets: `late`, the hooks
whose timeout has passed since `hookStart`, and `overdue`, since `started_at`. A
child has a status and the set of the states of its allocations; `unplaced` says
that a group still waits for room. A dispatch Nops gave up on stays on the `wire`
and may reach Nomad at any later time. The collector is `GCList`, `GCUsed`,
`GCStop`, one step per request; detection runs it at the end of its cycle, so a
deployment is created only while it is idle. History: `started` counts the children
Nomad started for a run, `completed` are the runs that ended well.

Simplifications, none of which removes a write: the git snapshot and the pauses
of jobs are read in one step, and so are the pause of every job, the requests and
the clock; a pause and the change of the observation that follows it are one
step; hooks are the outcome of their phase; the health of the version registered
is any verdict, once the live index has been looked at; conversions that fail
(a spec that does not decode) are not modelled. In `Hooks`: the checks of a
registered revision before its dispatch (role, type, meta) are one flag; a
deployment made before hooks were frozen is left out, and so is `hookStart`'s
fallback when the previous run cannot be read; what a child does once its run is
settled is left out, except a dispatch that arrives late; nobody else registers or
stops a revision. In `Watch`: a commit's subject, author and links are left out, and
the vars of Nops are the commit; whether a job drifts is `Detection`'s. In `Access`
and `Login`: a selector is whom it matches, names and descriptions are left out, an
error of the store is an answer without a write, and what bounds the memory of the
limit and of the codes is left out.

## The runs

| Run | Instance | Shows |
|---|---|---|
| `store` | 2 jobs, 2 rows, 5 events, indexes to 1 | types; one active deployment per job; audit trail; frozen and terminal columns; CAS index frozen; refinement of `Attempts` |
| `engine_crash` | auto; an edit and a fault, anywhere; 2 deployments | every register replaces the live job its recorded diff was computed against (or none), and changes something; nothing registered is put aside |
| `engine_review` | every family of specs: under approval, with a missing hook, under `none`, or `auto` with a sync window; a commit, a pause, a late cycle or an error; up to 3 deployments; 1.49 million states | nothing unapproved starts or reaches Nomad; retries and Deploy now create what was asked, once; types |
| `engine_converge` | auto, an edit, 2 deployments, fair | once things are quiet, the job is live as in git or reported blocked |
| `engine_live` | pre- and post-hooks, canaries; an edit, a pause, a promotion or a fault; fair | started deployments end; a lasting pause puts aside what waits; every write of the engine is one `StoreNext` allows |
| `hooks` | a deployment of one or two hooks, in one phase or in both, the second possibly one the runner refuses, with up to 2 errors or crashes, beside one without hooks; or without them beside one that shares its revision; cycles late for what they listed; fair; 330,725 states | types; refinement of `HookOnce`; order of hooks and phases; a timed out hook is stopped; the collector spares what an active deployment is about to run; every phase ends |
| `access` | 2 requests, 3 logins, 2 browsers, 2 runs of the command line, 2 flows, 4 tokens; eight beginnings; symmetric in requests, logins and browsers; 327,644 states | nobody changes what they may not; the log explains every token; revocations take all they name; denies hold; lists agree with checks; guesses are bounded; sessions go home and end with their logout |
| `watch` | 2 repositories, of 3 and 7 commits, 4 jobs, 5 kinds of beginning; fair; 238,686 states | no wake-up is lost and every commit reaches detection; a job is told as its file says; nothing is taken for removed unread; windows do what was told |
| `hook_abandoned` | one deployment, 2 errors or crashes | fails: see below |
| `hook_partial` | one deployment, with a hook of several groups; 1 fault | fails: see below |
| `applied_is_ours` | auto, an edit | fails: see below |
| `registers_only_applying` | auto, a late cycle and a fault | fails: see below |

Deadlock is checked in `store`, in the other runs of the engine and in `watch`. Three
passing runs do without: in `hooks` the deployments end for good, and nothing is left to do
when all are over and the collector has stopped their revisions
(`HookPhaseEnds` is what excludes a wait for ever); `engine_review` stops where the
next step would leave its bounds; and in `access` a budget that is spent leaves a
browser or a command line nothing to ask for.

**Bounds.** Each kind of outside event has its bound (`MaxCommits`, `MaxEdits`,
`MaxHolds`, `MaxLaps`, `MaxFaults`) and `MaxTurns` bounds all of them together;
a promotion asked for counts as one of `MaxHolds`;
`MaxDeployments` bounds the rows, `MaxIndex` and `MaxEvents` the indexes and
events `StoreNext` ranges over. The steps of the loops, of approvals, retries,
Deploy now and resumes are not bounded. An event may fall between any two steps,
so that one of them already gives every race of two actors with it; two (an edit
and a crash) are allowed where a property is about what recovery makes of an edit.
Two deployments give a successor to every deployment, three a successor to a
retry. Longer histories repeat these: a row's later life depends only on the
latest row of its job. Initial states include a live job of either body or none,
a closed window, and the row an older Nops left `detected` under approval.

`engine_review` has an action constraint besides (`FamilyKept` in `MCEngine`): a
windowed job has no pause, no late cycle and no third deployment after a commit, and
a reviewed one no error and no third deployment. What is left out is the same races
with one more row behind them; the third deployment is for the retry of a retry.

In `Hooks`, `MaxPosition` bounds the hooks of a phase, `MaxHooks` those of all
deployments and `MaxFaults` the errors and crashes. Two hooks are what order needs;
two faults allow a crash around a dispatch and an error or a second crash in its
recovery, or a late dispatch and then a crash. One is enough for a goroutine on a stale
row: an error fails the deployment that a cycle has listed. How many there are depends on
what the deployment declares (`BudgetKept` in `MCHooks`, an action constraint): two with
one hook, one with two, of which the second is refused or in the other phase, and none
with two in a phase that can both end well; none before it is created, when they would
change nothing. The shared revision needs no fault:
the deployment that shares it begins in `applying`, and the collector finds the
revision unused as it does between any two uses. The indexes and the counts of
`started` are not bounded: the first grows only with a register or a stop, each of
which needs the other before it, and deployments are few.

In `Watch` and `Access` what may happen from outside has a budget for each kind
(`left`, `room`), and the beginnings of `MCWatch` and `MCAccess` give each a budget
for one kind of trouble: `Pushes` (two, and a failed poll or fetch), `Asks` (a
webhook, a write that asks for a cycle), `Changes` (any commit to any other, with
Nomad failing for any file or job, and jobs stopped), `Again` (a restart), `Windows`
(the clock from its start to `MaxClock`); `Policies` (rewritten under requests),
`Chain` (tokens that created tokens, revoked both ways), `Modes` (a restart in the
other mode), `Edits` (rules and tokens made of policies that go), `Provider`,
`Terminal`, `Browser`, `Guesses`. Steps of the loops are never bounded. The commits
of `MCWatch` hold every outcome a file can have (parsed, broken, nameless, of
another's job, twice, a hook, out of Nops's hands, with and without vars), and the
windows overlap, touch, are apart, never close, or have a last one; `MaxClock` is
past two periods of each and `MaxCloseSteps` past the windows that run into each
other in one. Three logins with a limit of one failure and two slots are the first
number for which the limit, a slot and a wait are all in use at once; two browsers
and two clients are who could be taken for one another.

An exception is part of `NeverOverwritesUnseen`: a job purged since the
diff was computed has nothing left to overwrite (its index is 0, as that of a job
that never was).

Each property has a mutant of a mapped definition that breaks it: a dropped
`AND state = ?`, an unenforced register index, a first event written later, a
timeout not looked at, and so on (operators named `<definition>_<what is
wrong>`, next to the definition they alter).

## Where the code and its documents disagree

- **`AppliedIsOurs`** (`apply.go:422`). After a register the live job is read
  again for the index to record, though the answer to the register holds it. An
  edit in between is recorded as the deployment's own, and its allocations then
  count as the deployment's health. The comment at `apply.go:626` says that they
  do not.
- **`NoHookAbandoned`** (`apply.go:245`). A step that starts over registers the
  revision of each hook again before it asks the runner what became of it, one that
  is running or done included. One Nomad error on that register, once the hook's
  time has passed, fails the deployment; the dispatched hook is neither awaited nor
  stopped, though `docs/hooks.md` says that it is.
- **`SucceededRan`** (`outcome.go:52`). A hook of several groups, one of which never
  found room, that is stopped when the others have completed is dead with every
  allocation complete: it is recorded as a success. The comment of `evaluate` takes
  waiting for the child to be dead to be enough.
- **`RegistersOnlyApplying`** (`apply.go:67`). A cycle works on rows as it listed
  them. A goroutine in flight at the listing that fails its deployment and ends
  before the cycle comes to it leaves the way free for a second one on the stale
  row, which registers a deployment that has failed. The comment at `apply.go:54`
  takes the in-process set to be enough.

The CAS index bounds the harm of the last: what is registered still replaces only what
the diff was shown against. That is `NothingUnseenOverwritten`, which is proved with late
cycles (`engine_crash`, which checks it on an instance, has none).

The same race exists in a hook phase, and `Hooks` has it (`Begin`). The goroutine in
flight cannot register the revision of its hook in time, fails the deployment and ends;
the second one, on the row as listed, registers the revision and dispatches the hook of a
deployment that has failed, since `stepHook` (`apply.go:214`) never reads the state again.
Nothing keeps the collector from stopping that revision meanwhile (`store.go:880` counts
active deployments only), so `RevisionReady` is stated of those. What bounds the harm
there is the token of the run: it is still started once at most, and after those ahead of
it (`RunsOnce`, `InOrder`).

Without a run of its own: `docs/hooks.md` ("After a crash, Nops can dispatch a hook
again for the same deployment") is more careful than the code, which never does;
`ImplementsOnce` holds, as `docs/deployment-lifecycle.md` says. Four more, which
`Watch` and `Access` model as the code has them and no document rules out in so many
words:

- `docs/architecture.md:77` ignores both of two files that declare the same job. If
  Nomad does not answer for one of them, only the other is there to classify
  (`detect.go:327`), and it is reconciled alone in that cycle. `ToldFromGit` is
  stated of the files Nomad answered for.
- `Group.Snapshots` reads the repositories one by one (`group.go:70`). A job that
  moves from one to another in between is in neither as read, and is taken for
  removed until the next cycle. `NothingTakenForRemoved` is stated of what was read.
- `NextClose` gives up after `maxCloseSteps` windows that run into each other
  (`meta.go:268`) and says that the window never closes; the page then shows no time.
- `docs/api.md:31` and `:65` revoke, with a token's tokens, "the tokens those
  created". The query walks the rows still there (`store/acl.go:461-466`): a token
  in the middle of the chain that was revoked or purged before leaves those it
  created out of reach. `SweepComplete` is stated of the chains there are.

## Fairness

`FairSpec` asks weak fairness of: the detection cycle (`RunDetection` ticks every
`DriftInterval` whatever happens, and a cycle has no wait without a timeout), the
apply cycle (`RunApply` ticks every `EngineInterval`), the start of listed rows,
each goroutine's next step, the passing of the apply timeout, and an approval
request that has begun. Health that never arrives is always possible; errors, lost
answers and crashes are possible at any step, as many as `MaxFaults` says, so what is
shown of liveness is about a Nomad and a store that fail finitely often. Nobody
is fair: no person ever has to approve, retry, resume or
promote, and nothing outside has to happen or to stop. A liveness property whose
premise is that something stays (a pause, a spec) says so with `<>[]`.

In `Watch`, weak fairness is asked of each watcher's steps and of the detection
loop's, those that do not fail: every loop has its ticker (`gitwatch.go` `Run`,
`engine.go` `RunDetection`) and every request a timeout. Polls, Nomad and the store
fail finitely often, as their budgets say; nothing is asked of webhooks, people or
the clock. `CommitReachesDetection` therefore does not depend on a signal, a trigger
or a push arriving.

In `Hooks`, weak fairness is asked of the apply cycle (it lists at each tick, and comes
to every row it listed), of each goroutine's next step (no request waits without a
timeout) and of the passing of each hook's timeout. Nothing is asked of children: one
may be pending or run for ever; nor of the collector or of people. Errors and crashes are
finitely many.

`Converges` excludes two cases by name: canaries that wait for a person, and a
cycle that stops at the bound on rows.

## The proofs

| Module | Proves | Assumes of the constants |
|---|---|---|
| `StoreProofs` | the store, and that it makes attempts | `StoreAssumption` |
| `EngineProofs` | the engine's safety and action properties, and that it makes attempts | `StoreAssumption`, `WorldAssumption`, `EngineAssumption` |
| `HooksProofs` | the hooks, and that each runs once | `HooksAssumption` |
| `WatchProofs` | wake-ups, what is told, what is taken for removed, windows | `WatchAssumption`, `FilesAssumption`, `WindowAssumption`, `MetaAssumption` |
| `NumberProofs` | facts about numbers for `WatchProofs` and `RequestProofs` | |
| `AccessProofs` | the log of tokens | `AccessAssumption` |
| `LoginProofs` | logins, and that they are logins of `Access` | the above and `LoginAssumption` |
| `RequestProofs` | who changes what, denies, lists, recursive revocations | the above and `PolicyAssumption` |

TLC evaluates each assumption in the runs of its module. What they say is that inputs
are of their kinds, and besides, each from the code:

- `EngineAssumption`: bounds are numbers and there is room for the one row of an older
  Nops a database may open with (`MaxDeployments # 0`).
- `WorldAssumption`: there is one managed job, no diff is taken for the absence of a job,
  and a head is a spec or one of the two marks (`Gone`, `Broken`).
- `FilesAssumption`: a commit has finitely many files and a job file's content is one
  Nomad reads or does not. `WatchAssumption`: the jobs deployed in managed namespaces are
  among the jobs, and remotes begin at commits they have.
- `WindowAssumption`: times are numbers and the zero time is none of them; a key that
  parses is an expression that repeats, perhaps up to a last time.
- `PolicyAssumption`: the name of a namespace has no star and a label is of the
  characters of `labelPattern` (`acl.go:57`); a token that can do everything is created
  without policies, and a session with a person and an end; tables are finite.
- `AccessAssumption`, `LoginAssumption`: the bootstrap token has no row, no name is taken
  for a missing one, a limit and a number of slots are at least one, and browsers and
  runs of the command line are apart.

**Store** (`StoreProofs`), under any caller:

| Theorem | Statement |
|---|---|
| `StoreInvariant` | `StoreSpec => []StoreInv` |
| `StoreTypes` | `StoreSpec => []StoreTypeOK` |
| `Serialized` | `StoreSpec => []OneActivePerJob` |
| `Audited` | `StoreSpec => []AuditTrail` |
| `OnlyProgress` | `StoreSpec => RowsOnlyProgress` |
| `CASFixed` | `StoreSpec => CASFixedOnceApplied` |
| `RowsAreAttempts` | `StoreSpec => ImplementsAttempts` |

The invariant is the conjunction of the types, the lock and the trails, and each
needs the others: a trail can be extended only because the last event ends at the
state the row has, and the lock is kept by an update only because no transition
enters the active states from outside them (`MovesLeaveActive`). Every write but
the creation rewrites one row and appends at most one event; that is stated once
(`Rewrites`), each method is shown to be such a rewriting
(`TransitionRewrites`...), and `RewriteKeeps` proves the invariant for all of them
at once, with the two action properties as parts of what a rewriting is.
`CreateKeeps` is the other case. The refinement takes the same two: seen from afar a
rewriting ends, starts or leaves alone one attempt, and a creation adds one for a job
that has none open, which is the lock.

**Engine** (`EngineProofs`), whatever happens outside and in whatever order:

| Theorem | Statement |
|---|---|
| `EngineInvariant` | `Spec => []EngineInv` |
| `EngineTypes` | `Spec => []EngineTypeOK` |
| `NothingUnseenOverwritten` | `Spec => NeverOverwritesUnseen` |
| `EveryRegisterChanges` | `Spec => NoUselessRegister` |
| `ApprovedFirst` | `Spec => []ApprovedBeforeStart` |
| `NeverDropped` | `Spec => []RegisteredNeverDropped` |
| `FaithfulRetries` | `Spec => []RetriesAreFaithful` |
| `LiftsAreSpent` | `Spec => LiftIsSpent` |
| `OneAtATime`, `EngineAudited` | `Spec => []OneActivePerJob`, `Spec => []AuditTrail` |
| `EngineOnlyProgress`, `EngineCASFixed` | `Spec => RowsOnlyProgress`, `Spec => CASFixedOnceApplied` |
| `EngineMakesAttempts` | `Spec => ImplementsAttempts` |

What makes these hard is that nobody works on the row itself: a cycle has the rows as
listed, a goroutine its copy of one, detection a live job read some requests ago. The
invariant is that every copy is still true of what it was taken from, in the one sense
that a step may rely on (`CopyTells`): a row that was applying when copied is applying
or has come further, one that had started under approval was decided, and *if the live
job still has the index of the copy* then its body is the one the diff was told on
(`ToldAt`). The last is an implication on purpose. Nomad gives each index once, so
`ToldAt` is kept by anything that happens to the live job, edits included
(the first lemmas of the module), and it is all a register at an index needs. The same
is said of the rows (`RowsHold`), of what is listed (`ListedHolds`), of the goroutines at each
of their steps (`AppTells`) and of the cycle at each of its own (`DetTells`, with
`RetryTold` for the retry it is about to make). A copy only goes stale through a row's
progress or the live job's, so one lemma for each carries all copies over a step.
`Goes` says what is shown of each action: the invariant goes on, rows only progress, and
the table is rewritten a row at a time, or by the creation a cycle asks for (`Stores`).
The refinement of `Attempts` is that last conjunct with the lemmas of `StoreProofs`.
`UsedHolds` adds the budgets, which bound nothing these theorems are about but give the
types.

**Hooks.** `HooksProofs`, for every set of deployments and revisions, every declared
list of hooks and all bounds, except where the table says more:

| Theorem | Statement |
|---|---|
| `HooksInvariant` | `Spec => []HooksInv` |
| `HooksTypes` | `Spec => []HooksTypeOK` |
| `TimedOutAreStopped` | `Spec => []TimedOutStopped` |
| `RevisionsReady` | `Spec => []RevisionReady` |
| `SuccessesRan` | `Spec => []SucceededRan`, if `Partial = {}` |
| `InOrder` | `Spec => []PhaseFollowsHooks`, if `Partial = {}` |
| `RunsOnce` | `Spec => ImplementsOnce`, if `Partial = {}` |

`Partial = {}` leaves out the hooks of several groups: with them a stopped hook may
be recorded as a success without having been one (`hook_partial`), so the three
statements about what ended well are false without it.

None of these properties is inductive. `HooksInv` says what a goroutine knows at
each of its steps of the row and the child it works for (`RowOK`: at `dispatch` the
row says running, nothing has been started and nothing is on the wire), that it
is at one of the hooks of its phase, of a deployment that has begun (`WorkOK`; not that
the deployment is still in that phase, since the row may have been listed before it
failed), that what is listed has hooks (`ListedOK`), what a row says of the children and
dispatches behind it (`RunOK`: one dispatch or late dispatch at most, and only from a row
already marked), what the phase says of the hooks (`PhaseOK`, `OrderOK`), and that what
the collector is about to stop no active deployment needs (`StopsUnused`). Hence a
goroutine's revision is up from its register to its dispatch as long as its deployment is
active (`Ready`), which it never is again once it has ended; `GroupsOK` ties
complete allocations to good ends. Almost every step changes one goroutine and the
run it is at: `FrameKeeps` reduces such a step to that deployment and that run,
`LocalKeeps`, `WriteKeeps`, `NomadKeeps` and `MovedKeeps` to steps that change only
what the goroutine holds, its row, its child, or its deployment's state, and one
lemma per group of actions gives the rest. The refinement follows from the same
invariant: `started` changes only where it is 0 (`OnceDispatched`), an outcome is
written only over an unsettled one (`OnceSettled`), and every other step is a
stutter.

**Watch** (`WatchProofs`), for any number of repositories and any files and jobs:

| Theorem | Statement |
|---|---|
| `WakeupInvariant` | `Spec => []WakeupInv` |
| `NoWakeupLost` | `Spec => []NoLostWakeup` |
| `ReadInvariant` | `Spec => []ReadInv` |
| `WatchTypes` | `Spec => []WatchTypeOK` |
| `ObservationsTold` | `Spec => []ToldFromGit` |
| `RemovedRightly` | `Spec => []NothingTakenForRemoved` |
| `WindowsKept` | `Spec => []WindowTold`, if `GivesUpRightly` |

`NoLostWakeup` says that a snapshot is read, signalled, about to be, or ahead of the
cycle that reads. It needs one more fact to be inductive: no cycle begins before every
watcher has its first clone (`NotBegun`), or a first clone would be passed over
without a signal.

`ReadInv` is about what is read. Each snapshot, a watcher's or a cycle's, is the job
files of one commit (`GitTold`). An entry of the cache is what Nomad makes of the very
files and commit its key names (`CacheTold`): `commitVars` puts the commit into the vars
and so into the key, hence an entry kept from another cycle tells nothing else. From this the
outcome of each file in a cycle is the one a cycle without a cache would reach
(`AsRead`), and what a cycle holds at each of its steps is stated as a function of its
snapshots and of what Nomad did not answer for (`WorkTold`): the observations, the jobs
seen, and, once it comes to what was removed, that no file was left unparsed.
`ResultsTold` says it of what was published. The two properties follow, with one lemma
for when a file is the only one that may be a job's.

`WindowsKept` is about what a page said of a window and what the clock made of it since.
`NextIs` is the one fact about expressions: the next match, looked for in one span only,
is the first of all that follow, since what comes every so many comes again
(`CameBefore`, in `NumberProofs`). A closed window then stays so until `NextOpen`
(`ClosedTold`), an open one until `NextClose` (`OpenTold`): the latest start before a time
still covers it, or the windows would have ended at that start. `SaidInv` says that an
observation's window is what `windowStatus` answered at some time past. `GivesUpRightly`
is the hypothesis that `NextClose` reaches `MaxCloseSteps` only for a window without end,
without which the property is false (see above); `MCWatch` assumes it of its windows, so
TLC checks it of them.

**Access.** `AccessProofs`, for every set of tokens, policies, rules, requests and logins
and every beginning:

| Theorem | Statement |
|---|---|
| `AccessInvariant` | `Spec => []AccessInv` |
| `StoryTold` | `Spec => []TokenStory` |

A request writes long after its token was looked up, when the row may be gone, so
the invariant remembers in the request what it was let in with (`Served`): its
subject is the bootstrap token with the ACL on, or a token issued in this mode that
is a management token if the subject can do everything; and a request past its check is
one whose subject could pass it. `Logged`
is the form of `TokenStory` that a step keeps, with the one creation named. Each
action is shown to add to the log nothing (`LogSame`), one creation, or the
revocations of what it deletes, by someone entitled to it.

**Requests** (`RequestProofs`), for every policy, label and namespace; `Spec` is that of
`Access`:

| Theorem | Statement |
|---|---|
| `RequestInvariant` | `Spec => []RequestInv` |
| `AccessTypes` | `Spec => []AccessTypeOK` |
| `LogAuthorized` | `Spec => ChangesAuthorized` |
| `LogAuthorizedThrough` | `LoginSpec => ChangesAuthorized` |
| `DeniesHold` | `Spec => []DenyHolds` |
| `ScopesAgree` | `Spec => []ScopeAgrees` |
| `SweepTakesAll` | `Spec => []SweepComplete` |
| `AccessThrough` | `LoginSpec => [](AccessTypeOK /\ SweepComplete /\ DenyHolds /\ ScopeAgrees)` |

Three things come together here. *A name decides*: no label that matches a namespace is
more specific than its name (`NameFirst`: a place of the label that is not a star takes
one character of the name each, so there are no more of them than characters), hence a
policy that denies by name is among the deciding blocks of any ACL that holds it, and one
denying block decides (`DenyDecides`). *A list is a check* (`ScopeIsAllow`): the first level of
a scope with a matching label is that of the most specific matching blocks. *A
recursive revocation reaches its end*: `StepsExist` shows that the query's iteration, a
recursive function of the number of steps, exists, and `StepsClose` that after as many
steps as there are tokens nothing is left to add, since each step that adds something
adds a token; `SweepNamesAll` draws the conclusion for each kind of revocation. The last is an
induction on numbers, which this prover cannot take from its library; it goes by least
counterexample instead (`LeastNat`, which `NumberProofs` takes from the well-foundedness
of inclusion on finite sets).

`DenyHolds` is not inductive: a request reads its policies one at a time while others
write them. `Barred` says that what has denied it all along is still to be read, and then
still denies, or has been read, and is then in the request's ACL.

`ChangesAuthorized` asks two things of a step. What it logs is by someone entitled to it:
the bootstrap token, one that can do everything in this mode, one that revokes itself, a
login that makes its session. And a request that takes a backup, or does something to
everything, has a token that can do everything or one of whose policies has given that
very capability since the request was let in: not one with other policies, and not by an
ACL put together wrongly. The second half needs what a request has read to be bounded by
what it was given (`GivenOK`): a policy read is in `given` because it was added when it
was in force, at the lookup of the token or at a later write. `GivenLets` draws the
conclusion for a capability the request's ACL lets through, `StepLets` for the step that
acts.

`DenyHolds` speaks of actions on jobs of a namespace. An action on everything (the pause
of every job, a cycle) is let through by a capability of its own (`acl.go` `Global`), which
no block of a namespace denies: `Act` records no namespace for it.

**Login.** `LoginProofs`:

| Theorem | Statement |
|---|---|
| `LoginInvariant` | `LoginSpec => [](AccessInv /\ LoginInv)` |
| `LoginIsAccess` | `LoginSpec => Spec` |
| `StoryToldThrough` | `LoginSpec => []TokenStory` |
| `SessionsGoHome` | `LoginSpec => []GoesHome` |
| `NeverTwo` | `LoginSpec => []OneIdentity` |
| `LogoutHolds` | `LoginSpec => []LogoutEnds` |
| `GuessesHeld` | `LoginSpec => []GuessesBounded` |
| `LoginTypes` | `LoginSpec => []LoginTypeOK` |

`LoginIsAccess` is a refinement: every step of `Login` is a step of `Access` or leaves
its variables alone, so what is proved of `Access` holds of every way to log in and
out. The step that ends a login is one of `Access` only because a visit that answers
has a session in the making there, which is part of `LoginInv`. `GoesHome` is about
the end of a journey: the invariant follows a session from the login that made it
(`MadeOK`), through the code that waits for a client (`CodesOK`), to who it was handed
to (`HandedOK`), and says at each station that it is in one place only, bound to its
flow and to the person of the answer. `GuessInv` counts each comparison in progress
of a username as the failure it may still become.
The shapes need an invariant too (`WayInv`): a cookie names a token that was issued, a
code and a mark of time a flow that was begun, and a visit has a session in the making
exactly when `Access` has.

**Only model-checked:**

- Liveness: `Converges`, `StartedEnds`, `HeldPutsAside`, `HookPhaseEnds`,
  `CommitReachesDetection`. The prover has no rule for fairness or `ENABLED`.
- `UsesStore`: that each write of the engine is one `StoreNext` allows. `StoreNext` ranges
  over bounded indexes, events and requests, which the engine's constants need not fit; what the
  property means without the bounds is `EngineInvariant` and the conjunct `Stores` of its
  lemmas, on which `EngineMakesAttempts` rests.
- `WindowTold` where windows run into each other more than `MaxCloseSteps` times and then
  end: it is false there (see above), and `WindowsKept` leaves it out.
- `PhaseFollowsHooks` and `ImplementsOnce` with hooks of several groups, where they are
  false for the reason `hook_partial` shows.

## What is not modelled

- **The record of past pauses** (`store/pause.go`): the pauses in force are modelled,
  who set them and when is shown on a page only.
- **Configuration**: read once at the start, a sequence of checks on strings.
- **Notifier**: a notification that fails is a warning; nothing reads it back.
- **Redaction, metrics, version**: formatting and reporting.
- **Pages, lists and the read-only routes** (`web/jobs.go`, `web/pages.go`, the `GET`
  routes of `web/api.go`): views of rows and observations. What they let through is
  modelled (`ScopeAgrees`), what they show is not.
- **Command line**: all but `nops login` and `nops logout` is one request to the API.
- **Nomad's HTTP client, git's clone, OpenID Connect's cryptography, HCL and cron
  texts**: external, modelled from how they are used.
- **Several jobs at a time in the engine**: modelled in the store and in `Watch`; the
  steps that follow the reading of a file share nothing between jobs but the cycle
  that visits them in turn.
- **What a page shows against what is in force**: a resume takes the hold off an
  observation though every job is paused (`hold.go:254`), and a plan made before a
  resume is still applied by the cycle in progress (`detect.go:592`); both last until
  the next cycle and no document promises more.

## What is left

1. Observations with the overlays of pages.
2. A theorem for what `UsesStore` means without the bounds of `StoreNext`.
3. Which expressions satisfy `GivesUpRightly`: those of fewer than `MaxCloseSteps` starts
   in their period, if no last time cuts them.
