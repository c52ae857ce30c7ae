------------------------------- MODULE Watch -------------------------------
(***************************************************************************)
(* From git to what a detection cycle reads: the watcher of each           *)
(* repository (internal/gitwatch), the signals between them and the        *)
(* detection loop, and the part of a cycle that works on files: parsing    *)
(* with its cache, classification, the sync window of each job, the jobs   *)
(* taken for removed, orphans (internal/engine).  What a cycle does with   *)
(* the deployment of one job is Detection's.                               *)
(***************************************************************************)
EXTENDS Meta

CONSTANTS
    None,
    Count,        \* the repositories are numbered, in the order they are read
    Tree,         \* the files of a repository at each of its commits
    Contents,     \* the contents of files: the job, its meta, whether it takes the commit
    Broken,       \* the content of a file that never parses
    Jobs,
    ManagedNS,    \* those of a namespace Nops manages
    repoJobs,     \* those a repository may declare
    Deployed,     \* those with a completed deployment
    MaxClock,
    Starts        \* what a run starts from, and how much of each kind happens in it

Repos == 1..Count
Commits(r) == DOMAIN Tree[r]

ASSUME WatchAssumption ==
    /\ Count \in Nat \ {0}
    /\ Deployed \subseteq ManagedNS /\ ManagedNS \subseteq Jobs
    /\ \A s \in Starts : /\ DOMAIN s.head = Repos /\ \A r \in Repos : s.head[r] \in Commits(r)
                         /\ s.waiting \cup s.running \subseteq Jobs

VARIABLES
    head,       \* the branch head of each remote
    watchers,   \* where each watcher is
    snap,       \* its last good snapshot
    failing,    \* the repositories whose last poll failed
    trigger,    \* those asked for a poll
    changed,    \* the signal of a new commit, which the watchers share
    kick,       \* the signal of a write that asks for a cycle
    det,        \* the detection loop
    cache,      \* parseCache
    obs,        \* Engine.observations
    orphans,
    waiting,    \* the jobs with a deployment not started yet
    running,    \* the jobs that run in Nomad
    clock,
    told,       \* history: the snapshots obs was made of, and the files Nomad did not answer for
    checked,    \* history: those orphans was made of
    gone,       \* history: the jobs taken for removed, with the snapshots
    left        \* how much of each kind of event may still happen

gitVars == <<head, watchers, snap, failing, trigger>>
engineVars == <<det, cache, obs, orphans, waiting, told, checked, gone>>
signals == <<changed, kick>>
world == <<running, clock>>
vars == <<gitVars, engineVars, signals, world, left>>

Spend(kind) == left[kind] > 0 /\ left' = [left EXCEPT ![kind] = @ - 1]

-----------------------------------------------------------------------------
(***************************************************************************)
(* The watcher of a repository.                                            *)
(***************************************************************************)
jobSuffixes == {".nomad.hcl", ".nomad"}

\* A commit has finitely many files, and a job file is one Nomad reads or does not.
ASSUME FilesAssumption ==
    /\ Broken \notin DOMAIN Contents
    /\ \A r \in Repos : \A c \in Commits(r) :
         /\ IsFiniteSet(Tree[r][c])
         /\ \A e \in Tree[r][c] : e.suffix \in jobSuffixes => e.content \in DOMAIN Contents \cup {Broken}

\* A time is a number and the zero time is none; a window key that parses is an
\* expression, and a duration that does a number.
ASSUME WindowAssumption ==
    /\ MaxClock \in Nat /\ Never \notin Int
    /\ \A s \in Starts : s.clock \in 0..MaxClock
    /\ \A c \in DOMAIN Contents :
         LET m == Contents[c].meta
         IN  /\ m.window \in {Absent, Junk} \/ (m.window.every \in Nat \ {0} /\ m.window.last \in Int)
             /\ m.duration \in {Absent, Junk} \/ m.duration \in Int

\* Job files, each with the vars file of its name.
collect(tree) ==
    {[path |-> <<e.name, e.suffix>>,
      content |-> e.content,
      vars |-> LET own == {v \in tree : v.suffix = ".vars.hcl" /\ v.name = e.name}
               IN  IF own = {} THEN None ELSE (CHOOSE v \in own : TRUE).content]
        : e \in {f \in tree : f.suffix \in jobSuffixes}}

\* A clone holds the head as it is by then.
fetched(r) == [commit |-> head[r], files |-> collect(Tree[r][head[r]])]

NoSnap == [commit |-> None, files |-> {}]
Untold == [snaps |-> [r \in Repos |-> NoSnap], down |-> {}]

\* The first clones, in order; one that fails ends the process.
Start(r) ==
    /\ watchers[r] = "new" /\ \A p \in Repos : p < r => watchers[p] # "new"
    /\ snap' = [snap EXCEPT ![r] = fetched(r)]
    /\ watchers' = [watchers EXCEPT ![r] = "idle"]
    /\ UNCHANGED <<head, failing, trigger, signals, engineVars, world, left>>

Started == \A r \in Repos : watchers[r] # "new"

\* The ticker, or a trigger: the head is asked for.
poll(r) ==
    /\ Started /\ watchers[r] = "idle"
    /\ trigger' \in {trigger, trigger \ {r}}
    /\ IF head[r] = snap[r].commit
       THEN failing' = failing \ {r} /\ UNCHANGED watchers
       ELSE watchers' = [watchers EXCEPT ![r] = "fetch"] /\ UNCHANGED failing
    /\ UNCHANGED <<head, snap, signals, engineVars, world, left>>

pollFails(r) ==
    /\ Started /\ watchers[r] = "idle" /\ Spend("failures")
    /\ trigger' \in {trigger, trigger \ {r}}
    /\ failing' = failing \cup {r}
    /\ UNCHANGED <<head, watchers, snap, signals, engineVars, world>>

fetch(r) ==
    /\ watchers[r] = "fetch"
    /\ snap' = [snap EXCEPT ![r] = fetched(r)]
    /\ failing' = failing \ {r}
    /\ watchers' = [watchers EXCEPT ![r] = "signal"]
    /\ UNCHANGED <<head, trigger, signals, engineVars, world, left>>

\* mutant: the commit is noted though its files were not read.
fetchFails_noted(r) ==
    /\ watchers[r] = "fetch" /\ Spend("failures")
    /\ failing' = failing \cup {r}
    /\ snap' = [snap EXCEPT ![r].commit = head[r]]
    /\ watchers' = [watchers EXCEPT ![r] = "idle"]
    /\ UNCHANGED <<head, trigger, signals, engineVars, world>>

fetchFails(r) ==
    /\ watchers[r] = "fetch" /\ Spend("failures")
    /\ failing' = failing \cup {r}
    /\ watchers' = [watchers EXCEPT ![r] = "idle"]
    /\ UNCHANGED <<head, snap, trigger, signals, engineVars, world>>

signal(r) ==
    /\ watchers[r] = "signal"
    /\ changed' = TRUE
    /\ watchers' = [watchers EXCEPT ![r] = "idle"]
    /\ UNCHANGED <<head, snap, failing, trigger, kick, engineVars, world, left>>

\* The forge's webhook, or a person's Fetch now: every repository is asked.
Trigger ==
    /\ Started /\ Spend("triggers")
    /\ trigger' = Repos
    /\ UNCHANGED <<head, watchers, snap, failing, signals, engineVars, world>>

\* A push.
Push(r) ==
    /\ Spend("pushes")
    /\ \E c \in Commits(r) \ {head[r]} : head' = [head EXCEPT ![r] = c]
    /\ UNCHANGED <<watchers, snap, failing, trigger, signals, engineVars, world>>

-----------------------------------------------------------------------------
(***************************************************************************)
(* Files.                                                                  *)
(***************************************************************************)

cfgOf == [c \in DOMAIN Contents |-> Parse(Contents[c].meta)]
windowAt == [c \in DOMAIN Contents |-> [t \in 0..MaxClock |-> windowStatus(cfgOf[c], t)]]

\* Nomad: a job, which may take the commit it was read at in; a file or a vars file
\* that is wrong never parses.
Parseable(f) == f.content # Broken /\ f.vars # Broken
ParseHCL(f, commit) == [of |-> f.content, stamp |-> IF Contents[f.content].stamped THEN commit ELSE None]

\* mutant: the commit is left out of the key.
parseCacheKey_content(f, commit) == <<f.content, f.vars>>

\* commitVars puts the commit into the vars.
parseCacheKey(f, commit) == <<f.content, f.vars, commit>>

Files(snaps) == UNION {{[repo |-> r, commit |-> snaps[r].commit, file |-> f] : f \in snaps[r].files} : r \in Repos}
key(pf) == parseCacheKey(pf.file, pf.commit)
hit(pf) == {c \in cache : c.key = key(pf)}

\* A file as this cycle read it: what became of it, and the job.
Read(pf, parsed) ==
    LET job == Contents[parsed.of].job
        outcome == CASE job = None -> "unparsed"
                     [] job # None /\ job \notin repoJobs[pf.repo]        -> "refused"
                     [] job \in repoJobs[pf.repo] /\ job \notin ManagedNS -> "unparsed"
                     [] OTHER -> "parsed"
    IN  [repo |-> pf.repo, commit |-> pf.commit, path |-> pf.file.path, outcome |-> outcome,
         job |-> job, of |-> parsed.of, stamp |-> parsed.stamp]

\* mutant: a file Nomad did not answer for is not counted.
parseFile_uncounted(pf, down) ==
    IF hit(pf) # {} THEN Read(pf, (CHOOSE c \in hit(pf) : TRUE).job)
    ELSE IF Parseable(pf.file) /\ pf \notin down THEN Read(pf, ParseHCL(pf.file, pf.commit))
    ELSE [repo |-> pf.repo, path |-> pf.file.path, outcome |-> IF pf \in down THEN "refused" ELSE "unparsed"]

\* What parseFile makes of each file, when Nomad fails to answer for some.
parseFile(pf, down) ==
    IF hit(pf) # {} THEN Read(pf, (CHOOSE c \in hit(pf) : TRUE).job)
    ELSE IF Parseable(pf.file) /\ pf \notin down THEN Read(pf, ParseHCL(pf.file, pf.commit))
    ELSE [repo |-> pf.repo, path |-> pf.file.path, outcome |-> "unparsed"]

\* A file that is gone leaves the cache, and so does a failure.
nextCache(files, down) ==
    {c \in cache : \E pf \in files : c.key = key(pf)}
        \cup {[key |-> key(pf), job |-> ParseHCL(pf.file, pf.commit)]
                : pf \in {g \in files : hit(g) = {} /\ Parseable(g.file) /\ g \notin down}}

\* Nomad may fail to answer for some of the files that it is asked about.
Unanswered(files) ==
    IF left["outages"] = 0 THEN {{}} ELSE SUBSET {pf \in files : hit(pf) = {} /\ Parseable(pf.file)}

isManaged(c) == cfgOf[c].managed /\ ~cfgOf[c].isHook

-----------------------------------------------------------------------------
(***************************************************************************)
(* The detection loop: a cycle at once, and then at every new commit, tick *)
(* or ask.                                                                 *)
(***************************************************************************)
NoObs == [j \in Jobs |-> None]
NoCycle == [files |-> {}, down |-> {}, todo |-> {}, seen |-> {},
            obs |-> NoObs, orphans |-> {}]
Cycle == [pc |-> "first", snaps |-> [r \in Repos |-> NoSnap], read |-> 0, work |-> NoCycle]

Goto(pc) == det' = [det EXCEPT !.pc = pc]
Work(w, pc) == det' = [det EXCEPT !.pc = pc, !.work = w]

\* The cycle ends; what it read last stays known to the history.
Rest == Work(NoCycle, "idle")

runOnce ==
    /\ \/ det.pc = "first" /\ Started /\ UNCHANGED signals
       \/ /\ det.pc = "idle"
          /\ \/ UNCHANGED signals
             \/ changed /\ changed' = FALSE /\ UNCHANGED kick
             \/ kick /\ kick' = FALSE /\ UNCHANGED changed
    /\ det' = [det EXCEPT !.pc = "read", !.read = 0]
    /\ UNCHANGED <<gitVars, cache, obs, orphans, waiting, told, checked, gone, world, left>>

\* mutant: the last repository is left out.
readSnapshot_short ==
    /\ det.pc = "read"
    /\ LET r == det.read + 1
       IN  det' = [det EXCEPT !.read = r, !.snaps[r] = snap[r],
                              !.pc = IF r + 1 >= Count THEN "parse" ELSE "read"]
    /\ UNCHANGED <<gitVars, signals, cache, obs, orphans, waiting, told, checked, gone, world, left>>

\* Group.Snapshots: one by one.
readSnapshot ==
    /\ det.pc = "read"
    /\ LET r == det.read + 1
       IN  det' = [det EXCEPT !.read = r, !.snaps[r] = snap[r],
                              !.pc = IF r = Count THEN "parse" ELSE "read"]
    /\ UNCHANGED <<gitVars, signals, cache, obs, orphans, waiting, told, checked, gone, world, left>>

parseFiles ==
    /\ det.pc = "parse"
    /\ LET files == Files(det.snaps)
       IN  \E down \in Unanswered(files) :
              /\ cache' = nextCache(files, down)
              /\ Work([NoCycle EXCEPT !.files = {parseFile(pf, down) : pf \in files}, !.down = down], "classify")
              /\ left' = IF down = {} THEN left ELSE [left EXCEPT !["outages"] = @ - 1]
    /\ UNCHANGED <<gitVars, signals, obs, orphans, waiting, told, checked, gone, world>>

Became(outcome) == {p \in det.work.files : p.outcome = outcome}

\* Two files of one job are both ignored.
classify ==
    /\ det.pc = "classify"
    /\ LET managed == {p \in Became("parsed") : isManaged(p.of) /\ \A q \in Became("parsed") : q.job = p.job => q = p}
       IN  Work([det.work EXCEPT !.todo = managed, !.seen = {p.job : p \in managed}], "reconcile")
    /\ UNCHANGED <<gitVars, signals, cache, obs, orphans, waiting, told, checked, gone, world, left>>

\* Each managed job: its window as the clock stands then.  One that nops fails to
\* work out has no observation; one that Nomad does not answer for keeps its own.
reconcileJob ==
    /\ det.pc = "reconcile"
    /\ \E p \in det.work.todo :
          LET o == [repo |-> p.repo, commit |-> p.commit, path |-> p.path, of |-> p.of, stamp |-> p.stamp,
                    window |-> windowAt[p.of][clock]]
              w == [det.work EXCEPT !.todo = @ \ {p}]
          IN  \/ Work([w EXCEPT !.obs[p.job] = o], "reconcile") /\ UNCHANGED left
              \/ Work(w, "reconcile") /\ Spend("outages")
    /\ UNCHANGED <<gitVars, signals, cache, obs, orphans, waiting, told, checked, gone, world>>

\* mutant: a new commit signalled while the cycle ran is taken to be in it.
replaceObservations_drains ==
    /\ det.pc = "reconcile" /\ det.work.todo = {}
    /\ obs' = det.work.obs
    /\ told' = [snaps |-> det.snaps, down |-> det.work.down]
    /\ changed' = FALSE
    /\ IF Became("unparsed") # {} THEN Rest ELSE Goto("removed")
    /\ UNCHANGED <<gitVars, kick, cache, orphans, waiting, checked, gone, world, left>>

\* With a file that does not parse the cycle ends here.
replaceObservations ==
    /\ det.pc = "reconcile" /\ det.work.todo = {}
    /\ obs' = det.work.obs
    /\ told' = [snaps |-> det.snaps, down |-> det.work.down]
    /\ IF Became("unparsed") # {} THEN Rest ELSE Goto("removed")
    /\ UNCHANGED <<gitVars, signals, cache, orphans, waiting, checked, gone, world, left>>

supersedeRemoved ==
    /\ det.pc = "removed"
    /\ waiting' = waiting \ {j \in waiting : j \in ManagedNS /\ j \notin det.work.seen}
    /\ gone' = {[job |-> j, snaps |-> det.snaps] : j \in waiting \ waiting'}
    /\ Work([det.work EXCEPT !.todo = Deployed \ {p.job : p \in Became("parsed")}], "orphans")
    /\ UNCHANGED <<gitVars, signals, cache, obs, orphans, told, checked, world, left>>

\* Each deployed job that no file is for is looked up in Nomad, which may not answer.
findOrphans ==
    /\ det.pc = "orphans"
    /\ \E j \in det.work.todo :
          LET w == [det.work EXCEPT !.todo = @ \ {j}]
          IN  \/ /\ Work([w EXCEPT !.orphans = @ \cup ({j} \cap running)], "orphans")
                 /\ UNCHANGED left
              \/ Work(w, "orphans") /\ Spend("outages")
    /\ UNCHANGED <<gitVars, signals, cache, obs, orphans, waiting, told, checked, gone, world>>

setOrphans ==
    /\ det.pc = "orphans" /\ det.work.todo = {}
    /\ orphans' = det.work.orphans
    /\ checked' = det.snaps
    /\ Rest
    /\ UNCHANGED <<gitVars, signals, cache, obs, waiting, told, gone, world, left>>

\* The store cannot be read or written: the cycle ends where it is, once it has its files.
Abort ==
    /\ det.pc \in {"reconcile", "removed", "orphans"} /\ Spend("outages")
    /\ Rest
    /\ UNCHANGED <<gitVars, signals, cache, obs, orphans, waiting, told, checked, gone, world>>

\* A write that asks for a cycle.
kickDetection ==
    /\ Spend("kicks")
    /\ kick' = TRUE
    /\ UNCHANGED <<gitVars, changed, engineVars, world>>

-----------------------------------------------------------------------------
(***************************************************************************)
(* The rest of the world.                                                  *)
(***************************************************************************)
\* Someone stops a job in Nomad.
Stop ==
    /\ Spend("stops")
    /\ \E j \in running : running' = running \ {j}
    /\ UNCHANGED <<gitVars, engineVars, signals, clock>>

Tick ==
    /\ clock < MaxClock
    /\ clock' = clock + 1
    /\ UNCHANGED <<gitVars, engineVars, signals, running, left>>

\* A new process: everything but the remotes, the store, Nomad and the clock is new.
Restart ==
    /\ Spend("restarts")
    /\ watchers' = [r \in Repos |-> "new"]
    /\ snap' = [r \in Repos |-> NoSnap]
    /\ failing' = {} /\ trigger' = {}
    /\ changed' = FALSE /\ kick' = FALSE
    /\ det' = Cycle /\ cache' = {} /\ obs' = NoObs /\ orphans' = {}
    /\ told' = Untold /\ checked' = [r \in Repos |-> NoSnap]
    /\ UNCHANGED <<head, waiting, gone, world>>

Init ==
    /\ \E s \in Starts : /\ head = s.head /\ waiting = s.waiting /\ running = s.running
                         /\ clock = s.clock /\ left = s.left
    /\ watchers = [r \in Repos |-> "new"]
    /\ snap = [r \in Repos |-> NoSnap]
    /\ failing = {} /\ trigger = {}
    /\ changed = FALSE /\ kick = FALSE
    /\ det = Cycle /\ cache = {} /\ obs = NoObs /\ orphans = {}
    /\ told = Untold /\ checked = [r \in Repos |-> NoSnap]
    /\ gone = {}

\* What a watcher and the detection loop do as long as nothing fails.
Watching(r) == Start(r) \/ poll(r) \/ fetch(r) \/ signal(r)

Detecting ==
    \/ runOnce \/ readSnapshot \/ parseFiles \/ classify \/ reconcileJob \/ replaceObservations
    \/ supersedeRemoved \/ findOrphans \/ setOrphans

Next ==
    \/ \E r \in Repos : Watching(r) \/ pollFails(r) \/ fetchFails(r) \/ Push(r)
    \/ Detecting \/ Abort
    \/ Trigger \/ kickDetection \/ Stop \/ Tick \/ Restart

Spec == Init /\ [][Next]_vars

\* The process goes on: every loop has its ticker, and the remotes, the store and
\* Nomad fail finitely often (the budgets).
Fairness == (\A r \in Repos : WF_vars(Watching(r))) /\ WF_vars(Detecting)

FairSpec == Spec /\ Fairness

-----------------------------------------------------------------------------
(***************************************************************************)
(* Properties.                                                             *)
(***************************************************************************)
\* Every variable keeps its shape: a snapshot is of a commit of its repository, the
\* cache holds jobs that Nomad parsed and no two for one key, a cycle at work has
\* read every snapshot.
WatchTypeOK ==
    /\ \A r \in Repos : head[r] \in Commits(r)
    /\ watchers \in [Repos -> {"new", "idle", "fetch", "signal"}]
    /\ \A r \in Repos : snap[r].commit \in Commits(r) \cup {None} /\ (watchers[r] = "new" => snap[r] = NoSnap)
    /\ failing \cup trigger \subseteq Repos
    /\ \A c, d \in cache : c.key = d.key => c = d
    /\ det.pc \in {"first", "idle", "read", "parse", "classify", "reconcile", "removed", "orphans"}
    /\ det.pc \in {"parse", "classify", "reconcile", "removed", "orphans"} => det.read = Count
    /\ orphans \subseteq Deployed /\ waiting \cup running \subseteq Jobs

\* A cycle that has yet to read a repository's snapshot.
willRead(r) == det.pc = "first" \/ (det.pc = "read" /\ det.read < r)

\* No new commit is forgotten between a watcher and the detection loop, which share
\* one signal that holds one (gitwatch.go poll, group.go, engine.go RunDetection): a
\* snapshot that detection has not read is signalled, or about to be by its watcher,
\* or about to be read by the cycle in progress.
NoLostWakeup ==
    \A r \in Repos :
        watchers[r] = "new" \/ snap[r] = det.snaps[r] \/ changed \/ watchers[r] = "signal" \/ willRead(r)

upToDate(r) == told.snaps[r] = [commit |-> head[r], files |-> collect(Tree[r][head[r]])]

\* What git says in the end is what detection goes by: however pushes, failed polls,
\* failed parses, aborted cycles and restarts fall between each other, detection
\* always comes to complete a cycle that has read the head, files and all.
CommitReachesDetection == \A r \in Repos : []<>upToDate(r)

\* The files of snapshots that may be of a job, whether they parse today or not.
mayBe(snaps, j) ==
    {pf \in Files(snaps) : j \in repoJobs[pf.repo] /\ (pf.file.content = Broken \/ Contents[pf.file.content].job = j)}

\* What a cycle says of a managed job is what the one file that declares it, of those
\* Nomad answered for, says at the commit it was read at, whatever was parsed before
\* at other commits (parseFiles, parseCacheKey, classify): from a repository that
\* may declare it, in a namespace Nops manages, and with nothing to apply if any of
\* its keys is wrong.
ToldFromGit ==
    \A j \in Jobs : obs[j] # None =>
        LET from == {pf \in mayBe(told.snaps, j) \ told.down : Parseable(pf.file)}
        IN  /\ j \in ManagedNS
            /\ \E pf \in from :
                   LET job == ParseHCL(pf.file, pf.commit)
                   IN  /\ from = {pf}
                       /\ pf.repo = obs[j].repo /\ pf.commit = obs[j].commit /\ pf.file.path = obs[j].path
                       /\ obs[j].of = job.of /\ obs[j].stamp = job.stamp
            /\ cfgOf[obs[j].of].policy # "none" => isManaged(obs[j].of) /\ ~HasErrors(cfgOf[obs[j].of].issues)

\* A job is taken for removed, which puts its waiting deployment aside, or for an
\* orphan, which tells people to stop it, by a cycle that read every file, and found
\* none that could be that job's (detect: "a file that does not parse looks exactly
\* like a removed one"); for the first, one file that makes it a managed job.
NothingTakenForRemoved ==
    /\ \A g \in gone :
           LET files == mayBe(g.snaps, g.job)
           IN  \/ files = {}
               \/ Cardinality(files) > 1 /\ \A pf \in files : Parseable(pf.file)
               \/ \E pf \in files : Parseable(pf.file) /\ ~isManaged(pf.file.content)
    /\ \A j \in orphans : mayBe(checked, j) = {}

\* Whether a time is in a window: some time the expression matches is at most that
\* time, and less than the duration before it.
inside(w, t) == \E u \in (t - w.duration + 1)..t : Matches(w.expr, u)

\* A window for which NextClose gives up does not close while the clock runs: a chain of
\* windows that reaches MaxCloseSteps is one without end.
GivesUpRightly ==
    \A c \in DOMAIN Contents, t, u \in 0..MaxClock :
        LET w == cfgOf[c].window
        IN  w # Absent /\ Open(w, t) /\ NextClose(w, t) = Never /\ t <= u => inside(w, u)

\* A sync window does what the page said it would (meta.go Open, NextOpen and
\* NextClose; hold.go windowStatus): it stays open, or closed, until the time that
\* was told, and then no longer, for windows that overlap, end where the next one
\* begins, or never close.
WindowTold ==
    \A j \in Jobs : obs[j] # None /\ obs[j].window # Absent =>
        LET w == cfgOf[obs[j].of].window
            said == obs[j].window
            soon == said.until = Never \/ clock < said.until
        IN  /\ soon => (inside(w, clock) <=> said.open)
            /\ said.until = clock => (inside(w, clock) <=> ~said.open)

=============================================================================
