---------------------------- MODULE WatchProofs ----------------------------
(***************************************************************************)
(* Proofs about the watchers and the detection loop, for every number of   *)
(* repositories, every history of their commits and every budget.          *)
(***************************************************************************)
EXTENDS Watch, NumberProofs

-----------------------------------------------------------------------------
(***************************************************************************)
(* The inductive invariant.  The fields of a cycle are those it has, and    *)
(* the detection loop has not begun while a watcher has yet to start.      *)
(***************************************************************************)
Shapes ==
    /\ DOMAIN watchers = Repos /\ DOMAIN snap = Repos
    /\ DOMAIN det = {"pc", "snaps", "read", "work"}
    /\ DOMAIN det.snaps = Repos
    /\ det.read \in Nat

NotBegun == \A r \in Repos : watchers[r] = "new" => det.pc = "first"

WakeupInv == Shapes /\ NotBegun /\ NoLostWakeup

\* The part of the state it is about.
seen == <<watchers, snap, det, changed>>

-----------------------------------------------------------------------------
\* A cycle past its reading goes on: nothing of what it has read changes.
GoesOn(pc) ==
    /\ det.pc \notin {"first", "read"}
    /\ pc \notin {"first", "read"}
    /\ DOMAIN det' = DOMAIN det
    /\ det'.pc = pc /\ det'.snaps = det.snaps /\ det'.read = det.read
    /\ UNCHANGED <<watchers, snap, changed>>

LEMMA GoesOnKeeps ==
    ASSUME WakeupInv, NEW pc, GoesOn(pc)
    PROVE  WakeupInv'
<1>1. Shapes'
  BY DEF WakeupInv, Shapes, GoesOn
<1>2. NotBegun'
  BY DEF WakeupInv, NotBegun, GoesOn
<1>3. NoLostWakeup'
  BY DEF WakeupInv, NoLostWakeup, willRead, GoesOn
<1> QED BY <1>1, <1>2, <1>3 DEF WakeupInv

\* The steps of a cycle that only move it on, with whatever work it has.
LEMMA WorkGoesOn ==
    ASSUME Shapes, det.pc \notin {"first", "read"}, NEW w, NEW pc, pc \notin {"first", "read"},
           Work(w, pc), UNCHANGED <<watchers, snap, changed>>
    PROVE  GoesOn(pc)
BY DEF Shapes, Work, GoesOn

LEMMA GotoGoesOn ==
    ASSUME Shapes, det.pc \notin {"first", "read"}, NEW pc, pc \notin {"first", "read"},
           Goto(pc), UNCHANGED <<watchers, snap, changed>>
    PROVE  GoesOn(pc)
BY DEF Shapes, Goto, GoesOn

-----------------------------------------------------------------------------
LEMMA WakeupInit == Init => WakeupInv
<1> SUFFICES ASSUME Init PROVE WakeupInv OBVIOUS
<1>1. Shapes
  BY DEF Init, Shapes, Cycle
<1>2. NotBegun
  BY DEF Init, NotBegun, Cycle
<1>3. NoLostWakeup
  BY DEF Init, NoLostWakeup
<1> QED BY <1>1, <1>2, <1>3 DEF WakeupInv

\* A watcher's steps: a new snapshot is signalled by the one who made it.
LEMMA WatcherKeeps ==
    ASSUME WakeupInv, NEW r \in Repos, Watching(r) \/ pollFails(r) \/ fetchFails(r)
    PROVE  WakeupInv'
<1> USE DEF WakeupInv, Shapes
<1>1. CASE Start(r)
  <2>1. det.pc = "first" /\ det' = det /\ changed' = changed
    BY <1>1 DEF Start, NotBegun, engineVars, signals
  <2>2. watchers' = [watchers EXCEPT ![r] = "idle"] /\ DOMAIN snap' = DOMAIN snap
    BY <1>1 DEF Start
  <2> QED BY <2>1, <2>2 DEF NotBegun, NoLostWakeup, willRead
<1>2. CASE poll(r) \/ pollFails(r) \/ fetchFails(r)
  <2>1. snap' = snap /\ det' = det /\ changed' = changed
    BY <1>2 DEF poll, pollFails, fetchFails, signals, engineVars
  <2>2. \/ watchers' = watchers
        \/ watchers[r] \in {"idle", "fetch"} /\ \E w \in {"idle", "fetch"} : watchers' = [watchers EXCEPT ![r] = w]
    BY <1>2 DEF poll, pollFails, fetchFails
  <2> QED BY <2>1, <2>2 DEF NotBegun, NoLostWakeup, willRead
<1>3. CASE fetch(r)
  <2>1. /\ watchers[r] = "fetch" /\ watchers' = [watchers EXCEPT ![r] = "signal"]
        /\ snap' = [snap EXCEPT ![r] = fetched(r)] /\ det' = det /\ changed' = changed
    BY <1>3 DEF fetch, signals, engineVars
  <2> QED BY <2>1 DEF NotBegun, NoLostWakeup, willRead
<1>4. CASE signal(r)
  <2>1. /\ watchers[r] = "signal" /\ watchers' = [watchers EXCEPT ![r] = "idle"]
        /\ changed' = TRUE /\ snap' = snap /\ det' = det
    BY <1>4 DEF signal, engineVars
  <2> QED BY <2>1 DEF NotBegun, NoLostWakeup, willRead
<1> QED BY <1>1, <1>2, <1>3, <1>4 DEF Watching

\* The signal is used up by a cycle that has all its reading ahead of it.
LEMMA BeginKeeps ==
    ASSUME WakeupInv, runOnce
    PROVE  WakeupInv'
<1> USE DEF WakeupInv, Shapes
<1>1. /\ watchers' = watchers /\ snap' = snap
      /\ det' = [det EXCEPT !.pc = "read", !.read = 0]
      /\ det.pc = "idle" \/ Started
  BY DEF runOnce, gitVars
<1>2. /\ det'.pc = "read" /\ det'.read = 0 /\ det'.snaps = det.snaps /\ DOMAIN det' = DOMAIN det
  BY <1>1
<1>3. NotBegun'
  BY <1>1 DEF NotBegun, Started
<1>4. NoLostWakeup'
  BY <1>1, <1>2, WatchAssumption DEF NoLostWakeup, willRead, Repos
<1> QED BY <1>1, <1>2, <1>3, <1>4

\* What a cycle has read is the snapshot, and the rest is still ahead.
LEMMA ReadKeeps ==
    ASSUME WakeupInv, readSnapshot
    PROVE  WakeupInv'
<1> USE DEF WakeupInv, Shapes
<1> DEFINE r == det.read + 1
           pc == IF r = Count THEN "parse" ELSE "read"
<1>1. /\ watchers' = watchers /\ snap' = snap /\ changed' = changed /\ det.pc = "read"
      /\ det' = [det EXCEPT !.read = r, !.snaps[r] = snap[r], !.pc = pc]
  BY DEF readSnapshot, gitVars, signals
<1>2. /\ det'.pc = pc /\ det'.read = r /\ DOMAIN det' = DOMAIN det
      /\ det'.snaps = [det.snaps EXCEPT ![r] = snap[r]]
  BY <1>1
<1>3. NotBegun'
  BY <1>1 DEF NotBegun
<1>4. NoLostWakeup'
  BY <1>1, <1>2, WatchAssumption DEF NoLostWakeup, willRead, Repos
<1> QED BY <1>1, <1>2, <1>3, <1>4

LEMMA DetectingKeeps ==
    ASSUME WakeupInv, Detecting \/ Abort
    PROVE  WakeupInv'
<1> USE DEF gitVars, signals
<1>0. Shapes BY DEF WakeupInv
<1>1. CASE runOnce BY <1>1, BeginKeeps
<1>2. CASE readSnapshot BY <1>2, ReadKeeps
<1>3. CASE parseFiles
  <2>1. PICK w : Work(w, "classify") BY <1>3 DEF parseFiles
  <2>2. GoesOn("classify") BY <1>0, <1>3, <2>1, WorkGoesOn DEF parseFiles
  <2> QED BY <2>2, GoesOnKeeps
<1>4. CASE classify
  <2>1. PICK w : Work(w, "reconcile") BY <1>4 DEF classify
  <2>2. GoesOn("reconcile") BY <1>0, <1>4, <2>1, WorkGoesOn DEF classify
  <2> QED BY <2>2, GoesOnKeeps
<1>5. CASE reconcileJob
  <2>1. PICK w : Work(w, "reconcile") BY <1>5 DEF reconcileJob
  <2>2. GoesOn("reconcile") BY <1>0, <1>5, <2>1, WorkGoesOn DEF reconcileJob
  <2> QED BY <2>2, GoesOnKeeps
<1>6. CASE replaceObservations
  <2>1. CASE Rest
    <3>1. GoesOn("idle") BY <1>0, <1>6, <2>1, WorkGoesOn DEF replaceObservations, Rest
    <3> QED BY <3>1, GoesOnKeeps
  <2>2. CASE Goto("removed")
    <3>1. GoesOn("removed") BY <1>0, <1>6, <2>2, GotoGoesOn DEF replaceObservations
    <3> QED BY <3>1, GoesOnKeeps
  <2> QED BY <1>6, <2>1, <2>2 DEF replaceObservations
<1>7. CASE supersedeRemoved
  <2>1. PICK w : Work(w, "orphans") BY <1>7 DEF supersedeRemoved
  <2>2. GoesOn("orphans") BY <1>0, <1>7, <2>1, WorkGoesOn DEF supersedeRemoved
  <2> QED BY <2>2, GoesOnKeeps
<1>8. CASE findOrphans
  <2>1. PICK w : Work(w, "orphans") BY <1>8 DEF findOrphans
  <2>2. GoesOn("orphans") BY <1>0, <1>8, <2>1, WorkGoesOn DEF findOrphans
  <2> QED BY <2>2, GoesOnKeeps
<1>9. CASE setOrphans
  <2>1. GoesOn("idle") BY <1>0, <1>9, WorkGoesOn DEF setOrphans, Rest
  <2> QED BY <2>1, GoesOnKeeps
<1>10. CASE Abort
  <2>1. GoesOn("idle") BY <1>0, <1>10, WorkGoesOn DEF Abort, Rest
  <2> QED BY <2>1, GoesOnKeeps
<1> QED BY <1>1, <1>2, <1>3, <1>4, <1>5, <1>6, <1>7, <1>8, <1>9, <1>10 DEF Detecting

LEMMA SeenKeeps ==
    ASSUME WakeupInv, UNCHANGED seen
    PROVE  WakeupInv'
BY DEF WakeupInv, Shapes, NotBegun, NoLostWakeup, willRead, seen

LEMMA RestartKeeps ==
    ASSUME Restart
    PROVE  WakeupInv'
<1>1. Shapes'
  BY DEF Restart, Shapes, Cycle
<1>2. NotBegun'
  BY DEF Restart, NotBegun, Cycle
<1>3. NoLostWakeup'
  BY DEF Restart, NoLostWakeup
<1> QED BY <1>1, <1>2, <1>3 DEF WakeupInv

LEMMA WakeupStep == WakeupInv /\ [Next]_vars => WakeupInv'
<1> SUFFICES ASSUME WakeupInv, [Next]_vars PROVE WakeupInv' OBVIOUS
<1>1. ASSUME NEW r \in Repos, Watching(r) \/ pollFails(r) \/ fetchFails(r) PROVE WakeupInv'
  BY <1>1, WatcherKeeps
<1>2. CASE Detecting \/ Abort BY <1>2, DetectingKeeps
<1>3. ASSUME \/ \E r \in Repos : Push(r)
             \/ Trigger \/ kickDetection \/ Stop \/ Tick
             \/ UNCHANGED vars
      PROVE  WakeupInv'
  <2>1. UNCHANGED seen
    BY <1>3 DEF Push, Trigger, kickDetection, Stop, Tick, vars, seen, gitVars, engineVars, signals
  <2> QED BY <2>1, SeenKeeps
<1>4. CASE Restart BY <1>4, RestartKeeps
<1> QED BY <1>1, <1>2, <1>3, <1>4 DEF Next

\* The invariant of the watchers and of the detection loop.
THEOREM WakeupInvariant == Spec => []WakeupInv
<1>1. Init => WakeupInv BY WakeupInit
<1>2. WakeupInv /\ [Next]_vars => WakeupInv' BY WakeupStep
<1> QED BY <1>1, <1>2, PTL DEF Spec

\* No new commit is forgotten between a watcher and the detection loop, whatever
\* the number of repositories that share the one signal (gitwatch.go poll, group.go
\* Changed, engine.go RunDetection).
THEOREM NoWakeupLost == Spec => []NoLostWakeup
<1>1. WakeupInv => NoLostWakeup BY DEF WakeupInv
<1> QED BY <1>1, WakeupInvariant, PTL

-----------------------------------------------------------------------------
(***************************************************************************)
(* What a cycle says and what it is made of.                               *)
(***************************************************************************)

\* A snapshot is the job files of one commit, or none yet.
SnapTold(r, s) == \/ s = NoSnap
                  \/ s.commit \in Commits(r) /\ s.files = collect(Tree[r][s.commit])

SnapsTold(snaps) == DOMAIN snaps = Repos /\ \A r \in Repos : SnapTold(r, snaps[r])

\* What is cached under a key is what Nomad parses of the files the key is of, which
\* it does parse.
Cached(k) ==
    [key |-> <<k[1], k[2], k[3]>>,
     job |-> [of |-> k[1], stamp |-> IF Contents[k[1]].stamped THEN k[3] ELSE None]]

CacheTold == \A c \in cache : c = Cached(c.key) /\ c.key[1] # Broken /\ c.key[2] # Broken

\* What becomes of a file in a cycle for which Nomad does not answer for some: the
\* cache changes nothing of it.
AsRead(pf, down) ==
    IF Parseable(pf.file) /\ pf \notin down THEN Read(pf, ParseHCL(pf.file, pf.commit))
    ELSE [repo |-> pf.repo, path |-> pf.file.path, outcome |-> "unparsed"]

AllRead(snaps, down) == {AsRead(pf, down) : pf \in Files(snaps)}

Parsed(files) == {p \in files : p.outcome = "parsed"}
ManagedOf(files) == {p \in Parsed(files) : isManaged(p.of) /\ \A q \in Parsed(files) : q.job = p.job => q = p}

\* An observation o of job j tells what the one file for it says.
Tells(o, j, snaps, down) ==
    LET from == {pf \in mayBe(snaps, j) \ down : Parseable(pf.file)}
    IN  /\ j \in ManagedNS
        /\ \E pf \in from :
               LET job == ParseHCL(pf.file, pf.commit)
               IN  /\ from = {pf}
                   /\ pf.repo = o.repo /\ pf.commit = o.commit /\ pf.file.path = o.path
                   /\ o.of = job.of /\ o.stamp = job.stamp
        /\ cfgOf[o.of].policy # "none" => isManaged(o.of) /\ ~HasErrors(cfgOf[o.of].issues)

AllTell(os, snaps, down) ==
    DOMAIN os = Jobs /\ \A j \in Jobs : os[j] # None => Tells(os[j], j, snaps, down)

Parsing == {"classify", "reconcile", "removed", "orphans"}

\* What a cycle has so far.
WorkTold ==
    /\ DOMAIN det.work = DOMAIN NoCycle
    /\ det.pc = "read" => det.read < Count
    /\ det.pc \in {"parse"} \cup Parsing => det.read = Count
    /\ det.pc \in Parsing => det.work.files = AllRead(det.snaps, det.work.down)
    /\ det.pc = "reconcile" => det.work.todo \subseteq ManagedOf(det.work.files)
    /\ det.pc \in {"reconcile", "removed"} => det.work.seen = {p.job : p \in ManagedOf(det.work.files)}
    /\ det.pc \in {"classify", "reconcile"} => AllTell(det.work.obs, det.snaps, det.work.down)
    /\ det.pc \in {"classify", "reconcile", "removed"} => det.work.orphans = {}
    /\ det.pc \in {"removed", "orphans"} => Became("unparsed") = {}
    /\ det.pc = "orphans" =>
         det.work.todo \cup det.work.orphans \subseteq Deployed \ {p.job : p \in Parsed(det.work.files)}

WatchersTold ==
    /\ DOMAIN head = Repos /\ \A r \in Repos : head[r] \in Commits(r)
    /\ watchers \in [Repos -> {"new", "idle", "fetch", "signal"}]
    /\ \A r \in Repos : watchers[r] = "new" => snap[r] = NoSnap
    /\ failing \cup trigger \subseteq Repos

\* A job taken for removed is one no file makes a managed job.
TakenRightly(j, snaps) ==
    LET files == mayBe(snaps, j)
    IN  \/ files = {}
        \/ Cardinality(files) > 1 /\ \A pf \in files : Parseable(pf.file)
        \/ \E pf \in files : Parseable(pf.file) /\ ~isManaged(pf.file.content)

GitTold == SnapsTold(snap) /\ WatchersTold

LoopTold ==
    /\ DOMAIN det = {"pc", "snaps", "read", "work"}
    /\ det.pc \in {"first", "idle", "read", "parse"} \cup Parsing
    /\ det.read \in Nat
    /\ SnapsTold(det.snaps)
    /\ WorkTold

ResultsTold ==
    /\ AllTell(obs, told.snaps, told.down)
    /\ orphans \subseteq Deployed /\ \A j \in orphans : mayBe(checked, j) = {}
    /\ \A g \in gone : TakenRightly(g.job, g.snaps)
    /\ waiting \cup running \subseteq Jobs

ReadInv == GitTold /\ LoopTold /\ CacheTold /\ ResultsTold

-----------------------------------------------------------------------------
(***************************************************************************)
(* Files and the snapshots they are of.                                    *)
(***************************************************************************)

\* What the vars file of a name holds.
VarsOf(tree, name) ==
    LET own == {v \in tree : v.suffix = ".vars.hcl" /\ v.name = name}
    IN  IF own = {} THEN None ELSE (CHOOSE v \in own : TRUE).content

JobFile(tree, e) == [path |-> <<e.name, e.suffix>>, content |-> e.content, vars |-> VarsOf(tree, e.name)]

LEMMA CollectIs ==
    ASSUME NEW tree
    PROVE  collect(tree) = {JobFile(tree, e) : e \in {f \in tree : f.suffix \in jobSuffixes}}
BY DEF collect, JobFile, VarsOf

LEMMA PairFirst ==
    ASSUME NEW u, NEW v, NEW x, NEW y, <<u, v>> = <<x, y>>
    PROVE  u = x
OBVIOUS

\* A job file is known by its path: the vars file goes with the name.
LEMMA PathTells ==
    ASSUME NEW tree, NEW f \in collect(tree), NEW g \in collect(tree),
           f.path = g.path, f.content = g.content
    PROVE  f = g
<1>1. PICK d \in tree : f = JobFile(tree, d)
  BY CollectIs
<1>2. PICK e \in tree : g = JobFile(tree, e)
  BY CollectIs
<1>3. f.path = <<d.name, d.suffix>> /\ g.path = <<e.name, e.suffix>>
  BY <1>1, <1>2 DEF JobFile
<1>4. d.name = e.name
  <2>1. <<d.name, d.suffix>> = <<e.name, e.suffix>>
    BY <1>3
  <2> QED BY <2>1, PairFirst
<1>5. f.content = d.content /\ g.content = e.content
  BY <1>1, <1>2 DEF JobFile
<1>6. VarsOf(tree, d.name) = VarsOf(tree, e.name)
  BY <1>4
<1>7. f = [path |-> f.path, content |-> f.content, vars |-> VarsOf(tree, d.name)]
  BY <1>1 DEF JobFile
<1>8. g = [path |-> g.path, content |-> g.content, vars |-> VarsOf(tree, e.name)]
  BY <1>2 DEF JobFile
<1> QED BY <1>6, <1>7, <1>8

LEMMA FetchedTold ==
    ASSUME NEW r \in Repos, head[r] \in Commits(r)
    PROVE  SnapTold(r, fetched(r))
BY DEF SnapTold, fetched

\* A file of snapshots.
LEMMA FileIs ==
    ASSUME NEW snaps, SnapsTold(snaps), NEW pf \in Files(snaps)
    PROVE  /\ pf.repo \in Repos
           /\ snaps[pf.repo].commit \in Commits(pf.repo)
           /\ pf.commit = snaps[pf.repo].commit
           /\ pf.file \in collect(Tree[pf.repo][pf.commit])
           /\ pf = [repo |-> pf.repo, commit |-> pf.commit, file |-> pf.file]
           /\ pf.file.content \in DOMAIN Contents \cup {Broken}
<1>0. PICK r \in Repos : \E f \in snaps[r].files : pf = [repo |-> r, commit |-> snaps[r].commit, file |-> f]
  BY DEF Files
<1>1. PICK f \in snaps[r].files : pf = [repo |-> r, commit |-> snaps[r].commit, file |-> f]
  BY <1>0
<1>2. pf.repo = r /\ pf.commit = snaps[r].commit /\ pf.file = f
  BY <1>1
<1>3. SnapTold(r, snaps[r])
  BY DEF SnapsTold
<1>4. snaps[r] # NoSnap
  BY <1>1 DEF NoSnap
<1>5. snaps[r].commit \in Commits(r) /\ f \in collect(Tree[r][snaps[r].commit])
  BY <1>1, <1>3, <1>4 DEF SnapTold
<1>6. PICK e \in Tree[r][snaps[r].commit] : e.suffix \in jobSuffixes /\ f = JobFile(Tree[r][snaps[r].commit], e)
  BY <1>5, CollectIs
<1>7. f.content = e.content
  BY <1>6 DEF JobFile
<1>8. e.content \in DOMAIN Contents \cup {Broken}
  BY <1>5, <1>6, FilesAssumption
<1> QED BY <1>1, <1>2, <1>5, <1>7, <1>8

\* A file of snapshots is known by its repository, its path and its content.
LEMMA FileKnown ==
    ASSUME NEW snaps, SnapsTold(snaps), NEW pf \in Files(snaps), NEW qf \in Files(snaps),
           pf.repo = qf.repo, pf.file.path = qf.file.path, pf.file.content = qf.file.content
    PROVE  pf = qf
<1>1. pf.commit = qf.commit
  BY FileIs
<1>2. pf.file \in collect(Tree[pf.repo][pf.commit]) /\ qf.file \in collect(Tree[pf.repo][pf.commit])
  BY FileIs, <1>1
<1>3. pf.file = qf.file
  BY <1>2, PathTells
<1> QED BY FileIs, <1>1, <1>3

LEMMA ImageFinite ==
    ASSUME NEW S, IsFiniteSet(S), NEW f, f = [x \in S |-> f[x]]
    PROVE  IsFiniteSet({f[x] : x \in S})
<1> DEFINE T == {f[x] : x \in S}
<1>1. f \in [S -> T]
  OBVIOUS
<1>2. f \in Surjection(S, T)
  BY <1>1 DEF Surjection
<1> QED BY <1>2, FS_Surjection

\* Snapshots have finitely many files.
LEMMA FilesFinite ==
    ASSUME NEW snaps, SnapsTold(snaps)
    PROVE  IsFiniteSet(Files(snaps))
<1> DEFINE Of(r) == {[repo |-> r, commit |-> snaps[r].commit, file |-> f] : f \in snaps[r].files}
<1>1. ASSUME NEW r \in Repos
      PROVE  IsFiniteSet(snaps[r].files)
  <2>1. SnapTold(r, snaps[r])
    BY DEF SnapsTold
  <2>2. CASE snaps[r] = NoSnap
    BY <2>2, FS_EmptySet DEF NoSnap
  <2>3. CASE snaps[r].commit \in Commits(r) /\ snaps[r].files = collect(Tree[r][snaps[r].commit])
    <3> DEFINE T == Tree[r][snaps[r].commit]
               J == {f \in T : f.suffix \in jobSuffixes}
    <3>1. IsFiniteSet(T)
      BY <2>3, FilesAssumption
    <3>2. IsFiniteSet(J)
      BY <3>1, FS_Subset
    <3> DEFINE F == [e \in J |-> JobFile(T, e)]
    <3>3. IsFiniteSet({F[e] : e \in J})
      <4> HIDE DEF J
      <4> QED BY <3>2, ImageFinite
    <3>4. {F[e] : e \in J} = {JobFile(T, e) : e \in J}
      OBVIOUS
    <3> QED BY <2>3, <3>3, <3>4, CollectIs
  <2> QED BY <2>1, <2>2, <2>3 DEF SnapTold
<1>2. ASSUME NEW r \in Repos
      PROVE  IsFiniteSet(Of(r))
  <2> DEFINE F == [f \in snaps[r].files |-> [repo |-> r, commit |-> snaps[r].commit, file |-> f]]
  <2>1. IsFiniteSet({F[f] : f \in snaps[r].files})
    BY <1>1, ImageFinite
  <2>2. {F[f] : f \in snaps[r].files} = Of(r)
    OBVIOUS
  <2> QED BY <2>1, <2>2
<1>3. IsFiniteSet(Repos)
  BY WatchAssumption, FS_Interval DEF Repos
<1>4. IsFiniteSet({Of(r) : r \in Repos})
  <2> DEFINE F == [r \in Repos |-> Of(r)]
  <2>1. IsFiniteSet({F[r] : r \in Repos})
    <3> HIDE DEF Of
    <3> QED BY <1>3, ImageFinite
  <2>2. {F[r] : r \in Repos} = {Of(r) : r \in Repos}
    OBVIOUS
  <2> QED BY <2>1, <2>2
<1>5. \A S \in {Of(r) : r \in Repos} : IsFiniteSet(S)
  BY <1>2
<1>6. IsFiniteSet(UNION {Of(r) : r \in Repos})
  BY <1>4, <1>5, FS_UNION, Zenon
<1> QED BY <1>6 DEF Files

-----------------------------------------------------------------------------
(***************************************************************************)
(* The cache: a cycle reads the same with it as without.                   *)
(***************************************************************************)

\* The files that Nomad is asked about.
Asked(files) == {pf \in files : hit(pf) = {} /\ Parseable(pf.file)}

LEMMA HitIs ==
    ASSUME CacheTold, NEW pf, NEW c \in hit(pf)
    PROVE  c.job = ParseHCL(pf.file, pf.commit) /\ Parseable(pf.file)
<1>1. c \in cache /\ c.key = <<pf.file.content, pf.file.vars, pf.commit>>
  BY DEF hit, key, parseCacheKey
<1>2. c = Cached(c.key) /\ c.key[1] # Broken /\ c.key[2] # Broken
  BY <1>1 DEF CacheTold
<1>3. c.key[1] = pf.file.content /\ c.key[2] = pf.file.vars /\ c.key[3] = pf.commit
  BY <1>1
<1>4. c.job = [of |-> c.key[1], stamp |-> IF Contents[c.key[1]].stamped THEN c.key[3] ELSE None]
  BY <1>2 DEF Cached
<1> QED BY <1>2, <1>3, <1>4 DEF ParseHCL, Parseable

LEMMA CacheUnseen ==
    ASSUME CacheTold, NEW files, NEW down \in SUBSET Asked(files), NEW pf \in files
    PROVE  parseFile(pf, down) = AsRead(pf, down)
<1>1. CASE hit(pf) = {}
  BY <1>1 DEF parseFile, AsRead
<1>2. CASE hit(pf) # {}
  <2>1. PICK c : c = (CHOOSE d \in hit(pf) : TRUE) /\ c \in hit(pf)
    BY <1>2
  <2>2. c.job = ParseHCL(pf.file, pf.commit) /\ Parseable(pf.file)
    BY <2>1, HitIs
  <2>3. pf \notin down
    BY <1>2 DEF Asked
  <2>4. parseFile(pf, down) = Read(pf, c.job)
    BY <1>2, <2>1 DEF parseFile
  <2> QED BY <2>2, <2>3, <2>4 DEF AsRead
<1> QED BY <1>1, <1>2

LEMMA NextCacheTold ==
    ASSUME CacheTold, NEW files, NEW down, NEW c \in nextCache(files, down)
    PROVE  c = Cached(c.key) /\ c.key[1] # Broken /\ c.key[2] # Broken
<1>1. CASE c \in cache
  BY <1>1 DEF CacheTold
<1>2. CASE \E pf \in files : Parseable(pf.file) /\ c = [key |-> key(pf), job |-> ParseHCL(pf.file, pf.commit)]
  <2>1. PICK pf \in files : Parseable(pf.file) /\ c = [key |-> key(pf), job |-> ParseHCL(pf.file, pf.commit)]
    BY <1>2
  <2>2. c.key = <<pf.file.content, pf.file.vars, pf.commit>>
    BY <2>1 DEF key, parseCacheKey
  <2>3. c.key[1] = pf.file.content /\ c.key[2] = pf.file.vars /\ c.key[3] = pf.commit
    BY <2>2
  <2>4. c = [key |-> <<c.key[1], c.key[2], c.key[3]>>, job |-> ParseHCL(pf.file, pf.commit)]
    BY <2>1, <2>2, <2>3
  <2> QED BY <2>1, <2>3, <2>4 DEF Cached, ParseHCL, Parseable
<1> QED BY <1>1, <1>2 DEF nextCache

-----------------------------------------------------------------------------
(***************************************************************************)
(* What became of the files of a cycle.                                    *)
(***************************************************************************)

\* A parsed file is one of the snapshots, of the job it declares.
LEMMA ParsedIs ==
    ASSUME NEW snaps, SnapsTold(snaps), NEW down, NEW p \in Parsed(AllRead(snaps, down))
    PROVE  \E pf \in Files(snaps) :
             /\ Parseable(pf.file) /\ pf \notin down
             /\ p = AsRead(pf, down)
             /\ p.repo = pf.repo /\ p.commit = pf.commit /\ p.path = pf.file.path /\ p.of = pf.file.content
             /\ p.stamp = ParseHCL(pf.file, pf.commit).stamp
             /\ p.job = Contents[pf.file.content].job /\ p.job # None
             /\ p.job \in ManagedNS /\ pf \in mayBe(snaps, p.job)
<1>1. PICK pf \in Files(snaps) : p = AsRead(pf, down)
  BY DEF Parsed, AllRead
<1>2. p.outcome = "parsed"
  BY DEF Parsed
<1>3. Parseable(pf.file) /\ pf \notin down
  BY <1>1, <1>2 DEF AsRead
<1> DEFINE job == ParseHCL(pf.file, pf.commit)
<1>4. p = Read(pf, job)
  BY <1>1, <1>3 DEF AsRead
<1>5. job.of = pf.file.content
  BY DEF ParseHCL
<1>6. p.repo = pf.repo /\ p.commit = pf.commit /\ p.path = pf.file.path /\ p.of = pf.file.content
      /\ p.stamp = job.stamp /\ p.job = Contents[pf.file.content].job
  BY <1>4, <1>5 DEF Read
<1>7. p.job # None /\ p.job \in repoJobs[pf.repo] /\ p.job \in ManagedNS
  <2> DEFINE j == Contents[job.of].job
             outcome == CASE j = None -> "unparsed"
                          [] j # None /\ j \notin repoJobs[pf.repo]        -> "refused"
                          [] j \in repoJobs[pf.repo] /\ j \notin ManagedNS -> "unparsed"
                          [] OTHER -> "parsed"
  <2>1. p.outcome = outcome /\ p.job = j
    BY <1>4 DEF Read
  <2>2. outcome = "parsed"
    BY <2>1, <1>2
  <2>3. j # None
    <3>1. SUFFICES ASSUME j = None PROVE FALSE
      OBVIOUS
    <3>2. ~(j # None /\ j \notin repoJobs[pf.repo])
      BY <3>1
    <3>3. outcome \in {"unparsed"}
      BY <3>1, <2>2
    <3> QED BY <3>3, <2>2
  <2>4. j \in repoJobs[pf.repo]
    BY <2>2, <2>3
  <2>5. j \in ManagedNS
    BY <2>2, <2>3, <2>4
  <2> QED BY <2>1, <2>3, <2>4, <2>5
<1>8. pf \in mayBe(snaps, p.job)
  BY <1>6, <1>7 DEF mayBe
<1> QED BY <1>1, <1>3, <1>6, <1>7, <1>8

\* What a file that may be of a managed job comes to: it does not parse, or it is
\* parsed, and of that job.
LEMMA MayBeRead ==
    ASSUME NEW snaps, SnapsTold(snaps), NEW down, NEW j \in ManagedNS, NEW pf \in mayBe(snaps, j)
    PROVE  \/ AsRead(pf, down).outcome = "unparsed" /\ AsRead(pf, down) \in AllRead(snaps, down)
           \/ /\ Parseable(pf.file) /\ pf \notin down /\ j # None
              /\ AsRead(pf, down) \in Parsed(AllRead(snaps, down))
              /\ AsRead(pf, down).job = j
<1>1. pf \in Files(snaps) /\ j \in repoJobs[pf.repo]
      /\ (pf.file.content = Broken \/ Contents[pf.file.content].job = j)
  BY DEF mayBe
<1>2. AsRead(pf, down) \in AllRead(snaps, down)
  BY <1>1 DEF AllRead
<1>3. CASE ~(Parseable(pf.file) /\ pf \notin down)
  <2>1. AsRead(pf, down) = [repo |-> pf.repo, path |-> pf.file.path, outcome |-> "unparsed"]
    BY <1>3 DEF AsRead
  <2> QED BY <2>1, <1>2
<1>4. CASE Parseable(pf.file) /\ pf \notin down
  <2> DEFINE job == ParseHCL(pf.file, pf.commit)
  <2>1. AsRead(pf, down) = Read(pf, job)
    BY <1>4 DEF AsRead
  <2>2. Contents[job.of].job = j
    BY <1>1, <1>4 DEF ParseHCL, Parseable
  <2>3. AsRead(pf, down).job = j
    BY <2>1, <2>2 DEF Read
  <2>4. CASE j = None
    <3>1. Read(pf, job).outcome = "unparsed"
      BY <2>2, <2>4, <1>1 DEF Read
    <3> QED BY <3>1, <2>1, <1>2
  <2>5. CASE j # None
    <3>1. Read(pf, job).outcome = "parsed"
      BY <2>2, <2>5, <1>1 DEF Read
    <3> QED BY <3>1, <2>1, <2>3, <2>5, <1>2, <1>4 DEF Parsed
  <2> QED BY <2>4, <2>5
<1> QED BY <1>3, <1>4

\* The policy of a job with an error is none.
LEMMA PolicyNeedsNoError ==
    ASSUME NEW m, Parse(m).policy # "none"
    PROVE  ~HasErrors(Parse(m).issues)
<1>1. Parse(m).issues = issuesOf(m)
  BY DEF Parse
<1>2. Parse(m).policy = IF isTrue(m.managed) /\ ~HasErrors(issuesOf(m)) THEN policyOf(m) ELSE "none"
  BY DEF Parse
<1> QED BY <1>1, <1>2

\* An observation of a managed file.
Observes(o, p) ==
    o.repo = p.repo /\ o.commit = p.commit /\ o.path = p.path /\ o.of = p.of /\ o.stamp = p.stamp

\* What a managed file says is what the one file of its job says.
LEMMA ManagedTells ==
    ASSUME NEW snaps, SnapsTold(snaps), NEW down, NEW p \in ManagedOf(AllRead(snaps, down)),
           NEW o, Observes(o, p)
    PROVE  p.job \in Jobs /\ Tells(o, p.job, snaps, down)
<1> DEFINE j == p.job
           from == {pf \in mayBe(snaps, j) \ down : Parseable(pf.file)}
<1>1. p \in Parsed(AllRead(snaps, down)) /\ isManaged(p.of)
      /\ \A q \in Parsed(AllRead(snaps, down)) : q.job = p.job => q = p
  BY DEF ManagedOf
<1>2. PICK pf \in Files(snaps) :
             /\ Parseable(pf.file) /\ pf \notin down
             /\ p = AsRead(pf, down)
             /\ p.repo = pf.repo /\ p.commit = pf.commit /\ p.path = pf.file.path /\ p.of = pf.file.content
             /\ p.stamp = ParseHCL(pf.file, pf.commit).stamp
             /\ p.job = Contents[pf.file.content].job /\ p.job # None
             /\ p.job \in ManagedNS /\ pf \in mayBe(snaps, p.job)
  BY <1>1, ParsedIs
<1>3. pf \in from
  BY <1>2
<1>4. ASSUME NEW qf \in from
      PROVE  qf = pf
  <2>1. qf \in mayBe(snaps, j) /\ qf \notin down /\ Parseable(qf.file)
    OBVIOUS
  <2>2. qf \in Files(snaps)
    BY <2>1 DEF mayBe
  <2>3. \/ AsRead(qf, down).outcome = "unparsed"
        \/ AsRead(qf, down) \in Parsed(AllRead(snaps, down)) /\ AsRead(qf, down).job = j
    BY <1>2, <2>1, MayBeRead
  <2> DEFINE job == ParseHCL(qf.file, qf.commit)
  <2>4. AsRead(qf, down) = Read(qf, job)
    BY <2>1 DEF AsRead
  <2>5. Contents[job.of].job = j
    BY <1>2, <2>1 DEF ParseHCL, mayBe, Parseable
  <2>6. Read(qf, job).outcome = "parsed"
    BY <1>2, <2>1, <2>5 DEF Read, mayBe
  <2>7. AsRead(qf, down) = p
    BY <1>1, <2>3, <2>4, <2>6
  <2>8. p.repo = qf.repo /\ p.path = qf.file.path /\ p.of = qf.file.content
    BY <2>4, <2>7 DEF Read, ParseHCL
  <2> QED BY <1>2, <2>2, <2>8, FileKnown
<1>5. from = {pf}
  BY <1>3, <1>4
<1>6. j \in ManagedNS /\ j \in Jobs
  BY <1>2, WatchAssumption
<1>7. o.of \in DOMAIN Contents
  <2>1. pf.file.content \in DOMAIN Contents \cup {Broken}
    BY FileIs
  <2> QED BY <2>1, <1>2 DEF Parseable, Observes
<1>8. cfgOf[o.of].policy # "none" => isManaged(o.of) /\ ~HasErrors(cfgOf[o.of].issues)
  <2>1. cfgOf[o.of] = Parse(Contents[o.of].meta)
    BY <1>7 DEF cfgOf
  <2> QED BY <2>1, <1>1, PolicyNeedsNoError DEF Observes
<1>9. ParseHCL(pf.file, pf.commit).of = pf.file.content
  BY DEF ParseHCL
<1>10. pf.repo = o.repo /\ pf.commit = o.commit /\ pf.file.path = o.path
       /\ o.of = ParseHCL(pf.file, pf.commit).of /\ o.stamp = ParseHCL(pf.file, pf.commit).stamp
  BY <1>2, <1>9 DEF Observes
<1>11. Tells(o, j, snaps, down)
  <2> HIDE DEF from
  <2>1. \E qf \in from :
               LET job == ParseHCL(qf.file, qf.commit)
               IN  /\ from = {qf}
                   /\ qf.repo = o.repo /\ qf.commit = o.commit /\ qf.file.path = o.path
                   /\ o.of = job.of /\ o.stamp = job.stamp
    BY <1>3, <1>5, <1>10
  <2> QED BY <2>1, <1>6, <1>8 DEF Tells, from
<1> QED BY <1>6, <1>11

\* Once every file has parsed, a job that no managed file is for is rightly taken for
\* removed.
LEMMA RemovedIsTaken ==
    ASSUME NEW snaps, SnapsTold(snaps), NEW down,
           \A p \in AllRead(snaps, down) : p.outcome # "unparsed",
           NEW j \in ManagedNS, \A p \in ManagedOf(AllRead(snaps, down)) : p.job # j
    PROVE  TakenRightly(j, snaps)
<1> DEFINE files == mayBe(snaps, j)
<1>1. \A pf \in files : /\ Parseable(pf.file)
                        /\ AsRead(pf, down) \in Parsed(AllRead(snaps, down))
                        /\ AsRead(pf, down).job = j
  BY MayBeRead
<1>2. SUFFICES ASSUME NEW pf \in files, isManaged(pf.file.content)
               PROVE  Cardinality(files) > 1
  <2> HIDE DEF files
  <2>1. files = {} \/ (Cardinality(files) > 1 /\ \A f \in files : Parseable(f.file))
        \/ \E f \in files : Parseable(f.file) /\ ~isManaged(f.file.content)
    BY <1>1, <1>2
  <2> QED BY <2>1 DEF TakenRightly, files
<1> DEFINE p == AsRead(pf, down)
<1>3. p \in Parsed(AllRead(snaps, down)) /\ p.job = j /\ Parseable(pf.file)
  BY <1>1
<1>4. p.of = pf.file.content
  BY <1>3 DEF AsRead, Read, ParseHCL, Parsed
<1>5. PICK q \in Parsed(AllRead(snaps, down)) : q.job = j /\ q # p
  <2> HIDE DEF p
  <2> QED BY <1>2, <1>3, <1>4 DEF ManagedOf
<1>6. PICK qf \in mayBe(snaps, j) : q = AsRead(qf, down)
  BY <1>5, ParsedIs
<1>7. qf # pf /\ qf \in files
  BY <1>5, <1>6
<1>8. IsFiniteSet(files)
  <2>1. files \subseteq Files(snaps)
    BY DEF mayBe
  <2> QED BY <2>1, FilesFinite, FS_Subset
<1> QED
  <2>1. IsFiniteSet(files \ {pf}) /\ Cardinality(files \ {pf}) = Cardinality(files) - 1
    BY <1>2, <1>8, FS_RemoveElement
  <2>2. Cardinality(files \ {pf}) # 0
    <3>1. qf \in files \ {pf}
      BY <1>7
    <3> QED BY <2>1, <3>1, FS_EmptySet
  <2>3. Cardinality(files) \in Nat /\ Cardinality(files \ {pf}) \in Nat
    BY <1>8, <2>1, FS_CardinalityType
  <2> QED BY <2>1, <2>2, <2>3

\* A job that no parsed file is for, once every file has parsed, has no file.
LEMMA OrphanHasNoFile ==
    ASSUME NEW snaps, SnapsTold(snaps), NEW down,
           \A p \in AllRead(snaps, down) : p.outcome # "unparsed",
           NEW j \in ManagedNS, \A p \in Parsed(AllRead(snaps, down)) : p.job # j
    PROVE  mayBe(snaps, j) = {}
BY MayBeRead

-----------------------------------------------------------------------------
(***************************************************************************)
(* The inductive invariant, step by step.                                  *)
(***************************************************************************)
resultVars == <<obs, orphans, checked, gone, waiting, running, told>>

LEMMA NoCycleIs ==
    /\ DOMAIN NoCycle = {"files", "down", "todo", "seen", "obs", "orphans"}
    /\ NoCycle.files = {} /\ NoCycle.down = {} /\ NoCycle.todo = {} /\ NoCycle.seen = {}
    /\ NoCycle.obs = NoObs /\ NoCycle.orphans = {}
BY DEF NoCycle

LEMMA NothingTold ==
    ASSUME NEW snaps, NEW down
    PROVE  AllTell(NoObs, snaps, down)
BY DEF AllTell, NoObs

LEMMA EmptyTold == SnapsTold([r \in Repos |-> NoSnap])
BY DEF SnapsTold, SnapTold

LEMMA MayBeOfNone ==
    ASSUME NEW j
    PROVE  mayBe([r \in Repos |-> NoSnap], j) = {}
BY DEF mayBe, Files, NoSnap

\* What the cycle becomes with other work.
LEMMA WorkIs ==
    ASSUME LoopTold, NEW w, NEW pc, Work(w, pc)
    PROVE  /\ DOMAIN det' = {"pc", "snaps", "read", "work"}
           /\ det'.pc = pc /\ det'.work = w /\ det'.snaps = det.snaps /\ det'.read = det.read
BY DEF Work, LoopTold

LEMMA GotoIs ==
    ASSUME LoopTold, NEW pc, Goto(pc)
    PROVE  /\ DOMAIN det' = {"pc", "snaps", "read", "work"}
           /\ det'.pc = pc /\ det'.work = det.work /\ det'.snaps = det.snaps /\ det'.read = det.read
BY DEF Goto, LoopTold

LEMMA ReadInit == Init => ReadInv
<1> SUFFICES ASSUME Init PROVE ReadInv
  OBVIOUS
<1>1. GitTold
  <2>1. DOMAIN head = Repos /\ \A r \in Repos : head[r] \in Commits(r)
    BY WatchAssumption DEF Init
  <2> QED BY <2>1, EmptyTold DEF GitTold, WatchersTold, Init
<1>2. LoopTold
  <2>1. DOMAIN det = {"pc", "snaps", "read", "work"} /\ det.pc = "first" /\ det.read = 0
        /\ det.snaps = [r \in Repos |-> NoSnap] /\ det.work = NoCycle
    BY DEF Init, Cycle
  <2> QED BY <2>1, EmptyTold DEF LoopTold, WorkTold, Parsing
<1>3. CacheTold
  BY DEF CacheTold, Init
<1>4. ResultsTold
  <2>1. waiting \cup running \subseteq Jobs
    BY WatchAssumption DEF Init
  <2> QED BY <2>1, NothingTold DEF ResultsTold, Init
<1> QED BY <1>1, <1>2, <1>3, <1>4 DEF ReadInv

LEMMA GitKept == ASSUME GitTold, UNCHANGED gitVars PROVE GitTold'
BY DEF GitTold, WatchersTold, gitVars

LEMMA LoopKept == ASSUME LoopTold, UNCHANGED det PROVE LoopTold'
BY DEF LoopTold, WorkTold, Became

LEMMA CacheKept == ASSUME CacheTold, UNCHANGED cache PROVE CacheTold'
BY DEF CacheTold

LEMMA ResultsKept == ASSUME ResultsTold, UNCHANGED resultVars PROVE ResultsTold'
BY DEF ResultsTold, resultVars

\* What the watchers and the remotes do.
LEMMA WatcherReads ==
    ASSUME ReadInv, NEW r \in Repos, Watching(r) \/ pollFails(r) \/ fetchFails(r) \/ Push(r)
    PROVE  ReadInv'
<1>1. LoopTold' /\ CacheTold' /\ ResultsTold'
  <2>1. UNCHANGED <<det, cache, obs, orphans, checked, gone, waiting, running, told>>
    BY DEF Watching, pollFails, fetchFails, Push, Start, poll, fetch, signal, engineVars, world
  <2> QED BY <2>1, LoopKept, CacheKept, ResultsKept DEF ReadInv, resultVars
<1>2. GitTold'
  <2>1. SnapsTold(snap) /\ DOMAIN head = Repos /\ watchers \in [Repos -> {"new", "idle", "fetch", "signal"}]
        /\ (\A p \in Repos : head[p] \in Commits(p) /\ (watchers[p] = "new" => snap[p] = NoSnap))
        /\ failing \cup trigger \subseteq Repos
    BY DEF ReadInv, GitTold, WatchersTold
  <2>2. ASSUME snap' = [snap EXCEPT ![r] = fetched(r)]
        PROVE  SnapsTold(snap')
    <3>1. SnapTold(r, fetched(r))
      BY <2>1, FetchedTold
    <3>2. DOMAIN snap' = Repos /\ snap'[r] = fetched(r) /\ \A p \in Repos \ {r} : snap'[p] = snap[p]
      BY <2>1, <2>2 DEF SnapsTold
    <3> QED BY <2>1, <3>1, <3>2 DEF SnapsTold
  <2>3. CASE Start(r)
    BY <2>1, <2>2, <2>3 DEF Start, GitTold, WatchersTold, SnapsTold
  <2>4. CASE poll(r)
    BY <2>1, <2>4 DEF poll, GitTold, WatchersTold
  <2>5. CASE fetch(r)
    BY <2>1, <2>2, <2>5 DEF fetch, GitTold, WatchersTold, SnapsTold
  <2>6. CASE signal(r)
    BY <2>1, <2>6 DEF signal, GitTold, WatchersTold
  <2>7. CASE pollFails(r)
    BY <2>1, <2>7 DEF pollFails, GitTold, WatchersTold
  <2>8. CASE fetchFails(r)
    BY <2>1, <2>8 DEF fetchFails, GitTold, WatchersTold
  <2>9. CASE Push(r)
    BY <2>1, <2>9 DEF Push, GitTold, WatchersTold
  <2> QED BY <2>3, <2>4, <2>5, <2>6, <2>7, <2>8, <2>9 DEF Watching
<1> QED BY <1>1, <1>2 DEF ReadInv

\* A cycle that ends.
LEMMA RestTold ==
    ASSUME LoopTold, Rest
    PROVE  LoopTold'
<1>1. /\ DOMAIN det' = {"pc", "snaps", "read", "work"}
      /\ det'.pc = "idle" /\ det'.work = NoCycle /\ det'.snaps = det.snaps /\ det'.read = det.read
  BY WorkIs DEF Rest
<1> QED BY <1>1 DEF LoopTold, WorkTold, Parsing

LEMMA BeginReads ==
    ASSUME ReadInv, runOnce
    PROVE  ReadInv'
<1>1. UNCHANGED gitVars /\ UNCHANGED cache /\ UNCHANGED resultVars
  BY DEF runOnce, world, resultVars
<1>2. LoopTold
  BY DEF ReadInv
<1>3. /\ DOMAIN det' = {"pc", "snaps", "read", "work"}
      /\ det'.pc = "read" /\ det'.work = det.work /\ det'.snaps = det.snaps /\ det'.read = 0
  BY <1>2 DEF runOnce, LoopTold
<1>4. LoopTold'
  BY <1>2, <1>3, WatchAssumption DEF LoopTold, WorkTold, Parsing
<1> QED BY <1>1, <1>4, GitKept, CacheKept, ResultsKept DEF ReadInv

LEMMA SnapshotReads ==
    ASSUME ReadInv, readSnapshot
    PROVE  ReadInv'
<1>1. UNCHANGED gitVars /\ UNCHANGED cache /\ UNCHANGED resultVars
  BY DEF readSnapshot, world, resultVars
<1>2. LoopTold /\ SnapsTold(snap)
  BY DEF ReadInv, GitTold
<1> DEFINE r == det.read + 1
<1>3. det.pc = "read" /\ det.read \in Nat /\ det.read < Count
  BY <1>2 DEF readSnapshot, LoopTold, WorkTold
<1>4. r \in Repos
  BY <1>3, WatchAssumption DEF Repos
<1>5. /\ DOMAIN det' = {"pc", "snaps", "read", "work"}
      /\ det'.pc = (IF r = Count THEN "parse" ELSE "read") /\ det'.work = det.work
      /\ det'.snaps = [det.snaps EXCEPT ![r] = snap[r]] /\ det'.read = r
  BY <1>2 DEF readSnapshot, LoopTold
<1>6. SnapsTold(det'.snaps)
  <2>1. DOMAIN det.snaps = Repos /\ \A p \in Repos : SnapTold(p, det.snaps[p])
    BY <1>2 DEF LoopTold, SnapsTold
  <2>2. SnapTold(r, snap[r])
    BY <1>2, <1>4 DEF SnapsTold
  <2>3. DOMAIN det'.snaps = Repos /\ det'.snaps[r] = snap[r] /\ \A p \in Repos \ {r} : det'.snaps[p] = det.snaps[p]
    BY <1>4, <1>5, <2>1
  <2> QED BY <2>1, <2>2, <2>3 DEF SnapsTold
<1>7. LoopTold'
  <2>1. det'.pc = "read" => det'.read < Count
    BY <1>3, <1>5, WatchAssumption
  <2>2. det'.pc = "parse" => det'.read = Count
    BY <1>5
  <2>3. det'.pc \in {"parse", "read"} /\ det'.read \in Nat
    BY <1>3, <1>5
  <2>4. DOMAIN det'.work = DOMAIN NoCycle
    BY <1>2, <1>5 DEF LoopTold, WorkTold
  <2> QED BY <1>5, <1>6, <2>1, <2>2, <2>3, <2>4 DEF LoopTold, WorkTold, Parsing
<1> QED BY <1>1, <1>7, GitKept, CacheKept, ResultsKept DEF ReadInv

LEMMA ParseReads ==
    ASSUME ReadInv, parseFiles
    PROVE  ReadInv'
<1>1. UNCHANGED gitVars /\ UNCHANGED resultVars
  BY DEF parseFiles, world, resultVars
<1>2. LoopTold /\ CacheTold
  BY DEF ReadInv
<1> DEFINE files == Files(det.snaps)
<1>3. PICK down \in Unanswered(files) :
              /\ cache' = nextCache(files, down)
              /\ Work([NoCycle EXCEPT !.files = {parseFile(pf, down) : pf \in files}, !.down = down], "classify")
  BY DEF parseFiles
<1>4. down \subseteq Asked(files)
  BY DEF Unanswered, Asked
<1>5. \A pf \in files : parseFile(pf, down) = AsRead(pf, down)
  BY <1>2, <1>4, CacheUnseen
<1> DEFINE w == [NoCycle EXCEPT !.files = {parseFile(pf, down) : pf \in files}, !.down = down]
<1>6. w.files = AllRead(det.snaps, down)
  <2>1. w.files = {parseFile(pf, down) : pf \in files}
    BY DEF NoCycle
  <2> QED BY <2>1, <1>5 DEF AllRead
<1>7. DOMAIN w = DOMAIN NoCycle /\ w.down = down /\ w.obs = NoObs /\ w.orphans = {}
  BY DEF NoCycle
<1>8. /\ DOMAIN det' = {"pc", "snaps", "read", "work"}
      /\ det'.pc = "classify" /\ det'.work = w /\ det'.snaps = det.snaps /\ det'.read = det.read
  BY <1>2, <1>3, WorkIs
<1>9. LoopTold'
  <2> HIDE DEF w
  <2>1. det.pc = "parse" /\ det.read = Count
    BY <1>2 DEF parseFiles, LoopTold, WorkTold
  <2> QED BY <1>2, <1>6, <1>7, <1>8, <2>1, NothingTold DEF LoopTold, WorkTold, Parsing
<1>10. CacheTold'
  BY <1>2, <1>3, NextCacheTold DEF CacheTold
<1> QED BY <1>1, <1>9, <1>10, GitKept, ResultsKept DEF ReadInv

LEMMA ClassifyReads ==
    ASSUME ReadInv, classify
    PROVE  ReadInv'
<1>1. UNCHANGED gitVars /\ UNCHANGED cache /\ UNCHANGED resultVars
  BY DEF classify, world, resultVars
<1>2. LoopTold
  BY DEF ReadInv
<1> DEFINE w == [det.work EXCEPT !.todo = ManagedOf(det.work.files), !.seen = {p.job : p \in ManagedOf(det.work.files)}]
<1>3. det.pc = "classify" /\ Work(w, "reconcile")
  BY DEF classify, ManagedOf, Parsed, Became
<1>4. /\ DOMAIN det' = {"pc", "snaps", "read", "work"}
      /\ det'.pc = "reconcile" /\ det'.work = w /\ det'.snaps = det.snaps /\ det'.read = det.read
  BY <1>2, <1>3, WorkIs
<1>5. /\ DOMAIN w = DOMAIN NoCycle /\ w.files = det.work.files /\ w.down = det.work.down
      /\ w.obs = det.work.obs /\ w.orphans = det.work.orphans
      /\ w.todo = ManagedOf(w.files) /\ w.seen = {p.job : p \in ManagedOf(w.files)}
  BY <1>2, NoCycleIs DEF LoopTold, WorkTold
<1>6. LoopTold'
  <2> HIDE DEF w
  <2> QED BY <1>2, <1>3, <1>4, <1>5 DEF LoopTold, WorkTold, Parsing
<1> QED BY <1>1, <1>6, GitKept, CacheKept, ResultsKept DEF ReadInv

LEMMA ReconcileReads ==
    ASSUME ReadInv, reconcileJob
    PROVE  ReadInv'
<1>1. UNCHANGED gitVars /\ UNCHANGED cache /\ UNCHANGED resultVars
  BY DEF reconcileJob, world, resultVars
<1>2. LoopTold /\ det.pc = "reconcile"
  BY DEF ReadInv, reconcileJob
<1>3. PICK p \in det.work.todo :
          LET o == [repo |-> p.repo, commit |-> p.commit, path |-> p.path, of |-> p.of, stamp |-> p.stamp,
                    window |-> windowAt[p.of][clock]]
              w == [det.work EXCEPT !.todo = @ \ {p}]
          IN  Work([w EXCEPT !.obs[p.job] = o], "reconcile") \/ Work(w, "reconcile")
  BY DEF reconcileJob
<1> DEFINE o == [repo |-> p.repo, commit |-> p.commit, path |-> p.path, of |-> p.of, stamp |-> p.stamp,
                    window |-> windowAt[p.of][clock]]
           v == [det.work EXCEPT !.todo = @ \ {p}]
           w == IF Work(v, "reconcile") THEN v ELSE [v EXCEPT !.obs[p.job] = o]
<1>4. Work(w, "reconcile")
  BY <1>3
<1>5. /\ DOMAIN det' = {"pc", "snaps", "read", "work"}
      /\ det'.pc = "reconcile" /\ det'.work = w /\ det'.snaps = det.snaps /\ det'.read = det.read
  BY <1>2, <1>4, WorkIs
<1>6. /\ DOMAIN det.work = DOMAIN NoCycle
      /\ det.work.files = AllRead(det.snaps, det.work.down)
      /\ det.work.todo \subseteq ManagedOf(det.work.files)
      /\ AllTell(det.work.obs, det.snaps, det.work.down)
      /\ SnapsTold(det.snaps)
  BY <1>2 DEF LoopTold, WorkTold, Parsing
<1>7. p.job \in Jobs /\ Tells(o, p.job, det.snaps, det.work.down)
  <2>1. p \in ManagedOf(AllRead(det.snaps, det.work.down))
    BY <1>6
  <2>2. Observes(o, p)
    BY DEF Observes
  <2> QED BY <1>6, <2>1, <2>2, ManagedTells
<1>8. /\ DOMAIN w = DOMAIN NoCycle /\ w.files = det.work.files /\ w.down = det.work.down
      /\ w.seen = det.work.seen /\ w.orphans = det.work.orphans
      /\ w.todo = det.work.todo \ {p}
      /\ w.obs = det.work.obs \/ w.obs = [det.work.obs EXCEPT ![p.job] = o]
  <2> HIDE DEF o
  <2> QED BY <1>6, NoCycleIs
<1>9. AllTell(w.obs, det.snaps, det.work.down)
  <2>1. CASE w.obs = det.work.obs
    BY <2>1, <1>6
  <2>2. CASE w.obs = [det.work.obs EXCEPT ![p.job] = o]
    <3> DEFINE x == w.obs
    <3> HIDE DEF o, w
    <3>1. DOMAIN x = Jobs /\ x[p.job] = o /\ \A j \in Jobs \ {p.job} : x[j] = det.work.obs[j]
      BY <1>6, <1>7, <2>2 DEF AllTell
    <3> QED BY <1>6, <1>7, <3>1 DEF AllTell
  <2> QED BY <1>8, <2>1, <2>2
<1>10. LoopTold'
  <2> HIDE DEF w
  <2> QED BY <1>2, <1>5, <1>6, <1>8, <1>9 DEF LoopTold, WorkTold, Parsing
<1> QED BY <1>1, <1>10, GitKept, CacheKept, ResultsKept DEF ReadInv

LEMMA ReplaceReads ==
    ASSUME ReadInv, replaceObservations
    PROVE  ReadInv'
<1>1. UNCHANGED gitVars /\ UNCHANGED cache /\ UNCHANGED <<orphans, waiting, checked, gone, running>>
      /\ det.pc = "reconcile" /\ obs' = det.work.obs
      /\ told' = [snaps |-> det.snaps, down |-> det.work.down]
  BY DEF replaceObservations, world
<1>2. LoopTold /\ ResultsTold
  BY DEF ReadInv
<1>3. ResultsTold'
  <2>1. AllTell(det.work.obs, det.snaps, det.work.down)
    BY <1>1, <1>2 DEF LoopTold, WorkTold
  <2>2. AllTell(obs', told'.snaps, told'.down)
    BY <1>1, <2>1
  <2> QED BY <1>1, <1>2, <2>2 DEF ResultsTold
<1>4. LoopTold'
  <2>1. CASE Became("unparsed") # {}
    BY <1>2, <2>1, RestTold DEF replaceObservations
  <2>2. CASE Became("unparsed") = {}
    <3>1. Goto("removed")
      BY <2>2 DEF replaceObservations
    <3>2. /\ DOMAIN det' = {"pc", "snaps", "read", "work"}
          /\ det'.pc = "removed" /\ det'.work = det.work /\ det'.snaps = det.snaps /\ det'.read = det.read
      BY <1>2, <3>1, GotoIs
    <3>3. det.work.orphans = {}
      BY <1>1, <1>2 DEF LoopTold, WorkTold
    <3> QED BY <1>1, <1>2, <2>2, <3>2, <3>3 DEF LoopTold, WorkTold, Parsing, Became
  <2> QED BY <2>1, <2>2
<1> QED BY <1>1, <1>3, <1>4, GitKept, CacheKept DEF ReadInv

LEMMA RemovedReads ==
    ASSUME ReadInv, supersedeRemoved
    PROVE  ReadInv'
<1> DEFINE w == [det.work EXCEPT !.todo = Deployed \ {p.job : p \in Became("parsed")}]
<1>1. /\ UNCHANGED gitVars /\ UNCHANGED cache /\ UNCHANGED <<obs, orphans, told, checked, running>>
      /\ det.pc = "removed"
      /\ waiting' = waiting \ {j \in waiting : j \in ManagedNS /\ j \notin det.work.seen}
      /\ gone' = {[job |-> j, snaps |-> det.snaps] : j \in waiting \ waiting'}
      /\ Work(w, "orphans")
  BY DEF supersedeRemoved, world
<1>2. LoopTold /\ ResultsTold
  BY DEF ReadInv
<1>3. /\ SnapsTold(det.snaps) /\ DOMAIN det.work = DOMAIN NoCycle /\ det.read = Count
      /\ det.work.files = AllRead(det.snaps, det.work.down)
      /\ det.work.seen = {p.job : p \in ManagedOf(det.work.files)}
      /\ det.work.orphans = {}
      /\ Became("unparsed") = {}
  BY <1>1, <1>2 DEF LoopTold, WorkTold, Parsing
<1>4. \A p \in AllRead(det.snaps, det.work.down) : p.outcome # "unparsed"
  BY <1>3 DEF Became
<1>5. \A g \in gone' : TakenRightly(g.job, g.snaps)
  <2> SUFFICES ASSUME NEW j \in waiting \ waiting'
               PROVE  TakenRightly(j, det.snaps)
    BY <1>1
  <2>1. j \in ManagedNS /\ j \notin det.work.seen
    BY <1>1
  <2>2. \A p \in ManagedOf(AllRead(det.snaps, det.work.down)) : p.job # j
    BY <1>3, <2>1
  <2> QED BY <1>3, <1>4, <2>1, <2>2, RemovedIsTaken
<1>6. ResultsTold'
  BY <1>1, <1>2, <1>5 DEF ResultsTold
<1>7. /\ DOMAIN det' = {"pc", "snaps", "read", "work"}
      /\ det'.pc = "orphans" /\ det'.work = w /\ det'.snaps = det.snaps /\ det'.read = det.read
  BY <1>1, <1>2, WorkIs
<1>8. /\ DOMAIN w = DOMAIN NoCycle /\ w.files = det.work.files /\ w.down = det.work.down
      /\ w.seen = det.work.seen /\ w.orphans = {} /\ w.obs = det.work.obs
      /\ w.todo = Deployed \ {p.job : p \in Parsed(w.files)}
  BY <1>3, NoCycleIs DEF Became, Parsed
<1>9. LoopTold'
  <2> HIDE DEF w
  <2>1. Became("unparsed")' = {}
    BY <1>3, <1>7, <1>8 DEF Became
  <2> QED BY <1>2, <1>3, <1>7, <1>8, <2>1 DEF LoopTold, WorkTold, Parsing
<1> QED BY <1>1, <1>6, <1>9, GitKept, CacheKept DEF ReadInv

LEMMA OrphanReads ==
    ASSUME ReadInv, findOrphans
    PROVE  ReadInv'
<1>1. UNCHANGED gitVars /\ UNCHANGED cache /\ UNCHANGED resultVars /\ det.pc = "orphans"
  BY DEF findOrphans, world, resultVars
<1>2. LoopTold
  BY DEF ReadInv
<1>3. PICK j \in det.work.todo :
          \/ Work([[det.work EXCEPT !.todo = @ \ {j}] EXCEPT !.orphans = @ \cup ({j} \cap running)], "orphans")
          \/ Work([det.work EXCEPT !.todo = @ \ {j}], "orphans")
  BY DEF findOrphans
<1> DEFINE v == [det.work EXCEPT !.todo = @ \ {j}]
           w == IF Work(v, "orphans") THEN v ELSE [v EXCEPT !.orphans = @ \cup ({j} \cap running)]
<1>4. Work(w, "orphans")
  BY <1>3
<1>5. /\ DOMAIN det' = {"pc", "snaps", "read", "work"}
      /\ det'.pc = "orphans" /\ det'.work = w /\ det'.snaps = det.snaps /\ det'.read = det.read
  BY <1>2, <1>4, WorkIs
<1>6. /\ DOMAIN det.work = DOMAIN NoCycle /\ det.read = Count
      /\ det.work.files = AllRead(det.snaps, det.work.down)
      /\ Became("unparsed") = {}
      /\ det.work.todo \cup det.work.orphans \subseteq Deployed \ {p.job : p \in Parsed(det.work.files)}
  BY <1>1, <1>2 DEF LoopTold, WorkTold, Parsing
<1>7. /\ DOMAIN w = DOMAIN NoCycle /\ w.files = det.work.files /\ w.down = det.work.down
      /\ w.todo \cup w.orphans \subseteq det.work.todo \cup det.work.orphans
  BY <1>6, NoCycleIs
<1>8. LoopTold'
  <2> HIDE DEF w
  <2>1. Became("unparsed")' = {}
    BY <1>5, <1>6, <1>7 DEF Became
  <2> QED BY <1>2, <1>5, <1>6, <1>7, <2>1 DEF LoopTold, WorkTold, Parsing
<1> QED BY <1>1, <1>8, GitKept, CacheKept, ResultsKept DEF ReadInv

LEMMA SetOrphansReads ==
    ASSUME ReadInv, setOrphans
    PROVE  ReadInv'
<1>1. UNCHANGED gitVars /\ UNCHANGED cache /\ UNCHANGED <<obs, waiting, told, gone, running>> /\ det.pc = "orphans"
      /\ orphans' = det.work.orphans /\ checked' = det.snaps
  BY DEF setOrphans, world
<1>2. LoopTold /\ ResultsTold
  BY DEF ReadInv
<1>3. /\ SnapsTold(det.snaps)
      /\ det.work.files = AllRead(det.snaps, det.work.down)
      /\ Became("unparsed") = {}
      /\ det.work.orphans \subseteq Deployed \ {p.job : p \in Parsed(det.work.files)}
  BY <1>1, <1>2 DEF LoopTold, WorkTold, Parsing
<1>4. orphans' \subseteq Deployed
  BY <1>1, <1>3
<1>5. \A j \in orphans' : mayBe(checked', j) = {}
  <2> SUFFICES ASSUME NEW j \in det.work.orphans
               PROVE  mayBe(det.snaps, j) = {}
    BY <1>1
  <2>1. \A p \in AllRead(det.snaps, det.work.down) : p.outcome # "unparsed"
    BY <1>3 DEF Became
  <2>2. j \in ManagedNS /\ \A p \in Parsed(AllRead(det.snaps, det.work.down)) : p.job # j
    BY <1>3, WatchAssumption
  <2> QED BY <1>3, <2>1, <2>2, OrphanHasNoFile
<1>6. ResultsTold'
  BY <1>1, <1>2, <1>4, <1>5 DEF ResultsTold
<1>7. LoopTold'
  BY <1>2, RestTold DEF setOrphans
<1> QED BY <1>1, <1>6, <1>7, GitKept, CacheKept DEF ReadInv

LEMMA AbortReads ==
    ASSUME ReadInv, Abort
    PROVE  ReadInv'
<1>1. UNCHANGED gitVars /\ UNCHANGED cache /\ UNCHANGED resultVars
  BY DEF Abort, world, resultVars
<1>2. LoopTold'
  BY RestTold DEF Abort, ReadInv
<1> QED BY <1>1, <1>2, GitKept, CacheKept, ResultsKept DEF ReadInv

LEMMA RestartReads ==
    ASSUME ReadInv, Restart
    PROVE  ReadInv'
<1>1. GitTold'
  BY EmptyTold DEF Restart, ReadInv, GitTold, WatchersTold
<1>2. LoopTold'
  <2>1. det' = Cycle
    BY DEF Restart
  <2>2. DOMAIN det' = {"pc", "snaps", "read", "work"} /\ det'.pc = "first" /\ det'.read = 0
        /\ det'.snaps = [r \in Repos |-> NoSnap] /\ det'.work = NoCycle
    BY <2>1 DEF Cycle
  <2> QED BY <2>2, EmptyTold DEF LoopTold, WorkTold, Parsing
<1>3. CacheTold'
  BY DEF CacheTold, Restart
<1>4. ResultsTold'
  BY NothingTold DEF ResultsTold, ReadInv, Restart, world
<1> QED BY <1>1, <1>2, <1>3, <1>4 DEF ReadInv

\* What asks for polls and cycles, and the world.
LEMMA OthersRead ==
    ASSUME ReadInv, Trigger \/ kickDetection \/ Stop \/ Tick
    PROVE  ReadInv'
<1>1. UNCHANGED <<det, cache, obs, orphans, checked, gone, waiting, told, head, watchers, snap, failing>>
  BY DEF Trigger, kickDetection, Stop, Tick, engineVars, gitVars
<1>2. LoopTold' /\ CacheTold'
  BY <1>1, LoopKept, CacheKept DEF ReadInv
<1>3. trigger' \in {trigger, Repos}
  BY DEF Trigger, kickDetection, Stop, Tick, gitVars
<1>4. GitTold'
  BY <1>1, <1>3 DEF ReadInv, GitTold, WatchersTold
<1>5. running' \subseteq running
  BY DEF Trigger, kickDetection, Stop, Tick, world
<1>6. ResultsTold'
  BY <1>1, <1>5 DEF ReadInv, ResultsTold
<1> QED BY <1>2, <1>4, <1>6 DEF ReadInv

LEMMA ReadStep == ReadInv /\ [Next]_vars => ReadInv'
<1> SUFFICES ASSUME ReadInv, [Next]_vars PROVE ReadInv'
  OBVIOUS
<1>1. CASE UNCHANGED vars
  BY <1>1, GitKept, LoopKept, CacheKept, ResultsKept
     DEF ReadInv, vars, engineVars, world, resultVars
<1>2. CASE \E r \in Repos : Watching(r) \/ pollFails(r) \/ fetchFails(r) \/ Push(r)
  BY <1>2, WatcherReads
<1>3. CASE Detecting
  BY <1>3, BeginReads, SnapshotReads, ParseReads, ClassifyReads, ReconcileReads, ReplaceReads,
     RemovedReads, OrphanReads, SetOrphansReads DEF Detecting
<1>4. CASE Abort
  BY <1>4, AbortReads
<1>5. CASE Trigger \/ kickDetection \/ Stop \/ Tick
  BY <1>5, OthersRead
<1>6. CASE Restart
  BY <1>6, RestartReads
<1> QED BY <1>1, <1>2, <1>3, <1>4, <1>5, <1>6 DEF Next

\* What every cycle has is what it read: the snapshots are those of commits, the cache
\* holds what Nomad made of its keys, and the observations, the jobs taken for removed
\* and the orphans follow from the files (internal/gitwatch, detect.go runOnce).
THEOREM ReadInvariant == Spec => []ReadInv
<1>1. Init => ReadInv
  BY ReadInit
<1>2. ReadInv /\ [Next]_vars => ReadInv'
  BY ReadStep
<1> QED BY <1>1, <1>2, PTL DEF Spec

\* Every variable keeps its shape: snapshots of commits, one job for each key of the
\* cache, every snapshot read by a cycle at work (gitwatch.go, detect.go parseFile).
THEOREM WatchTypes == Spec => []WatchTypeOK
<1>1. ReadInv => WatchTypeOK
  <2> SUFFICES ASSUME ReadInv PROVE WatchTypeOK
    OBVIOUS
  <2>1. \A r \in Repos : head[r] \in Commits(r)
    BY DEF ReadInv, GitTold, WatchersTold
  <2>2. watchers \in [Repos -> {"new", "idle", "fetch", "signal"}] /\ failing \cup trigger \subseteq Repos
    BY DEF ReadInv, GitTold, WatchersTold
  <2>3. \A r \in Repos : snap[r].commit \in Commits(r) \cup {None} /\ (watchers[r] = "new" => snap[r] = NoSnap)
    BY DEF ReadInv, GitTold, WatchersTold, SnapsTold, SnapTold, NoSnap
  <2>4. \A c, d \in cache : c.key = d.key => c = d
    <3> SUFFICES ASSUME NEW c \in cache, NEW d \in cache, c.key = d.key PROVE c = d
      OBVIOUS
    <3>1. c = Cached(c.key) /\ d = Cached(d.key)
      BY DEF ReadInv, CacheTold
    <3> QED BY <3>1
  <2>5. det.pc \in {"first", "idle", "read", "parse", "classify", "reconcile", "removed", "orphans"}
        /\ (det.pc \in {"parse", "classify", "reconcile", "removed", "orphans"} => det.read = Count)
    BY DEF ReadInv, LoopTold, WorkTold, Parsing
  <2>6. orphans \subseteq Deployed /\ waiting \cup running \subseteq Jobs
    BY DEF ReadInv, ResultsTold
  <2> QED BY <2>1, <2>2, <2>3, <2>4, <2>5, <2>6 DEF WatchTypeOK
<1> QED BY <1>1, ReadInvariant, PTL

\* What detection says of a job is what the one file that declares it says, at the
\* commit it was read at, whatever the cache held before (detect.go parseFile,
\* parseCacheKey, classify), for any number of repositories and any files.
THEOREM ObservationsTold == Spec => []ToldFromGit
<1>1. ReadInv => ToldFromGit
  <2> SUFFICES ASSUME ReadInv PROVE ToldFromGit
    OBVIOUS
  <2>1. \A j \in Jobs : obs[j] # None => Tells(obs[j], j, told.snaps, told.down)
    BY DEF ReadInv, ResultsTold, AllTell
  <2> QED BY <2>1 DEF ToldFromGit, Tells
<1> QED BY <1>1, ReadInvariant, PTL

\* No job is taken for removed, or for an orphan, by a cycle with a file that did not
\* parse or one that could be that job's (detect.go supersedeRemoved, orphans.go).
THEOREM RemovedRightly == Spec => []NothingTakenForRemoved
<1>1. ReadInv => NothingTakenForRemoved
  BY DEF ReadInv, ResultsTold, TakenRightly, NothingTakenForRemoved
<1> QED BY <1>1, ReadInvariant, PTL

-----------------------------------------------------------------------------
(***************************************************************************)
(* What a sync window does next.                                           *)
(***************************************************************************)
ExprOK(expr) == expr.every \in Nat \ {0} /\ expr.last \in Int
WindowOK(w) == ExprOK(w.expr) /\ w.duration \in Nat \ {0}

\* The next match is the first of all that follow, however far it looks.
LEMMA NextIs ==
    ASSUME NEW expr, ExprOK(expr), NEW t \in Int
    PROVE  \/ /\ NextMatch(expr, t) = Never
              /\ \A u \in Int : t < u => ~Matches(expr, u)
           \/ /\ NextMatch(expr, t) \in Int /\ t < NextMatch(expr, t)
              /\ Matches(expr, NextMatch(expr, t))
              /\ \A u \in Int : t < u /\ Matches(expr, u) => NextMatch(expr, t) <= u
<1> DEFINE ahead == {u \in (t + 1)..(t + expr.every) : Matches(expr, u)}
<1>0. expr.every \in Nat \ {0} /\ expr.last \in Int
  BY DEF ExprOK
<1>1. ASSUME NEW u \in Int, t < u, Matches(expr, u)
      PROVE  \E v \in ahead : v <= u
  <2>1. PICK v \in (t + 1)..(t + expr.every) : v <= u /\ v % expr.every = u % expr.every
    BY <1>0, <1>1, CameBefore
  <2>2. v \in Int
    BY <1>0
  <2>3. Matches(expr, v)
    BY <1>0, <1>1, <2>1, <2>2 DEF Matches
  <2> QED BY <2>1, <2>3
<1>2. CASE ahead = {}
  <2>1. NextMatch(expr, t) = Never
    BY <1>2 DEF NextMatch
  <2>2. \A u \in Int : t < u => ~Matches(expr, u)
    <3> HIDE DEF ahead
    <3> QED BY <1>1, <1>2
  <2> QED BY <2>1, <2>2
<1>3. CASE ahead # {}
  <2>1. PICK m \in ahead : \A k \in ahead : m <= k
    <3>1. t + 1 \in Int /\ t + expr.every \in Int /\ ahead \subseteq (t + 1)..(t + expr.every)
      BY <1>0
    <3> HIDE DEF ahead
    <3> QED BY <1>3, <3>1, LeastOf
  <2> DEFINE n == CHOOSE u \in ahead : \A v \in ahead : u <= v
  <2>2. NextMatch(expr, t) = n
    BY <1>3 DEF NextMatch
  <2>3. n \in ahead /\ \A v \in ahead : n <= v
    <3> HIDE DEF ahead
    <3> QED BY <2>1
  <2>4. n \in Int /\ t < n /\ Matches(expr, n)
    <3> HIDE DEF n
    <3> QED BY <1>0, <2>3
  <2>5. ASSUME NEW u \in Int, t < u, Matches(expr, u)
        PROVE  n <= u
    <3>1. PICK v \in ahead : v <= u
      BY <1>1, <2>5
    <3>2. v \in Int /\ n <= v
      <4> HIDE DEF n
      <4> QED BY <1>0, <2>3
    <3> HIDE DEF n, ahead
    <3> QED BY <2>4, <3>1, <3>2
  <2> HIDE DEF n
  <2> QED BY <2>2, <2>4, <2>5
<1> QED BY <1>2, <1>3

\* Open tells whether a time is in the window (meta.go Open).
LEMMA OpenIs ==
    ASSUME NEW w, WindowOK(w), NEW t \in Int
    PROVE  Open(w, t) <=> inside(w, t)
<1> DEFINE n == NextMatch(w.expr, t - w.duration)
<1>1. w.duration \in Nat \ {0} /\ t - w.duration \in Int /\ ExprOK(w.expr)
  BY DEF WindowOK
<1>2. \/ n = Never /\ \A u \in Int : t - w.duration < u => ~Matches(w.expr, u)
      \/ /\ n \in Int /\ t - w.duration < n /\ Matches(w.expr, n)
         /\ \A u \in Int : t - w.duration < u /\ Matches(w.expr, u) => n <= u
  BY <1>1, NextIs
<1>3. Open(w, t) <=> n # Never /\ n <= t
  BY DEF Open
<1>4. inside(w, t) <=> \E u \in Int : t - w.duration < u /\ u <= t /\ Matches(w.expr, u)
  BY <1>1 DEF inside
<1> HIDE DEF n
<1>5. ASSUME n # Never, n <= t PROVE inside(w, t)
  BY <1>2, <1>4, <1>5
<1>6. ASSUME inside(w, t) PROVE n # Never /\ n <= t
  <2>1. PICK u \in Int : t - w.duration < u /\ u <= t /\ Matches(w.expr, u)
    BY <1>4, <1>6
  <2>2. n \in Int /\ n <= u
    BY <1>2, <2>1
  <2> QED BY <2>1, <2>2, WindowAssumption
<1> QED BY <1>3, <1>5, <1>6

\* A closed window stays closed until NextOpen, and is open then.
LEMMA ClosedTold ==
    ASSUME NEW w, WindowOK(w), NEW t \in Int, ~Open(w, t), NEW u \in Int, t <= u
    PROVE  /\ NextOpen(w, t) = Never \/ u < NextOpen(w, t) => ~inside(w, u)
           /\ NextOpen(w, t) = u => inside(w, u)
<1> DEFINE n == NextMatch(w.expr, t)
<1>1. w.duration \in Nat \ {0} /\ ExprOK(w.expr)
  BY DEF WindowOK
<1>2. \/ n = Never /\ \A v \in Int : t < v => ~Matches(w.expr, v)
      \/ /\ n \in Int /\ t < n /\ Matches(w.expr, n)
         /\ \A v \in Int : t < v /\ Matches(w.expr, v) => n <= v
  BY <1>1, NextIs
<1>3. NextOpen(w, t) = n
  BY DEF NextOpen
<1>4. \A v \in Int : v <= t /\ t - w.duration < v => ~Matches(w.expr, v)
  BY <1>1, OpenIs DEF inside
<1> HIDE DEF n
<1>5. ASSUME n = Never \/ u < n, NEW v \in (u - w.duration + 1)..u, Matches(w.expr, v)
      PROVE  FALSE
  <2>1. v \in Int /\ v <= u /\ u - w.duration < v
    BY <1>1, <1>5
  <2>2. t < v
    BY <1>1, <1>4, <1>5, <2>1
  <2>3. n \in Int /\ n <= v
    BY <1>2, <1>5, <2>1, <2>2
  <2> QED BY <1>5, <2>1, <2>3, WindowAssumption
<1>6. ASSUME n = u PROVE inside(w, u)
  <2>1. u \in (u - w.duration + 1)..u
    BY <1>1
  <2>2. Matches(w.expr, u)
    BY <1>2, <1>6, WindowAssumption
  <2> QED BY <2>1, <2>2 DEF inside
<1> QED BY <1>3, <1>5, <1>6 DEF inside
\* An open window for which a close is told stays open until then, and no longer: the
\* windows that run into each other from the one that covers t do so up to the first
\* that none follows in time.
LEMMA OpenTold ==
    ASSUME NEW w, WindowOK(w), NEW t \in Int, Open(w, t), NextClose(w, t) # Never, NEW u \in Int, t <= u
    PROVE  /\ NextClose(w, t) \in Int
           /\ u < NextClose(w, t) => inside(w, u)
           /\ NextClose(w, t) = u => ~inside(w, u)
<1> DEFINE d == w.duration
           first == NextMatch(w.expr, t - d)
           bound == first + MaxCloseSteps * w.expr.every
           starts == {s \in first..bound : Matches(w.expr, s)}
           last == {s \in starts : \A v \in (s + 1)..(s + d) : ~Matches(w.expr, v)}
           end == CHOOSE s \in last : \A o \in last : s <= o
<1>1. d \in Nat \ {0} /\ ExprOK(w.expr) /\ w.expr.every \in Nat \ {0}
  BY DEF WindowOK, ExprOK
<1>2. first \in Int /\ t - d < first /\ first <= t /\ Matches(w.expr, first)
  <2>1. first # Never /\ first <= t
    BY DEF Open
  <2> QED BY <1>1, <2>1, NextIs
<1>3. bound \in Int
  <2>1. MaxCloseSteps * w.expr.every \in Int
    BY <1>1, MetaAssumption
  <2> HIDE DEF first
  <2> QED BY <1>2, <2>1
<1>4. last # {} /\ NextClose(w, t) = end + d
  BY DEF NextClose
<1>5. end \in last /\ \A o \in last : end <= o
  <2>1. last \subseteq first..bound
    OBVIOUS
  <2> HIDE DEF last, first, bound
  <2>2. PICK m \in last : \A o \in last : m <= o
    BY <1>2, <1>3, <1>4, <2>1, LeastOf
  <2> QED BY <2>2
<1>6. /\ end \in Int /\ first <= end /\ end <= bound /\ Matches(w.expr, end)
      /\ \A v \in (end + 1)..(end + d) : ~Matches(w.expr, v)
  <2> HIDE DEF first, bound, end
  <2> QED BY <1>2, <1>3, <1>5
<1>7. ASSUME u < end + d PROVE inside(w, u)
  \* The latest start until u still covers it, or the windows would have ended there.
  <2> DEFINE T == {s \in first..u : Matches(w.expr, s)}
  <2>1. first \in T /\ T \subseteq first..u
    <3> HIDE DEF first
    <3> QED BY <1>2
  <2>2. PICK s \in T : \A k \in T : k <= s
    <3> HIDE DEF T, first
    <3> QED BY <1>2, <2>1, MostOf
  <2>3. s \in Int /\ first <= s /\ s <= u /\ Matches(w.expr, s)
    <3> HIDE DEF first
    <3> QED BY <1>2
  <2>4. \A v \in Int : s < v /\ v <= u => ~Matches(w.expr, v)
    <3> SUFFICES ASSUME NEW v \in Int, s < v, v <= u, Matches(w.expr, v) PROVE FALSE
      OBVIOUS
    <3>1. v \in T
      <4> HIDE DEF first
      <4> QED BY <1>2, <2>3
    <3> HIDE DEF T
    <3> QED BY <2>2, <2>3, <3>1
  <2>5. u < s + d
    <3> SUFFICES ASSUME ~(u < s + d) PROVE FALSE
      OBVIOUS
    <3> HIDE DEF first, bound, end
    <3>1. \A v \in (s + 1)..(s + d) : ~Matches(w.expr, v)
      BY <1>1, <2>3, <2>4
    <3>2. s <= end
      <4> SUFFICES ASSUME end < s PROVE FALSE
        BY <1>6, <2>3
      <4>1. s \in (end + 1)..(end + d)
        BY <1>1, <1>6, <1>7, <2>3
      <4> QED BY <1>6, <2>3, <4>1
    <3>3. s \in last
      BY <1>2, <1>3, <1>6, <2>3, <3>1, <3>2
    <3>4. end <= s
      BY <1>5, <3>3
    <3> QED BY <1>1, <1>6, <1>7, <2>3, <3>4
  <2>6. s \in (u - d + 1)..u
    <3> HIDE DEF T
    <3> QED BY <1>1, <2>3, <2>5
  <2> QED BY <2>3, <2>6 DEF inside
<1>8. ASSUME end + d = u PROVE ~inside(w, u)
  <2> SUFFICES ASSUME NEW v \in (u - d + 1)..u, Matches(w.expr, v) PROVE FALSE
    BY DEF inside
  <2>1. v \in (end + 1)..(end + d)
    <3> HIDE DEF end
    <3> QED BY <1>1, <1>6, <1>8
  <2> QED BY <1>6, <2>1
<1> QED
  <2> HIDE DEF end
  <2> QED BY <1>1, <1>4, <1>6, <1>7, <1>8

\* What the keys of a job are read as is a window or none.
LEMMA ParsedWindow ==
    ASSUME NEW c \in DOMAIN Contents, cfgOf[c].window # Absent
    PROVE  WindowOK(cfgOf[c].window)
<1> DEFINE m == Contents[c].meta
<1>1. cfgOf[c].window = parseSyncWindow(m)
  BY DEF cfgOf, Parse
<1>2. m.window # Absent /\ WindowErrors(m) = {} /\ cfgOf[c].window = [expr |-> m.window, duration |-> m.duration]
  BY <1>1 DEF parseSyncWindow
<1>3. m.duration # Absent /\ m.window # Junk /\ m.duration # Junk /\ ~(m.duration <= 0)
  <2> HIDE DEF m
  <2> QED BY <1>2 DEF WindowErrors, Error
<1>4. m.window.every \in Nat \ {0} /\ m.window.last \in Int /\ m.duration \in Int
  BY <1>2, <1>3, WindowAssumption
<1> HIDE DEF m
<1> QED BY <1>2, <1>3, <1>4 DEF WindowOK, ExprOK

\* What is told of a window at t is true of it at any later time.
LEMMA StatusTold ==
    ASSUME GivesUpRightly, NEW c \in DOMAIN Contents, NEW t \in 0..MaxClock, NEW u \in 0..MaxClock, t <= u,
           NEW w, w = cfgOf[c].window, NEW said, said = windowAt[c][t], said # Absent
    PROVE  /\ said.until = Never \/ u < said.until => (inside(w, u) <=> said.open)
           /\ said.until = u => (inside(w, u) <=> ~said.open)
<1>1. said = windowStatus(cfgOf[c], t)
  BY DEF windowAt
<1>2. /\ w # Absent
      /\ said = [open |-> Open(w, t), until |-> IF Open(w, t) THEN NextClose(w, t) ELSE NextOpen(w, t)]
  BY <1>1 DEF windowStatus
<1>3. WindowOK(w)
  BY <1>2, ParsedWindow
<1>4. t \in Int /\ u \in Int
  OBVIOUS
<1>5. said.open = Open(w, t) /\ Open(w, t) \in BOOLEAN
  BY <1>2 DEF Open
<1>6. CASE ~Open(w, t)
  <2>1. said.until = NextOpen(w, t)
    BY <1>2, <1>6
  <2> QED BY <1>3, <1>4, <1>5, <1>6, <2>1, ClosedTold
<1>7. CASE Open(w, t)
  <2>1. said.until = NextClose(w, t)
    BY <1>2, <1>7
  <2>2. CASE NextClose(w, t) = Never
    <3>1. inside(w, u)
      BY <1>2, <1>7, <2>2 DEF GivesUpRightly
    <3>2. said.until # u
      BY <1>4, <2>1, <2>2, WindowAssumption
    <3> QED BY <1>5, <1>7, <3>1, <3>2
  <2>3. CASE NextClose(w, t) # Never
    <3>1. /\ NextClose(w, t) \in Int
          /\ u < NextClose(w, t) => inside(w, u)
          /\ NextClose(w, t) = u => ~inside(w, u)
      BY <1>3, <1>4, <1>7, <2>3, OpenTold
    <3> QED BY <1>5, <1>7, <2>1, <2>3, <3>1
  <2> QED BY <2>2, <2>3
<1> QED BY <1>6, <1>7
-----------------------------------------------------------------------------
(***************************************************************************)
(* What was said of windows, and when.                                     *)
(***************************************************************************)
SaidBy(os, now) ==
    \A j \in Jobs : os[j] # None =>
        /\ os[j].of \in DOMAIN Contents
        /\ \E t \in 0..MaxClock : t <= now /\ os[j].window = windowAt[os[j].of][t]

SaidInv == /\ clock \in 0..MaxClock
           /\ SaidBy(obs, clock)
           /\ det.pc \in {"classify", "reconcile"} => SaidBy(det.work.obs, clock)

LEMMA NothingSaid == ASSUME NEW now PROVE SaidBy(NoObs, now)
BY DEF SaidBy, NoObs

\* What was said by now was said by any later time.
LEMMA SaidBefore ==
    ASSUME NEW os, NEW now \in Int, NEW later \in Int, now <= later, SaidBy(os, now)
    PROVE  SaidBy(os, later)
<1>1. ASSUME NEW j \in Jobs, os[j] # None
      PROVE  \E t \in 0..MaxClock : t <= later /\ os[j].window = windowAt[os[j].of][t]
  <2>1. PICK t \in 0..MaxClock : t <= now /\ os[j].window = windowAt[os[j].of][t]
    BY <1>1 DEF SaidBy
  <2>2. t <= later
    BY <2>1, WindowAssumption
  <2> QED BY <2>1, <2>2
<1>2. \A j \in Jobs : os[j] # None => os[j].of \in DOMAIN Contents
  BY DEF SaidBy
<1> QED BY <1>1, <1>2 DEF SaidBy

LEMMA SaidInit == Init => SaidInv
<1> SUFFICES ASSUME Init PROVE SaidInv
  OBVIOUS
<1>1. det.pc = "first" /\ obs = NoObs /\ clock \in 0..MaxClock
  BY WindowAssumption DEF Init, Cycle
<1> QED BY <1>1, NothingSaid DEF SaidInv

\* A step that says nothing new.
LEMMA SaidKept ==
    ASSUME SaidInv, UNCHANGED <<clock, obs>>, det'.pc \notin {"classify", "reconcile"} \/ UNCHANGED det
    PROVE  SaidInv'
BY DEF SaidInv, SaidBy

LEMMA ReconcileSays ==
    ASSUME ReadInv, SaidInv, reconcileJob
    PROVE  SaidInv'
<1>1. UNCHANGED <<clock, obs>> /\ det.pc = "reconcile"
  BY DEF reconcileJob, world
<1>2. PICK p \in det.work.todo :
          LET o == [repo |-> p.repo, commit |-> p.commit, path |-> p.path, of |-> p.of, stamp |-> p.stamp,
                    window |-> windowAt[p.of][clock]]
              w == [det.work EXCEPT !.todo = @ \ {p}]
          IN  Work([w EXCEPT !.obs[p.job] = o], "reconcile") \/ Work(w, "reconcile")
  BY DEF reconcileJob
<1> DEFINE o == [repo |-> p.repo, commit |-> p.commit, path |-> p.path, of |-> p.of, stamp |-> p.stamp,
                 window |-> windowAt[p.of][clock]]
           v == [det.work EXCEPT !.todo = @ \ {p}]
<1>3. LoopTold /\ DOMAIN det.work = DOMAIN NoCycle /\ AllTell(det.work.obs, det.snaps, det.work.down)
  BY <1>1 DEF ReadInv, LoopTold, WorkTold
<1>4. SaidBy(det.work.obs, clock) /\ clock \in 0..MaxClock
  BY <1>1 DEF SaidInv
<1>5. o.of = p.of /\ o.window = windowAt[p.of][clock]
  OBVIOUS
<1>6. det'.work.obs = det.work.obs \/ det'.work.obs = [det.work.obs EXCEPT ![p.job] = o]
  <2> HIDE DEF o
  <2>1. v.obs = det.work.obs /\ [v EXCEPT !.obs[p.job] = o].obs = [det.work.obs EXCEPT ![p.job] = o]
    BY <1>3, NoCycleIs
  <2>2. Work([v EXCEPT !.obs[p.job] = o], "reconcile") \/ Work(v, "reconcile")
    BY <1>2 DEF o
  <2> HIDE DEF v
  <2>3. CASE Work([v EXCEPT !.obs[p.job] = o], "reconcile")
    <3>1. det'.work = [v EXCEPT !.obs[p.job] = o]
      BY <1>3, <2>3, WorkIs
    <3> QED BY <2>1, <3>1
  <2>4. CASE Work(v, "reconcile")
    <3>1. det'.work = v
      BY <1>3, <2>4, WorkIs
    <3> QED BY <2>1, <3>1
  <2> QED BY <2>2, <2>3, <2>4
<1>7. p.of \in DOMAIN Contents
  <2>1. /\ SnapsTold(det.snaps)
        /\ p \in Parsed(AllRead(det.snaps, det.work.down))
    BY <1>1, <1>3 DEF LoopTold, WorkTold, ManagedOf, Parsing
  <2>2. PICK pf \in Files(det.snaps) : Parseable(pf.file) /\ p.of = pf.file.content
    BY <2>1, ParsedIs
  <2> QED BY <2>1, <2>2, FileIs DEF Parseable
<1>8. SaidBy(det'.work.obs, clock)
  <2>1. CASE det'.work.obs = det.work.obs
    BY <1>4, <2>1
  <2>2. CASE det'.work.obs = [det.work.obs EXCEPT ![p.job] = o]
    <3> DEFINE x == det'.work.obs
    <3> SUFFICES ASSUME NEW j \in Jobs, x[j] # None
                 PROVE  /\ x[j].of \in DOMAIN Contents
                        /\ \E t \in 0..MaxClock : t <= clock /\ x[j].window = windowAt[x[j].of][t]
      BY DEF SaidBy
    <3>1. DOMAIN det.work.obs = Jobs
      BY <1>3 DEF AllTell
    <3> HIDE DEF o, x
    <3>2. x[j] = o \/ x[j] = det.work.obs[j]
      BY <2>2, <3>1 DEF x
    <3>3. CASE x[j] = o
      <4>1. clock <= clock
        BY <1>4, WindowAssumption
      <4> QED BY <1>4, <1>5, <1>7, <3>3, <4>1
    <3>4. CASE x[j] = det.work.obs[j]
      BY <1>4, <3>4 DEF SaidBy
    <3> QED BY <3>2, <3>3, <3>4
  <2> QED BY <1>6, <2>1, <2>2
<1>9. SaidBy(obs, clock)
  BY DEF SaidInv
<1> QED BY <1>1, <1>4, <1>8, <1>9 DEF SaidInv, SaidBy

LEMMA SaidStep == ReadInv /\ SaidInv /\ [Next]_vars => SaidInv'
<1> SUFFICES ASSUME ReadInv, SaidInv, [Next]_vars PROVE SaidInv'
  OBVIOUS
<1>0. LoopTold
  BY DEF ReadInv
<1>1. CASE UNCHANGED vars
  BY <1>1, SaidKept DEF vars, engineVars, world
<1>2. CASE \E r \in Repos : Watching(r) \/ pollFails(r) \/ fetchFails(r) \/ Push(r)
  <2>1. UNCHANGED <<clock, obs, det>>
    BY <1>2 DEF Watching, pollFails, fetchFails, Push, Start, poll, fetch, signal, engineVars, world
  <2> QED BY <2>1, SaidKept
<1>3. CASE runOnce \/ readSnapshot
  <2>1. UNCHANGED <<clock, obs>>
    BY <1>3 DEF runOnce, readSnapshot, world
  <2>2. det'.pc \in {"read", "parse"}
    BY <1>0, <1>3 DEF runOnce, readSnapshot, LoopTold
  <2> QED BY <2>1, <2>2, SaidKept
<1>4. CASE parseFiles
  <2>1. UNCHANGED <<clock, obs>>
    BY <1>4 DEF parseFiles, world
  <2>2. PICK files, down : Work([NoCycle EXCEPT !.files = files, !.down = down], "classify")
    BY <1>4 DEF parseFiles
  <2>3. det'.work.obs = NoObs
    <3>1. det'.work = [NoCycle EXCEPT !.files = files, !.down = down]
      BY <1>0, <2>2, WorkIs
    <3> QED BY <3>1 DEF NoCycle
  <2> QED BY <2>1, <2>3, NothingSaid DEF SaidInv, SaidBy
<1>5. CASE classify
  <2>1. UNCHANGED <<clock, obs>> /\ det.pc = "classify"
    BY <1>5 DEF classify, world
  <2>2. PICK todo, seenJobs : Work([det.work EXCEPT !.todo = todo, !.seen = seenJobs], "reconcile")
    BY <1>5 DEF classify
  <2>3. det'.work.obs = det.work.obs
    <3>1. det'.work = [det.work EXCEPT !.todo = todo, !.seen = seenJobs]
      BY <1>0, <2>2, WorkIs
    <3>2. DOMAIN det.work = DOMAIN NoCycle
      BY <1>0 DEF LoopTold, WorkTold
    <3> QED BY <3>1, <3>2, NoCycleIs
  <2> QED BY <2>1, <2>3 DEF SaidInv, SaidBy
<1>6. CASE reconcileJob
  BY <1>6, ReconcileSays
<1>7. CASE replaceObservations
  <2>1. UNCHANGED clock /\ obs' = det.work.obs /\ det.pc = "reconcile" /\ (Rest \/ Goto("removed"))
    BY <1>7 DEF replaceObservations, world
  <2>2. det'.pc \in {"idle", "removed"}
    BY <1>0, <2>1, WorkIs, GotoIs DEF Rest
  <2> QED BY <2>1, <2>2 DEF SaidInv, SaidBy
<1>8. CASE supersedeRemoved \/ findOrphans \/ setOrphans \/ Abort
  <2>1. UNCHANGED <<clock, obs>>
    BY <1>8 DEF supersedeRemoved, findOrphans, setOrphans, Abort, world
  <2>2. PICK w : Work(w, "orphans") \/ Work(w, "idle")
    BY <1>8 DEF supersedeRemoved, findOrphans, setOrphans, Abort, Rest
  <2>3. det'.pc \in {"orphans", "idle"}
    BY <1>0, <2>2, WorkIs
  <2> QED BY <2>1, <2>3, SaidKept
<1>9. CASE Trigger \/ kickDetection \/ Stop
  <2>1. UNCHANGED <<clock, obs, det>>
    BY <1>9 DEF Trigger, kickDetection, Stop, engineVars, world
  <2> QED BY <2>1, SaidKept
<1>10. CASE Tick
  <2>1. clock < MaxClock /\ clock' = clock + 1 /\ UNCHANGED <<obs, det>>
    BY <1>10 DEF Tick, engineVars
  <2>2. clock \in Int /\ clock' \in 0..MaxClock /\ clock' \in Int /\ clock <= clock'
    BY <2>1, WindowAssumption DEF SaidInv
  <2>3. SaidBy(obs, clock')
    BY <2>2, SaidBefore DEF SaidInv
  <2>4. ASSUME det.pc \in {"classify", "reconcile"} PROVE SaidBy(det.work.obs, clock')
    BY <2>2, <2>4, SaidBefore DEF SaidInv
  <2> QED BY <2>1, <2>2, <2>3, <2>4 DEF SaidInv, SaidBy
<1>11. CASE Restart
  <2>1. UNCHANGED clock /\ obs' = NoObs /\ det'.pc = "first"
    BY <1>11 DEF Restart, Cycle, world
  <2> QED BY <2>1, NothingSaid DEF SaidInv, SaidBy
<1> QED BY <1>1, <1>2, <1>3, <1>4, <1>5, <1>6, <1>7, <1>8, <1>9, <1>10, <1>11 DEF Next, Detecting

\* A sync window does what the page says of it, until the time the page says and then no
\* longer (meta.go Open, NextOpen, NextClose), where NextClose gives up on a window only
\* if it does not close.
THEOREM WindowsKept ==
    ASSUME GivesUpRightly
    PROVE  Spec => []WindowTold
<1>1. ReadInv /\ SaidInv => WindowTold
  <2> SUFFICES ASSUME ReadInv, SaidInv, NEW j \in Jobs, obs[j] # None, obs[j].window # Absent,
                      NEW w, w = cfgOf[obs[j].of].window, NEW said, said = obs[j].window
               PROVE  /\ said.until = Never \/ clock < said.until => (inside(w, clock) <=> said.open)
                      /\ said.until = clock => (inside(w, clock) <=> ~said.open)
    BY DEF WindowTold
  <2>1. PICK t \in 0..MaxClock : t <= clock /\ obs[j].window = windowAt[obs[j].of][t]
    BY DEF SaidInv, SaidBy
  <2>2. obs[j].of \in DOMAIN Contents
    BY DEF SaidInv, SaidBy
  <2>3. clock \in 0..MaxClock
    BY DEF SaidInv
  <2> QED BY <2>1, <2>2, <2>3, StatusTold
<1>2. ReadInv /\ SaidInv /\ [Next]_vars => SaidInv'
  BY SaidStep
<1> QED BY <1>1, <1>2, SaidInit, ReadInvariant, PTL DEF Spec
=============================================================================
