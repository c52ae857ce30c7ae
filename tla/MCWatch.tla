------------------------------ MODULE MCWatch ------------------------------
(***************************************************************************)
(* Instances of Watch: two repositories, and beginnings that each leave    *)
(* room for one kind of trouble.                                           *)
(***************************************************************************)
EXTENDS Watch

CONSTANTS a, b, h, x

MCJobs == {a, b, h, x}
MCManagedNS == {a, b, h}
MCrepoJobs == <<{a, h, x}, {a, b}>>

NoMeta == [managed |-> Absent, policy |-> Absent, role |-> Absent, timeout |-> Absent, notify |-> Absent,
           window |-> Absent, duration |-> Absent, pre |-> Absent, post |-> Absent, other |-> FALSE]
Managed(policy) == [NoMeta EXCEPT !.managed = "true", !.policy = policy]
Windowed(expr, d) == [Managed("auto") EXCEPT !.window = expr, !.duration = d]

Cron(every, at, last) == [every |-> every, at |-> at, last |-> last]

Content(job, meta, stamped) == [job |-> job, meta |-> meta, stamped |-> stamped]
Entry(name, suffix, content) == [name |-> name, suffix |-> suffix, content |-> content]

\* Windows apart, overlapping, one after the other, without end, and past for good.
MCContents == [
    jobA |-> Content(a, [Windowed(Cron(6, {0, 2, 3}, 100), 2) EXCEPT !.pre = <<"h">>, !.timeout = 3], TRUE),
    jobA2 |-> Content(a, Windowed(Cron(4, {1}, 100), 4), TRUE),
    jobB |-> Content(b, Windowed(Cron(5, {1}, 5), 3), FALSE),
    jobB2 |-> Content(b, [Windowed(Cron(4, {0, 2}, 100), 1) EXCEPT !.notify = "true"], FALSE),
    hook |-> Content(h, [NoMeta EXCEPT !.role = "hook", !.timeout = 5], FALSE),
    other |-> Content(x, Managed("auto"), FALSE),
    nameless |-> Content(None, NoMeta, FALSE),
    wrong |-> Content(b, [Managed("auto") EXCEPT !.pre = <<"h", "h">>, !.role = "job", !.duration = 2], FALSE),
    handsOff |-> Content(b, [NoMeta EXCEPT !.managed = "false", !.policy = "auto", !.other = TRUE], FALSE) ]

MCTree == <<
    << {Entry("a", ".nomad.hcl", "jobA"), Entry("a", ".vars.hcl", "hook"), Entry("h", ".nomad", "hook")},
       {Entry("a", ".nomad.hcl", "jobA"), Entry("a", ".vars.hcl", "hook"), Entry("x", ".nomad", "other")},
       {Entry("a", ".nomad.hcl", "jobA2"), Entry("b", ".nomad", "jobB"), Entry("n", ".md", "hook")} >>,
    << {Entry("b", ".nomad.hcl", "jobB")},
       {Entry("a", ".nomad.hcl", "jobA2"), Entry("b", ".nomad", Broken)},
       {Entry("b", ".nomad.hcl", "wrong"), Entry("o", ".nomad", "jobB2")} ,
       {Entry("b", ".nomad.hcl", "jobB2"), Entry("n", ".nomad", "nameless")},
       {Entry("b", ".nomad.hcl", "handsOff"), Entry("b", ".vars.hcl", Broken)},
       {Entry("b", ".nomad.hcl", "wrong")},
       {} >> >>

Left(pushes, failures, triggers, kicks, outages, stops, restarts) ==
    [pushes |-> pushes, failures |-> failures, triggers |-> triggers, kicks |-> kicks,
     outages |-> outages, stops |-> stops, restarts |-> restarts]

Quiet == [head |-> <<1, 1>>, waiting |-> {}, running |-> {a, b}, clock |-> MaxClock, left |-> Left(0, 0, 0, 0, 0, 0, 0)]

\* Two pushes, and a poll that fails.
Pushes == [Quiet EXCEPT !.left = Left(2, 1, 0, 0, 0, 0, 0)]

\* A push, a webhook, a write that asks for a cycle.
Asks == [Quiet EXCEPT !.left = Left(1, 0, 1, 1, 0, 0, 0)]

\* One push to any commit, with jobs waiting and running, and Nomad failing.
Changes == {[Quiet EXCEPT !.head = <<p, q>>, !.waiting = {a, b}, !.left = Left(1, 0, 0, 0, 1, 1, 0)]
              : p \in {1, 3}, q \in {1, 5}}

\* A restart.
Again == [Quiet EXCEPT !.head = <<1, 4>>, !.left = Left(1, 0, 0, 0, 0, 0, 1)]

\* Windows, with the clock from the start.
Windows == {[Quiet EXCEPT !.head = <<p, q>>, !.clock = 0] : p \in {1, 3}, q \in {1, 4}}

MCStarts == {Pushes, Asks, Again} \cup Changes \cup Windows

\* The windows of the instance that NextClose gives up on are those without end.
ASSUME EndlessAssumption == GivesUpRightly

=============================================================================
