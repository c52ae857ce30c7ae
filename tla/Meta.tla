-------------------------------- MODULE Meta --------------------------------
(***************************************************************************)
(* The nops_* keys of a job's meta (internal/meta): what they are read as, *)
(* and when a sync window is open.  A time is a number; a cron expression  *)
(* is the times it matches: the offsets "at" in every span of "every",     *)
(* until "last" (a year may be named).                                     *)
(***************************************************************************)
EXTENDS Integers, Sequences, FiniteSets

CONSTANTS
    Absent,         \* a key that is not set
    Junk,           \* a value that does not parse
    Never,          \* the zero time
    DefaultTimeout, \* DefaultHookTimeout
    MaxCloseSteps   \* maxCloseSteps

ASSUME MetaAssumption == MaxCloseSteps \in Nat \ {0}

Policies == {"auto", "approval", "none"}

-----------------------------------------------------------------------------
(***************************************************************************)
(* Sync windows.                                                           *)
(***************************************************************************)
Matches(expr, t) == t % expr.every \in expr.at /\ t <= expr.last

\* cronexpr: the first time it matches after t.
NextMatch(expr, t) ==
    LET ahead == {u \in (t + 1)..(t + expr.every) : Matches(expr, u)}
    IN  IF ahead = {} THEN Never ELSE CHOOSE u \in ahead : \A v \in ahead : u <= v

Open(w, t) ==
    LET open == NextMatch(w.expr, t - w.duration)
    IN  open # Never /\ open <= t

NextOpen(w, t) == NextMatch(w.expr, t)

\* mutant: a window that opens just as another ends is not taken to run on.
NextClose_stops(w, t) ==
    LET first == NextMatch(w.expr, t - w.duration)
        starts == {s \in first..(first + MaxCloseSteps * w.expr.every) : Matches(w.expr, s)}
        last == {s \in starts : \A u \in (s + 1)..(s + w.duration - 1) : ~Matches(w.expr, u)}
        end == CHOOSE s \in last : \A o \in last : s <= o
    IN  IF ~Open(w, t) \/ last = {} THEN Never
        ELSE IF Cardinality({u \in starts : u <= end}) > MaxCloseSteps THEN Never
        ELSE end + w.duration

\* The end of the last of the windows that run into each other from the earliest
\* one that covers t, if that takes no more than MaxCloseSteps of them.
NextClose(w, t) ==
    LET first == NextMatch(w.expr, t - w.duration)
        starts == {s \in first..(first + MaxCloseSteps * w.expr.every) : Matches(w.expr, s)}
        last == {s \in starts : \A u \in (s + 1)..(s + w.duration) : ~Matches(w.expr, u)}
        end == CHOOSE s \in last : \A o \in last : s <= o
    IN  IF ~Open(w, t) \/ last = {} THEN Never
        ELSE IF Cardinality({u \in starts : u <= end}) > MaxCloseSteps THEN Never
        ELSE end + w.duration

\* Engine.windowStatus: only a job under auto is gated.
windowStatus(cfg, t) ==
    IF cfg.policy # "auto" \/ cfg.window = Absent THEN Absent
    ELSE [open |-> Open(cfg.window, t),
          until |-> IF Open(cfg.window, t) THEN NextClose(cfg.window, t) ELSE NextOpen(cfg.window, t)]

-----------------------------------------------------------------------------
(***************************************************************************)
(* Parse: any error makes the policy none.                                 *)
(***************************************************************************)
Error(key, wrong) == IF wrong THEN {[severity |-> "error", key |-> key]} ELSE {}
Warn(key, odd) == IF odd THEN {[severity |-> "warn", key |-> key]} ELSE {}

HasErrors(issues) == \E i \in issues : i.severity = "error"

isTrue(v) == v = "true"
Flag(key, v) == Error(key, v \notin {Absent, "true", "false"})

policyOf(m) == IF m.policy \in Policies THEN m.policy ELSE "none"
isHook(m) == m.role = "hook"

\* A list of hooks is one of job IDs, none of them empty or twice.
HooksOK(v) ==
    v = Absent \/ ((\A i \in DOMAIN v : v[i] # "") /\ Cardinality({v[i] : i \in DOMAIN v}) = Len(v))

parseHooks(v) == IF v # Absent /\ HooksOK(v) THEN v ELSE <<>>

\* The first of its problems is reported.
WindowErrors(m) ==
    LET pair == m.window # Absent /\ m.duration # Absent
        wrong == m.window = Junk \/ NextMatch(m.window, 0) = Never
    IN  Error("sync_window", (m.window # Absent /\ m.duration = Absent) \/ (pair /\ wrong))
        \cup Error("sync_window_duration",
                   \/ m.window = Absent /\ m.duration # Absent
                   \/ pair /\ ~wrong /\ (m.duration = Junk \/ m.duration <= 0))

parseSyncWindow(m) ==
    IF m.window = Absent \/ WindowErrors(m) # {} THEN Absent
    ELSE [expr |-> m.window, duration |-> m.duration]

issuesOf(m) ==
    LET managed == isTrue(m.managed)
    IN  Warn("other", m.other)
        \cup Flag("managed", m.managed)
        \cup Error("policy", m.policy \notin Policies \cup {Absent})
        \cup Warn("policy", m.policy # Absent /\ ~managed)
        \cup Flag("notify_completed", m.notify) \cup Warn("notify_completed", m.notify # Absent /\ ~managed)
        \cup Error("role", m.role \notin {Absent, "hook"})
        \cup Warn("timeout", m.timeout # Absent /\ ~isHook(m))
        \cup Error("timeout", m.timeout # Absent /\ isHook(m) /\ (m.timeout = Junk \/ m.timeout <= 0))
        \cup WindowErrors(m)
        \cup Warn("sync_window", parseSyncWindow(m) # Absent /\ (~managed \/ policyOf(m) # "auto"))
        \cup Error("pre_hook", ~HooksOK(m.pre)) \cup Error("post_hook", ~HooksOK(m.post))

Parse(m) ==
    LET issues == issuesOf(m)
        timeout == IF m.timeout \in {Absent, Junk} \/ m.timeout <= 0 THEN DefaultTimeout ELSE m.timeout
    IN  [managed |-> isTrue(m.managed),
         policy |-> IF isTrue(m.managed) /\ ~HasErrors(issues) THEN policyOf(m) ELSE "none",
         notifyCompleted |-> isTrue(m.notify),
         isHook |-> isHook(m),
         timeout |-> IF isHook(m) THEN timeout ELSE 0,
         window |-> parseSyncWindow(m),
         pre |-> parseHooks(m.pre), post |-> parseHooks(m.post),
         issues |-> issues]

=============================================================================
