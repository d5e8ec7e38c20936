----------------------------- MODULE RateLimiter -----------------------------
(***************************************************************************)
(* src/rate-limiter.ts: a sliding window log of the requests let through,  *)
(* under the one key ("global") that CallTool of src/mcp.ts uses.          *)
(***************************************************************************)
EXTENDS JsMap

CONSTANTS
    MaxRequests,   \* maxRequests
    Window,        \* windowMs
    BlockOnLimit,  \* blockOnLimit
    MaxCalls       \* bound: requests let through in all

ASSUME RateLimiterAssumption ==
    /\ MaxRequests \in Nat \ {0} /\ Window \in Nat \ {0}
    /\ BlockOnLimit \in BOOLEAN /\ MaxCalls \in Nat

VARIABLES
    log,       \* times of the requests in the window, oldest first
    passed,    \* history: times of all requests counted since the log was empty
    promised,  \* the resetIn of the last refusal, as an instant; 0 if none
    now

limiterVars == <<log, passed, promised>>

LimiterInit == log = <<>> /\ passed = <<>> /\ promised = 0

\* Mutant: entries are dropped one unit too early.
ActiveTooShort(times) == Kept(times, {t \in Entries(times) : t + Window > now + 1})

\* How many entries the loop of check passes over: those that are one window old
\* or older, up to the first younger one.
Aged(times) ==
    CHOOSE n \in 0..Len(times) :
        /\ \A i \in 1..n : times[i] + Window <= now
        /\ n < Len(times) => times[n + 1] + Window > now

\* The log after the splice of check.
Active(times) == SubSeq(times, Aged(times) + 1, Len(times))

\* The filter of pruneExpiredLogs, which looks at every entry.
Pruned(times) == Kept(times, {t \in Entries(times) : t + Window > now})

\* Mutant: the refusal counts from the newest entry.
ResetFromNewest(active) == active[Len(active)] + Window

\* The instant that resetIn of a refusal points to.
ResetAt(active) == Head(active) + Window

\* check: let a request through and log it, or refuse it and say when to retry.
\* Without blockOnLimit the request over the limit goes through and is not logged.
Check(allowed) ==
    LET active == Active(log)
    IN IF Len(active) >= MaxRequests
       THEN /\ allowed = ~BlockOnLimit
            /\ log' = active
            /\ promised' = ResetAt(active)
            /\ UNCHANGED passed
       ELSE /\ allowed
            /\ Len(passed) < MaxCalls
            /\ log' = Append(active, now)
            /\ passed' = Append(passed, now)
            /\ promised' = 0

\* pruneExpiredLogs, once per window.
PruneExpiredLogs == log' = Pruned(log) /\ UNCHANGED <<passed, promised>>

\* destroy, at shutdown: the log is emptied, and a call that is still in flight is
\* counted against an empty window.
DestroyLimiter == log' = <<>> /\ passed' = <<>> /\ promised' = 0

-----------------------------------------------------------------------------
\* However the requests and the pruning interleave, no half-open window of the
\* configured length lets more than maxRequests through, also when requests are
\* exactly one window apart.
WindowIsBounded ==
    \A i \in 1..Len(passed) :
        i > MaxRequests => passed[i] - passed[i - MaxRequests] >= Window

\* The resetIn of a refusal is honest: it lies ahead, and when that time has come
\* and nobody else was let through since, the log has room again.
PromiseIsKept ==
    promised > 0 =>
        /\ \A i \in 1..Len(log) : promised <= log[i] + Window
        /\ now >= promised => Len(Active(log)) < MaxRequests
=============================================================================
