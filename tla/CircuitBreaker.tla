--------------------------- MODULE CircuitBreaker ---------------------------
(***************************************************************************)
(* The circuit breaker of one backend, asked and reported to by concurrent *)
(* requests.                                                                *)
(*   pingap-upstream/src/backend_circuit_state.rs   the state machine       *)
(*   pingap-upstream/src/backend_stats.rs           the counters it reads   *)
(*   pingap-upstream/src/upstream.rs                who calls them          *)
(* The state is an atomic that is read before, and written inside or        *)
(* outside, a mutex that is only ever tried: what was read may be stale     *)
(* when it is used, and a caller that loses the lock gives up.  One step    *)
(* per atomic access; the cooling period is a flag that time sets.          *)
(***************************************************************************)
EXTENDS Naturals

CONSTANTS
    Calls,                  \* requests that may use the backend
    MaxConsecutiveFailures, \* CircuitBreakerConfig::max_consecutive_failures
    SuccessThreshold,       \* ::half_open_consecutive_success_threshold
    RateTrips,              \* whether the failure-rate rule is on
    LosesReports            \* whether an admitted request may end unreported

ASSUME BreakerAssumption ==
    /\ MaxConsecutiveFailures \in Nat /\ SuccessThreshold \in Nat \ {0}
    /\ RateTrips \in BOOLEAN /\ LosesReports \in BOOLEAN

VARIABLES
    circuit,    \* current_state
    locked,     \* data.try_lock(): the mutex is held
    probes,     \* data.probes_sent
    cooled,     \* Instant::now() >= data.open_until
    failures,   \* ConsecutiveCounters.failures, up to the limit that matters
    successes,  \* ConsecutiveCounters.successes, up to the limit that matters
    call        \* per request: how far it is, and the state it read

breakerVars == <<circuit, locked, probes, cooled, failures, successes, call>>

States == {"Closed", "Open", "HalfOpen"}
NoCall == [pc |-> "idle", seen |-> "Closed"]
Counted(n, limit) == IF n < limit THEN n + 1 ELSE n

BreakerInit ==
    /\ circuit = "Closed"
    /\ locked = FALSE
    /\ probes = 0
    /\ cooled = TRUE
    /\ failures = 0
    /\ successes = 0
    /\ call = [c \in Calls |-> NoCall]

Is(c, pc) == call[c].pc = pc
Step(c, pc) == call' = [call EXCEPT ![c].pc = pc]
Leave(c) == call' = [call EXCEPT ![c] = NoCall]

data == <<probes, cooled>>
stats == <<failures, successes>>

-----------------------------------------------------------------------------
(* is_backend_acceptable.                                                     *)

\* the atomic load; a closed breaker admits at once
Ask(c) ==
    /\ Is(c, "idle")
    /\ call' = [call EXCEPT ![c] = [pc |-> IF circuit = "Closed" THEN "admitted" ELSE "asks",
                                    seen |-> circuit]]
    /\ UNCHANGED <<circuit, locked, data, stats>>

\* try_lock of the two slow paths; a contended lock rejects
AskLock(c) ==
    /\ Is(c, "asks")
    /\ IF locked THEN Leave(c) /\ UNCHANGED locked
                 ELSE Step(c, "checks") /\ locked' = TRUE
    /\ UNCHANGED <<circuit, data, stats>>

\* Mutant: the first probe is let through and the state stays open.
CheckOpenStays(c) ==
    /\ Is(c, "checks") /\ call[c].seen = "Open"
    /\ locked' = FALSE
    /\ IF cooled THEN Step(c, "admitted") ELSE Leave(c)
    /\ UNCHANGED <<circuit, data, stats>>

\* check_open_state_non_blocking, with the lock held
CheckOpen(c) ==
    /\ Is(c, "checks") /\ call[c].seen = "Open"
    /\ locked' = FALSE
    /\ IF cooled
       THEN circuit' = "HalfOpen" /\ probes' = 1 /\ Step(c, "admitted")
       ELSE Leave(c) /\ UNCHANGED <<circuit, probes>>
    /\ UNCHANGED <<cooled, stats>>

\* check_half_open_state_non_blocking, with the lock held
CheckHalfOpen(c) ==
    /\ Is(c, "checks") /\ call[c].seen = "HalfOpen"
    /\ locked' = FALSE
    /\ IF probes < SuccessThreshold
       THEN probes' = probes + 1 /\ Step(c, "admitted")
       ELSE Leave(c) /\ UNCHANGED probes
    /\ UNCHANGED <<circuit, cooled, stats>>

-----------------------------------------------------------------------------
(* on_response and on_transport_failure: the counters first, then             *)
(* update_state_after_request.                                                *)

\* a response that is not a failure status
Succeeds(c) ==
    /\ Is(c, "admitted")
    /\ successes' = Counted(successes, SuccessThreshold)
    /\ failures' = 0
    /\ Step(c, "succeeded")
    /\ UNCHANGED <<circuit, locked, data>>

\* a failure status
Fails(c) ==
    /\ Is(c, "admitted")
    /\ successes' = 0
    /\ failures' = Counted(failures, MaxConsecutiveFailures)
    /\ Step(c, "failed")
    /\ UNCHANGED <<circuit, locked, data>>

\* no connection: only the rate sees it, the consecutive counters stay
FailsToConnect(c) ==
    /\ Is(c, "admitted")
    /\ Step(c, "failed")
    /\ UNCHANGED <<circuit, locked, data, stats>>

\* an answer that never came, or a request given up after it was connected:
\* no hook of the proxy reports it
EndsUnreported(c) ==
    /\ LosesReports
    /\ Is(c, "admitted")
    /\ Leave(c)
    /\ UNCHANGED <<circuit, locked, data, stats>>

\* a success loads the state and, half open, compares the counter
SuccessLoads(c) ==
    /\ Is(c, "succeeded")
    /\ IF circuit = "HalfOpen" /\ successes >= SuccessThreshold THEN Step(c, "closes") ELSE Leave(c)
    /\ UNCHANGED <<circuit, locked, data, stats>>

\* ... and stores Closed without the lock
SuccessCloses(c) ==
    /\ Is(c, "closes")
    /\ circuit' = "Closed"
    /\ Leave(c)
    /\ UNCHANGED <<locked, data, stats>>

\* a failure loads the state before it tries the lock
FailureLoads(c) ==
    /\ Is(c, "failed")
    /\ call' = [call EXCEPT ![c] = [pc |-> "trips", seen |-> circuit]]
    /\ UNCHANGED <<circuit, locked, data, stats>>

\* try_lock; a failure that loses it is dropped
FailureLock(c) ==
    /\ Is(c, "trips")
    /\ IF locked THEN Leave(c) /\ UNCHANGED locked
                 ELSE Step(c, "decides") /\ locked' = TRUE
    /\ UNCHANGED <<circuit, data, stats>>

TripsNow ==
    \/ MaxConsecutiveFailures > 0 /\ failures >= MaxConsecutiveFailures
    \/ RateTrips

Trip(to) == circuit' = to /\ probes' = 0 /\ cooled' = FALSE

\* a closed breaker that trips is half open at first, with a fresh probe budget
FailureTripsClosed(c) ==
    /\ Is(c, "decides") /\ call[c].seen = "Closed"
    /\ \/ TripsNow /\ Trip("HalfOpen")
       \/ /\ ~(MaxConsecutiveFailures > 0 /\ failures >= MaxConsecutiveFailures)
          /\ UNCHANGED <<circuit, data>>
    /\ locked' = FALSE
    /\ Leave(c)
    /\ UNCHANGED stats

\* a half-open one opens
FailureReopens(c) ==
    /\ Is(c, "decides") /\ call[c].seen = "HalfOpen"
    /\ Trip("Open")
    /\ locked' = FALSE
    /\ Leave(c)
    /\ UNCHANGED stats

\* an open one is left alone
FailureWhileOpen(c) ==
    /\ Is(c, "decides") /\ call[c].seen = "Open"
    /\ locked' = FALSE
    /\ Leave(c)
    /\ UNCHANGED <<circuit, data, stats>>

\* open_until passes
CoolsDown ==
    /\ ~cooled
    /\ cooled' = TRUE
    /\ UNCHANGED <<circuit, locked, probes, stats, call>>

Report(c) == Succeeds(c) \/ Fails(c) \/ FailsToConnect(c) \/ EndsUnreported(c)

Proceeds(c) ==
    \/ AskLock(c) \/ CheckOpen(c) \/ CheckHalfOpen(c) \/ Report(c)
    \/ SuccessLoads(c) \/ SuccessCloses(c)
    \/ FailureLoads(c) \/ FailureLock(c)
    \/ FailureTripsClosed(c) \/ FailureReopens(c) \/ FailureWhileOpen(c)

BreakerNext == CoolsDown \/ \E c \in Calls : Ask(c) \/ Proceeds(c)

\* Threads run, requests end, time passes, and clients keep sending requests.
BreakerFairness ==
    /\ WF_breakerVars(CoolsDown)
    /\ \A c \in Calls : WF_breakerVars(Ask(c)) /\ WF_breakerVars(Proceeds(c))

BreakerSpec == BreakerInit /\ [][BreakerNext]_breakerVars /\ BreakerFairness

-----------------------------------------------------------------------------
BreakerTypeOK ==
    /\ circuit \in States
    /\ locked \in BOOLEAN
    /\ probes \in 0 .. SuccessThreshold
    /\ cooled \in BOOLEAN
    /\ failures \in 0 .. MaxConsecutiveFailures
    /\ successes \in 0 .. SuccessThreshold
    /\ call \in [Calls -> [pc : {"idle", "asks", "checks", "admitted", "succeeded", "closes",
                                 "failed", "trips", "decides"},
                           seen : States]]

\* An open breaker does not stay open: its cooling period ends, one of the
\* requests that keep coming wins the lock and becomes the first probe, however
\* the others contend for the lock and whatever late failures do meanwhile.
OpenEnds == circuit = "Open" ~> circuit # "Open"

\* ... and its probe budget and its streaks stay within their thresholds.
BreakerRecovers == []BreakerTypeOK /\ OpenEnds

\* backend_circuit_state.rs: "current state is HalfOpen, set to Open if request
\* fail".  A half-open breaker is decided by its probes, so it does not stay
\* half open while requests keep coming and every one of them is reported.
HalfOpenEnds == circuit = "HalfOpen" ~> circuit # "HalfOpen"
=============================================================================
