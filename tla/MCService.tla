------------------------------ MODULE MCService ------------------------------
(***************************************************************************)
(* What must not get stuck while the service runs, on small instances:      *)
(* security events, metric rollups, alerts and feeds behind the requests;   *)
(* the policy gate, a backend's circuit breaker and retrying requests in    *)
(* front.  The parts share no variable, so a behaviour is one of one part   *)
(* while the others stay as they started.  No symmetry: the run checks      *)
(* liveness.                                                                *)
(***************************************************************************)
EXTENDS EventPipeline, Rollups, Alerts, Feeds, PolicyReload, CircuitBreaker, RequestPath

VARIABLE part

Parts == {"events", "rollups", "alerts", "feeds", "gate", "breaker", "path"}

behind == <<eventVars, rollupVars, alertVars, feedVars>>
front == <<vars, breakerVars, pathVars>>
serviceVars == <<part, behind, front>>

ServiceInit ==
    /\ part \in Parts
    /\ EventInit /\ RollupInit /\ AlertInit /\ FeedInit
    /\ Init /\ BreakerInit /\ PathInit
    /\ part # "path" => configs = <<[policy |-> None, bound |-> FALSE]>>

InEvents(A) ==
    part = "events" /\ A /\ UNCHANGED <<part, rollupVars, alertVars, feedVars, front>>
InRollups(A) ==
    part = "rollups" /\ A /\ UNCHANGED <<part, eventVars, alertVars, feedVars, front>>
InAlerts(A) ==
    part = "alerts" /\ A /\ UNCHANGED <<part, eventVars, rollupVars, feedVars, front>>
InFeeds(A) ==
    part = "feeds" /\ A /\ UNCHANGED <<part, eventVars, rollupVars, alertVars, front>>
InGate(A) == part = "gate" /\ A /\ UNCHANGED <<part, behind, breakerVars, pathVars>>
InBreaker(A) == part = "breaker" /\ A /\ UNCHANGED <<part, behind, vars, pathVars>>
InPath(A) == part = "path" /\ A /\ UNCHANGED <<part, behind, vars, breakerVars>>

ServiceNext ==
    \/ InEvents(EventNext)
    \/ InRollups(RollupNext)
    \/ InAlerts(AlertNext)
    \/ InFeeds(FeedNext)
    \/ InGate(Next)
    \/ InBreaker(BreakerNext)
    \/ InPath(PathNext)

\* the fairness of each part's own specification
ServiceFairness ==
    /\ WF_serviceVars(InEvents(Drain))
    /\ WF_serviceVars(InEvents(Write))
    /\ WF_serviceVars(InEvents(RestoreOne))
    /\ WF_serviceVars(InRollups(BucketCloses))
    /\ WF_serviceVars(InRollups(RollupTick))
    /\ WF_serviceVars(InAlerts(TaskProceeds))
    /\ WF_serviceVars(InFeeds(Refreshes))
    /\ \A w \in Workers : WF_serviceVars(InGate(Reload(w)))
    /\ WF_serviceVars(InBreaker(CoolsDown))
    /\ \A c \in Calls : /\ WF_serviceVars(InBreaker(Ask(c)))
                        /\ WF_serviceVars(InBreaker(Proceeds(c)))
    /\ \A r \in Journeys : /\ WF_serviceVars(InPath(~Awaits(r) /\ Handles(r)))
                           /\ r \in Timed => WF_serviceVars(InPath(Handles(r)))

ServiceSpec == ServiceInit /\ [][ServiceNext]_serviceVars /\ ServiceFairness
=============================================================================
