----------------------------- MODULE RequestPath -----------------------------
(***************************************************************************)
(* Requests through the proxy's callbacks while a config is hot reloaded.  *)
(*   pingap-proxy/src/server.rs       the callbacks, in pingora's order     *)
(*   pingap-location/src/location.rs  the processing limit                  *)
(*   pingap-upstream/src/upstream.rs  the upstream's gauge                  *)
(*   src/plugin/mod.rs                the plugin provider                   *)
(*   src/process/auto_restart.rs      the order a reload publishes in       *)
(* There is one location, one upstream and one policy name.  A config says  *)
(* what the policy contains (None: it is not configured) and whether the    *)
(* location names it; an unchanged policy keeps its instance, so an         *)
(* instance is its content.                                                 *)
(***************************************************************************)
EXTENDS Integers, Sequences, FiniteSets

CONSTANTS
    Journeys,       \* requests, each made once
    Timed,          \* those that every timeout applies to; none has a default
    Contents,       \* contents the policy may have
    Required,       \* the contents security_failure_intent requires to run
    FailOpen,       \* on_policy_unavailable = fail_open
    MaxProcessing,  \* Location::max_processing; 0 is no limit
    MaxRetries,     \* Location::max_retries
    MaxConfigs      \* bound: configs ever loaded

None == "none"

ASSUME RequestPathAssumption ==
    /\ None \notin Contents /\ Required \subseteq Contents /\ FailOpen \in BOOLEAN
    /\ Timed \subseteq Journeys
    /\ {MaxProcessing, MaxRetries} \subseteq Nat
    /\ MaxConfigs \in Nat \ {0}  \* the config the process starts with counts

VARIABLES
    configs,     \* the configs loaded so far
    reload,      \* how far the reload of the last one is
    desired,     \* ProviderSnapshot.desired: the policy's content
    built,       \* ProviderSnapshot.plugins: the content that is running
    broken,      \* ProviderSnapshot.failures: a required content did not build
    location,    \* the published location: [id, bound, config]
    processing,  \* Location::processing, by location instance
    gauge,       \* Upstream::processing
    req          \* the requests' Ctx and how far they are

pathVars == <<configs, reload, desired, built, broken, location, processing, gauge, req>>
provider == <<desired, built, broken>>
reloadVars == <<configs, reload, provider, location>>

Config == [policy : Contents \cup {None}, bound : BOOLEAN]

\* Ctx: the location instance and whether it was one, the plugin resolved for
\* it, early_request_handled, upstream_instance, retries.  Ghosts: the config
\* the location belongs to, whether the request was admitted to the location,
\* answered by a plugin, or forwarded to the upstream.
NewReq == [pc |-> "new", matched |-> FALSE, id |-> 0, bound |-> FALSE, config |-> 0,
           chain |-> None, handled |-> FALSE, upstream |-> FALSE, retries |-> 0,
           replayed |-> FALSE, admitted |-> FALSE, answered |-> FALSE, forwarded |-> FALSE]

PathInit ==
    \E c \in Config :
      /\ configs = <<c>>
      /\ reload = "idle"
      /\ desired = c.policy /\ built = c.policy /\ broken = FALSE
      /\ location = [id |-> 1, bound |-> c.bound, config |-> 1]
      /\ processing = [i \in 1 .. MaxConfigs |-> 0]
      /\ gauge = 0
      /\ req = [r \in Journeys |-> NewReq]

-----------------------------------------------------------------------------
(* A hot reload: the desired policy, then the locations, then the plugins,    *)
(* with awaits between them.                                                  *)

Latest == configs[Len(configs)]
Previous == configs[Len(configs) - 1]

\* Mutant: what is required is published with the plugins, at the end.
StageDesiredLate ==
    /\ reload = "idle" /\ Len(configs) < MaxConfigs
    /\ \E c \in Config \ {Latest} : configs' = Append(configs, c)
    /\ reload' = "staged"
    /\ UNCHANGED <<provider, location, processing, gauge, req>>

\* stage_desired_plugins, before anything new is published
StageDesired ==
    /\ reload = "idle" /\ Len(configs) < MaxConfigs
    /\ \E c \in Config \ {Latest} :
         configs' = Append(configs, c) /\ desired' = c.policy
    /\ reload' = "staged"
    /\ UNCHANGED <<built, broken, location, processing, gauge, req>>

\* try_init_locations holds the policy generation odd while it publishes
PublishBegins ==
    /\ reload = "staged"
    /\ reload' = "publishing"
    /\ UNCHANGED <<configs, provider, location, processing, gauge, req>>

\* ... and keeps the instance of a location that did not change
PublishLocations ==
    /\ reload = "publishing"
    /\ location' = [id |-> IF location.bound = Latest.bound THEN location.id ELSE Len(configs),
                    bound |-> Latest.bound, config |-> Len(configs)]
    /\ reload' = "plugins"
    /\ UNCHANGED <<configs, provider, processing, gauge, req>>

\* ... or keeps the old locations when one of them does not build
PublishFails ==
    /\ reload = "publishing"
    /\ reload' = "plugins"
    /\ UNCHANGED <<configs, provider, location, processing, gauge, req>>

\* try_init_plugins: an unchanged content keeps its instance, a changed one is
\* built, and what did not build is stored as a failure
InitPlugins ==
    /\ reload = "plugins"
    /\ \/ Latest.policy \in {None, built} /\ built' = Latest.policy /\ broken' = FALSE
       \/ Latest.policy \notin {None, built} /\ built' = Latest.policy /\ broken' = FALSE
       \/ /\ Latest.policy \notin {None, built}
          /\ built' = None /\ broken' = (Latest.policy \in Required)
    /\ reload' = "idle"
    /\ UNCHANGED <<configs, desired, location, processing, gauge, req>>

-----------------------------------------------------------------------------
(* early_request_filter.                                                      *)

At(r, pc) == req[r].pc = pc
Goto(r, pc) == req' = [req EXCEPT ![r].pc = pc]
\* an Err from a callback: fail_to_proxy answers, then logging, which only
\* needs the instances the request holds
Refuse(r) == req' = [req EXCEPT ![r] = [NewReq EXCEPT !.pc = "log", !.matched = req[r].matched,
                                          !.id = req[r].id, !.upstream = req[r].upstream,
                                          !.admitted = req[r].admitted]]

\* initialize_context and find_and_apply_location up to the matched location
Match(r) ==
    /\ At(r, "new")
    /\ \/ reload = "publishing" /\ Refuse(r)
       \/ reload # "publishing" /\ Goto(r, "filter")      \* no location matches
       \/ /\ reload # "publishing"
          /\ req' = [req EXCEPT ![r] = [@ EXCEPT !.pc = "matched", !.matched = TRUE,
                                          !.id = location.id, !.bound = location.bound,
                                          !.config = location.config]]
    /\ UNCHANGED <<reloadVars, processing, gauge>>

\* validate_content_length: 413 before the request is counted
TooLarge(r) ==
    /\ At(r, "matched")
    /\ Refuse(r)
    /\ UNCHANGED <<reloadVars, processing, gauge>>

\* Location::on_request: counted first, 429 when that is over the limit
OnRequest(r) ==
    /\ At(r, "matched")
    /\ LET n == processing[req[r].id] + 1 IN
       /\ processing' = [processing EXCEPT ![req[r].id] = n]
       /\ IF MaxProcessing # 0 /\ n > MaxProcessing
          THEN Refuse(r)
          ELSE req' = [req EXCEPT ![r].pc = "resolve", ![r].admitted = TRUE]
    /\ UNCHANGED <<reloadVars, gauge>>

\* ProviderSnapshot::resolve of the policy: its instance, or why there is none
Resolve ==
    IF desired \in Required /\ built # desired THEN "required"
    ELSE IF built # None THEN "runs"
    ELSE IF broken THEN "required" ELSE "skipped"

\* get_context_plugins
GetContextPlugins(r) ==
    /\ At(r, "resolve")
    /\ \/ ~req[r].bound /\ Goto(r, "early")
       \/ /\ req[r].bound
          /\ \/ Resolve = "runs" /\ req' = [req EXCEPT ![r].pc = "early", ![r].chain = built]
             \/ Resolve = "required" /\ ~FailOpen /\ Refuse(r)
             \/ (Resolve = "skipped" \/ (Resolve = "required" /\ FailOpen)) /\ Goto(r, "early")
    /\ UNCHANGED <<reloadVars, processing, gauge>>

\* handle_request_plugin: the policy, if it runs, may answer the request
Answers(r) == req[r].chain # None /\ req[r].pc \in {"early", "filter", "proxy"}

\* ... at EarlyRequest the answer is only recorded
EarlyPlugins(r) ==
    /\ At(r, "early")
    /\ \/ Answers(r) /\ req' = [req EXCEPT ![r].pc = "filter", ![r].handled = TRUE,
                                           ![r].answered = TRUE]
       \/ Goto(r, "filter")
    /\ UNCHANGED <<reloadVars, processing, gauge>>

-----------------------------------------------------------------------------
(* request_filter and proxy_upstream_filter.                                  *)

RequestFilter(r) ==
    /\ At(r, "filter")
    /\ \/ req[r].handled /\ Goto(r, "log")
       \/ ~req[r].handled /\ ~req[r].matched /\ Refuse(r)  \* 500, no location
       \/ /\ ~req[r].handled /\ Answers(r)
          /\ req' = [req EXCEPT ![r].pc = "log", ![r].answered = TRUE]
       \/ ~req[r].handled /\ req[r].matched /\ Goto(r, "proxy")
    /\ UNCHANGED <<reloadVars, processing, gauge>>

ProxyUpstreamFilter(r) ==
    /\ At(r, "proxy")
    /\ \/ Answers(r) /\ req' = [req EXCEPT ![r].pc = "log", ![r].answered = TRUE]
       \/ Goto(r, "peer")
    /\ UNCHANGED <<reloadVars, processing, gauge>>

-----------------------------------------------------------------------------
(* The upstream.                                                              *)

\* upstream_peer: the instance is recorded before a peer is chosen, and the
\* first attempt that gets a peer is counted
UpstreamPeer(r) ==
    /\ At(r, "peer")
    /\ \/ /\ gauge' = IF req[r].retries = 0 THEN gauge + 1 ELSE gauge
          /\ req' = [req EXCEPT ![r].pc = "connect", ![r].upstream = TRUE]
       \/ /\ req' = [req EXCEPT ![r].pc = "log", ![r].upstream = TRUE]  \* no backend, 503
          /\ UNCHANGED gauge
       \/ Refuse(r) /\ UNCHANGED gauge                                  \* no upstream, 503
    /\ UNCHANGED <<reloadVars, processing>>

\* Mutant: the limit is not looked at; the count saturates.
FailToConnectUnlimited(r) ==
    /\ At(r, "connect")
    /\ \/ req' = [req EXCEPT ![r].pc = "peer",
                             ![r].retries = IF @ < MaxRetries THEN @ + 1 ELSE @]
       \/ Refuse(r)
    /\ UNCHANGED <<reloadVars, processing, gauge>>

\* fail_to_connect: a retry, up to the location's limit and its window
FailToConnect(r) ==
    /\ At(r, "connect")
    /\ \/ /\ req[r].retries < MaxRetries
          /\ req' = [req EXCEPT ![r].pc = "peer", ![r].retries = @ + 1]
       \/ Refuse(r)
    /\ UNCHANGED <<reloadVars, processing, gauge>>

ConnectedToUpstream(r) ==
    /\ At(r, "connect")
    /\ Goto(r, "send")
    /\ UNCHANGED <<reloadVars, processing, gauge>>

\* A reused connection that turns out dead is replayed by pingora without
\* fail_to_connect; pingora does it once (external).
ReusedConnectionFails(r) ==
    /\ At(r, "send") /\ ~req[r].replayed
    /\ req' = [req EXCEPT ![r].pc = "peer", ![r].replayed = TRUE]
    /\ UNCHANGED <<reloadVars, processing, gauge>>

\* request_body_filter: a chunk over the size limit, or one the policy rejects,
\* ends the request before it is forwarded
RequestBodyFilter(r) ==
    /\ At(r, "send")
    /\ \/ req' = [req EXCEPT ![r].pc = "receive", ![r].forwarded = TRUE]
       \/ Refuse(r)
    /\ UNCHANGED <<reloadVars, processing, gauge>>

\* the response filters, or an upstream or a client that goes away
Respond(r) ==
    /\ At(r, "receive")
    /\ Goto(r, "log")
    /\ UNCHANGED <<reloadVars, processing, gauge>>

\* logging: every counter the request touched is released
Logging(r) ==
    /\ At(r, "log")
    /\ processing' = IF req[r].matched THEN [processing EXCEPT ![req[r].id] = @ - 1]
                                       ELSE processing
    /\ gauge' = IF req[r].upstream THEN gauge - 1 ELSE gauge
    /\ req' = [req EXCEPT ![r] = [NewReq EXCEPT !.pc = "done"]]
    /\ UNCHANGED reloadVars

Handles(r) ==
    \/ Match(r) \/ TooLarge(r) \/ OnRequest(r) \/ GetContextPlugins(r) \/ EarlyPlugins(r)
    \/ RequestFilter(r) \/ ProxyUpstreamFilter(r)
    \/ UpstreamPeer(r) \/ FailToConnect(r) \/ ConnectedToUpstream(r)
    \/ ReusedConnectionFails(r) \/ RequestBodyFilter(r) \/ Respond(r) \/ Logging(r)

PathNext ==
    \/ StageDesired \/ PublishBegins \/ PublishLocations \/ PublishFails \/ InitPlugins
    \/ \E r \in Journeys : Handles(r)

\* the next callback waits for the upstream, or for the client's body
Awaits(r) == req[r].pc \in {"connect", "send", "receive"}

\* The proxy's own callbacks follow one another.  One that waits for a peer comes
\* for sure only where the upstream's and the server's timeouts are configured.
PathFairness ==
    \A r \in Journeys : /\ WF_pathVars(~Awaits(r) /\ Handles(r))
                        /\ r \in Timed => WF_pathVars(Handles(r))

PathSpec == PathInit /\ [][PathNext]_pathVars /\ PathFairness

-----------------------------------------------------------------------------
PathTypeOK ==
    /\ configs \in Seq(Config) /\ Len(configs) \in 1 .. MaxConfigs
    /\ reload \in {"idle", "staged", "publishing", "plugins"}
    /\ desired \in Contents \cup {None} /\ built \in Contents \cup {None} /\ broken \in BOOLEAN
    /\ location \in [id : 1 .. MaxConfigs, bound : BOOLEAN, config : 1 .. MaxConfigs]
    /\ processing \in [1 .. MaxConfigs -> Int]
    /\ gauge \in Int
    /\ \A r \in Journeys : req[r].pc \in {"new", "matched", "resolve", "early", "filter", "proxy",
                                         "peer", "connect", "send", "receive", "log", "done"}

\* the policy some config at least as new as the request's location asks for
Asked(r) == {configs[j].policy : j \in req[r].config .. Len(configs)}

\* A request that reaches the upstream through a location naming a required
\* policy has run it, in a content at least as new as that location's: a
\* reload publishes the location, the policy and what is required of it at
\* three different moments, and at none of them does a request slip through
\* with an older policy or with none.
PolicyEnforced ==
    \A r \in Journeys : req[r].forwarded /\ req[r].bound /\ Asked(r) \subseteq Required =>
      req[r].chain \in Asked(r) \/ (FailOpen /\ req[r].chain = None)

\* A plugin that answered a request has kept it from the upstream, whichever
\* of the three steps it answered at.
AnsweredIsNotForwarded == \A r \in Journeys : ~(req[r].answered /\ req[r].forwarded)

\* What the callbacks of server.rs owe a location's policy while a reload publishes a
\* new one: it ran in time, and an answer of its own is the only answer.
PathGuarded == PathTypeOK /\ PolicyEnforced /\ AnsweredIsNotForwarded

\* Every request is logged and so gives its counters back, unless it is left
\* waiting for good for a peer that no timeout covers: retries are bounded
\* however often connections fail.
RequestsEnd ==
    \A r \in Journeys :
      [](At(r, "matched") => <>At(r, "done") \/ (r \notin Timed /\ <>[]Awaits(r)))

\* location.rs, on_request: "Returns Error::TooManyRequest if the number of
\* currently processing requests would exceed the configured max_processing
\* limit".  A request refused for its length is released without having been
\* counted, so more than the limit can be in progress.
WithinProcessingLimit ==
    MaxProcessing # 0 => \A i \in 1 .. MaxConfigs :
      Cardinality({r \in Journeys : req[r].admitted /\ req[r].id = i}) <= MaxProcessing
=============================================================================
