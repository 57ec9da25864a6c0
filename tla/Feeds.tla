------------------------------- MODULE Feeds -------------------------------
(***************************************************************************)
(* Threat-intelligence feeds: one registry per built WAF policy, refreshed *)
(* by one background task, read by requests through a swapped snapshot.     *)
(*   crates/pingap-intel/src/set.rs    FeedRegistry, refresh_all            *)
(*   crates/pingap-intel/src/feed.rs   fetch                                *)
(*   crates/pingap-waf/src/plugin.rs   the registry a rebuilt policy starts *)
(* A contribution is the hour it was fetched at.                            *)
(***************************************************************************)
EXTENDS Naturals

CONSTANTS
    FeedNames,      \* configured feeds
    Staleness,      \* Limits::staleness
    MaxHour,        \* bound: the clock
    MaxRebuilds     \* bound: rebuilds of the policy

ASSUME FeedAssumption == {Staleness, MaxHour, MaxRebuilds} \subseteq Nat

VARIABLES
    hour,
    registry,   \* which registry the running policy holds
    lastGood,   \* its FeedState::last_good, by feed; 0: None
    served,     \* its snapshot, by feed; 0: not in it
    refresh     \* refresh_all: the registry it works on, `now`, and the feeds left

feedVars == <<hour, registry, lastGood, served, refresh>>

NoFeeds == [f \in FeedNames |-> 0]
NoRefresh == [pc |-> "idle", registry |-> 0, now |-> 0, left |-> {}]

FeedInit ==
    /\ hour = 1
    /\ registry = 1
    /\ lastGood = NoFeeds /\ served = NoFeeds
    /\ refresh = NoRefresh

\* the policy is built again: an empty registry, installed beside the old one
Rebuild ==
    /\ registry <= MaxRebuilds
    /\ registry' = registry + 1
    /\ lastGood' = NoFeeds /\ served' = NoFeeds
    /\ UNCHANGED <<hour, refresh>>

\* refresh_all upgrades the registries it knows, refresh_once reads the clock once
RefreshBegins ==
    /\ refresh.pc = "idle"
    /\ refresh' = [pc |-> "fetch", registry |-> registry, now |-> hour, left |-> FeedNames]
    /\ UNCHANGED <<hour, registry, lastGood, served>>

\* Mutant: a failed fetch forgets what the feed had contributed.
ForgetOnError(good, f, ok) == [good EXCEPT ![f] = IF ok THEN refresh.now ELSE 0]

\* apply: what a fetch leaves of the feeds' last good contributions
Good(good, f, ok) == IF ok THEN [good EXCEPT ![f] = refresh.now] ELSE good

\* Mutant: a contribution once published is served until a newer one replaces it.
PublishKeeps(good) == [f \in FeedNames |-> good[f]]

\* publish_locked: everything not yet stale, whichever feed was just fetched
PublishLocked(good) ==
    [f \in FeedNames |-> IF good[f] # 0 /\ refresh.now - good[f] <= Staleness THEN good[f] ELSE 0]

\* fetch of one feed, which succeeds or fails within its timeout, and apply; a
\* registry nobody runs any more is refreshed for nothing
Fetch(f, ok) ==
    /\ refresh.pc = "fetch" /\ f \in refresh.left
    /\ IF refresh.registry = registry
       THEN lastGood' = Good(lastGood, f, ok) /\ served' = PublishLocked(lastGood')
       ELSE UNCHANGED <<lastGood, served>>
    /\ refresh' = IF refresh.left = {f} THEN NoRefresh ELSE [refresh EXCEPT !.left = @ \ {f}]
    /\ UNCHANGED <<hour, registry>>

HourPasses ==
    /\ hour < MaxHour
    /\ hour' = hour + 1
    /\ UNCHANGED <<registry, lastGood, served, refresh>>

Refreshes == RefreshBegins \/ \E f \in FeedNames, ok \in BOOLEAN : Fetch(f, ok)

FeedNext == Rebuild \/ Refreshes \/ HourPasses

\* The task runs every tick, and a fetch has a timeout.
FeedFairness == WF_feedVars(Refreshes)

FeedSpec == FeedInit /\ [][FeedNext]_feedVars /\ FeedFairness

-----------------------------------------------------------------------------
FeedTypeOK ==
    /\ hour \in 1 .. MaxHour /\ registry \in 1 .. MaxRebuilds + 1
    /\ lastGood \in [FeedNames -> 0 .. MaxHour] /\ served \in [FeedNames -> 0 .. MaxHour]
    /\ refresh.pc \in {"idle", "fetch"} /\ refresh.left \subseteq FeedNames

\* intel-plugin.md: "A failed refresh keeps the last good contribution for the
\* configured staleness window".  While one policy runs, a contribution leaves the
\* snapshot only for a newer one of the same feed or past that window: no failure,
\* of this feed or of another, takes it out.
FeedHolds ==
    [][registry' = registry =>
         /\ FeedTypeOK
         /\ \A f \in FeedNames : served[f] # 0 =>
              served'[f] >= served[f] \/ (served'[f] = 0 /\ hour - served[f] > Staleness)]_feedVars

\* ... "after that it is removed": a contribution past the window does not stay,
\* although only the next refresh, with the clock it read at its start, looks.
StaleLeaves ==
    \A f \in FeedNames :
      served[f] # 0 /\ hour - served[f] > Staleness ~> served[f] = 0 \/ hour - served[f] <= Staleness

\* The two halves of that sentence.
FeedsAreCurrent == FeedHolds /\ StaleLeaves
=============================================================================
