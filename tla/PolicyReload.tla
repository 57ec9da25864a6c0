---------------------------- MODULE PolicyReload ----------------------------
(***************************************************************************)
(* Publishing a new location map together with the host snapshots of the   *)
(* abuse policy, while requests are being routed.                          *)
(*                                                                         *)
(*   pingap-core/src/lib.rs              POLICY_GENERATION, reload guard   *)
(*   src/locations.rs                    try_init_locations                *)
(*   pingap-proxy/src/server.rs          find_and_apply_location           *)
(*   crates/pingap-behaviour/src/plugin.rs       handle_request            *)
(*   crates/pingap-behaviour/src/decisions.rs    retain_hosts, admit       *)
(*                                                                         *)
(* The generation is odd while a reload publishes.  A location map and a   *)
(* host snapshot are the set of hosts they name.                           *)
(***************************************************************************)
EXTENDS Integers, FiniteSets

CONSTANTS
  Hosts,       \* host names locations are restricted to
  MaxDomains,  \* Limits::max_domains
  Workers,     \* callers of try_init_locations, which the guard serialises
  Requests,    \* requests in flight
  MaxReloads   \* bound on the number of reloads

ASSUME BoundAssumption == MaxDomains \in Nat /\ MaxReloads \in Nat

VARIABLES
  gen,         \* POLICY_GENERATION
  routed,      \* LOCATION_PROVIDER: hosts the location map serves
  abuse,       \* hosts of the native abuse registry
  registered,  \* REGISTERED: hosts the labels are made from
  worker,      \* per worker: how far its reload is, and the hosts it publishes
  request      \* per request: how far it is, its host, generation and label

vars == <<gen, routed, abuse, registered, worker, request>>

Odd(n) == n % 2 = 1

(* What the native registry can hold. *)
HostSets == {H \in SUBSET Hosts : Cardinality(H) <= MaxDomains}

-----------------------------------------------------------------------------
(* Reloads.                                                                 *)

Resting == [pc |-> "idle", hosts |-> {}]

(* A worker has read a config.  More hosts than the registry can hold are    *)
(* refused before anything is locked.                                        *)
LoadConfig(w) ==
  /\ worker[w].pc = "idle"
  /\ \E H \in HostSets : worker' = [worker EXCEPT ![w] = [pc |-> "loaded", hosts |-> H]]
  /\ UNCHANGED <<gen, routed, abuse, registered, request>>

(* Holds the reload guard, and with it POLICY_RELOAD_LOCK. *)
Publishing(w) == worker[w].pc \in {"locked", "abuse", "registered", "stored"}

(* Mutant of BeginReload: the reload lock is not taken. *)
BeginUnlocked(w) ==
  /\ worker[w].pc = "loaded"
  /\ gen < 2 * MaxReloads
  /\ gen' = gen + 1
  /\ worker' = [worker EXCEPT ![w].pc = "locked"]
  /\ UNCHANGED <<routed, abuse, registered, request>>

(* begin_policy_reload *)
BeginReload(w) ==
  /\ worker[w].pc = "loaded"
  /\ \A u \in Workers : ~Publishing(u)
  /\ gen < 2 * MaxReloads
  /\ gen' = gen + 1
  /\ worker' = [worker EXCEPT ![w].pc = "locked"]
  /\ UNCHANGED <<routed, abuse, registered, request>>

(* Mutant of Abandon: the error path leaks the guard. *)
AbandonLeaks(w) ==
  /\ worker[w].pc = "locked"
  /\ worker' = [worker EXCEPT ![w] = Resting]
  /\ UNCHANGED <<gen, routed, abuse, registered, request>>

(* A location does not build: the guard is dropped, nothing is published. *)
Abandon(w) ==
  /\ worker[w].pc = "locked"
  /\ gen' = gen + 1
  /\ worker' = [worker EXCEPT ![w] = Resting]
  /\ UNCHANGED <<routed, abuse, registered, request>>

SetAbuseHosts(w) ==
  /\ worker[w].pc = "locked"
  /\ abuse' = worker[w].hosts
  /\ worker' = [worker EXCEPT ![w].pc = "abuse"]
  /\ UNCHANGED <<gen, routed, registered, request>>

(* Mutant of SetRegisteredHosts: the guard ends before the map is stored. *)
SetRegisteredUnguards(w) ==
  /\ worker[w].pc = "abuse"
  /\ registered' = worker[w].hosts
  /\ gen' = gen + 1
  /\ worker' = [worker EXCEPT ![w].pc = "registered"]
  /\ UNCHANGED <<routed, abuse, request>>

SetRegisteredHosts(w) ==
  /\ worker[w].pc = "abuse"
  /\ registered' = worker[w].hosts
  /\ worker' = [worker EXCEPT ![w].pc = "registered"]
  /\ UNCHANGED <<gen, routed, abuse, request>>

(* The location map is stored, and the guard is dropped. *)
StoreLocations(w) ==
  /\ worker[w].pc = "registered"
  /\ routed' = worker[w].hosts
  /\ worker' = [worker EXCEPT ![w].pc = "stored"]
  /\ UNCHANGED <<gen, abuse, registered, request>>

EndReload(w) ==
  /\ worker[w].pc = "stored"
  /\ gen' = gen + 1
  /\ worker' = [worker EXCEPT ![w] = Resting]
  /\ UNCHANGED <<routed, abuse, registered, request>>

Reload(w) == \/ BeginReload(w) \/ Abandon(w) \/ SetAbuseHosts(w)
             \/ SetRegisteredHosts(w) \/ StoreLocations(w) \/ EndReload(w)

-----------------------------------------------------------------------------
(* Requests.  `fail` is a 503, after which the request is over.             *)

NoRequest == [pc |-> "idle", host |-> "none", gen |-> 0, label |-> FALSE]

To(r, pc) == request' = [request EXCEPT ![r].pc = pc]
Over(r) == request' = [request EXCEPT ![r] = NoRequest]

(* find_and_apply_location reads the generation, *)
ReadGeneration(r) ==
  /\ request[r].pc = "idle"
  /\ \E h \in Hosts :
       request' = [request EXCEPT ![r] =
                     [pc |-> "began", host |-> h, gen |-> gen, label |-> FALSE]]
  /\ UNCHANGED <<gen, routed, abuse, registered, worker>>

(* fails while a reload publishes, *)
CheckReload(r) ==
  /\ request[r].pc = "began"
  /\ IF Odd(gen) THEN Over(r) ELSE To(r, "clear")
  /\ UNCHANGED <<gen, routed, abuse, registered, worker>>

(* looks its host up in the location map, *)
Route(r) ==
  /\ request[r].pc = "clear"
  /\ IF request[r].host \in routed THEN To(r, "routed") ELSE Over(r)
  /\ UNCHANGED <<gen, routed, abuse, registered, worker>>

(* and fails if the generation has moved.  The code loads it twice; both     *)
(* loads succeed only if it has not moved at the second one.                 *)
Unmoved(r) == ~Odd(gen) /\ gen = request[r].gen

Recheck(r) ==
  /\ request[r].pc = "routed"
  /\ IF Unmoved(r) THEN To(r, "accepted") ELSE Over(r)
  /\ UNCHANGED <<gen, routed, abuse, registered, worker>>

(* Behaviour::handle_request of an enforcing profile makes the label, *)
Label(r) ==
  /\ request[r].pc = "accepted"
  /\ request' = [request EXCEPT ![r].pc = "labelled",
                                ![r].label = request[r].host \in registered]
  /\ UNCHANGED <<gen, routed, abuse, registered, worker>>

(* Mutant of CheckPolicy: only a reload under way is noticed. *)
CheckPolicyOddOnly(r) ==
  /\ request[r].pc = "labelled"
  /\ IF ~Odd(gen) THEN To(r, "checked") ELSE Over(r)
  /\ UNCHANGED <<gen, routed, abuse, registered, worker>>

(* compares the generation with the one the request was routed in, *)
CheckPolicy(r) ==
  /\ request[r].pc = "labelled"
  /\ IF Unmoved(r) THEN To(r, "checked") ELSE Over(r)
  /\ UNCHANGED <<gen, routed, abuse, registered, worker>>

(* and asks the registry, which serves a host it does not know unprotected. *)
Admit(r) ==
  /\ request[r].pc = "checked"
  /\ To(r, IF request[r].label /\ request[r].host \in abuse
              THEN "protected" ELSE "unprotected")
  /\ UNCHANGED <<gen, routed, abuse, registered, worker>>

Finish(r) ==
  /\ request[r].pc \in {"protected", "unprotected"}
  /\ Over(r)
  /\ UNCHANGED <<gen, routed, abuse, registered, worker>>

Serve(r) == \/ ReadGeneration(r) \/ CheckReload(r) \/ Route(r) \/ Recheck(r)
            \/ Label(r) \/ CheckPolicy(r) \/ Admit(r) \/ Finish(r)

-----------------------------------------------------------------------------
Init ==
  /\ gen = 0
  /\ routed = {} /\ abuse = {} /\ registered = {}
  /\ worker = [w \in Workers |-> Resting]
  /\ request = [r \in Requests |-> NoRequest]

Next == \/ \E w \in Workers : LoadConfig(w) \/ Reload(w)
        \/ \E r \in Requests : Serve(r)

Spec == Init /\ [][Next]_vars

(* try_init_locations is synchronous: once it runs, it runs to its end. *)
FairSpec == Spec /\ \A w \in Workers : WF_vars(Reload(w))

-----------------------------------------------------------------------------
(* Properties.                                                              *)

(* No more hosts are ever published than the native registry has room for. *)
TypeOK ==
  /\ gen \in Nat
  /\ routed \in HostSets /\ abuse \in HostSets /\ registered \in HostSets
  /\ worker \in [Workers -> [pc : {"idle", "loaded", "locked", "abuse", "registered",
                                   "stored"}, hosts : HostSets]]
  /\ request \in [Requests ->
       [pc : {"idle", "began", "clear", "routed", "accepted", "labelled", "checked",
              "protected", "unprotected"},
        host : Hosts \cup {"none"}, gen : Nat, label : BOOLEAN]]

(* pingap-core: "route and native snapshots are always published as one      *)
(* update": whenever the generation is even they name the same hosts, also   *)
(* with concurrent and with abandoned reloads.                               *)
SnapshotsAgree == ~Odd(gen) => routed = abuse /\ abuse = registered

(* What a request routed by is still what is published as long as the        *)
(* generation has not moved, wherever in its course it stands.               *)
RouteIsCurrent ==
  \A r \in Requests :
    request[r].pc \in {"routed", "accepted", "labelled", "checked"} /\ Unmoved(r) =>
      request[r].host \in routed \cap abuse \cap registered

(* A request that passed the policy check carries the label of the           *)
(* generation it was routed in: a routed host is never mistaken for an       *)
(* unregistered one because a reload came between the two.                   *)
LabelIsRouted ==
  \A r \in Requests : request[r].pc = "checked" => request[r].label

(* What the gate of pingap-core promises its readers: an even generation     *)
(* means one published config, also with concurrent and abandoned reloads,   *)
(* and a request that passed the check never lost its label to a reload.     *)
GateInv == TypeOK /\ SnapshotsAgree /\ LabelIsRouted

(* An abandoned or overtaken reload never leaves the gate shut: requests do  *)
(* not fail with 503 forever.                                                *)
ReloadSettles == Odd(gen) ~> ~Odd(gen)

(* pingap-core: requests "that cross a generation boundary, fail closed":    *)
(* no request for a routed host is served without the abuse policy.          *)
FailsClosed == \A r \in Requests : request[r].pc # "unprotected"
=============================================================================
