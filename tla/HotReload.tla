----------------------------- MODULE HotReload -----------------------------
(***************************************************************************)
(* Routing across hot reloads: the location provider, the server's route   *)
(* with its host index, and diff_and_update_config, which rebuilds each of *)
(* them only when its own part of the config has changed.                  *)
(*                                                                         *)
(*   src/process/auto_restart.rs         diff_and_update_config            *)
(*   src/locations.rs                    try_init_locations                *)
(*   src/server_locations.rs             try_init_server_locations         *)
(*   pingap-location/src/host_index.rs   LocationHostIndex                 *)
(*   pingap-proxy/src/server.rs          find_and_apply_location           *)
(*                                                                         *)
(* One server.  Location names are numbers, in name order.  A location     *)
(* whose host or path pattern does not compile is stored like any other    *)
(* (validate does not look at the patterns) and fails the whole location   *)
(* reload; the reload goes on without it.                                  *)
(***************************************************************************)
EXTENDS Integers, Sequences, FiniteSets

CONSTANTS
  Names,      \* location names
  RouteHosts, \* host names of requests
  Weights,    \* location weights
  Absent,     \* there is no location of that name
  EditKinds,  \* which edits of a config are made
  MaxEdits    \* bound on their number

ASSUME NamesAssumption == Names \subseteq Nat /\ IsFiniteSet(Names)
ASSUME WeightsAssumption == Weights \subseteq Nat \ {0}
ASSUME EditAssumption == EditKinds \subseteq {"domain", "hosts", "weight", "pattern"}
ASSUME EditsAssumption == MaxEdits \in Nat

VARIABLES
  given,      \* the location an operator has for each name
  stored,     \* the stored config: the names that are there, as given
  current,    \* ConfigManager::current_config
  loading,    \* the config a reload under way has loaded
  pc,         \* reload: "idle", "locations" or "servers"
  live,       \* LOCATION_PROVIDER
  ordered,    \* ServerLocationRoute::ordered
  index,      \* ServerLocationRoute::host_index: hosts of each ordered name
  refused,    \* the last location reload failed (reload_fail_messages)
  edits       \* edits so far

routeVars == <<given, stored, current, loading, pc, live, ordered, index, refused,
              edits>>

-----------------------------------------------------------------------------
(* A location's hosts, none means any host, and whether Location::new takes  *)
(* its patterns.                                                             *)
Conf == [hosts : SUBSET RouteHosts, weight : Weights, valid : BOOLEAN]

(* A config: the locations.  The generated server lists all of them in name  *)
(* order (server_conf).                                                      *)
Configs == [Names -> Conf \cup {Absent}]
Listed(cfg) == {n \in Names : cfg[n] # Absent}
Compiles(cfg) == \A n \in Listed(cfg) : cfg[n].valid

Weight(cfg, n) == IF cfg[n] = Absent THEN 0 ELSE cfg[n].weight

(* The stable sort by descending weight. *)
Before(cfg, m, n) ==
  \/ Weight(cfg, m) > Weight(cfg, n)
  \/ Weight(cfg, m) = Weight(cfg, n) /\ m < n

IsOrder(s, cfg) ==
  /\ Len(s) = Cardinality(Listed(cfg))
  /\ {s[k] : k \in DOMAIN s} = Listed(cfg)
  /\ \A j, k \in DOMAIN s : j < k => Before(cfg, s[j], s[k])

Orders == UNION {[1..k -> Names] : k \in 0..Cardinality(Names)}
RouteOrder(cfg) == CHOOSE s \in Orders : IsOrder(s, cfg)

Serves(hosts, h) == hosts = {} \/ h \in hosts

(* The buckets of the host index: `nowhere` for a name that had no location  *)
(* when the index was built.                                                 *)
Nowhere == [known |-> FALSE, hosts |-> {}]
IndexOf(locations) ==
  [n \in Names |-> IF locations[n] = Absent THEN Nowhere
                   ELSE [known |-> TRUE, hosts |-> locations[n].hosts]]

IsCandidate(n, h) == index[n].known /\ Serves(index[n].hosts, h)
Matches(n, h) == live[n] # Absent /\ Serves(live[n].hosts, h)

(* find_and_apply_location: the first candidate of the index that the live   *)
(* location matches; 0 is "no location".                                     *)
FirstOf(S) == IF S = {} THEN 0 ELSE ordered[CHOOSE k \in S : \A j \in S : k <= j]
Routed(h) == FirstOf({k \in DOMAIN ordered : /\ IsCandidate(ordered[k], h)
                                             /\ Matches(ordered[k], h)})
LinearScan(h) == FirstOf({k \in DOMAIN ordered : Matches(ordered[k], h)})

-----------------------------------------------------------------------------
(* An operator adds or removes a domain, changes its host names or its       *)
(* priority, breaks or mends a pattern, and the config is stored.            *)
Change(n, c) ==
  /\ given' = [given EXCEPT ![n] = c]
  /\ stored' = [stored EXCEPT ![n] = c]

Edit(n, kind) ==
  /\ kind \in EditKinds
  /\ edits < MaxEdits
  /\ edits' = edits + 1
  /\ \/ /\ kind = "domain"
        /\ stored' = [stored EXCEPT ![n] = IF @ = Absent THEN given[n] ELSE Absent]
        /\ UNCHANGED given
     \/ /\ kind = "hosts" /\ stored[n] # Absent
        /\ \E H \in SUBSET RouteHosts : Change(n, [given[n] EXCEPT !.hosts = H])
     \/ /\ kind = "weight" /\ stored[n] # Absent
        /\ \E w \in Weights : Change(n, [given[n] EXCEPT !.weight = w])
     \/ /\ kind = "pattern" /\ stored[n] # Absent
        /\ Change(n, [given[n] EXCEPT !.valid = ~@])
  /\ UNCHANGED <<current, loading, pc, live, ordered, index, refused>>

(* diff_and_update_config loads the config and compares it with the current. *)
LoadConfigDiff ==
  /\ pc = "idle"
  /\ stored # current
  /\ loading' = stored
  /\ pc' = "locations"
  /\ UNCHANGED <<given, stored, current, live, ordered, index, refused, edits>>

(* Mutant of ReloadLocations: locations that exist are kept as they are. *)
ReloadLocationsKeeps ==
  /\ pc = "locations"
  /\ IF Compiles(loading)
       THEN live' = [n \in Names |-> IF loading[n] # Absent /\ live[n] # Absent
                                     THEN live[n] ELSE loading[n]]
       ELSE UNCHANGED live
  /\ refused' = ~Compiles(loading)
  /\ pc' = "servers"
  /\ UNCHANGED <<given, stored, current, loading, ordered, index, edits>>

(* The location category differs: the provider is replaced, unless one of    *)
(* the locations cannot be made.  The failure is reported and the reload     *)
(* goes on.  Plugins and certificates, which come next, are not modelled.    *)
ReloadLocations ==
  /\ pc = "locations"
  /\ live' = IF Compiles(loading) THEN loading ELSE live
  /\ refused' = ~Compiles(loading)
  /\ pc' = "servers"
  /\ UNCHANGED <<given, stored, current, loading, ordered, index, edits>>

(* Mutant of ReloadServers: the index is built from the previous map. *)
ReloadServersEarly ==
  /\ pc = "servers"
  /\ IF Listed(loading) # Listed(current)
       THEN /\ ordered' = RouteOrder(loading)
            /\ index' = IndexOf(current)
       ELSE UNCHANGED <<ordered, index>>
  /\ current' = loading
  /\ pc' = "idle"
  /\ UNCHANGED <<given, stored, loading, live, refused, edits>>

(* Mutant of ReloadServers: a reload whose locations failed stops there, the *)
(* loaded config being current all the same.                                 *)
ReloadServersStops ==
  /\ pc = "servers"
  /\ IF Listed(loading) # Listed(current) /\ ~refused
       THEN /\ ordered' = RouteOrder(loading)
            /\ index' = IndexOf(live)
       ELSE UNCHANGED <<ordered, index>>
  /\ current' = loading
  /\ pc' = "idle"
  /\ UNCHANGED <<given, stored, loading, live, refused, edits>>

(* server.locations differs: the route is rebuilt from the live locations,   *)
(* whichever they are.  The loaded config becomes the current one.           *)
ReloadServers ==
  /\ pc = "servers"
  /\ IF Listed(loading) # Listed(current)
       THEN /\ ordered' = RouteOrder(loading)
            /\ index' = IndexOf(live)
       ELSE UNCHANGED <<ordered, index>>
  /\ current' = loading
  /\ pc' = "idle"
  /\ UNCHANGED <<given, stored, loading, live, refused, edits>>

(* The process boots from the stored config; a location that cannot be made  *)
(* ends the boot.                                                            *)
Restart ==
  /\ Compiles(stored)
  /\ current' = stored
  /\ loading' = stored
  /\ pc' = "idle"
  /\ live' = stored
  /\ ordered' = RouteOrder(stored)
  /\ index' = IndexOf(stored)
  /\ refused' = FALSE
  /\ UNCHANGED <<given, stored, edits>>

-----------------------------------------------------------------------------
(* The process has booted from some of the locations the operator has. *)
RouteInit ==
  /\ given \in [Names -> [hosts : SUBSET RouteHosts, weight : Weights, valid : {TRUE}]]
  /\ \E S \in SUBSET Names : stored = [n \in Names |-> IF n \in S THEN given[n] ELSE Absent]
  /\ current = stored /\ loading = stored /\ live = stored
  /\ pc = "idle"
  /\ ordered = RouteOrder(stored)
  /\ index = IndexOf(stored)
  /\ refused = FALSE
  /\ edits = 0

RouteNext == \/ \E n \in Names, kind \in EditKinds : Edit(n, kind)
             \/ LoadConfigDiff \/ ReloadLocations \/ ReloadServers \/ Restart

RouteSpec == RouteInit /\ [][RouteNext]_routeVars

-----------------------------------------------------------------------------
(* Properties.                                                              *)

RouteTypeOK ==
  /\ given \in [Names -> Conf]
  /\ stored \in Configs /\ current \in Configs /\ loading \in Configs
  /\ live \in Configs
  /\ pc \in {"idle", "locations", "servers"}
  /\ ordered \in Orders
  /\ index \in [Names -> [known : BOOLEAN, hosts : SUBSET RouteHosts]]
  /\ refused \in BOOLEAN
  /\ edits \in 0..MaxEdits

(* host_index.rs: "the first full match is identical to a linear scan of the *)
(* ordered list", whenever no reload is under way.                           *)
IndexIsLinearScan == pc = "idle" => \A h \in RouteHosts : Routed(h) = LinearScan(h)

(* apply.rs, server_route_locations: the order the provider runs with is the *)
(* order that verification derives from the config.                          *)
OrderIsConfigured == pc = "idle" => ordered = RouteOrder(current)

(* What a request gets is what the current config says, by weight: the       *)
(* heaviest location that serves its host.                                   *)
HeaviestServes ==
  pc = "idle" => \A h \in RouteHosts :
    LET fit == {n \in Listed(current) : Serves(current[n].hosts, h)}
    IN IF fit = {} THEN Routed(h) = 0
       ELSE Routed(h) \in fit /\ \A n \in fit \ {Routed(h)} : Before(current, Routed(h), n)

(* At every step of a reload, and after one whose locations failed, a        *)
(* request only gets a location the current config lists.  A stale index or  *)
(* order may hide a location or prefer a lighter one; only after a failed    *)
(* location reload may it be one the config in use has for other hosts.      *)
InUse == IF pc = "servers" THEN loading ELSE current

NeverMisroutes ==
  /\ RouteTypeOK
  /\ \A h \in RouteHosts : Routed(h) # 0 =>
       /\ Routed(h) \in Listed(current)
       /\ ~refused => /\ Routed(h) \in Listed(InUse)
                      /\ Serves(InUse[Routed(h)].hosts, h)

(* A reload that adds or removes a location, and whose locations did not     *)
(* fail, brings the index and the order up to date, however stale earlier    *)
(* edits or failed reloads left them; one whose locations failed at least    *)
(* leaves the order of its own config.                                       *)
StaleIsHealed ==
  [][pc = "servers" /\ pc' = "idle" /\ Listed(current) # Listed(current') =>
       /\ OrderIsConfigured'
       /\ ~refused' => (IndexIsLinearScan /\ HeaviestServes)']_routeVars
=============================================================================
