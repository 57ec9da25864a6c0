---------------------------- MODULE ReloadProofs -----------------------------
(*****************************************************************************)
(* Proofs about what a reload replaces under the requests that are under     *)
(* way: the routing (HotReload), the policy gate (PolicyReload) and the      *)
(* proxy's callbacks (RequestPath).  The three share no variable.            *)
(*****************************************************************************)
EXTENDS HotReload, PolicyReload, RequestPath, FiniteSetTheorems, SequenceTheorems,
        WellFoundedInduction, TLAPS

-----------------------------------------------------------------------------
(*****************************************************************************)
(* HotReload, for any finite set of location names and any hosts, weights    *)
(* and edits.                                                                *)
(*                                                                           *)
(* The invariant says which config the location map is of at each step of a  *)
(* reload that did not fail, and that the route always lists the current     *)
(* config's locations, failed or not.  No request is misrouted because the   *)
(* map is asked again, whatever the route was built from; that a reload      *)
(* heals the route also needs that every config has one: the stable sort of  *)
(* its locations exists.                                                     *)
(*****************************************************************************)

(* The map in use is the current config's until a reload replaces it, unless *)
(* the last one to try could not.                                            *)
LiveIsLoaded == ~refused => live = InUse

(* The route names the locations of the current config. *)
OrderedIsListed == \A k \in DOMAIN ordered : ordered[k] \in Listed(current)

RouteInv == RouteTypeOK /\ LiveIsLoaded /\ OrderedIsListed

-----------------------------------------------------------------------------
(* Every config has a route: the stable sort of its locations exists.        *)

LEMMA WeightIs == ASSUME NEW cfg \in Configs, NEW n \in Names PROVE Weight(cfg, n) \in Nat
<1>1. cfg[n] = Absent \/ cfg[n] \in Conf
  BY DEF Configs
<1> QED BY <1>1, WeightsAssumption DEF Weight, Conf

LEMMA BeforeIsOrder ==
  ASSUME NEW cfg \in Configs
  PROVE  /\ \A n \in Names : ~Before(cfg, n, n)
         /\ \A m, n \in Names : m # n => Before(cfg, m, n) \/ Before(cfg, n, m)
         /\ \A l, m, n \in Names : Before(cfg, l, m) /\ Before(cfg, m, n) => Before(cfg, l, n)
<1>1. \A n \in Names : Weight(cfg, n) \in Nat /\ n \in Nat
  BY WeightIs, NamesAssumption
<1> QED BY <1>1 DEF Before

(* A set of locations that is not empty has a lightest. *)
LEMMA LastExists ==
  ASSUME NEW cfg \in Configs, NEW T \in SUBSET Names, T # {}
  PROVE  \E m \in T : \A n \in T \ {m} : Before(cfg, n, m)
<1> DEFINE After(n) == {x \in T : Before(cfg, n, x)}
           Afters == {After(n) : n \in T}
<1>1. IsFiniteSet(T)
  BY NamesAssumption, FS_Subset
<1>2. IsWellFoundedOn(StrictSubsetOrdering(T), FiniteSubsetsOf(T))
  BY FS_StrictSubsetOrderingWellFounded
<1>3. Afters \subseteq FiniteSubsetsOf(T) /\ Afters # {}
  <2>1. \A n \in T : After(n) \subseteq T /\ IsFiniteSet(After(n))
    <3>1. \A n \in T : After(n) \subseteq T
      OBVIOUS
    <3> HIDE DEF After
    <3> QED BY <1>1, <3>1, FS_Subset
  <2>2. \A n \in T : After(n) \in FiniteSubsetsOf(T)
    <3> HIDE DEF After
    <3> QED BY <2>1 DEF FiniteSubsetsOf
  <2> HIDE DEF After
  <2> QED BY <2>2
<1> HIDE DEF Afters
<1>4. PICK A \in Afters : \A B \in Afters : ~(<<B, A>> \in StrictSubsetOrdering(T))
  BY <1>2, <1>3, WFMin
<1>5. PICK m \in T : A = After(m)
  BY <1>4 DEF Afters
<1>6. \A x \in T : ~Before(cfg, m, x)
  <2> SUFFICES ASSUME NEW x \in T, Before(cfg, m, x) PROVE FALSE
    OBVIOUS
  <2>1. After(x) \subseteq After(m) /\ x \in After(m) /\ x \notin After(x)
    BY BeforeIsOrder
  <2>2. After(x) \in Afters /\ After(x) \subseteq T /\ After(m) \subseteq T
    BY DEF Afters
  <2> HIDE DEF After
  <2> QED BY <1>4, <1>5, <2>1, <2>2 DEF StrictSubsetOrdering
<1>7. \A n \in T \ {m} : Before(cfg, n, m)
  BY <1>6, BeforeIsOrder
<1> QED BY <1>7

(* s lists the locations of T in the order of their weights. *)
Sorts(s, T, cfg) ==
  /\ s \in [1 .. Cardinality(T) -> Names]
  /\ {s[k] : k \in DOMAIN s} = T
  /\ \A j, k \in DOMAIN s : j < k => Before(cfg, s[j], s[k])

LEMMA SortExtends ==
  ASSUME NEW cfg \in Configs, NEW T \in SUBSET Names, NEW m \in T,
         \A n \in T \ {m} : Before(cfg, n, m),
         NEW s, Sorts(s, T \ {m}, cfg)
  PROVE  \E r : Sorts(r, T, cfg)
<1> DEFINE c == Cardinality(T)
           r == [k \in 1 .. c |-> IF k = c THEN m ELSE s[k]]
<1>1. c \in Nat /\ c > 0 /\ Cardinality(T \ {m}) = c - 1
  <2>1. IsFiniteSet(T)
    BY NamesAssumption, FS_Subset
  <2>2. Cardinality(T) \in Nat /\ Cardinality(T \ {m}) = Cardinality(T) - 1
    BY <2>1, FS_CardinalityType, FS_RemoveElement
  <2>3. Cardinality(T) # 0
    BY <2>1, FS_EmptySet
  <2> QED BY <2>2, <2>3
<1> HIDE DEF c
<1>2. /\ DOMAIN s = 1 .. c - 1 /\ \A k \in 1 .. c - 1 : s[k] \in T \ {m}
      /\ \A n \in T \ {m} : \E k \in 1 .. c - 1 : s[k] = n
      /\ \A j, k \in 1 .. c - 1 : j < k => Before(cfg, s[j], s[k])
  BY <1>1 DEF Sorts
<1>3. /\ DOMAIN r = 1 .. c /\ r[c] = m /\ \A k \in 1 .. c - 1 : r[k] = s[k]
  BY <1>1
<1>4. \A k \in 1 .. c : k = c \/ k \in 1 .. c - 1
  BY <1>1
<1> HIDE DEF r
<1>5. r \in [1 .. c -> Names]
  <2>1. \A k \in 1 .. c : r[k] \in Names
    BY <1>2, <1>3, <1>4
  <2>2. r = [k \in 1 .. c |-> r[k]]
    BY DEF r
  <2> QED BY <2>1, <2>2
<1>6. {r[k] : k \in 1 .. c} = T
  <2>1. \A k \in 1 .. c : r[k] \in T
    BY <1>2, <1>3, <1>4
  <2>2. \A n \in T : \E k \in 1 .. c : r[k] = n
    <3> SUFFICES ASSUME NEW n \in T PROVE \E k \in 1 .. c : r[k] = n
      OBVIOUS
    <3>1. CASE n = m
      BY <1>1, <1>3, <3>1
    <3>2. CASE n # m
      <4>1. PICK k \in 1 .. c - 1 : s[k] = n
        BY <1>2, <3>2
      <4>2. k \in 1 .. c /\ r[k] = n
        BY <1>1, <1>3, <4>1
      <4> QED BY <4>2
    <3> QED BY <3>1, <3>2
  <2> QED BY <2>1, <2>2
<1>7. \A j, k \in 1 .. c : j < k => Before(cfg, r[j], r[k])
  <2> SUFFICES ASSUME NEW j \in 1 .. c, NEW k \in 1 .. c, j < k PROVE Before(cfg, r[j], r[k])
    OBVIOUS
  <2>1. j \in 1 .. c - 1
    BY <1>1
  <2>2. CASE k = c
    BY <1>2, <1>3, <2>1, <2>2
  <2>3. CASE k # c
    <3>1. k \in 1 .. c - 1
      BY <1>4, <2>3
    <3> QED BY <1>2, <1>3, <2>1, <3>1
  <2> QED BY <2>2, <2>3
<1>8. Sorts(r, T, cfg)
  BY <1>3, <1>5, <1>6, <1>7 DEF Sorts, c
<1> QED BY <1>8

LEMMA SortExists ==
  ASSUME NEW cfg \in Configs, NEW T \in SUBSET Names
  PROVE  \E s : Sorts(s, T, cfg)
<1> DEFINE Unsorted == {U \in SUBSET Names : ~\E s : Sorts(s, U, cfg)}
<1> SUFFICES Unsorted = {}
  OBVIOUS
<1> SUFFICES ASSUME Unsorted # {} PROVE FALSE
  OBVIOUS
<1>1. IsWellFoundedOn(StrictSubsetOrdering(Names), SUBSET Names)
  BY FS_StrictSubsetOrderingWellFounded, FS_FiniteSubsetsOfFinite, NamesAssumption
<1>2. PICK U \in Unsorted : \A V \in Unsorted : ~(<<V, U>> \in StrictSubsetOrdering(Names))
  <2>1. Unsorted \subseteq SUBSET Names
    OBVIOUS
  <2> HIDE DEF Unsorted
  <2> QED BY <1>1, <2>1, WFMin
<1>3. CASE U = {}
  <2> DEFINE e == [k \in 1 .. 0 |-> CHOOSE n \in Names : TRUE]
  <2>1. Cardinality({}) = 0 /\ 1 .. 0 = {}
    BY FS_EmptySet
  <2>2. e \in [1 .. 0 -> Names] /\ DOMAIN e = {}
    BY <2>1
  <2> HIDE DEF e
  <2>3. Sorts(e, {}, cfg)
    BY <2>1, <2>2 DEF Sorts
  <2> QED BY <1>2, <1>3, <2>3
<1>4. CASE U # {}
  <2>1. PICK m \in U : \A n \in U \ {m} : Before(cfg, n, m)
    BY <1>2, <1>4, LastExists
  <2>2. U \ {m} \notin Unsorted
    BY <1>2 DEF StrictSubsetOrdering
  <2>3. \E s : Sorts(s, U \ {m}, cfg)
    BY <1>2, <2>2
  <2> QED BY <1>2, <2>1, <2>3, SortExtends
<1> QED BY <1>3, <1>4

LEMMA RouteOrderIs ==
  ASSUME NEW cfg \in Configs
  PROVE  RouteOrder(cfg) \in Orders /\ IsOrder(RouteOrder(cfg), cfg)
<1>1. Listed(cfg) \in SUBSET Names
  BY DEF Listed
<1>2. PICK s : Sorts(s, Listed(cfg), cfg)
  BY <1>1, SortExists
<1>3. IsFiniteSet(Listed(cfg)) /\ Cardinality(Listed(cfg)) \in 0 .. Cardinality(Names)
  BY <1>1, NamesAssumption, FS_Subset, FS_CardinalityType
<1>4. s \in Orders
  BY <1>2, <1>3 DEF Orders, Sorts
<1>5. Len(s) = Cardinality(Listed(cfg))
  <2>1. s \in Seq(Names) /\ DOMAIN s = 1 .. Cardinality(Listed(cfg))
    BY <1>2, <1>3, SeqDef DEF Sorts
  <2> QED BY <1>3, <2>1, LenProperties
<1>6. IsOrder(s, cfg)
  BY <1>2, <1>5 DEF IsOrder, Sorts
<1> QED BY <1>4, <1>6 DEF RouteOrder

-----------------------------------------------------------------------------
(* The invariant. *)

LEMMA IndexIs ==
  ASSUME NEW cfg \in Configs
  PROVE  IndexOf(cfg) \in [Names -> [known : BOOLEAN, hosts : SUBSET RouteHosts]]
<1>1. \A n \in Names : cfg[n] = Absent \/ cfg[n].hosts \in SUBSET RouteHosts
  BY DEF Configs, Conf
<1> QED BY <1>1 DEF IndexOf, Nowhere

(* A route made from a config names its locations. *)
LEMMA RouteLists ==
  ASSUME NEW cfg \in Configs
  PROVE  LET s == RouteOrder(cfg) IN \A k \in DOMAIN s : s[k] \in Listed(cfg)
BY RouteOrderIs DEF IsOrder

LEMMA RouteStarts == RouteInit => RouteInv
<1> SUFFICES ASSUME RouteInit PROVE RouteInv
  OBVIOUS
<1>1. given \in [Names -> Conf]
  BY DEF RouteInit, Conf
<1>2. stored \in Configs
  BY <1>1 DEF RouteInit, Configs
<1>3. ordered \in Orders /\ \A k \in DOMAIN ordered : ordered[k] \in Listed(stored)
  BY <1>2, RouteOrderIs, RouteLists DEF RouteInit
<1>4. index \in [Names -> [known : BOOLEAN, hosts : SUBSET RouteHosts]]
  BY <1>2, IndexIs DEF RouteInit
<1>5. edits \in 0 .. MaxEdits
  BY EditsAssumption DEF RouteInit
<1>6. /\ current = stored /\ loading = stored /\ live = stored
      /\ pc = "idle" /\ refused = FALSE
  BY DEF RouteInit
<1> QED BY <1>1, <1>2, <1>3, <1>4, <1>5, <1>6
        DEF RouteInv, RouteTypeOK, LiveIsLoaded, OrderedIsListed, InUse

LEMMA EditKeeps ==
  ASSUME RouteInv, NEW n \in Names, NEW kind \in EditKinds, Edit(n, kind)
  PROVE  RouteInv'
<1>1. given' \in [Names -> Conf] /\ stored' \in Configs
  <2>1. CASE UNCHANGED given /\ stored' = [stored EXCEPT ![n] = IF @ = Absent THEN given[n] ELSE Absent]
    BY <2>1 DEF RouteInv, RouteTypeOK, Configs
  <2>2. ASSUME NEW H \in SUBSET RouteHosts, Change(n, [given[n] EXCEPT !.hosts = H])
        PROVE  given' \in [Names -> Conf] /\ stored' \in Configs
    <3>1. [given[n] EXCEPT !.hosts = H] \in Conf
      BY DEF RouteInv, RouteTypeOK, Conf
    <3> QED BY <2>2, <3>1 DEF RouteInv, RouteTypeOK, Configs, Change
  <2>3. ASSUME NEW w \in Weights, Change(n, [given[n] EXCEPT !.weight = w])
        PROVE  given' \in [Names -> Conf] /\ stored' \in Configs
    <3>1. [given[n] EXCEPT !.weight = w] \in Conf
      BY DEF RouteInv, RouteTypeOK, Conf
    <3> QED BY <2>3, <3>1 DEF RouteInv, RouteTypeOK, Configs, Change
  <2>4. ASSUME Change(n, [given[n] EXCEPT !.valid = ~@])
        PROVE  given' \in [Names -> Conf] /\ stored' \in Configs
    <3>1. [given[n] EXCEPT !.valid = ~@] \in Conf
      BY DEF RouteInv, RouteTypeOK, Conf
    <3> QED BY <2>4, <3>1 DEF RouteInv, RouteTypeOK, Configs, Change
  <2> QED BY <2>1, <2>2, <2>3, <2>4 DEF Edit
<1>2. edits' \in 0 .. MaxEdits
  BY EditsAssumption DEF Edit, RouteInv, RouteTypeOK
<1>3. UNCHANGED <<current, loading, pc, live, ordered, index, refused>>
  BY DEF Edit
<1> QED BY <1>1, <1>2, <1>3 DEF RouteInv, RouteTypeOK, LiveIsLoaded, OrderedIsListed, InUse

LEMMA ReloadKeeps ==
  ASSUME RouteInv, LoadConfigDiff \/ ReloadLocations \/ ReloadServers \/ Restart
  PROVE  RouteInv'
<1>1. CASE LoadConfigDiff
  BY <1>1 DEF LoadConfigDiff, RouteInv, RouteTypeOK, LiveIsLoaded, OrderedIsListed, InUse
<1>2. CASE ReloadLocations
  <2>1. refused' \in BOOLEAN /\ (~refused' => live' = loading)
    BY <1>2, Zenon DEF ReloadLocations
  <2>2. live' \in Configs
    BY <1>2 DEF ReloadLocations, RouteInv, RouteTypeOK
  <2>3. pc' = "servers" /\ UNCHANGED <<given, stored, current, loading, ordered, index, edits>>
    BY <1>2 DEF ReloadLocations
  <2> QED BY <2>1, <2>2, <2>3 DEF RouteInv, RouteTypeOK, LiveIsLoaded, OrderedIsListed, InUse
<1>3. CASE ReloadServers
  <2>1. /\ current' = loading /\ pc' = "idle"
        /\ UNCHANGED <<given, stored, loading, live, refused, edits>>
    BY <1>3 DEF ReloadServers
  <2>2. ordered' \in Orders /\ \A k \in DOMAIN ordered' : ordered'[k] \in Listed(loading)
    BY <1>3, RouteOrderIs, RouteLists DEF ReloadServers, RouteInv, RouteTypeOK, OrderedIsListed
  <2>3. index' \in [Names -> [known : BOOLEAN, hosts : SUBSET RouteHosts]]
    BY <1>3, IndexIs DEF ReloadServers, RouteInv, RouteTypeOK
  <2>4. pc = "servers"
    BY <1>3 DEF ReloadServers
  <2>5. Listed(current') = Listed(loading)
    BY <2>1
  <2> QED BY <2>1, <2>2, <2>3, <2>4, <2>5
          DEF RouteInv, RouteTypeOK, LiveIsLoaded, OrderedIsListed, InUse
<1>4. CASE Restart
  <2>1. ordered' \in Orders /\ \A k \in DOMAIN ordered' : ordered'[k] \in Listed(stored)
    BY <1>4, RouteOrderIs, RouteLists DEF Restart, RouteInv, RouteTypeOK
  <2>2. index' \in [Names -> [known : BOOLEAN, hosts : SUBSET RouteHosts]]
    BY <1>4, IndexIs DEF Restart, RouteInv, RouteTypeOK
  <2>3. /\ current' = stored /\ loading' = stored /\ live' = stored /\ pc' = "idle"
        /\ refused' = FALSE /\ UNCHANGED <<given, stored, edits>>
    BY <1>4 DEF Restart
  <2>4. Listed(current') = Listed(stored)
    BY <2>3
  <2> QED BY <2>1, <2>2, <2>3, <2>4
          DEF RouteInv, RouteTypeOK, LiveIsLoaded, OrderedIsListed, InUse
<1> QED BY <1>1, <1>2, <1>3, <1>4

LEMMA RouteStep == RouteInv /\ [RouteNext]_routeVars => RouteInv'
<1> SUFFICES ASSUME RouteInv, [RouteNext]_routeVars PROVE RouteInv'
  OBVIOUS
<1>1. CASE RouteNext
  BY <1>1, EditKeeps, ReloadKeeps DEF RouteNext
<1>2. CASE UNCHANGED routeVars
  BY <1>2 DEF routeVars, RouteInv, RouteTypeOK, LiveIsLoaded, OrderedIsListed, InUse
<1> QED BY <1>1, <1>2

-----------------------------------------------------------------------------
(* What a request gets. *)

LEMMA LeastIndex ==
  ASSUME NEW S \in SUBSET Nat, S # {}
  PROVE  \E m \in S : \A n \in S : m <= n
<1> DEFINE R == {ss \in Nat \X Nat : ss[1] < ss[2]}
<1>1. IsWellFoundedOn(R, Nat)
  BY NatLessThanWellFounded DEF OpToRel
<1> HIDE DEF R
<1>2. PICK m \in S : \A n \in S : ~(<<n, m>> \in R)
  BY <1>1, WFMin
<1>3. \A n \in S : ~(n < m)
  BY <1>2 DEF R
<1>4. \A n \in S : m <= n
  BY <1>3
<1> QED BY <1>4

LEMMA OrderedIs == ASSUME ordered \in Orders
                   PROVE  DOMAIN ordered \subseteq Nat /\ \A k \in DOMAIN ordered : ordered[k] \in Names
BY DEF Orders

(* The first of a set of places on the route. *)
LEMMA FirstIs ==
  ASSUME ordered \in Orders, NEW S \in SUBSET DOMAIN ordered, S # {}
  PROVE  \E m \in S : FirstOf(S) = ordered[m] /\ \A j \in S : m <= j
<1>1. S \in SUBSET Nat
  BY OrderedIs
<1>2. \E m \in S : \A j \in S : m <= j
  BY <1>1, LeastIndex
<1> QED BY <1>2 DEF FirstOf

LEMMA RoutedMatches ==
  ASSUME RouteTypeOK, NEW h \in RouteHosts, Routed(h) # 0
  PROVE  \E k \in DOMAIN ordered : Routed(h) = ordered[k] /\ Matches(ordered[k], h)
<1> DEFINE S == {k \in DOMAIN ordered : IsCandidate(ordered[k], h) /\ Matches(ordered[k], h)}
<1>1. Routed(h) = FirstOf(S)
  BY DEF Routed
<1>2. S # {}
  BY <1>1 DEF FirstOf
<1>3. S \in SUBSET DOMAIN ordered /\ \A k \in S : Matches(ordered[k], h)
  OBVIOUS
<1>4. ordered \in Orders
  BY DEF RouteTypeOK
<1> HIDE DEF S
<1>5. PICK m \in S : FirstOf(S) = ordered[m]
  BY <1>2, <1>3, <1>4, FirstIs
<1> QED BY <1>1, <1>3, <1>5

LEMMA RouteInvMisroutes == RouteInv => NeverMisroutes
<1> SUFFICES ASSUME RouteInv, NEW h \in RouteHosts, Routed(h) # 0
             PROVE  /\ Routed(h) \in Listed(current)
                    /\ ~refused => /\ Routed(h) \in Listed(InUse)
                                   /\ Serves(InUse[Routed(h)].hosts, h)
  BY DEF NeverMisroutes, RouteInv
<1>1. PICK k \in DOMAIN ordered : Routed(h) = ordered[k] /\ Matches(ordered[k], h)
  BY RoutedMatches DEF RouteInv
<1>2. Routed(h) \in Listed(current)
  BY <1>1 DEF RouteInv, OrderedIsListed
<1>3. ASSUME ~refused
      PROVE  Routed(h) \in Listed(InUse) /\ Serves(InUse[Routed(h)].hosts, h)
  <2>1. live = InUse
    BY <1>3 DEF RouteInv, LiveIsLoaded
  <2>2. Routed(h) \in Names
    BY <1>2 DEF Listed
  <2> QED BY <1>1, <2>1, <2>2 DEF Matches, Listed
<1> QED BY <1>2, <1>3

(* A route made from the config in use, with its own index. *)
Fresh ==
  /\ RouteTypeOK
  /\ live = current
  /\ ordered = RouteOrder(current)
  /\ index = IndexOf(current)

LEMMA FreshScans == Fresh => IndexIsLinearScan
<1> SUFFICES ASSUME Fresh, NEW h \in RouteHosts PROVE Routed(h) = LinearScan(h)
  BY DEF IndexIsLinearScan
<1>1. \A n \in Names : Matches(n, h) => IsCandidate(n, h)
  BY DEF Matches, IsCandidate, Fresh, IndexOf, RouteTypeOK, Configs
<1>2. \A k \in DOMAIN ordered : ordered[k] \in Names
  BY OrderedIs DEF Fresh, RouteTypeOK
<1>3. {k \in DOMAIN ordered : IsCandidate(ordered[k], h) /\ Matches(ordered[k], h)}
        = {k \in DOMAIN ordered : Matches(ordered[k], h)}
  BY <1>1, <1>2
<1> QED BY <1>3 DEF Routed, LinearScan

LEMMA FreshServes == Fresh => HeaviestServes
<1> SUFFICES ASSUME Fresh, NEW h \in RouteHosts
             PROVE  LET fit == {n \in Listed(current) : Serves(current[n].hosts, h)}
                    IN IF fit = {} THEN Routed(h) = 0
                       ELSE Routed(h) \in fit /\ \A n \in fit \ {Routed(h)} : Before(current, Routed(h), n)
  BY DEF HeaviestServes
<1> DEFINE fit == {n \in Listed(current) : Serves(current[n].hosts, h)}
           S == {k \in DOMAIN ordered : IsCandidate(ordered[k], h) /\ Matches(ordered[k], h)}
<1>1. ordered \in Orders /\ IsOrder(ordered, current)
  BY RouteOrderIs DEF Fresh, RouteTypeOK
<1>2. \A n \in Names : Matches(n, h) <=> n \in fit
  BY DEF Fresh, Matches, Listed
<1>3. \A n \in Names : n \in fit => IsCandidate(n, h)
  BY DEF IsCandidate, Fresh, IndexOf, RouteTypeOK, Configs, Listed
<1>4. \A k \in DOMAIN ordered : ordered[k] \in Names
  BY <1>1, OrderedIs
<1>5. S = {k \in DOMAIN ordered : ordered[k] \in fit}
  <2> HIDE DEF fit
  <2> QED BY <1>2, <1>3, <1>4
<1>6. Routed(h) = FirstOf(S)
  BY DEF Routed
<1>7. \A n \in fit : n \in Listed(current)
  OBVIOUS
<1>8. \A n \in fit : \E k \in S : ordered[k] = n
  <2>1. \A n \in Listed(current) : \E k \in DOMAIN ordered : ordered[k] = n
    BY <1>1 DEF IsOrder
  <2> HIDE DEF fit, S
  <2> QED BY <1>5, <1>7, <2>1
<1>9. \A k \in S : k \in DOMAIN ordered /\ ordered[k] \in fit
  <2> HIDE DEF fit
  <2> QED BY <1>5
<1> HIDE DEF S, fit
<1>10. CASE fit = {}
  <2>1. S = {}
    BY <1>9, <1>10
  <2> QED BY <1>6, <1>10, <2>1 DEF FirstOf, fit
<1>11. CASE fit # {}
  <2>1. S # {} /\ S \in SUBSET DOMAIN ordered
    BY <1>8, <1>9, <1>11
  <2>2. PICK m \in S : FirstOf(S) = ordered[m] /\ \A j \in S : m <= j
    BY <1>1, <2>1, FirstIs
  <2>3. Routed(h) \in fit
    BY <1>6, <1>9, <2>2
  <2>4. ASSUME NEW n \in fit, n # Routed(h) PROVE Before(current, Routed(h), n)
    <3>1. PICK k \in S : ordered[k] = n
      BY <1>8
    <3>2. k \in Nat /\ m \in Nat
      BY <1>1, <1>9, OrderedIs
    <3>3. m < k
      BY <1>6, <2>2, <2>4, <3>1, <3>2
    <3> QED BY <1>1, <1>6, <1>9, <2>2, <3>1, <3>3 DEF IsOrder
  <2> QED BY <1>11, <2>3, <2>4 DEF fit
<1> QED BY <1>10, <1>11 DEF fit

LEMMA FreshIsRight == Fresh => IndexIsLinearScan /\ HeaviestServes
BY FreshScans, FreshServes

(* The steps that end a reload after its locations. *)
LEMMA ServersFresh ==
  ASSUME RouteInv, RouteInv', [RouteNext]_routeVars,
         pc = "servers", pc' = "idle", Listed(current) # Listed(current')
  PROVE  OrderIsConfigured' /\ (~refused' => Fresh')
<1>1. CASE ReloadServers
  <2>1. /\ current' = loading /\ live' = live /\ refused' = refused
        /\ ordered' = RouteOrder(loading) /\ index' = IndexOf(live)
    BY <1>1 DEF ReloadServers
  <2>2. ~refused => live = loading
    BY DEF RouteInv, LiveIsLoaded, InUse
  <2>3. ordered' = RouteOrder(current')
    BY <2>1
  <2>4. ~refused' => live' = current' /\ index' = IndexOf(current')
    BY <2>1, <2>2
  <2> QED BY <2>3, <2>4 DEF OrderIsConfigured, Fresh, RouteInv
<1>2. CASE Restart
  <2>1. /\ live' = current' /\ ordered' = RouteOrder(current') /\ index' = IndexOf(current')
    BY <1>2 DEF Restart
  <2> QED BY <2>1 DEF OrderIsConfigured, Fresh, RouteInv
<1>3. ReloadServers \/ Restart
  BY DEF RouteNext, routeVars, Edit, LoadConfigDiff, ReloadLocations
<1> QED BY <1>1, <1>2, <1>3

(* At every step of every reload, failed or not, a request only gets a       *)
(* location the current config lists; and unless the last location reload    *)
(* failed, one that the config in use lists for its host                     *)
(* (find_and_apply_location checks the live location again).                 *)
THEOREM RequestsAreNeverMisrouted == RouteSpec => []NeverMisroutes
<1>1. RouteSpec => []RouteInv
  BY RouteStarts, RouteStep, PTL DEF RouteSpec
<1>2. RouteInv => NeverMisroutes
  BY RouteInvMisroutes
<1> QED BY <1>1, <1>2, PTL

(* A reload that adds or removes a location leaves the order of its config   *)
(* and, unless its locations failed, a route whose host index agrees with a  *)
(* linear scan and which gives each host the heaviest location that serves   *)
(* it.                                                                       *)
THEOREM ReloadsHeal == RouteSpec => StaleIsHealed
<1>1. RouteSpec => []RouteInv
  BY RouteStarts, RouteStep, PTL DEF RouteSpec
<1>2. RouteInv /\ RouteInv' /\ [RouteNext]_routeVars =>
        [pc = "servers" /\ pc' = "idle" /\ Listed(current) # Listed(current') =>
           /\ OrderIsConfigured'
           /\ ~refused' => (IndexIsLinearScan /\ HeaviestServes)']_routeVars
  <2> SUFFICES ASSUME RouteInv, RouteInv', [RouteNext]_routeVars, pc = "servers", pc' = "idle",
                      Listed(current) # Listed(current')
               PROVE  /\ OrderIsConfigured'
                      /\ ~refused' => (IndexIsLinearScan /\ HeaviestServes)'
    OBVIOUS
  <2>1. OrderIsConfigured' /\ (~refused' => Fresh')
    BY ServersFresh
  <2>2. Fresh' => (IndexIsLinearScan /\ HeaviestServes)'
    BY FreshIsRight, PTL
  <2> QED BY <2>1, <2>2
<1> QED BY <1>1, <1>2, PTL DEF RouteSpec, StaleIsHealed

-----------------------------------------------------------------------------
(*****************************************************************************)
(* PolicyReload, for any number of hosts, reload workers, requests and       *)
(* reloads.  The gate works because the generation is odd exactly while one  *)
(* worker holds the guard (Guarded), because what that worker has published  *)
(* so far is known (Progress), and because a request never carries a         *)
(* generation of the future (Past).                                          *)
(*****************************************************************************)

(* One worker at a time holds the guard, and the generation tells. *)
Guarded ==
  /\ \A w, u \in Workers : Publishing(w) /\ Publishing(u) => w = u
  /\ Odd(gen) <=> \E w \in Workers : Publishing(w)

(* What a worker has published at each step of its reload. *)
Progress ==
  \A w \in Workers :
    /\ worker[w].pc = "locked" => routed = abuse /\ abuse = registered
    /\ worker[w].pc \in {"abuse", "registered", "stored"} => abuse = worker[w].hosts
    /\ worker[w].pc \in {"registered", "stored"} => registered = worker[w].hosts
    /\ worker[w].pc = "stored" => routed = worker[w].hosts

Past == \A r \in Requests : request[r].gen <= gen

(* The label a request holds before the policy check. *)
LabelIsCurrent ==
  \A r \in Requests : request[r].pc = "labelled" /\ Unmoved(r) => request[r].label

GuardInv == /\ TypeOK /\ Guarded /\ Progress /\ Past /\ SnapshotsAgree
       /\ RouteIsCurrent /\ LabelIsCurrent /\ LabelIsRouted

LEMMA Parity ==
  ASSUME NEW n \in Nat
  PROVE  Odd(n + 1) <=> ~Odd(n)
BY DEF Odd

LEMMA NoHosts == {} \in HostSets
BY FS_EmptySet, BoundAssumption DEF HostSets

LEMMA InitGuardInv == Init => GuardInv
BY NoHosts DEF Init, GuardInv, TypeOK, Guarded, Progress, Past, SnapshotsAgree, RouteIsCurrent,
       LabelIsCurrent, LabelIsRouted, Resting, NoRequest, Publishing, Odd, Unmoved

(* A step of a worker leaves the requests alone, and the gate shuts before   *)
(* anything is published and opens after everything is.                      *)
LEMMA WorkerSteps ==
  ASSUME GuardInv, NEW w \in Workers, LoadConfig(w) \/ Reload(w)
  PROVE  GuardInv'
<1> USE DEF GuardInv
<1>1. /\ gen \in Nat
      /\ worker \in [Workers -> [pc : {"idle", "loaded", "locked", "abuse", "registered",
                                       "stored"}, hosts : HostSets]]
  BY DEF TypeOK
<1>2. TypeOK'
  <2>1. CASE LoadConfig(w)
    BY <2>1 DEF LoadConfig, TypeOK
  <2>2. CASE BeginReload(w)
    BY <2>2 DEF BeginReload, TypeOK
  <2>3. CASE Abandon(w) \/ EndReload(w)
    <3>1. Resting \in [pc : {"idle", "loaded", "locked", "abuse", "registered",
                            "stored"}, hosts : HostSets]
      BY NoHosts DEF Resting
    <3>2. /\ gen' = gen + 1 /\ worker' = [worker EXCEPT ![w] = Resting]
          /\ UNCHANGED <<routed, abuse, registered, request>>
      BY <2>3 DEF Abandon, EndReload
    <3> QED BY <3>1, <3>2 DEF TypeOK
  <2>4. CASE SetAbuseHosts(w) \/ SetRegisteredHosts(w) \/ StoreLocations(w)
    BY <2>4 DEF SetAbuseHosts, SetRegisteredHosts, StoreLocations, TypeOK
  <2> QED BY <2>1, <2>2, <2>3, <2>4 DEF Reload
<1>3. UNCHANGED request
  BY DEF LoadConfig, Reload, BeginReload, Abandon, SetAbuseHosts, SetRegisteredHosts,
         StoreLocations, EndReload
<1>4. CASE LoadConfig(w)
  <2>1. /\ UNCHANGED <<gen, routed, abuse, registered>>
        /\ \A u \in Workers : u # w => worker'[u] = worker[u]
        /\ worker[w].pc = "idle" /\ worker'[w].pc = "loaded"
    BY <1>1, <1>4 DEF LoadConfig
  <2>2. Guarded' /\ Progress'
    BY <2>1 DEF Guarded, Progress, Publishing
  <2> QED BY <1>2, <1>3, <2>1, <2>2 DEF Past, SnapshotsAgree, RouteIsCurrent,
                                        LabelIsCurrent, LabelIsRouted, Unmoved
<1>5. CASE BeginReload(w)
  <2>1. /\ UNCHANGED <<routed, abuse, registered>> /\ gen' = gen + 1
        /\ \A u \in Workers : u # w => worker'[u] = worker[u]
        /\ worker'[w].pc = "locked"
        /\ \A u \in Workers : ~Publishing(u)
    BY <1>1, <1>5 DEF BeginReload
  <2>2. ~Odd(gen) /\ Odd(gen')
    BY <1>1, <2>1, Parity DEF Guarded
  <2>3. Guarded'
    BY <2>1, <2>2 DEF Guarded, Publishing
  <2>4. Progress'
    BY <2>1, <2>2 DEF Progress, Publishing, SnapshotsAgree
  <2>5. Past' /\ SnapshotsAgree'
    BY <1>1, <1>3, <2>1, <2>2 DEF Past, SnapshotsAgree, TypeOK
  <2>6. RouteIsCurrent' /\ LabelIsCurrent' /\ LabelIsRouted'
    BY <1>3, <2>2 DEF RouteIsCurrent, LabelIsCurrent, LabelIsRouted, Unmoved
  <2> QED BY <1>2, <2>3, <2>4, <2>5, <2>6
<1>6. CASE Abandon(w) \/ EndReload(w)
  <2>1. /\ UNCHANGED <<routed, abuse, registered>> /\ gen' = gen + 1
        /\ \A u \in Workers : u # w => worker'[u] = worker[u]
        /\ worker'[w].pc = "idle" /\ worker[w].pc \in {"locked", "stored"}
    BY <1>1, <1>6 DEF Abandon, EndReload, Resting
  <2>2. Odd(gen) /\ ~Odd(gen') /\ \A u \in Workers : u # w => ~Publishing(u)
    BY <1>1, <2>1, Parity DEF Guarded, Publishing
  <2>3. Guarded'
    BY <2>1, <2>2 DEF Guarded, Publishing
  <2>4. Progress'
    BY <2>1, <2>2 DEF Progress, Publishing
  <2>5. SnapshotsAgree'
    BY <2>1 DEF Progress, SnapshotsAgree
  <2>6. Past' /\ \A r \in Requests : ~Unmoved(r)'
    BY <1>1, <1>3, <2>1 DEF Past, Unmoved, TypeOK
  <2>7. RouteIsCurrent' /\ LabelIsCurrent' /\ LabelIsRouted'
    BY <1>3, <2>6 DEF RouteIsCurrent, LabelIsCurrent, LabelIsRouted
  <2> QED BY <1>2, <2>3, <2>4, <2>5, <2>6, <2>7
<1>7. CASE SetAbuseHosts(w) \/ SetRegisteredHosts(w) \/ StoreLocations(w)
  <2>1. /\ UNCHANGED gen /\ Publishing(w) /\ Publishing(w)'
        /\ \A u \in Workers : u # w => worker'[u] = worker[u]
        /\ worker'[w].hosts = worker[w].hosts
    BY <1>1, <1>7 DEF SetAbuseHosts, SetRegisteredHosts, StoreLocations, Publishing
  <2>2. Odd(gen) /\ \A u \in Workers : u # w => ~Publishing(u)
    BY <2>1 DEF Guarded
  <2>3. Guarded'
    BY <2>1, <2>2 DEF Guarded, Publishing
  <2>4. Progress'
    <3>1. \A u \in Workers : u # w =>
            worker'[u].pc \notin {"locked", "abuse", "registered", "stored"}
      BY <2>1, <2>2 DEF Publishing
    <3>2. CASE SetAbuseHosts(w)
      BY <1>1, <2>1, <3>1, <3>2 DEF SetAbuseHosts, Progress
    <3>3. CASE SetRegisteredHosts(w)
      BY <1>1, <2>1, <3>1, <3>3 DEF SetRegisteredHosts, Progress
    <3>4. CASE StoreLocations(w)
      BY <1>1, <2>1, <3>1, <3>4 DEF StoreLocations, Progress
    <3> QED BY <1>7, <3>2, <3>3, <3>4
  <2>5. SnapshotsAgree' /\ RouteIsCurrent' /\ LabelIsCurrent'
    BY <2>1, <2>2 DEF SnapshotsAgree, RouteIsCurrent, LabelIsCurrent, Unmoved
  <2>6. Past' /\ LabelIsRouted'
    BY <1>3, <2>1 DEF Past, LabelIsRouted
  <2> QED BY <1>2, <2>3, <2>4, <2>5, <2>6
<1> QED BY <1>4, <1>5, <1>6, <1>7 DEF Reload

(* A step of a request leaves the published state alone. *)
LEMMA RequestSteps ==
  ASSUME GuardInv, NEW r \in Requests, Serve(r)
  PROVE  GuardInv'
<1> USE DEF GuardInv
<1>1. /\ gen \in Nat
      /\ request \in [Requests ->
           [pc : {"idle", "began", "clear", "routed", "accepted", "labelled", "checked",
                  "protected", "unprotected"},
            host : Hosts \cup {"none"}, gen : Nat, label : BOOLEAN]]
  BY DEF TypeOK
<1>2. UNCHANGED <<gen, routed, abuse, registered, worker>>
  BY DEF Serve, ReadGeneration, CheckReload, Route, Recheck, Label, CheckPolicy, Admit,
         Finish
<1>3. request' \in [Requests ->
           [pc : {"idle", "began", "clear", "routed", "accepted", "labelled", "checked",
                  "protected", "unprotected"},
            host : Hosts \cup {"none"}, gen : Nat, label : BOOLEAN]]
  <2>1. CASE ReadGeneration(r)
    BY <1>1, <2>1 DEF ReadGeneration
  <2>2. CASE \/ CheckReload(r) \/ Route(r) \/ Recheck(r) \/ CheckPolicy(r) \/ Admit(r)
             \/ Finish(r)
    <3>1. \/ Over(r)
          \/ \E at \in {"clear", "routed", "accepted", "checked", "protected",
                        "unprotected"} : To(r, at)
      BY <2>2 DEF CheckReload, Route, Recheck, CheckPolicy, Admit, Finish
    <3>2. CASE Over(r)
      BY <1>1, <3>2 DEF Over, NoRequest
    <3>3. ASSUME NEW at \in {"clear", "routed", "accepted", "checked", "protected",
                             "unprotected"}, To(r, at)
          PROVE  request' \in [Requests ->
           [pc : {"idle", "began", "clear", "routed", "accepted", "labelled", "checked",
                  "protected", "unprotected"},
            host : Hosts \cup {"none"}, gen : Nat, label : BOOLEAN]]
      BY <1>1, <3>3 DEF To
    <3> QED BY <3>1, <3>2, <3>3
  <2>3. CASE Label(r)
    <3>1. (request[r].host \in registered) \in BOOLEAN
      OBVIOUS
    <3> QED BY <1>1, <2>3, <3>1, ZenonT(30) DEF Label
  <2> QED BY <2>1, <2>2, <2>3 DEF Serve
<1>4. TypeOK' /\ Guarded' /\ Progress' /\ SnapshotsAgree'
  BY <1>2, <1>3 DEF TypeOK, Guarded, Progress, SnapshotsAgree, Publishing
<1>5. \A q \in Requests : q # r => request'[q] = request[q]
  BY <1>1 DEF Serve, ReadGeneration, CheckReload, Route, Recheck, Label, CheckPolicy,
              Admit, Finish, To, Over
<1> DEFINE After == /\ request'[r].gen <= gen
                    /\ request'[r].pc \in {"routed", "accepted", "labelled", "checked"}
                         /\ ~Odd(gen) /\ gen = request'[r].gen
                         => request'[r].host \in routed \cap abuse \cap registered
                    /\ request'[r].pc = "labelled" /\ ~Odd(gen) /\ gen = request'[r].gen
                         => request'[r].label
                    /\ request'[r].pc = "checked" => request'[r].label
<1>6. After
  <2>0. request[r].gen <= gen
    BY DEF Past
  <2>1. CASE ReadGeneration(r)
    BY <1>1, <2>1 DEF ReadGeneration
  <2>2. CASE CheckReload(r)
    BY <1>1, <2>0, <2>2 DEF CheckReload, To, Over, NoRequest
  <2>3. CASE Route(r)
    BY <1>1, <2>0, <2>3 DEF Route, To, Over, NoRequest, SnapshotsAgree
  <2>4. CASE Recheck(r)
    BY <1>1, <2>0, <2>4 DEF Recheck, To, Over, NoRequest, RouteIsCurrent, Unmoved
  <2>5. CASE Label(r)
    BY <1>1, <2>0, <2>5 DEF Label, RouteIsCurrent, Unmoved
  <2>6. CASE CheckPolicy(r)
    BY <1>1, <2>0, <2>6 DEF CheckPolicy, To, Over, NoRequest, RouteIsCurrent,
                            LabelIsCurrent, Unmoved
  <2>7. CASE Admit(r)
    BY <1>1, <2>0, <2>7 DEF Admit, To
  <2>8. CASE Finish(r)
    BY <1>1, <2>0, <2>8 DEF Finish, Over, NoRequest
  <2> QED BY <2>1, <2>2, <2>3, <2>4, <2>5, <2>6, <2>7, <2>8 DEF Serve
<1>7. Past' /\ RouteIsCurrent' /\ LabelIsCurrent' /\ LabelIsRouted'
  BY <1>2, <1>5, <1>6 DEF Past, RouteIsCurrent, LabelIsCurrent, LabelIsRouted, Unmoved
<1> QED BY <1>4, <1>7

LEMMA InvHolds == Spec => []GuardInv
<1>1. GuardInv /\ UNCHANGED vars => GuardInv'
  BY DEF GuardInv, vars, TypeOK, Guarded, Progress, Past, SnapshotsAgree, RouteIsCurrent,
         LabelIsCurrent, LabelIsRouted, Publishing, Unmoved
<1>2. GuardInv /\ [Next]_vars => GuardInv'
  BY <1>1, WorkerSteps, RequestSteps DEF Next
<1> QED BY InitGuardInv, <1>2, PTL DEF Spec

(* Type correctness of the reload gate. *)
THEOREM TypeCorrect == Spec => []TypeOK
BY InvHolds, PTL DEF GuardInv

(* begin_policy_reload: an even generation means that the location map and   *)
(* both host snapshots come from one config, for any number of concurrent    *)
(* reload workers.                                                           *)
THEOREM OneUpdate == Spec => []SnapshotsAgree
BY InvHolds, PTL DEF GuardInv

(* The generation a request carries vouches for the map it was routed by.    *)
THEOREM GenerationVouches == Spec => []RouteIsCurrent
BY InvHolds, PTL DEF GuardInv

(* No reload makes a routed request look unregistered at the policy check.   *)
THEOREM LabelsAreRouted == Spec => []LabelIsRouted
BY InvHolds, PTL DEF GuardInv

(* What the gate promises its readers, for any workers, requests and hosts:  *)
(* types, one config behind an even generation, and labels that no reload    *)
(* takes from a request past the check.                                      *)
THEOREM GateHolds == Spec => []GateInv
BY TypeCorrect, OneUpdate, LabelsAreRouted, PTL DEF GateInv

-----------------------------------------------------------------------------
(*****************************************************************************)
(* RequestPath, for any number of requests, reloads, retries and policy      *)
(* contents.                                                                 *)
(*                                                                           *)
(* Enforcement rests on one fact about the reload, that what is required is  *)
(* the newest config's policy from the moment that config exists             *)
(* (DesiredIsLatest), and on one about every request, RequestOK: once its    *)
(* plugins are resolved, it carries what the configs ask of it.              *)
(*****************************************************************************)

Stages == {"new", "matched", "resolve", "early", "filter", "proxy", "peer", "connect", "send",
           "receive", "log", "done"}
Unresolved == {"new", "matched", "resolve"}

ReqType ==
  [pc : Stages, matched : BOOLEAN, id : 0 .. MaxConfigs, bound : BOOLEAN,
   config : 0 .. MaxConfigs, chain : Contents \cup {None}, handled : BOOLEAN,
   upstream : BOOLEAN, retries : Nat, replayed : BOOLEAN, admitted : BOOLEAN,
   answered : BOOLEAN, forwarded : BOOLEAN]

(* Asked, of a request record and a list of configs. *)
AskedOf(q, cs) == {cs[j].policy : j \in q.config .. Len(cs)}

Enforced(q, cs) ==
  q.bound /\ AskedOf(q, cs) \subseteq Required =>
    q.chain \in AskedOf(q, cs) \/ (FailOpen /\ q.chain = None)

(* One request. *)
RequestOK(q, cs) ==
  /\ q \in ReqType
  /\ q.matched => q.id # 0
  /\ q.pc \in {"matched", "resolve"} => q.matched
  /\ q.config <= Len(cs) /\ (q.bound => q.config # 0)
  /\ q.pc = "new" => ~q.bound
  /\ q.pc \in Unresolved => q.chain = None /\ ~q.answered
  /\ q.pc \notin Unresolved => Enforced(q, cs)
  /\ q.forwarded => q.pc \in {"receive", "log"} /\ ~q.answered
  /\ q.answered => q.pc = "log" \/ (q.pc = "filter" /\ q.handled)

ConfigsOK ==
  /\ configs \in Seq(Config) /\ Len(configs) \in 1 .. MaxConfigs
  /\ reload \in {"idle", "staged", "publishing", "plugins"}
  /\ desired \in Contents \cup {None} /\ built \in Contents \cup {None} /\ broken \in BOOLEAN
  /\ location \in [id : 1 .. MaxConfigs, bound : BOOLEAN, config : 1 .. Len(configs)]
  /\ processing \in [1 .. MaxConfigs -> Int]
  /\ gauge \in Int

DesiredIsLatest == desired = Latest.policy

RequestsOK ==
  /\ req \in [Journeys -> ReqType]
  /\ \A r \in Journeys : RequestOK(req[r], configs)

PathInv == ConfigsOK /\ DesiredIsLatest /\ RequestsOK

(* A request that holds no plugins: a new one, a refused one, one that ended. *)
LEMMA BlankOK ==
  ASSUME NEW q \in ReqType, NEW cs \in Seq(Config), ~q.bound, q.config = 0, q.chain = None,
         ~q.answered, ~q.forwarded, q.matched => q.id # 0,
         q.pc \notin {"matched", "resolve"}
  PROVE  RequestOK(q, cs)
BY DEF RequestOK, Enforced

LEMMA NewReqType ==
  /\ NewReq \in ReqType
  /\ ~NewReq.bound /\ NewReq.config = 0 /\ NewReq.chain = None /\ ~NewReq.answered
  /\ ~NewReq.forwarded /\ ~NewReq.matched /\ NewReq.pc = "new"
BY RequestPathAssumption DEF NewReq, ReqType, Stages

LEMMA InitInv == PathInit => PathInv
<1> SUFFICES ASSUME NEW c \in Config,
                    configs = <<c>> /\ reload = "idle",
                    desired = c.policy /\ built = c.policy /\ broken = FALSE,
                    location = [id |-> 1, bound |-> c.bound, config |-> 1],
                    processing = [i \in 1 .. MaxConfigs |-> 0],
                    gauge = 0,
                    req = [r \in Journeys |-> NewReq]
             PROVE  PathInv
  BY DEF PathInit
<1>1. Len(configs) = 1 /\ Latest = c /\ configs \in Seq(Config)
  BY DEF Latest
<1>2. ConfigsOK /\ DesiredIsLatest
  <2>1. c.policy \in Contents \cup {None} /\ c.bound \in BOOLEAN
    BY DEF Config
  <2>2. 1 \in 1 .. MaxConfigs /\ MaxConfigs \in Nat
    BY RequestPathAssumption
  <2>3. location \in [id : 1 .. MaxConfigs, bound : BOOLEAN, config : 1 .. Len(configs)]
    BY <1>1, <2>1, <2>2
  <2>4. processing \in [1 .. MaxConfigs -> Int]
    OBVIOUS
  <2> QED BY <1>1, <2>1, <2>2, <2>3, <2>4 DEF ConfigsOK, DesiredIsLatest
<1>3. RequestOK(NewReq, configs)
  BY <1>1, NewReqType, BlankOK
<1>4. RequestsOK
  BY <1>3 DEF RequestsOK, RequestOK
<1> QED BY <1>2, <1>4 DEF PathInv

-----------------------------------------------------------------------------
(* A reload.                                                                 *)

(* A newer config only asks for more. *)
LEMMA AppendKeeps ==
  ASSUME NEW cs \in Seq(Config), NEW c \in Config, NEW q, RequestOK(q, cs)
  PROVE  RequestOK(q, Append(cs, c))
<1> DEFINE ds == Append(cs, c)
<1>1. /\ Len(cs) \in Nat /\ Len(ds) = Len(cs) + 1
      /\ \A j \in 1 .. Len(cs) : ds[j] = cs[j]
  OBVIOUS
<1>2. q.config \in Nat /\ q.config <= Len(cs)
  BY RequestPathAssumption DEF RequestOK, ReqType
<1>3. q.config # 0 => AskedOf(q, cs) \subseteq AskedOf(q, ds)
  BY <1>1, <1>2 DEF AskedOf
<1>4. Enforced(q, cs) => Enforced(q, ds)
  BY <1>3 DEF Enforced, RequestOK
<1> QED BY <1>1, <1>2, <1>4 DEF RequestOK

(* The steps of a reload leave the requests alone. *)
LEMMA StageDesiredInv ==
  ASSUME PathInv, StageDesired
  PROVE  PathInv'
<1>1. PICK c \in Config : configs' = Append(configs, c) /\ desired' = c.policy
  BY DEF StageDesired
<1>2. /\ configs \in Seq(Config) /\ Len(configs) \in Nat /\ Len(configs) >= 1
      /\ Len(configs) < MaxConfigs /\ MaxConfigs \in Nat
  BY RequestPathAssumption DEF StageDesired, PathInv, ConfigsOK
<1>3. configs' \in Seq(Config) /\ Len(configs') = Len(configs) + 1 /\ configs'[Len(configs')] = c
  BY <1>1, <1>2
<1>4. DesiredIsLatest'
  BY <1>1, <1>3 DEF DesiredIsLatest, Latest
<1>5. RequestsOK'
  BY <1>1, <1>2, AppendKeeps DEF StageDesired, PathInv, RequestsOK
<1>6. ConfigsOK'
  <2>1. Len(configs') \in 1 .. MaxConfigs
    BY <1>2, <1>3
  <2>2. location' \in [id : 1 .. MaxConfigs, bound : BOOLEAN, config : 1 .. Len(configs')]
    <3>1. 1 .. Len(configs) \subseteq 1 .. Len(configs')
      BY <1>2, <1>3
    <3>2. location' = location
      BY DEF StageDesired
    <3> QED BY <3>1, <3>2 DEF PathInv, ConfigsOK
  <2>3. desired' \in Contents \cup {None}
    BY <1>1 DEF Config
  <2> QED BY <1>3, <2>1, <2>2, <2>3 DEF StageDesired, PathInv, ConfigsOK, provider
<1> QED BY <1>4, <1>5, <1>6 DEF PathInv

LEMMA ReloadInv ==
  ASSUME PathInv, PublishBegins \/ PublishLocations \/ PublishFails \/ InitPlugins
  PROVE  PathInv'
<1>1. UNCHANGED <<configs, desired, processing, gauge, req>>
  BY DEF PublishBegins, PublishLocations, PublishFails, InitPlugins, provider
<1>2. DesiredIsLatest' /\ RequestsOK'
  BY <1>1 DEF PathInv, DesiredIsLatest, RequestsOK, Latest
<1>3. /\ Len(configs) \in 1 .. MaxConfigs /\ MaxConfigs \in Nat
      /\ Latest \in Config /\ Latest.policy \in Contents \cup {None} /\ Latest.bound \in BOOLEAN
  <2>1. configs \in Seq(Config) /\ Len(configs) \in 1 .. MaxConfigs /\ MaxConfigs \in Nat
    BY RequestPathAssumption DEF PathInv, ConfigsOK
  <2>2. Latest \in Config
    BY <2>1 DEF Latest
  <2> QED BY <2>1, <2>2 DEF Config
<1>4. CASE PublishBegins \/ PublishFails
  <2>1. /\ reload' \in {"idle", "staged", "publishing", "plugins"}
        /\ UNCHANGED <<built, broken, location>>
    BY <1>4 DEF PublishBegins, PublishFails, provider
  <2>2. ConfigsOK'
    BY <1>1, <2>1 DEF PathInv, ConfigsOK
  <2> QED BY <1>2, <2>2 DEF PathInv
<1>5. CASE PublishLocations
  <2>1. /\ reload' = "plugins" /\ UNCHANGED <<built, broken>>
        /\ location' = [id |-> IF location.bound = Latest.bound THEN location.id
                               ELSE Len(configs),
                        bound |-> Latest.bound, config |-> Len(configs)]
    BY <1>5 DEF PublishLocations, provider
  <2>2. location.id \in 1 .. MaxConfigs /\ Len(configs) \in 1 .. Len(configs)
    BY <1>3 DEF PathInv, ConfigsOK
  <2>3. location' \in [id : 1 .. MaxConfigs, bound : BOOLEAN, config : 1 .. Len(configs)]
    BY <1>3, <2>1, <2>2
  <2>4. ConfigsOK'
    BY <1>1, <2>1, <2>3 DEF PathInv, ConfigsOK
  <2> QED BY <1>2, <2>4 DEF PathInv
<1>6. CASE InitPlugins
  <2>1. reload' = "idle" /\ built' \in Contents \cup {None} /\ UNCHANGED location
    BY <1>3, <1>6 DEF InitPlugins
  <2>2. broken' \in BOOLEAN
    <3>1. broken' = FALSE \/ broken' = (Latest.policy \in Required)
      BY <1>6 DEF InitPlugins
    <3>2. CASE Latest.policy \in Required
      BY <3>1, <3>2
    <3>3. CASE Latest.policy \notin Required
      <4>1. (Latest.policy \in Required) = FALSE
        BY <3>3
      <4> QED BY <3>1, <4>1, Zenon
    <3> QED BY <3>2, <3>3
  <2>3. ConfigsOK'
    BY <1>1, <2>1, <2>2 DEF PathInv, ConfigsOK
  <2> QED BY <1>2, <2>3 DEF PathInv
<1> QED BY <1>4, <1>5, <1>6

-----------------------------------------------------------------------------
(* A callback of one request.                                                *)

(* What remains to be shown of a callback: the request it leaves behind. *)
LEMMA CallbackInv ==
  ASSUME PathInv, NEW r \in Journeys, req' \in [Journeys -> ReqType],
         \A u \in Journeys : u # r => req'[u] = req[u], RequestOK(req'[r], configs),
         UNCHANGED reloadVars, processing' \in [1 .. MaxConfigs -> Int], gauge' \in Int
  PROVE  PathInv'
<1>1. RequestsOK'
  BY DEF PathInv, RequestsOK, RequestOK, reloadVars
<1> QED BY <1>1 DEF PathInv, ConfigsOK, DesiredIsLatest, Latest, reloadVars, provider

LEMMA RefuseInv ==
  ASSUME PathInv, NEW r \in Journeys, Refuse(r), UNCHANGED reloadVars,
         processing' \in [1 .. MaxConfigs -> Int], gauge' \in Int
  PROVE  PathInv'
<1> DEFINE q == [NewReq EXCEPT !.pc = "log", !.matched = req[r].matched, !.id = req[r].id,
                               !.upstream = req[r].upstream, !.admitted = req[r].admitted]
<1>1. req \in [Journeys -> ReqType] /\ req[r] \in ReqType /\ (req[r].matched => req[r].id # 0)
  BY DEF PathInv, RequestsOK, RequestOK
<1>2. q \in ReqType
  <2>1. /\ req[r].matched \in BOOLEAN /\ req[r].id \in 0 .. MaxConfigs
        /\ req[r].upstream \in BOOLEAN /\ req[r].admitted \in BOOLEAN
    BY <1>1 DEF ReqType
  <2> QED BY <2>1, NewReqType DEF ReqType, Stages
<1>3. /\ ~q.bound /\ q.config = 0 /\ q.chain = None /\ ~q.answered /\ ~q.forwarded
      /\ q.matched = req[r].matched /\ q.id = req[r].id /\ q.pc = "log"
  BY DEF NewReq
<1>4. req' = [req EXCEPT ![r] = q]
  BY DEF Refuse
<1> HIDE DEF q
<1>5. RequestOK(q, configs)
  BY <1>1, <1>2, <1>3, BlankOK DEF PathInv, ConfigsOK
<1> QED BY <1>1, <1>2, <1>4, <1>5, CallbackInv

(* A callback that keeps what was resolved for the request. *)
LEMMA KeepsPlugins ==
  ASSUME NEW q, NEW p \in ReqType, RequestOK(q, configs),
         q.pc \notin Unresolved, p.pc \notin Unresolved,
         p.matched = q.matched, p.id = q.id, p.bound = q.bound, p.config = q.config,
         p.chain = q.chain,
         p.forwarded => p.pc \in {"receive", "log"} /\ ~p.answered,
         p.answered => p.pc = "log" \/ (p.pc = "filter" /\ p.handled)
  PROVE  RequestOK(p, configs)
<1>1. Enforced(p, configs)
  BY DEF RequestOK, Enforced, AskedOf
<1>2. p.pc \notin {"new", "matched", "resolve"}
  BY DEF Unresolved
<1> QED BY <1>1, <1>2 DEF RequestOK

(* What a callback knows of its request. *)
LEMMA RequestFacts ==
  ASSUME PathInv, NEW r \in Journeys
  PROVE  /\ req \in [Journeys -> ReqType] /\ req[r] \in ReqType /\ RequestOK(req[r], configs)
         /\ processing \in [1 .. MaxConfigs -> Int] /\ gauge \in Int
BY DEF PathInv, RequestsOK, RequestOK, ConfigsOK

LEMMA MatchInv ==
  ASSUME PathInv, NEW r \in Journeys, Match(r)
  PROVE  PathInv'
<1>1. /\ req \in [Journeys -> ReqType] /\ req[r] \in ReqType /\ RequestOK(req[r], configs)
      /\ req[r].pc = "new" /\ UNCHANGED <<reloadVars, processing, gauge>>
      /\ processing \in [1 .. MaxConfigs -> Int] /\ gauge \in Int
  BY RequestFacts DEF Match, At
<1>2. CASE Refuse(r)
  BY <1>1, <1>2, RefuseInv
<1>3. CASE Goto(r, "filter")
  <2>1. /\ req' \in [Journeys -> ReqType] /\ \A u \in Journeys : u # r => req'[u] = req[u]
    BY <1>1, <1>3 DEF Goto, ReqType, Stages
  <2>2. /\ req'[r].pc = "filter" /\ req'[r].bound = req[r].bound
        /\ req'[r].matched = req[r].matched /\ req'[r].id = req[r].id
        /\ req'[r].config = req[r].config /\ req'[r].forwarded = req[r].forwarded
        /\ req'[r].answered = req[r].answered
    BY <1>1, <1>3 DEF Goto, ReqType
  <2>3. RequestOK(req'[r], configs)
    BY <1>1, <2>1, <2>2 DEF RequestOK, Enforced, Unresolved
  <2> QED BY <1>1, <2>1, <2>3, CallbackInv
<1>4. CASE req' = [req EXCEPT ![r] = [@ EXCEPT !.pc = "matched", !.matched = TRUE,
                                        !.id = location.id, !.bound = location.bound,
                                        !.config = location.config]]
  <2>1. /\ location.id \in 0 .. MaxConfigs /\ location.id # 0 /\ location.bound \in BOOLEAN
        /\ location.config \in 0 .. MaxConfigs /\ location.config # 0
        /\ location.config <= Len(configs)
    BY RequestPathAssumption DEF PathInv, ConfigsOK
  <2>2. /\ req' \in [Journeys -> ReqType] /\ \A u \in Journeys : u # r => req'[u] = req[u]
    BY <1>1, <1>4, <2>1 DEF ReqType, Stages
  <2>3. /\ req'[r].pc = "matched" /\ req'[r].matched /\ req'[r].id = location.id
        /\ req'[r].config = location.config /\ req'[r].chain = req[r].chain
        /\ req'[r].forwarded = req[r].forwarded /\ req'[r].answered = req[r].answered
    BY <1>1, <1>4 DEF ReqType
  <2>4. RequestOK(req'[r], configs)
    BY <1>1, <2>1, <2>2, <2>3 DEF RequestOK, Unresolved
  <2> QED BY <1>1, <2>2, <2>4, CallbackInv
<1> QED BY <1>2, <1>3, <1>4 DEF Match

LEMMA OnRequestInv ==
  ASSUME PathInv, NEW r \in Journeys, OnRequest(r)
  PROVE  PathInv'
<1>1. /\ req \in [Journeys -> ReqType] /\ req[r] \in ReqType /\ RequestOK(req[r], configs)
      /\ req[r].pc = "matched" /\ UNCHANGED <<reloadVars, gauge>>
      /\ processing \in [1 .. MaxConfigs -> Int] /\ gauge \in Int
  BY RequestFacts DEF OnRequest, At
<1>2. processing' \in [1 .. MaxConfigs -> Int]
  <2>1. processing' = [processing EXCEPT ![req[r].id] = processing[req[r].id] + 1]
    BY DEF OnRequest
  <2>2. req[r].id \in 1 .. MaxConfigs
    BY <1>1, RequestPathAssumption DEF RequestOK, ReqType
  <2> QED BY <1>1, <2>1, <2>2
<1>3. CASE Refuse(r)
  BY <1>1, <1>2, <1>3, RefuseInv
<1>4. CASE req' = [req EXCEPT ![r].pc = "resolve", ![r].admitted = TRUE]
  <2>1. /\ req' \in [Journeys -> ReqType] /\ \A u \in Journeys : u # r => req'[u] = req[u]
    BY <1>1, <1>4 DEF ReqType, Stages
  <2>2. /\ req'[r].pc = "resolve" /\ req'[r].matched = req[r].matched
        /\ req'[r].id = req[r].id /\ req'[r].bound = req[r].bound
        /\ req'[r].config = req[r].config /\ req'[r].chain = req[r].chain
        /\ req'[r].forwarded = req[r].forwarded /\ req'[r].answered = req[r].answered
    BY <1>1, <1>4 DEF ReqType
  <2>3. RequestOK(req'[r], configs)
    BY <1>1, <2>1, <2>2 DEF RequestOK, Unresolved
  <2> QED BY <1>1, <1>2, <2>1, <2>3, CallbackInv
<1> QED BY <1>3, <1>4 DEF OnRequest

(* The step that decides: the plugins are resolved against what the newest   *)
(* config requires, so if every config since the request's location requires *)
(* its policy, what runs is that policy.                                     *)
LEMMA GetContextPluginsInv ==
  ASSUME PathInv, NEW r \in Journeys, GetContextPlugins(r)
  PROVE  PathInv'
<1> DEFINE q == req[r]
<1>1. /\ req \in [Journeys -> ReqType] /\ q \in ReqType /\ RequestOK(q, configs)
      /\ q.pc = "resolve" /\ UNCHANGED <<reloadVars, processing, gauge>>
      /\ processing \in [1 .. MaxConfigs -> Int] /\ gauge \in Int
  BY RequestFacts DEF GetContextPlugins, At
<1>2. CASE Refuse(r)
  BY <1>1, <1>2, RefuseInv
<1>3. q.chain = None /\ ~q.answered /\ ~q.forwarded
  BY <1>1 DEF RequestOK, Unresolved
<1>4. desired \in AskedOf(q, configs)
  <2>1. q.config \in Nat /\ q.config <= Len(configs) /\ Len(configs) \in Nat
    BY <1>1, RequestPathAssumption DEF RequestOK, ReqType, PathInv, ConfigsOK
  <2> QED BY <2>1 DEF AskedOf, PathInv, DesiredIsLatest, Latest
<1>5. ASSUME NEW p \in ReqType, req' \in [Journeys -> ReqType],
             \A u \in Journeys : u # r => req'[u] = req[u], req'[r] = p,
             p.pc = "early", p.matched = q.matched, p.id = q.id, p.bound = q.bound,
             p.config = q.config, p.answered = q.answered, p.forwarded = q.forwarded,
             q.bound /\ AskedOf(q, configs) \subseteq Required =>
               p.chain \in AskedOf(q, configs) \/ (FailOpen /\ p.chain = None)
      PROVE  PathInv'
  <2>1. AskedOf(p, configs) = AskedOf(q, configs)
    BY <1>5 DEF AskedOf
  <2>2. RequestOK(p, configs)
    BY <1>1, <1>3, <1>5, <2>1 DEF RequestOK, Enforced, Unresolved
  <2> QED BY <1>1, <1>5, <2>2, CallbackInv
<1>6. CASE Goto(r, "early") /\ (~q.bound \/ Resolve = "skipped" \/ (Resolve = "required" /\ FailOpen))
  <2>1. /\ req' \in [Journeys -> ReqType] /\ \A u \in Journeys : u # r => req'[u] = req[u]
    BY <1>1, <1>6 DEF Goto, ReqType, Stages
  <2>2. /\ req'[r].pc = "early" /\ req'[r].matched = q.matched /\ req'[r].id = q.id
        /\ req'[r].bound = q.bound /\ req'[r].config = q.config /\ req'[r].chain = q.chain
        /\ req'[r].forwarded = q.forwarded /\ req'[r].answered = q.answered
    BY <1>1, <1>6 DEF Goto, ReqType
  <2>3. Resolve = "skipped" => desired \notin Required
    <3>1. Resolve = "skipped" => built = None /\ ~(desired \in Required /\ built # desired)
      BY DEF Resolve
    <3> QED BY <3>1, RequestPathAssumption
  <2>4. q.bound /\ AskedOf(q, configs) \subseteq Required => FailOpen
    BY <1>4, <1>6, <2>3
  <2> QED BY <1>3, <1>5, <2>1, <2>2, <2>4
<1>7. CASE Resolve = "runs" /\ req' = [req EXCEPT ![r].pc = "early", ![r].chain = built]
  <2>1. /\ req' \in [Journeys -> ReqType] /\ \A u \in Journeys : u # r => req'[u] = req[u]
    BY <1>1, <1>7 DEF ReqType, Stages, PathInv, ConfigsOK
  <2>2. /\ req'[r].pc = "early" /\ req'[r].matched = q.matched /\ req'[r].id = q.id
        /\ req'[r].bound = q.bound /\ req'[r].config = q.config /\ req'[r].chain = built
        /\ req'[r].forwarded = q.forwarded /\ req'[r].answered = q.answered
    BY <1>1, <1>7 DEF ReqType
  <2>3. desired \in Required => built = desired
    BY <1>7 DEF Resolve
  <2>4. AskedOf(q, configs) \subseteq Required => built \in AskedOf(q, configs)
    BY <1>4, <2>3
  <2> QED BY <1>5, <2>1, <2>2, <2>4
<1> QED BY <1>2, <1>6, <1>7 DEF GetContextPlugins

(* From here on the request keeps its plugins. *)
LEMMA LaterCallbackInv ==
  ASSUME PathInv, NEW r \in Journeys, req[r].pc \notin Unresolved,
         req' \in [Journeys -> ReqType], \A u \in Journeys : u # r => req'[u] = req[u],
         req'[r].pc \notin Unresolved,
         req'[r].matched = req[r].matched, req'[r].id = req[r].id,
         req'[r].bound = req[r].bound, req'[r].config = req[r].config,
         req'[r].chain = req[r].chain,
         req'[r].forwarded => req'[r].pc \in {"receive", "log"} /\ ~req'[r].answered,
         req'[r].answered => req'[r].pc = "log" \/ (req'[r].pc = "filter" /\ req'[r].handled),
         UNCHANGED <<reloadVars, processing>>, gauge' \in Int
  PROVE  PathInv'
<1>1. RequestOK(req'[r], configs)
  BY RequestFacts, KeepsPlugins
<1> QED BY <1>1, RequestFacts, CallbackInv

LEMMA GotoInv ==
  ASSUME PathInv, NEW r \in Journeys, NEW to \in Stages \ Unresolved, req[r].pc \notin Unresolved,
         Goto(r, to), req[r].answered \/ req[r].forwarded => to = "log",
         UNCHANGED <<reloadVars, processing, gauge>>
  PROVE  PathInv'
<1>1. req \in [Journeys -> ReqType] /\ req[r] \in ReqType /\ RequestOK(req[r], configs)
      /\ gauge \in Int
  BY RequestFacts
<1>2. /\ req' \in [Journeys -> ReqType] /\ \A u \in Journeys : u # r => req'[u] = req[u]
  BY <1>1 DEF Goto, ReqType
<1>3. /\ req'[r].pc = to /\ req'[r].matched = req[r].matched /\ req'[r].id = req[r].id
      /\ req'[r].bound = req[r].bound /\ req'[r].config = req[r].config
      /\ req'[r].chain = req[r].chain /\ req'[r].answered = req[r].answered
      /\ req'[r].forwarded = req[r].forwarded
  BY <1>1 DEF Goto, ReqType
<1>4. req[r].forwarded => ~req[r].answered
  BY <1>1 DEF RequestOK
<1> QED BY <1>1, <1>2, <1>3, <1>4, LaterCallbackInv

(* A plugin answers. *)
LEMMA AnswerInv ==
  ASSUME PathInv, NEW r \in Journeys, req[r].pc \in {"filter", "proxy"},
         req' = [req EXCEPT ![r].pc = "log", ![r].answered = TRUE],
         UNCHANGED <<reloadVars, processing, gauge>>
  PROVE  PathInv'
<1>1. req \in [Journeys -> ReqType] /\ req[r] \in ReqType /\ RequestOK(req[r], configs)
      /\ gauge \in Int
  BY RequestFacts
<1>2. /\ req' \in [Journeys -> ReqType] /\ \A u \in Journeys : u # r => req'[u] = req[u]
  BY <1>1 DEF ReqType, Stages
<1>3. /\ req'[r].pc = "log" /\ req'[r].matched = req[r].matched /\ req'[r].id = req[r].id
      /\ req'[r].bound = req[r].bound /\ req'[r].config = req[r].config
      /\ req'[r].chain = req[r].chain /\ req'[r].answered = TRUE
      /\ req'[r].forwarded = req[r].forwarded
  BY <1>1 DEF ReqType
<1>4. ~req[r].forwarded
  BY <1>1 DEF RequestOK
<1>5. req[r].pc \notin Unresolved /\ req'[r].pc \notin Unresolved
  BY <1>3 DEF Unresolved
<1> QED BY <1>1, <1>2, <1>3, <1>4, <1>5, LaterCallbackInv

LEMMA EarlyPluginsInv ==
  ASSUME PathInv, NEW r \in Journeys, EarlyPlugins(r)
  PROVE  PathInv'
<1>1. /\ req \in [Journeys -> ReqType] /\ req[r] \in ReqType /\ RequestOK(req[r], configs)
      /\ req[r].pc = "early" /\ UNCHANGED <<reloadVars, processing, gauge>> /\ gauge \in Int
  BY RequestFacts DEF EarlyPlugins, At
<1>2. req[r].pc \notin Unresolved /\ ~req[r].answered /\ ~req[r].forwarded
  BY <1>1 DEF RequestOK, Unresolved
<1>3. CASE Goto(r, "filter")
  <2>1. "filter" \in Stages \ Unresolved
    BY DEF Stages, Unresolved
  <2> QED BY <1>1, <1>2, <1>3, <2>1, GotoInv
<1>4. CASE req' = [req EXCEPT ![r].pc = "filter", ![r].handled = TRUE, ![r].answered = TRUE]
  <2>1. /\ req' \in [Journeys -> ReqType] /\ \A u \in Journeys : u # r => req'[u] = req[u]
    BY <1>1, <1>4 DEF ReqType, Stages
  <2>2. /\ req'[r].pc = "filter" /\ req'[r].handled = TRUE
        /\ req'[r].matched = req[r].matched /\ req'[r].id = req[r].id
        /\ req'[r].bound = req[r].bound /\ req'[r].config = req[r].config
        /\ req'[r].chain = req[r].chain /\ req'[r].forwarded = req[r].forwarded
    BY <1>1, <1>4 DEF ReqType
  <2>3. req'[r].pc \notin Unresolved
    BY <2>2 DEF Unresolved
  <2> QED BY <1>1, <1>2, <2>1, <2>2, <2>3, LaterCallbackInv
<1> QED BY <1>3, <1>4 DEF EarlyPlugins

LEMMA FilterInv ==
  ASSUME PathInv, NEW r \in Journeys, RequestFilter(r) \/ ProxyUpstreamFilter(r)
  PROVE  PathInv'
<1>1. /\ req[r] \in ReqType /\ RequestOK(req[r], configs)
      /\ req[r].pc \in {"filter", "proxy"} /\ UNCHANGED <<reloadVars, processing, gauge>>
      /\ processing \in [1 .. MaxConfigs -> Int] /\ gauge \in Int
  BY RequestFacts DEF RequestFilter, ProxyUpstreamFilter, At
<1>2. req[r].pc \notin Unresolved /\ ~req[r].forwarded
  BY <1>1 DEF RequestOK, Unresolved
<1>3. CASE Refuse(r)
  BY <1>1, <1>3, RefuseInv
<1>4. CASE req' = [req EXCEPT ![r].pc = "log", ![r].answered = TRUE]
  BY <1>1, <1>4, AnswerInv
<1>5. {"log", "proxy", "peer"} \subseteq Stages \ Unresolved
  BY DEF Stages, Unresolved
<1>6. CASE Goto(r, "log")
  BY <1>1, <1>2, <1>5, <1>6, GotoInv
<1>7. CASE req[r].pc = "filter" /\ ~req[r].handled /\ Goto(r, "proxy")
  <2>1. ~req[r].answered
    BY <1>1, <1>7 DEF RequestOK
  <2> QED BY <1>1, <1>2, <1>5, <1>7, <2>1, GotoInv
<1>8. CASE req[r].pc = "proxy" /\ Goto(r, "peer")
  <2>1. ~req[r].answered
    BY <1>1, <1>8 DEF RequestOK
  <2> QED BY <1>1, <1>2, <1>5, <1>8, <2>1, GotoInv
<1> QED BY <1>3, <1>4, <1>6, <1>7, <1>8 DEF RequestFilter, ProxyUpstreamFilter, At

(* On the way to the upstream a request has not been answered by a plugin,   *)
(* and is not forwarded before the body filter lets it pass.                 *)
LEMMA OnTheWay ==
  ASSUME PathInv, NEW r \in Journeys, req[r].pc \in {"peer", "connect", "send"}
  PROVE  /\ req[r].pc \notin Unresolved /\ ~req[r].answered /\ ~req[r].forwarded
BY RequestFacts DEF RequestOK, Unresolved

(* One step of the attempt to reach the upstream. *)
LEMMA AttemptInv ==
  ASSUME PathInv, NEW r \in Journeys, req[r].pc \in {"peer", "connect", "send"},
         req' \in [Journeys -> ReqType], \A u \in Journeys : u # r => req'[u] = req[u],
         req'[r].pc \in {"peer", "connect", "send", "receive", "log"},
         req'[r].matched = req[r].matched, req'[r].id = req[r].id,
         req'[r].bound = req[r].bound, req'[r].config = req[r].config,
         req'[r].chain = req[r].chain, req'[r].answered = req[r].answered,
         req'[r].forwarded => req'[r].pc = "receive",
         UNCHANGED <<reloadVars, processing>>, gauge' \in Int
  PROVE  PathInv'
<1>1. req'[r].pc \notin Unresolved
  BY DEF Unresolved
<1> QED BY <1>1, OnTheWay, LaterCallbackInv

LEMMA UpstreamPeerInv ==
  ASSUME PathInv, NEW r \in Journeys, UpstreamPeer(r)
  PROVE  PathInv'
<1>1. /\ req \in [Journeys -> ReqType] /\ req[r] \in ReqType /\ req[r].pc = "peer"
      /\ UNCHANGED <<reloadVars, processing>>
      /\ processing \in [1 .. MaxConfigs -> Int] /\ gauge' \in Int
  BY RequestFacts DEF UpstreamPeer, At
<1>2. CASE Refuse(r)
  BY <1>1, <1>2, RefuseInv
<1>3. ASSUME NEW to \in {"connect", "log"},
             req' = [req EXCEPT ![r].pc = to, ![r].upstream = TRUE]
      PROVE  PathInv'
  <2>1. /\ req' \in [Journeys -> ReqType] /\ \A u \in Journeys : u # r => req'[u] = req[u]
    BY <1>1, <1>3 DEF ReqType, Stages
  <2>2. /\ req'[r].pc = to /\ req'[r].matched = req[r].matched /\ req'[r].id = req[r].id
        /\ req'[r].bound = req[r].bound /\ req'[r].config = req[r].config
        /\ req'[r].chain = req[r].chain /\ req'[r].answered = req[r].answered
        /\ req'[r].forwarded = req[r].forwarded
    BY <1>1, <1>3 DEF ReqType
  <2> QED BY <1>1, <2>1, <2>2, OnTheWay, AttemptInv
<1> QED BY <1>2, <1>3 DEF UpstreamPeer

LEMMA ConnectInv ==
  ASSUME PathInv, NEW r \in Journeys, FailToConnect(r) \/ ConnectedToUpstream(r)
  PROVE  PathInv'
<1>1. /\ req \in [Journeys -> ReqType] /\ req[r] \in ReqType /\ req[r].pc = "connect"
      /\ UNCHANGED <<reloadVars, processing, gauge>>
      /\ processing \in [1 .. MaxConfigs -> Int] /\ gauge \in Int
  BY RequestFacts DEF FailToConnect, ConnectedToUpstream, At
<1>2. CASE Refuse(r)
  BY <1>1, <1>2, RefuseInv
<1>3. CASE req' = [req EXCEPT ![r].pc = "peer", ![r].retries = @ + 1]
  <2>1. /\ req' \in [Journeys -> ReqType] /\ \A u \in Journeys : u # r => req'[u] = req[u]
    <3>1. PICK n \in Nat : n = req[r].retries + 1
      BY <1>1 DEF ReqType
    <3>2. req' = [req EXCEPT ![r].pc = "peer", ![r].retries = n]
      BY <1>1, <1>3, <3>1
    <3> QED BY <1>1, <3>2 DEF ReqType, Stages
  <2>2. /\ req'[r].pc = "peer" /\ req'[r].matched = req[r].matched /\ req'[r].id = req[r].id
        /\ req'[r].bound = req[r].bound /\ req'[r].config = req[r].config
        /\ req'[r].chain = req[r].chain /\ req'[r].answered = req[r].answered
        /\ req'[r].forwarded = req[r].forwarded
    BY <1>1, <1>3 DEF ReqType
  <2> QED BY <1>1, <2>1, <2>2, OnTheWay, AttemptInv
<1>4. CASE Goto(r, "send")
  <2>1. "send" \in Stages \ Unresolved
    BY DEF Stages, Unresolved
  <2> QED BY <1>1, <1>4, <2>1, OnTheWay, GotoInv
<1> QED BY <1>2, <1>3, <1>4 DEF FailToConnect, ConnectedToUpstream

LEMMA SendInv ==
  ASSUME PathInv, NEW r \in Journeys, ReusedConnectionFails(r) \/ RequestBodyFilter(r)
  PROVE  PathInv'
<1>1. /\ req \in [Journeys -> ReqType] /\ req[r] \in ReqType /\ req[r].pc = "send"
      /\ UNCHANGED <<reloadVars, processing, gauge>>
      /\ processing \in [1 .. MaxConfigs -> Int] /\ gauge \in Int
  BY RequestFacts DEF ReusedConnectionFails, RequestBodyFilter, At
<1>2. CASE Refuse(r)
  BY <1>1, <1>2, RefuseInv
<1>3. CASE req' = [req EXCEPT ![r].pc = "peer", ![r].replayed = TRUE]
  <2>1. /\ req' \in [Journeys -> ReqType] /\ \A u \in Journeys : u # r => req'[u] = req[u]
    BY <1>1, <1>3 DEF ReqType, Stages
  <2>2. /\ req'[r].pc = "peer" /\ req'[r].matched = req[r].matched /\ req'[r].id = req[r].id
        /\ req'[r].bound = req[r].bound /\ req'[r].config = req[r].config
        /\ req'[r].chain = req[r].chain /\ req'[r].answered = req[r].answered
        /\ req'[r].forwarded = req[r].forwarded
    BY <1>1, <1>3 DEF ReqType
  <2> QED BY <1>1, <2>1, <2>2, OnTheWay, AttemptInv
<1>4. CASE req' = [req EXCEPT ![r].pc = "receive", ![r].forwarded = TRUE]
  <2>1. /\ req' \in [Journeys -> ReqType] /\ \A u \in Journeys : u # r => req'[u] = req[u]
    BY <1>1, <1>4 DEF ReqType, Stages
  <2>2. /\ req'[r].pc = "receive" /\ req'[r].matched = req[r].matched
        /\ req'[r].id = req[r].id /\ req'[r].bound = req[r].bound
        /\ req'[r].config = req[r].config /\ req'[r].chain = req[r].chain
        /\ req'[r].answered = req[r].answered
    BY <1>1, <1>4 DEF ReqType
  <2> QED BY <1>1, <2>1, <2>2, AttemptInv
<1> QED BY <1>2, <1>3, <1>4 DEF ReusedConnectionFails, RequestBodyFilter

LEMMA RespondInv ==
  ASSUME PathInv, NEW r \in Journeys, Respond(r)
  PROVE  PathInv'
<1>1. "log" \in Stages \ Unresolved /\ "receive" \notin Unresolved
  BY DEF Stages, Unresolved
<1> QED BY <1>1, GotoInv DEF Respond, At

LEMMA LoggingInv ==
  ASSUME PathInv, NEW r \in Journeys, Logging(r)
  PROVE  PathInv'
<1>1. /\ req \in [Journeys -> ReqType] /\ req[r] \in ReqType /\ RequestOK(req[r], configs)
      /\ UNCHANGED reloadVars /\ processing \in [1 .. MaxConfigs -> Int] /\ gauge' \in Int
  BY RequestFacts DEF Logging
<1>2. processing' \in [1 .. MaxConfigs -> Int]
  <2>1. req[r].matched => req[r].id \in 1 .. MaxConfigs
    BY <1>1, RequestPathAssumption DEF RequestOK, ReqType
  <2> QED BY <1>1, <2>1 DEF Logging
<1> DEFINE q == [NewReq EXCEPT !.pc = "done"]
<1>3. req' = [req EXCEPT ![r] = q]
  BY DEF Logging
<1>4. q \in ReqType
  BY NewReqType DEF ReqType, Stages
<1>5. /\ ~q.bound /\ q.config = 0 /\ q.chain = None /\ ~q.answered /\ ~q.forwarded
      /\ ~q.matched /\ q.pc = "done"
  BY DEF NewReq
<1> HIDE DEF q
<1>6. RequestOK(q, configs)
  BY <1>4, <1>5, BlankOK DEF PathInv, ConfigsOK
<1> QED BY <1>1, <1>2, <1>3, <1>4, <1>6, CallbackInv

LEMMA TooLargeInv ==
  ASSUME PathInv, NEW r \in Journeys, TooLarge(r)
  PROVE  PathInv'
BY RequestFacts, RefuseInv DEF TooLarge

-----------------------------------------------------------------------------
LEMMA NextInv == PathInv /\ [PathNext]_pathVars => PathInv'
<1>1. ASSUME PathInv, NEW r \in Journeys, Handles(r) PROVE PathInv'
  BY <1>1, MatchInv, TooLargeInv, OnRequestInv, GetContextPluginsInv, EarlyPluginsInv,
     FilterInv, UpstreamPeerInv, ConnectInv, SendInv, RespondInv, LoggingInv DEF Handles
<1>2. ASSUME PathInv, UNCHANGED pathVars PROVE PathInv'
  BY <1>2 DEF pathVars, PathInv, ConfigsOK, DesiredIsLatest, Latest, RequestsOK
<1> QED BY <1>1, <1>2, StageDesiredInv, ReloadInv DEF PathNext

LEMMA Always == PathSpec => []PathInv
BY InitInv, NextInv, PTL DEF PathSpec

(* A request forwarded through a location that names a required policy has   *)
(* run that policy, in a content at least as new as the location, and no     *)
(* request a plugin answered is forwarded, wherever a hot reload falls       *)
(* between its callbacks.                                                    *)
THEOREM PathIsGuarded == PathSpec => []PathGuarded
<1>1. PathInv => PathTypeOK
  <2> SUFFICES ASSUME PathInv PROVE PathTypeOK
    OBVIOUS
  <2>1. location \in [id : 1 .. MaxConfigs, bound : BOOLEAN, config : 1 .. MaxConfigs]
    <3>1. 1 .. Len(configs) \subseteq 1 .. MaxConfigs
      BY RequestPathAssumption DEF PathInv, ConfigsOK
    <3>2. /\ location \in [id : 1 .. MaxConfigs, bound : BOOLEAN, config : 1 .. Len(configs)]
      BY DEF PathInv, ConfigsOK
    <3> QED BY <3>1, <3>2
  <2>2. \A r \in Journeys : req[r].pc \in Stages
    BY RequestFacts DEF ReqType
  <2> QED BY <2>1, <2>2 DEF PathInv, ConfigsOK, PathTypeOK, Stages
<1>2. PathInv => PolicyEnforced
  <2> SUFFICES ASSUME PathInv, NEW r \in Journeys, req[r].forwarded, req[r].bound,
                      Asked(r) \subseteq Required
               PROVE  req[r].chain \in Asked(r) \/ (FailOpen /\ req[r].chain = None)
    BY DEF PolicyEnforced
  <2>1. req[r].pc \notin Unresolved
    BY RequestFacts DEF RequestOK, Unresolved
  <2>2. Asked(r) = AskedOf(req[r], configs)
    BY DEF Asked, AskedOf
  <2> QED BY <2>1, <2>2, RequestFacts DEF RequestOK, Enforced
<1>3. PathInv => AnsweredIsNotForwarded
  BY RequestFacts DEF RequestOK, AnsweredIsNotForwarded
<1> QED BY <1>1, <1>2, <1>3, Always, PTL DEF PathGuarded
=============================================================================
