-------------------------- MODULE BanRegistryProofs --------------------------
(*****************************************************************************)
(* Proofs about BanRegistry, for any domains, namespaces, identities,        *)
(* requests, profiles, caps and page sizes.                                  *)
(*                                                                           *)
(* The registry keeps bans in its clients and in an index, clients in its    *)
(* buckets and in counts, and the identity of a client in its tickets.       *)
(* RegistryInv says that they agree, and what a listing between two lock     *)
(* holds may rely on.  Most actions have one shape: some clients lose their  *)
(* bans, the index loses the same numbers (Loses), and one ticket is issued  *)
(* or returned; the lemma of an action concludes Effects and TicketEffects,  *)
(* from which the invariant and the three action properties follow.          *)
(*****************************************************************************)
EXTENDS BanRegistry, FiniteSetTheorems, SequenceTheorems, WellFoundedInduction, TLAPS

(* What every client record satisfies, given the registry's two counters. *)
Sound(c, q, i) ==
  /\ c.incarnation <= i
  /\ c.incarnation = 0 => c.ban = {}
  /\ c.incarnation # 0 => c.generation \in Generations
  /\ \A b \in c.ban : b.seq <= q
  /\ \A a, b \in c.ban : a = b

ClientsOK == \A d \in Domains, k \in Keys : Sound(client[d][k], sequence, incarnation)

(* No two bans have the same sequence number. *)
SeqsUnique == \A g, h \in Held(client) : g.seq = h.seq => g = h

Own(b, n) == {k \in Present(b) : NamespaceOf(k) = n}

(* One bucket and its counts under the profiles p. *)
BucketOK(b, ct, p) ==
  /\ IsFiniteSet(Present(b))
  /\ Cardinality(Present(b)) <= MaxEntries
  /\ \A n \in Namespaces : ct[n] = Cardinality(Own(b, n))
  /\ \A k \in Present(b) : /\ b[k].generation = p[NamespaceOf(k)]
                           /\ Cardinality(Own(b, NamespaceOf(k)))
                                <= Config[p[NamespaceOf(k)]].max_clients

BucketsOK ==
  /\ IsFiniteSet(domains)
  /\ Cardinality(domains) <= MaxDomains
  /\ \A d \in Domains : /\ BucketOK(client[d], counts[d], profiles)
                        /\ Present(client[d]) # {} => d \in domains

(* A ticket is no newer than its client, and a void one is older. *)
TicketOK(t, v, c) ==
  c.incarnation = t.incarnation => /\ t.reset <= c.reset
                                   /\ v => t.reset < c.reset

TicketsOK ==
  \A r \in Requests : \A t \in ticket[r] :
    /\ \A u \in ticket[r] : u = t
    /\ t.incarnation # 0 /\ t.incarnation <= incarnation
    /\ TicketOK(t, void[r], client[t.domain][t.key])

(* A ban that has been in force since the listing began is on the page so    *)
(* far or still ahead of the scan.                                           *)
Awaits(l, h) ==
  /\ h.deadline > clock
  /\ PlaceOf(h) \in l.filter
  /\ h.seq \in l.rows \/ (l.after < h.seq /\ h.seq <= l.max)

ListerOK ==
  \A l \in lister :
    /\ \A m \in lister : m = l
    /\ l.now <= clock
    /\ IsFiniteSet(l.rows) /\ Cardinality(l.rows) < l.limit
    /\ \A x \in l.rows : x <= l.after
    /\ \A s \in kept : \E h \in Held(client) : h.seq = s /\ Awaits(l, h)

RegistryInv ==
  /\ TypeOK
  /\ ClientsOK
  /\ SeqsUnique
  /\ IndexIsExact
  /\ BucketsOK
  /\ TicketsOK
  /\ ListerOK
  /\ ListIsComplete

Buckets == [Domains -> [Keys -> Client]]

-----------------------------------------------------------------------------
(* Numbers and sets.                                                         *)

(* A non-empty set of naturals has a least element. *)
LEMMA LeastNatural ==
  ASSUME NEW S \in SUBSET Nat, S # {}
  PROVE  \E m \in S : \A n \in S : m <= n
<1> DEFINE R == {ss \in Nat \X Nat : ss[1] < ss[2]}
<1>1. IsWellFoundedOn(R, Nat)
  BY NatLessThanWellFounded DEF OpToRel
<1> HIDE DEF R
<1>2. PICK m \in S : \A n \in S : ~(<<n, m>> \in R)
  BY <1>1, WFMin
<1>3. \A n \in S : ~(n < m)
  BY <1>2 DEF R
<1>4. \A n \in S : m <= n
  BY <1>3
<1> QED BY <1>4

(* A bounded set of naturals has a greatest element, and Max finds it. *)
LEMMA MaxOfBounded ==
  ASSUME NEW S \in SUBSET Nat, S # {}, NEW N \in Nat, \A y \in S : y <= N
  PROVE  /\ Max(S) \in S /\ Max(S) \in Nat
         /\ \A y \in S : y <= Max(S)
<1> DEFINE U == {u \in Nat : \A y \in S : y <= u}
<1>1. U \in SUBSET Nat /\ U # {}
  OBVIOUS
<1>2. PICK u \in U : \A v \in U : u <= v
  <2> HIDE DEF U
  <2> QED BY <1>1, LeastNatural
<1>3. u \in Nat /\ \A y \in S : y <= u
  OBVIOUS
<1>4. u \in S
  <2>1. SUFFICES ASSUME u \notin S PROVE FALSE
    OBVIOUS
  <2>2. \A y \in S : y \in Nat /\ y < u
    BY <1>3, <2>1
  <2> PICK z \in S : TRUE
    OBVIOUS
  <2>3. u - 1 \in Nat
    BY <1>3, <2>2
  <2>4. ASSUME NEW y \in S PROVE y <= u - 1
    BY <1>3, <2>2
  <2>5. u - 1 \in U
    BY <2>3, <2>4
  <2> QED BY <1>2, <1>3, <2>5
<1>5. \A y \in S : u >= y
  BY <1>3
<1>6. \E z \in S : \A y \in S : z >= y
  BY <1>4, <1>5
<1>7. Max(S) \in S /\ \A y \in S : Max(S) >= y
  BY <1>6 DEF Max
<1>8. Max(S) \in Nat
  BY <1>7
<1> QED BY <1>7, <1>8

(* Min finds the least element. *)
LEMMA MinOfNaturals ==
  ASSUME NEW S \in SUBSET Nat, S # {}
  PROVE  Min(S) \in S
<1>1. \E m \in S : \A n \in S : m <= n
  BY LeastNatural
<1> QED BY <1>1 DEF Min

(* The elements of a finite set with the n lowest sequence numbers: there    *)
(* are at most n of them, and one that is left out comes after n of them.    *)
Numbered(S) == /\ IsFiniteSet(S)
               /\ \A a \in S : a.seq \in Nat
               /\ \A a, b \in S : a.seq = b.seq => a = b

UpTo(S, a) == {b \in S : b.seq <= a.seq}

LEMMA UpToFinite ==
  ASSUME NEW S, Numbered(S), NEW a \in S
  PROVE  IsFiniteSet(UpTo(S, a)) /\ Cardinality(UpTo(S, a)) \in Nat
<1>1. UpTo(S, a) \in SUBSET S /\ IsFiniteSet(S)
  BY DEF UpTo, Numbered
<1> QED BY <1>1, FS_Subset, FS_CardinalityType

LEMMA LowestIs ==
  ASSUME NEW S, NEW n, NEW a
  PROVE  a \in Lowest(S, n) <=> a \in S /\ Cardinality(UpTo(S, a)) <= n
BY DEF Lowest, UpTo

LEMMA LowestFinite ==
  ASSUME NEW S, Numbered(S), NEW n \in Nat
  PROVE  /\ Lowest(S, n) \subseteq S /\ Numbered(Lowest(S, n))
         /\ Cardinality(Lowest(S, n)) \in Nat
<1>1. Lowest(S, n) \in SUBSET S
  BY LowestIs
<1>2. IsFiniteSet(Lowest(S, n))
  BY <1>1, FS_Subset DEF Numbered
<1> QED BY <1>1, <1>2, FS_CardinalityType DEF Numbered

(* A numbered set that is not empty has a last and a first element. *)
LEMMA LastOne ==
  ASSUME NEW S, Numbered(S), S # {}
  PROVE  \E a \in S : \A b \in S : b.seq <= a.seq
<1> DEFINE Q == {a.seq : a \in S}
           f == [a \in S |-> a.seq]
<1>1. f \in Surjection(S, Q)
  BY DEF Surjection
<1>2. IsFiniteSet(Q)
  BY <1>1, FS_Surjection DEF Numbered
<1>3. Q \in SUBSET Nat /\ Q # {}
  BY DEF Numbered
<1> HIDE DEF Q, f
<1>4. ExistsBijection(1 .. Cardinality(Q), Q) /\ Cardinality(Q) \in Nat
  BY <1>2, FS_CardinalityType
<1> DEFINE After(k) == {j \in Q : j > k}
           T == {After(k) : k \in Q}
<1>5. T \subseteq FiniteSubsetsOf(Q) /\ T # {}
  <2>1. ASSUME NEW k \in Q PROVE After(k) \in FiniteSubsetsOf(Q)
    <3>1. After(k) \in SUBSET Q
      OBVIOUS
    <3>2. IsFiniteSet(After(k))
      BY <3>1, <1>2, FS_Subset
    <3> QED BY <3>1, <3>2 DEF FiniteSubsetsOf
  <2> QED BY <2>1, <1>3
<1>6. \E X \in T : \A Y \in T : ~(<<Y, X>> \in StrictSubsetOrdering(Q))
  <2> HIDE DEF T
  <2> QED BY <1>5, WFMin, FS_StrictSubsetOrderingWellFounded
<1>7. PICK m \in Q : \A Y \in T : ~(<<Y, After(m)>> \in StrictSubsetOrdering(Q))
  BY <1>6
<1>8. \A q \in Q : q <= m
  <2>1. SUFFICES ASSUME NEW q \in Q, m < q PROVE FALSE
    BY <1>3
  <2>2. q \in After(m) /\ q \notin After(q)
    BY <1>3, <2>1
  <2>3. ASSUME NEW s \in After(q) PROVE s \in After(m)
    BY <1>3, <2>1
  <2>4. <<After(q), After(m)>> \in StrictSubsetOrdering(Q)
    BY <2>2, <2>3 DEF StrictSubsetOrdering
  <2> QED BY <1>7, <2>4
<1>9. PICK a \in S : a.seq = m
  BY <1>7 DEF Q
<1>10. \A b \in S : b.seq \in Q
  BY DEF Q
<1> QED BY <1>8, <1>9, <1>10

LEMMA FirstOne ==
  ASSUME NEW S, Numbered(S), S # {}
  PROVE  \E a \in S : \A b \in S : a.seq <= b.seq
<1> DEFINE Q == {a.seq : a \in S}
<1>1. Q \in SUBSET Nat /\ Q # {}
  BY DEF Numbered
<1>2. PICK m \in Q : \A n \in Q : m <= n
  <2> HIDE DEF Q
  <2> QED BY <1>1, LeastNatural
<1> QED BY <1>2

LEMMA LowestBound ==
  ASSUME NEW S, Numbered(S), NEW n \in Nat
  PROVE  Cardinality(Lowest(S, n)) <= n
<1> DEFINE L == Lowest(S, n)
<1>1. L \subseteq S /\ Numbered(L)
  BY LowestFinite
<1>2. CASE L = {}
  BY <1>2, FS_EmptySet
<1>3. CASE L # {}
  <2> HIDE DEF L
  <2>1. PICK a \in L : \A b \in L : b.seq <= a.seq
    BY <1>1, <1>3, LastOne
  <2>2. L \in SUBSET UpTo(S, a) /\ a \in S
    BY <1>1, <2>1 DEF UpTo
  <2>3. IsFiniteSet(UpTo(S, a)) /\ Cardinality(UpTo(S, a)) \in Nat
    BY <2>2, UpToFinite
  <2>4. Cardinality(L) <= Cardinality(UpTo(S, a)) /\ Cardinality(L) \in Nat
    BY <2>2, <2>3, <1>1, FS_Subset, FS_CardinalityType DEF Numbered
  <2>5. Cardinality(UpTo(S, a)) <= n
    BY <2>1, LowestIs DEF L
  <2>6. Cardinality(L) <= n
    BY <2>3, <2>4, <2>5
  <2> QED BY <2>6 DEF L
<1> QED BY <1>2, <1>3

LEMMA LowestRest ==
  ASSUME NEW S, Numbered(S), NEW n \in Nat, NEW a \in S, a \notin Lowest(S, n)
  PROVE  /\ Cardinality(Lowest(S, n)) = n
         /\ \A b \in Lowest(S, n) : b.seq < a.seq
<1> DEFINE L == Lowest(S, n)
           M == S \ Lowest(S, n)
<1>1. L \subseteq S /\ Numbered(L) /\ Cardinality(L) \in Nat
  BY LowestFinite
<1>2. Numbered(M) /\ M \subseteq S /\ a \in M
  <2>1. M \in SUBSET S
    OBVIOUS
  <2>2. IsFiniteSet(M)
    BY <2>1, FS_Subset DEF Numbered
  <2> QED BY <2>1, <2>2 DEF Numbered
<1>3. ASSUME NEW b \in L, NEW c \in M PROVE b.seq < c.seq
  <2>1. b \in S /\ c \in S /\ b.seq \in Nat /\ c.seq \in Nat
    BY <1>1, <1>2 DEF Numbered
  <2>2. SUFFICES ASSUME c.seq <= b.seq PROVE FALSE
    BY <2>1
  <2>3. UpTo(S, c) \in SUBSET UpTo(S, b)
    BY <2>1, <2>2 DEF UpTo, Numbered
  <2>4. /\ IsFiniteSet(UpTo(S, b)) /\ Cardinality(UpTo(S, b)) \in Nat
        /\ IsFiniteSet(UpTo(S, c)) /\ Cardinality(UpTo(S, c)) \in Nat
    BY <2>1, UpToFinite
  <2>5. Cardinality(UpTo(S, c)) <= Cardinality(UpTo(S, b))
    BY <2>3, <2>4, FS_Subset
  <2>6. Cardinality(UpTo(S, b)) <= n
    BY LowestIs
  <2>7. Cardinality(UpTo(S, c)) <= n
    BY <2>4, <2>5, <2>6
  <2> QED BY <2>1, <2>7, LowestIs
<1>4. PICK m \in M : \A b \in M : m.seq <= b.seq
  <2> HIDE DEF M
  <2> QED BY <1>2, FirstOne
<1>5. UpTo(S, m) \subseteq L \cup {m}
  <2> SUFFICES ASSUME NEW b \in UpTo(S, m), b \notin L PROVE b = m
    OBVIOUS
  <2>1. b \in S /\ b.seq <= m.seq /\ b \in M
    BY DEF UpTo
  <2>2. m \in S /\ b.seq \in Nat /\ m.seq \in Nat /\ m.seq <= b.seq
    BY <2>1, <1>4 DEF Numbered
  <2>3. b.seq = m.seq
    BY <2>1, <2>2
  <2> QED BY <2>1, <2>2, <2>3 DEF Numbered
<1> HIDE DEF L
<1>6. IsFiniteSet(L \cup {m}) /\ Cardinality(L \cup {m}) <= Cardinality(L) + 1
  <2>1. IsFiniteSet(L)
    BY <1>1 DEF Numbered
  <2>2. /\ IsFiniteSet(L \cup {m})
        /\ Cardinality(L \cup {m}) = IF m \in L THEN Cardinality(L) ELSE Cardinality(L) + 1
    BY <2>1, FS_AddElement
  <2> QED BY <1>1, <2>2
<1>7. /\ Cardinality(UpTo(S, m)) <= Cardinality(L \cup {m})
      /\ Cardinality(UpTo(S, m)) \in Nat /\ Cardinality(L \cup {m}) \in Nat
  <2>1. UpTo(S, m) \in SUBSET (L \cup {m})
    BY <1>5
  <2> QED BY <1>6, <2>1, FS_Subset, FS_CardinalityType
<1>8. ~(Cardinality(UpTo(S, m)) <= n)
  BY <1>4, LowestIs
<1>9. Cardinality(L) <= n
  BY LowestBound DEF L
<1>10. Cardinality(L) = n
  BY <1>1, <1>6, <1>7, <1>8, <1>9
<1> QED BY <1>2, <1>3, <1>10 DEF L

-----------------------------------------------------------------------------
(* What the operators on rules, counters and clients return.                 *)

Counters == [login : Seq(Nat), login_crossed : BOOLEAN,
             paths : SUBSET [path : Paths, at : Nat], scan_crossed : BOOLEAN]

LEMMA NoCountersTyped == NoCounters \in Counters
<1>1. <<>> \in Seq(Nat)
  BY EmptySeq
<1> QED BY <1>1 DEF NoCounters, Counters

LEMMA ClientIs ==
  ASSUME NEW c
  PROVE  c \in Client <=>
           c \in [generation : Generations \cup {Off}, incarnation : Nat, reset : Nat,
                  counters : Counters, ban : SUBSET [seq : Nat, deadline : Nat], idle_at : Nat]
BY DEF Client, Counters

LEMMA NoClientTyped ==
  /\ NoClient \in Client
  /\ NoClient.incarnation = 0 /\ NoClient.ban = {} /\ NoClient.reset = 0
<1>1. NoCounters \in Counters
  BY NoCountersTyped
<1> QED BY <1>1, ClientIs DEF NoClient

LEMMA ClientFields ==
  ASSUME NEW c \in Client
  PROVE  /\ c.generation \in Generations \cup {Off}
         /\ c.incarnation \in Nat /\ c.reset \in Nat /\ c.counters \in Counters
         /\ c.ban \subseteq [seq : Nat, deadline : Nat]
         /\ c.idle_at \in Nat
BY ClientIs

LEMMA ResetTyped ==
  ASSUME NEW c \in Client
  PROVE  /\ Reset(c) \in Client
         /\ Reset(c).generation = c.generation /\ Reset(c).incarnation = c.incarnation
         /\ Reset(c).reset = c.reset + 1 /\ Reset(c).ban = {}
         /\ Reset(c).counters = NoCounters /\ Reset(c).idle_at = c.idle_at
<1>1. NoCounters \in Counters /\ c.reset + 1 \in Nat
  BY NoCountersTyped, ClientFields
<1>2. c \in [generation : Generations \cup {Off}, incarnation : Nat, reset : Nat,
             counters : Counters, ban : SUBSET [seq : Nat, deadline : Nat], idle_at : Nat]
  BY ClientIs
<1> DEFINE d == [c EXCEPT !.reset = @ + 1]
           e == [d EXCEPT !.counters = NoCounters]
<1>a. d = [generation |-> c.generation, incarnation |-> c.incarnation, reset |-> c.reset + 1,
           counters |-> c.counters, ban |-> c.ban, idle_at |-> c.idle_at]
  BY <1>2
<1> HIDE DEF d
<1>b. e = [generation |-> c.generation, incarnation |-> c.incarnation, reset |-> c.reset + 1,
           counters |-> NoCounters, ban |-> c.ban, idle_at |-> c.idle_at]
  BY <1>a
<1>c. Reset(c) = [e EXCEPT !.ban = {}]
  BY DEF Reset, d
<1> HIDE DEF e
<1>3. Reset(c) = [generation |-> c.generation, incarnation |-> c.incarnation,
                  reset |-> c.reset + 1, counters |-> NoCounters, ban |-> {},
                  idle_at |-> c.idle_at]
  BY <1>b, <1>c
<1>4. Reset(c) \in [generation : Generations \cup {Off}, incarnation : Nat, reset : Nat,
                   counters : Counters, ban : SUBSET [seq : Nat, deadline : Nat], idle_at : Nat]
  BY <1>1, <1>2, <1>3
<1> QED BY <1>3, <1>4, ClientIs

(* Settling a client takes its ban away when it is due, and then counts as a *)
(* reset; otherwise it changes nothing.                                      *)
LEMMA SettleIs ==
  ASSUME NEW c \in Client, NEW now \in Nat, \A a, b \in c.ban : a = b
  PROVE  /\ Settle(c, now) \in Client
         /\ Settle(c, now).generation = c.generation
         /\ Settle(c, now).incarnation = c.incarnation
         /\ Settle(c, now).idle_at = c.idle_at
         /\ Settle(c, now).ban = c.ban \ Due(c, now)
         /\ \/ Due(c, now) = {} /\ Settle(c, now) = c
            \/ /\ Due(c, now) = c.ban /\ c.ban # {}
               /\ Settle(c, now) = Reset(c)
<1>1. CASE Due(c, now) = {}
  <2>1. Settle(c, now) = c
    BY <1>1 DEF Settle
  <2> QED BY <1>1, <2>1
<1>2. CASE Due(c, now) # {}
  <2>1. Settle(c, now) = Reset(c)
    BY <1>2 DEF Settle
  <2>2. Due(c, now) = c.ban /\ c.ban # {}
    BY <1>2 DEF Due
  <2>3. c.ban \ Due(c, now) = {}
    BY <2>2
  <2> QED BY <2>1, <2>2, <2>3, ResetTyped
<1> QED BY <1>1, <1>2

LEMMA ExpiredIs ==
  ASSUME NEW b, NEW S, NEW now, NEW s
  PROVE  s \in Expired(b, S, now) <=>
           \E k \in S : \E x \in b[k].ban : x.deadline <= now /\ s = x.seq
BY DEF Expired, Due

Scenario(T) == T = {} \/ \E r \in Rule : T = {r}

LEMMA ProfileIs ==
  ASSUME NEW g \in Generations
  PROVE  /\ Config[g] \in ScenarioProfile
         /\ Scenario(Config[g].failed_login) /\ Scenario(Config[g].scan)
         /\ Config[g].max_clients \in Nat \ {0}
<1>1. /\ Config[g] \in ScenarioProfile
      /\ \A T \in {Config[g].failed_login, Config[g].scan} : IsFiniteSet(T) /\ Cardinality(T) <= 1
  BY ConfigAssumption
<1>2. Config[g].failed_login \subseteq Rule /\ Config[g].scan \subseteq Rule
  BY <1>1 DEF ScenarioProfile
<1>3. ASSUME NEW T, IsFiniteSet(T), Cardinality(T) <= 1, T \subseteq Rule PROVE Scenario(T)
  <2>1. Cardinality(T) \in Nat
    BY <1>3, FS_CardinalityType
  <2>2. Cardinality(T) = 0 \/ Cardinality(T) = 1
    BY <1>3, <2>1
  <2>3. T = {} \/ \E x : T = {x}
    BY <1>3, <2>2, FS_EmptySet, FS_Singleton
  <2> QED BY <1>3, <2>3 DEF Scenario
<1>4. Config[g].max_clients \in Nat \ {0}
  BY <1>1 DEF ScenarioProfile
<1> QED BY <1>1, <1>2, <1>3, <1>4

LEMMA IdleMsTyped ==
  ASSUME NEW g \in Generations
  PROVE  IdleMs(Config[g]) \in Nat
<1> DEFINE R == Config[g].failed_login \cup Config[g].scan
           S == {0} \cup UNION {{r.window, r.ban_ttl} : r \in R}
<1>1. \A T \in {Config[g].failed_login, Config[g].scan} :
        T \subseteq Rule /\ \E N \in Nat : \A r \in T : r.window <= N /\ r.ban_ttl <= N
  <2> SUFFICES ASSUME NEW T, Scenario(T)
               PROVE  T \subseteq Rule /\ \E N \in Nat : \A r \in T : r.window <= N /\ r.ban_ttl <= N
    BY ProfileIs
  <2>1. CASE T = {}
    BY <2>1
  <2>2. CASE T # {}
    <3>1. PICK r \in Rule : T = {r}
      BY <2>2 DEF Scenario
    <3>2. r.window \in Nat /\ r.ban_ttl \in Nat
      BY DEF Rule
    <3>3. r.window + r.ban_ttl \in Nat /\ r.window <= r.window + r.ban_ttl
          /\ r.ban_ttl <= r.window + r.ban_ttl
      BY <3>2
    <3> QED BY <3>1, <3>3
  <2> QED BY <2>1, <2>2
<1>2. PICK N \in Nat : \A r \in Config[g].failed_login : r.window <= N /\ r.ban_ttl <= N
  BY <1>1
<1>3. PICK M \in Nat : \A r \in Config[g].scan : r.window <= M /\ r.ban_ttl <= M
  BY <1>1
<1>4. R \subseteq Rule
  BY <1>1
<1>5. \A r \in R : r.window \in Nat /\ r.ban_ttl \in Nat
  BY <1>4 DEF Rule
<1>6. ASSUME NEW r \in R PROVE r.window <= N + M /\ r.ban_ttl <= N + M
  <2>1. \/ r.window <= N /\ r.ban_ttl <= N
        \/ r.window <= M /\ r.ban_ttl <= M
    BY <1>2, <1>3
  <2> QED BY <1>5, <2>1
<1> HIDE DEF R
<1>7. S \in SUBSET Nat /\ S # {}
  BY <1>5
<1>8. N + M \in Nat /\ \A y \in S : y <= N + M
  BY <1>6
<1> HIDE DEF S
<1>9. Max(S) \in Nat
  BY <1>7, <1>8, MaxOfBounded
<1> QED BY <1>9 DEF IdleMs, S, R

LEMMA TouchedIs ==
  ASSUME TypeOK, NEW c \in Client, NEW k \in Keys, profiles[NamespaceOf(k)] \in Generations
  PROVE  /\ Touched(c, k) \in Client
         /\ Touched(c, k).generation = c.generation /\ Touched(c, k).incarnation = c.incarnation
         /\ Touched(c, k).reset = c.reset /\ Touched(c, k).counters = c.counters
         /\ Touched(c, k).ban = c.ban
<1>1. IdleMs(Conf(k)) \in Nat
  BY IdleMsTyped DEF Conf
<1>2. clock + IdleMs(Conf(k)) \in Nat
  BY <1>1, CapAssumption DEF TypeOK
<1>3. c \in [generation : Generations \cup {Off}, incarnation : Nat, reset : Nat,
             counters : Counters, ban : SUBSET [seq : Nat, deadline : Nat], idle_at : Nat]
  BY ClientIs
<1>4. Touched(c, k) = [generation |-> c.generation, incarnation |-> c.incarnation,
                       reset |-> c.reset, counters |-> c.counters, ban |-> c.ban,
                       idle_at |-> clock + IdleMs(Conf(k))]
  BY <1>3 DEF Touched
<1> QED BY <1>2, <1>3, <1>4, ClientIs

(* An observation leaves well-formed counters, and what it crosses are rules. *)
Seen(o) == o.counters \in Counters /\ o.crossings \in Seq(Rule)

LEMMA RecentTyped ==
  ASSUME NEW login \in Seq(Nat), NEW lower \in Int
  PROVE  Recent(login, lower) \in Seq(Nat)
<1> DEFINE Rests == {SubSeq(login, n + 1, Len(login)) : n \in 0 .. Len(login)}
           Stops(n) == n = Len(login) \/ login[n + 1] >= lower
           T == {n \in 0 .. Len(login) : Stops(n)}
<1>1. Len(login) \in Nat /\ \A i \in 1 .. Len(login) : login[i] \in Nat
  BY LenProperties, ElementOfSeq
<1>2. T \in SUBSET Nat /\ Len(login) \in T
  BY <1>1
<1>3. PICK n \in T : \A m \in T : n <= m
  <2> HIDE DEF T
  <2> QED BY <1>2, LeastNatural
<1>4. n \in 0 .. Len(login) /\ Stops(n)
  OBVIOUS
<1>5. ASSUME NEW i \in 1 .. n PROVE login[i] < lower
  <2>1. i - 1 \in 0 .. Len(login) /\ i - 1 < n /\ i \in 1 .. Len(login) /\ i - 1 # Len(login)
    BY <1>1, <1>4
  <2>2. i - 1 \notin T
    <3>1. n \in Nat /\ i - 1 \in Int /\ i - 1 < n
      BY <1>1, <1>4, <2>1
    <3> HIDE DEF T
    <3> QED BY <1>3, <3>1
  <2>3. ~(login[(i - 1) + 1] >= lower)
    BY <2>1, <2>2
  <2>4. (i - 1) + 1 = i
    OBVIOUS
  <2> QED BY <1>1, <2>1, <2>3, <2>4
<1>6. \E rest \in Rests :
        \E m \in 0 .. Len(login) :
          /\ rest = SubSeq(login, m + 1, Len(login))
          /\ \A i \in 1 .. m : login[i] < lower
          /\ m = Len(login) \/ login[m + 1] >= lower
  BY <1>4, <1>5
<1>7. Recent(login, lower) \in Rests
  <2>1. Recent(login, lower) = CHOOSE rest \in Rests :
          \E m \in 0 .. Len(login) :
            /\ rest = SubSeq(login, m + 1, Len(login))
            /\ \A i \in 1 .. m : login[i] < lower
            /\ m = Len(login) \/ login[m + 1] >= lower
    BY DEF Recent
  <2> DEFINE P(rest) == \E m \in 0 .. Len(login) :
            /\ rest = SubSeq(login, m + 1, Len(login))
            /\ \A i \in 1 .. m : login[i] < lower
            /\ m = Len(login) \/ login[m + 1] >= lower
  <2>2. (\E rest \in Rests : P(rest)) /\ Recent(login, lower) = CHOOSE rest \in Rests : P(rest)
    BY <1>6, <2>1
  <2> HIDE DEF Rests, P
  <2> QED BY <2>2
<1>8. ASSUME NEW m \in 0 .. Len(login) PROVE SubSeq(login, m + 1, Len(login)) \in Seq(Nat)
  <2>1. m + 1 \in Int /\ Len(login) \in Int /\ \A i \in m + 1 .. Len(login) : login[i] \in Nat
    BY <1>1
  <2> QED BY <2>1, SubSeqProperties
<1> QED BY <1>7, <1>8

LEMMA OneRule == ASSUME NEW rule \in Rule PROVE <<rule>> \in Seq(Rule) /\ <<>> \in Seq(Rule)
<1>1. <<>> \in Seq(Rule)
  BY EmptySeq
<1> QED BY <1>1

LEMMA CountLoginTyped ==
  ASSUME NEW c \in Counters, NEW rule \in Rule, NEW now \in Nat, NEW hit \in BOOLEAN
  PROVE  Seen(CountLogin(c, rule, now, hit))
<1> DEFINE recent == Recent(c.login, now - rule.window)
           crossed == c.login_crossed /\ Len(recent) >= rule.threshold
           room == IF Len(recent) = rule.threshold THEN Tail(recent) ELSE recent
           login == IF hit THEN Append(room, now) ELSE recent
           crosses == hit /\ Len(login) >= rule.threshold /\ ~crossed
<1>1. rule.window \in Nat /\ rule.threshold \in Nat \ {0} /\ now - rule.window \in Int
  BY DEF Rule
<1>2. c.login \in Seq(Nat) /\ c.login_crossed \in BOOLEAN
  BY DEF Counters
<1>3. recent \in Seq(Nat)
  BY <1>1, <1>2, RecentTyped
<1> HIDE DEF recent
<1>4. room \in Seq(Nat)
  <2>1. CASE Len(recent) = rule.threshold
    <3>1. recent # <<>>
      BY <2>1, <1>1, EmptySeq
    <3> QED BY <2>1, <3>1, <1>3, HeadTailProperties
  <2> QED BY <2>1, <1>3
<1> HIDE DEF room
<1>5. login \in Seq(Nat)
  <2>1. Append(room, now) \in Seq(Nat)
    BY <1>4
  <2> QED BY <1>3, <2>1
<1> HIDE DEF login, crosses, crossed
<1>6. crosses \in BOOLEAN /\ crossed \in BOOLEAN
  BY <1>2 DEF crosses, crossed
<1>7. CountLogin(c, rule, now, hit) =
        [counters |-> [c EXCEPT !.login = login, !.login_crossed = crossed \/ crosses],
         crossings |-> IF crosses THEN <<rule>> ELSE <<>>]
  BY DEF CountLogin, login, crosses, crossed, room, recent
<1>8. [c EXCEPT !.login = login, !.login_crossed = crossed \/ crosses] \in Counters
  BY <1>5, <1>6 DEF Counters
<1>9. (IF crosses THEN <<rule>> ELSE <<>>) \in Seq(Rule)
  BY OneRule
<1> QED BY <1>7, <1>8, <1>9 DEF Seen

LEMMA CountScanTyped ==
  ASSUME NEW c \in Counters, NEW rule \in Rule, NEW now \in Nat, NEW path \in Paths,
         NEW hit \in BOOLEAN
  PROVE  Seen(CountScan(c, rule, now, path, hit))
<1> DEFINE recent == {p \in c.paths : p.at >= now - rule.window}
           crossed == c.scan_crossed /\ Cardinality(recent) >= rule.threshold
           known == {p \in recent : p.path = path}
           oldest == IF known = {} /\ Cardinality(recent) >= rule.threshold
                       THEN {CHOOSE p \in recent : \A q \in recent : p.at <= q.at}
                       ELSE {}
           paths == IF hit THEN (recent \ (known \cup oldest)) \cup {[path |-> path, at |-> now]}
                           ELSE recent
           crosses == hit /\ Cardinality(paths) >= rule.threshold /\ ~crossed
<1>1. c.paths \subseteq [path : Paths, at : Nat] /\ c.scan_crossed \in BOOLEAN
  BY DEF Counters
<1>2. recent \subseteq [path : Paths, at : Nat]
  BY <1>1
<1> HIDE DEF recent, oldest, known
<1>3. [path |-> path, at |-> now] \in [path : Paths, at : Nat]
  OBVIOUS
<1>4. paths \in SUBSET [path : Paths, at : Nat]
  BY <1>2, <1>3
<1> HIDE DEF paths, crosses, crossed
<1>5. crosses \in BOOLEAN /\ crossed \in BOOLEAN
  BY <1>1 DEF crosses, crossed
<1>6. CountScan(c, rule, now, path, hit) =
        [counters |-> [c EXCEPT !.paths = paths, !.scan_crossed = crossed \/ crosses],
         crossings |-> IF crosses THEN <<rule>> ELSE <<>>]
  BY DEF CountScan, paths, crosses, crossed, recent, oldest, known
<1>7. [c EXCEPT !.paths = paths, !.scan_crossed = crossed \/ crosses] \in Counters
  BY <1>4, <1>5 DEF Counters
<1>8. (IF crosses THEN <<rule>> ELSE <<>>) \in Seq(Rule)
  BY OneRule
<1> QED BY <1>6, <1>7, <1>8 DEF Seen

LEMMA ObservedTyped ==
  ASSUME NEW c \in Counters, NEW g \in Generations, NEW now \in Nat, NEW t \in Ticket,
         NEW failed \in BOOLEAN, NEW missing \in BOOLEAN
  PROVE  Seen(Observed(c, Config[g], now, t, failed, missing))
<1> DEFINE conf == Config[g]
           nothing(k) == [counters |-> k, crossings |-> <<>>]
           l == IF conf.failed_login = {} THEN nothing(c)
                ELSE CountLogin(c, CHOOSE r \in conf.failed_login : TRUE, now, t.login /\ failed)
           s == IF conf.scan = {} THEN nothing(l.counters)
                ELSE CountScan(l.counters, CHOOSE r \in conf.scan : TRUE, now, t.path, missing)
<1>1. t.login \in BOOLEAN /\ t.path \in Paths /\ (t.login /\ failed) \in BOOLEAN
  BY DEF Ticket
<1>2. ASSUME NEW k \in Counters PROVE Seen(nothing(k))
  <2>1. <<>> \in Seq(Rule)
    BY EmptySeq
  <2> QED BY <2>1 DEF Seen
<1>3. ASSUME NEW T, Scenario(T), T # {} PROVE (CHOOSE r \in T : TRUE) \in Rule
  BY <1>3 DEF Scenario
<1>4. Scenario(conf.failed_login) /\ Scenario(conf.scan)
  BY ProfileIs
<1> HIDE DEF conf
<1>5. Seen(l)
  <2>1. CASE conf.failed_login = {}
    BY <2>1, <1>2
  <2>2. CASE conf.failed_login # {}
    <3>1. (CHOOSE r \in conf.failed_login : TRUE) \in Rule
      BY <1>3, <1>4, <2>2
    <3> QED BY <1>1, <2>2, <3>1, CountLoginTyped
  <2> QED BY <2>1, <2>2
<1>6. l.counters \in Counters /\ l.crossings \in Seq(Rule)
  BY <1>5 DEF Seen
<1> HIDE DEF l
<1>7. Seen(s)
  <2>1. CASE conf.scan = {}
    BY <2>1, <1>2, <1>6
  <2>2. CASE conf.scan # {}
    <3>1. (CHOOSE r \in conf.scan : TRUE) \in Rule
      BY <1>3, <1>4, <2>2
    <3> QED BY <1>1, <1>6, <2>2, <3>1, CountScanTyped
  <2> QED BY <2>1, <2>2
<1>8. s.counters \in Counters /\ s.crossings \in Seq(Rule)
  BY <1>7 DEF Seen
<1> HIDE DEF s
<1>9. Observed(c, Config[g], now, t, failed, missing) =
        [counters |-> s.counters, crossings |-> l.crossings \o s.crossings]
  BY DEF Observed, s, l, conf
<1>10. l.crossings \o s.crossings \in Seq(Rule)
  BY <1>6, <1>8, ConcatProperties
<1> QED BY <1>8, <1>9, <1>10 DEF Seen

(* A new ban is numbered next and ends in the future; without a crossing     *)
(* there is none.                                                            *)
LEMMA NewBanIs ==
  ASSUME TypeOK, NEW crossings \in Seq(Rule)
  PROVE  \/ NewBan(crossings) = {}
         \/ /\ crossings # <<>>
            /\ \E at \in Nat : /\ at > clock
                               /\ NewBan(crossings) = {[seq |-> sequence + 1, deadline |-> at]}
<1> DEFINE blocking == {i \in DOMAIN crossings : crossings[i].mode = "block"}
<1>1. CASE blocking = {}
  BY <1>1 DEF NewBan
<1>2. CASE blocking # {}
  <2>1. DOMAIN crossings = 1 .. Len(crossings) /\ Len(crossings) \in Nat
    BY LenProperties
  <2>2. blocking \in SUBSET Nat
    BY <2>1
  <2>3. Min(blocking) \in blocking
    <3> HIDE DEF blocking
    <3> QED BY <1>2, <2>2, MinOfNaturals
  <2>4. Min(blocking) \in 1 .. Len(crossings)
    BY <2>1, <2>3
  <2>5. crossings[Min(blocking)] \in Rule
    BY <2>4, ElementOfSeq
  <2>6. crossings[Min(blocking)].ban_ttl \in Nat \ {0}
    BY <2>5 DEF Rule
  <2> DEFINE at == clock + crossings[Min(blocking)].ban_ttl
  <2>7. at \in Nat /\ at > clock
    BY <2>6, CapAssumption DEF TypeOK
  <2>8. NewBan(crossings) = {[seq |-> sequence + 1, deadline |-> at]}
    BY <1>2 DEF NewBan
  <2>9. crossings # <<>>
    BY <2>1, <2>4, EmptySeq
  <2> HIDE DEF at
  <2> QED BY <2>7, <2>8, <2>9
<1> QED BY <1>1, <1>2

-----------------------------------------------------------------------------
(* The bans that the clients hold.                                           *)

BanIn(h) == [seq |-> h.seq, deadline |-> h.deadline]

LEMMA HeldIs ==
  ASSUME NEW cl \in Buckets, NEW h
  PROVE  h \in Held(cl) <=> h \in Active /\ BanIn(h) \in cl[h.domain][h.key].ban
<1>1. ASSUME h \in Held(cl) PROVE h \in Active /\ BanIn(h) \in cl[h.domain][h.key].ban
  <2>1. PICK p \in Domains \X Keys : \E x \in cl[p[1]][p[2]].ban :
          h = [seq |-> x.seq, deadline |-> x.deadline, domain |-> p[1], key |-> p[2]]
    BY <1>1 DEF Held
  <2>2. PICK x \in cl[p[1]][p[2]].ban :
          h = [seq |-> x.seq, deadline |-> x.deadline, domain |-> p[1], key |-> p[2]]
    BY <2>1
  <2>3. p[1] \in Domains /\ p[2] \in Keys
    OBVIOUS
  <2>4. cl[p[1]][p[2]] \in Client
    BY <2>3 DEF Buckets
  <2>5. x \in [seq : Nat, deadline : Nat]
    BY <2>4, ClientFields
  <2>6. h \in Active /\ h.domain = p[1] /\ h.key = p[2] /\ BanIn(h) = x
    BY <2>2, <2>3, <2>5 DEF Active, BanIn
  <2> QED BY <2>2, <2>6
<1>2. ASSUME h \in Active, BanIn(h) \in cl[h.domain][h.key].ban PROVE h \in Held(cl)
  <2> DEFINE p == <<h.domain, h.key>>
             x == BanIn(h)
  <2>1. p \in Domains \X Keys /\ x \in cl[p[1]][p[2]].ban
    BY <1>2 DEF Active
  <2>2. h = [seq |-> x.seq, deadline |-> x.deadline, domain |-> p[1], key |-> p[2]]
    BY <1>2 DEF Active, BanIn
  <2> HIDE DEF p, x
  <2> QED BY <2>1, <2>2 DEF Held
<1> QED BY <1>1, <1>2

(* The other way round: the place of a client's ban. *)
LEMMA PlaceIsHeld ==
  ASSUME NEW cl \in Buckets, NEW d \in Domains, NEW k \in Keys, NEW b \in cl[d][k].ban
  PROVE  \E h \in Held(cl) : h.seq = b.seq /\ h.deadline = b.deadline /\ h.domain = d /\ h.key = k
<1>1. cl[d][k] \in Client
  BY DEF Buckets
<1>2. b \in [seq : Nat, deadline : Nat]
  BY <1>1, ClientFields
<1> DEFINE h == [seq |-> b.seq, deadline |-> b.deadline, domain |-> d, key |-> k]
<1>3. /\ h \in Active /\ BanIn(h) = b /\ h.domain = d /\ h.key = k
      /\ h.seq = b.seq /\ h.deadline = b.deadline
  BY <1>2 DEF Active, BanIn
<1> HIDE DEF h
<1> QED BY <1>3, HeldIs

LEMMA HeldTyped ==
  ASSUME NEW cl \in Buckets, NEW h \in Held(cl)
  PROVE  h \in Active /\ h.seq \in Nat /\ h.deadline \in Nat /\ h.domain \in Domains /\ h.key \in Keys
BY HeldIs DEF Active

LEMMA TypedState ==
  ASSUME TypeOK
  PROVE  /\ client \in Buckets
         /\ clock \in Nat /\ sequence \in Nat /\ incarnation \in Nat
         /\ \A d \in Domains, k \in Keys : client[d][k] \in Client
BY CapAssumption DEF TypeOK, Buckets

(* The numbers of the bans in a set are those the clients lose. *)
Loses(cl, cl2, S) ==
  /\ \A s \in S : \E h \in Held(cl) : h.seq = s
  /\ \A d \in Domains, k \in Keys : cl2[d][k].ban = {b \in cl[d][k].ban : b.seq \notin S}

LEMMA HeldAfterLoss ==
  ASSUME NEW cl \in Buckets, NEW cl2 \in Buckets, NEW S, Loses(cl, cl2, S)
  PROVE  Held(cl2) = {h \in Held(cl) : h.seq \notin S}
<1> SUFFICES ASSUME NEW h PROVE h \in Held(cl2) <=> h \in Held(cl) /\ h.seq \notin S
  OBVIOUS
<1>1. CASE h \notin Active
  BY <1>1, HeldIs
<1>2. CASE h \in Active
  <2>1. h.domain \in Domains /\ h.key \in Keys
    BY <1>2 DEF Active
  <2>2. cl2[h.domain][h.key].ban = {b \in cl[h.domain][h.key].ban : b.seq \notin S}
    BY <2>1 DEF Loses
  <2>3. BanIn(h).seq = h.seq
    BY DEF BanIn
  <2>4. BanIn(h) \in cl2[h.domain][h.key].ban
          <=> BanIn(h) \in cl[h.domain][h.key].ban /\ h.seq \notin S
    BY <2>2, <2>3
  <2> QED BY <1>2, <2>4, HeldIs
<1> QED BY <1>1, <1>2

EndsStep ==
  /\ ended' \subseteq {h.seq : h \in Held(client) \ Held(client')}
  /\ \A h \in Held(client) \ Held(client') : h.seq \in ended' \/ Reloaded(h)

HoldsStep ==
  \A h \in Held(client) :
    h.deadline > clock /\ h \notin Held(client') => h.seq \in asked' \/ Reloaded(h)

(* What a step that takes bans away does to the index. *)
LEMMA IndexAfterLoss ==
  ASSUME TypeOK, SeqsUnique, IndexIsExact, client' \in Buckets, clock' = clock,
         NEW S, Loses(client, client', S), RemoveActive(S)
  PROVE  /\ IndexIsExact' /\ SeqsUnique'
         /\ active' \subseteq Active /\ expiry' \subseteq Nat \X Nat
<1>1. client \in Buckets
  BY TypedState
<1>2. Held(client') = {h \in Held(client) : h.seq \notin S}
  BY <1>1, HeldAfterLoss
<1>3. active' = {a \in active : a.seq \notin S}
  BY DEF RemoveActive
<1>4. active' \subseteq Held(client')
  BY <1>2, <1>3 DEF IndexIsExact
<1>5. ASSUME NEW h \in Held(client'), h.deadline > clock' PROVE h \in active'
  BY <1>2, <1>3, <1>5 DEF IndexIsExact
<1>6. expiry' = {<<a.deadline, a.seq>> : a \in active'}
  <2>1. expiry = {<<a.deadline, a.seq>> : a \in active}
    BY DEF IndexIsExact
  <2>2. expiry' = expiry \ {<<a.deadline, a.seq>> : a \in {x \in active : x.seq \in S}}
    BY DEF RemoveActive
  <2>3. ASSUME NEW e \in expiry' PROVE \E a \in active' : e = <<a.deadline, a.seq>>
    <3>1. PICK a \in active : e = <<a.deadline, a.seq>>
      BY <2>1, <2>2
    <3> QED BY <1>3, <2>2, <3>1
  <2>4. ASSUME NEW a \in active' PROVE <<a.deadline, a.seq>> \in expiry'
    <3>1. a \in active /\ a.seq \notin S /\ <<a.deadline, a.seq>> \in expiry
      BY <1>3, <2>1
    <3>2. ASSUME NEW x \in active, x.seq \in S PROVE <<x.deadline, x.seq>> # <<a.deadline, a.seq>>
      BY <3>1, <3>2
    <3> QED BY <2>2, <3>1, <3>2
  <2> QED BY <2>3, <2>4
<1>7. IndexIsExact'
  BY <1>4, <1>5, <1>6 DEF IndexIsExact
<1>8. SeqsUnique'
  BY <1>2 DEF SeqsUnique
<1>9. active' \subseteq Active /\ expiry' \subseteq Nat \X Nat
  BY <1>3 DEF TypeOK, RemoveActive
<1> QED BY <1>7, <1>8, <1>9

(* The ends of those bans are announced, and each was due or asked for. *)
LEMMA LossIsAnnounced ==
  ASSUME TypeOK, client' \in Buckets, NEW S, Loses(client, client', S), ended' = S,
         \A h \in Held(client) : h.seq \in S => h.deadline <= clock \/ h.seq \in asked'
  PROVE  EndsStep /\ HoldsStep
<1>1. client \in Buckets /\ clock \in Nat
  BY TypedState
<1>2. Held(client') = {h \in Held(client) : h.seq \notin S}
  BY <1>1, HeldAfterLoss
<1>3. ASSUME NEW s \in S PROVE s \in {h.seq : h \in Held(client) \ Held(client')}
  <2>1. PICK h \in Held(client) : h.seq = s
    BY DEF Loses
  <2>2. h \notin Held(client')
    BY <1>2, <2>1
  <2> QED BY <2>1, <2>2
<1>4. EndsStep
  BY <1>2, <1>3 DEF EndsStep
<1>5. ASSUME NEW h \in Held(client), h.deadline > clock, h \notin Held(client')
      PROVE  h.seq \in asked'
  <2>1. h.seq \in S /\ h.deadline \in Nat
    BY <1>1, <1>2, <1>5, HeldTyped
  <2> QED BY <1>1, <1>5, <2>1
<1> QED BY <1>4, <1>5 DEF HoldsStep

-----------------------------------------------------------------------------
(* What one step may do to one client.                                       *)

StepOf(c, e, i) ==
  \/ /\ e.incarnation = c.incarnation
     /\ c.reset <= e.reset
     /\ c.ban # {} /\ e.ban # c.ban => c.reset < e.reset
  \/ e.incarnation = 0
  \/ e.incarnation = i + 1

ClientsStep == \A d \in Domains, k \in Keys : StepOf(client[d][k], client'[d][k], incarnation)

(* A ticket is kept, returned, or issued by its client. *)
TicketStep ==
  \A r \in Requests :
    \/ ticket'[r] \subseteq ticket[r]
    \/ /\ ticket[r] = {}
       /\ \E t \in Ticket :
            /\ ticket'[r] = {t}
            /\ t.incarnation # 0 /\ t.incarnation <= incarnation'
            /\ t.incarnation = client'[t.domain][t.key].incarnation
            /\ t.reset = client'[t.domain][t.key].reset

LEMMA TicketsKept ==
  ASSUME TypeOK, TicketsOK, ClientsStep, TicketStep, Remember, client' \in Buckets,
         incarnation' \in Nat, incarnation <= incarnation'
  PROVE  TicketsOK'
<1>1. /\ \A r \in Requests : ticket[r] \subseteq Ticket
      /\ incarnation \in Nat
      /\ \A d \in Domains, k \in Keys : client[d][k] \in Client /\ client'[d][k] \in Client
  BY TypedState DEF TypeOK, Buckets
<1>2. ASSUME NEW r \in Requests, ticket'[r] \subseteq ticket[r], NEW t \in ticket'[r]
      PROVE  /\ \A u \in ticket'[r] : u = t
             /\ t.incarnation # 0 /\ t.incarnation <= incarnation'
             /\ TicketOK(t, void'[r], client'[t.domain][t.key])
  <2> DEFINE c == client[t.domain][t.key]
             e == client'[t.domain][t.key]
  <2>1. t \in ticket[r] /\ t \in Ticket
    BY <1>1, <1>2
  <2>2. t.domain \in Domains /\ t.key \in Keys /\ t.incarnation \in Nat /\ t.reset \in Nat
    BY <2>1 DEF Ticket
  <2>3. /\ \A u \in ticket[r] : u = t
        /\ t.incarnation # 0 /\ t.incarnation <= incarnation
        /\ TicketOK(t, void[r], c)
    BY <2>1 DEF TicketsOK
  <2>4. c \in Client /\ e \in Client /\ StepOf(c, e, incarnation)
    BY <1>1, <2>2 DEF ClientsStep
  <2>5. void'[r] => void[r] \/ Forgiven(t.domain, t.key)
    <3>1. void'[r] = \E u \in ticket[r] \cap ticket'[r] : void[r] \/ Forgiven(u.domain, u.key)
      BY DEF Remember
    <3> QED BY <2>3, <3>1
  <2>6. Forgiven(t.domain, t.key) => e.incarnation = 0 \/ (c.ban # {} /\ e.ban # c.ban)
    BY <2>2 DEF Forgiven, Present
  <2> HIDE DEF c, e
  <2>7. /\ c.incarnation \in Nat /\ c.reset \in Nat
        /\ e.incarnation \in Nat /\ e.reset \in Nat
    BY <2>4, ClientFields
  <2>8. ASSUME e.incarnation = t.incarnation
        PROVE  /\ c.incarnation = t.incarnation /\ c.reset <= e.reset
               /\ c.ban # {} /\ e.ban # c.ban => c.reset < e.reset
    <3>1. e.incarnation # 0 /\ e.incarnation # incarnation + 1
      BY <1>1, <2>2, <2>3, <2>8
    <3> QED BY <2>4, <2>8, <3>1 DEF StepOf
  <2>9. TicketOK(t, void'[r], e)
    <3> SUFFICES ASSUME e.incarnation = t.incarnation
                 PROVE  t.reset <= e.reset /\ (void'[r] => t.reset < e.reset)
      BY DEF TicketOK
    <3>1. t.reset <= c.reset /\ (void[r] => t.reset < c.reset) /\ c.reset <= e.reset
      BY <2>3, <2>8 DEF TicketOK
    <3>2. t.reset <= e.reset
      BY <2>2, <2>7, <3>1
    <3>3. ASSUME void'[r] PROVE t.reset < e.reset
      <4>1. CASE void[r]
        BY <2>2, <2>7, <3>1, <4>1
      <4>2. CASE Forgiven(t.domain, t.key)
        <5>1. c.reset < e.reset
          BY <2>3, <2>6, <2>8, <4>2
        <5> QED BY <2>2, <2>7, <3>1, <5>1
      <4> QED BY <2>5, <3>3, <4>1, <4>2
    <3> QED BY <3>2, <3>3
  <2>10. t.incarnation <= incarnation'
    BY <1>1, <2>2, <2>3
  <2> QED BY <1>2, <2>3, <2>9, <2>10 DEF e
<1>3. ASSUME NEW r \in Requests, ticket[r] = {}, NEW t \in Ticket, ticket'[r] = {t},
             t.incarnation # 0, t.incarnation <= incarnation',
             t.incarnation = client'[t.domain][t.key].incarnation,
             t.reset = client'[t.domain][t.key].reset
      PROVE  TicketOK(t, void'[r], client'[t.domain][t.key])
  <2>1. void'[r] = \E u \in ticket[r] \cap ticket'[r] : void[r] \/ Forgiven(u.domain, u.key)
    BY DEF Remember
  <2>2. ~void'[r]
    BY <1>3, <2>1
  <2>3. t.reset \in Nat
    BY DEF Ticket
  <2> QED BY <1>3, <2>2, <2>3 DEF TicketOK
<1>4. ASSUME NEW r \in Requests, NEW t \in ticket'[r]
      PROVE  /\ \A u \in ticket'[r] : u = t
             /\ t.incarnation # 0 /\ t.incarnation <= incarnation'
             /\ TicketOK(t, void'[r], client'[t.domain][t.key])
  <2>1. CASE ticket'[r] \subseteq ticket[r]
    BY <1>2, <2>1
  <2>2. CASE ~(ticket'[r] \subseteq ticket[r])
    <3>1. ticket[r] = {} /\ \E v \in Ticket :
            /\ ticket'[r] = {v}
            /\ v.incarnation # 0 /\ v.incarnation <= incarnation'
            /\ v.incarnation = client'[v.domain][v.key].incarnation
            /\ v.reset = client'[v.domain][v.key].reset
      BY <2>2 DEF TicketStep
    <3>2. PICK v \in Ticket :
            /\ ticket'[r] = {v}
            /\ v.incarnation # 0 /\ v.incarnation <= incarnation'
            /\ v.incarnation = client'[v.domain][v.key].incarnation
            /\ v.reset = client'[v.domain][v.key].reset
      BY <3>1
    <3>3. t = v /\ \A u \in ticket'[r] : u = t
      BY <3>2
    <3>4. TicketOK(t, void'[r], client'[t.domain][t.key])
      BY <1>3, <3>1, <3>2, <3>3
    <3> QED BY <3>2, <3>3, <3>4
  <2> QED BY <2>1, <2>2
<1> QED BY <1>4 DEF TicketsOK

(* A ban that is new after a step is numbered next. *)
NewOnly == \A h \in Held(client') : h \in Held(client) \/ h.seq = sequence + 1

LEMMA SeqsBounded ==
  ASSUME TypeOK, ClientsOK, NEW h \in Held(client)
  PROVE  h.seq <= sequence /\ h.seq \in Nat
<1>1. client \in Buckets
  BY TypedState
<1>2. h \in Active /\ BanIn(h) \in client[h.domain][h.key].ban
  BY <1>1, HeldIs
<1>3. h.domain \in Domains /\ h.key \in Keys /\ h.seq \in Nat /\ BanIn(h).seq = h.seq
  BY <1>2 DEF Active, BanIn
<1>4. \A b \in client[h.domain][h.key].ban : b.seq <= sequence
  BY <1>3 DEF ClientsOK, Sound
<1> QED BY <1>2, <1>3, <1>4

(* A listing that a step leaves alone still misses nothing. *)
LEMMA ListerKept ==
  ASSUME TypeOK, ClientsOK, SeqsUnique, ListerOK, Remember, NewOnly, lister' = lister,
         clock' \in Nat, clock <= clock', client' \in Buckets, page' = {}
  PROVE  ListerOK' /\ ListIsComplete'
<1>1. ListIsComplete'
  BY DEF ListIsComplete
<1>2. ASSUME NEW l \in lister'
      PROVE  /\ \A m \in lister' : m = l
             /\ l.now <= clock'
             /\ IsFiniteSet(l.rows) /\ Cardinality(l.rows) < l.limit
             /\ \A x \in l.rows : x <= l.after
             /\ \A s \in kept' : \E h \in Held(client') : h.seq = s /\ Awaits(l, h)'
  <2>1. l \in lister /\ lister # {}
    OBVIOUS
  <2>2. /\ \A m \in lister : m = l
        /\ l.now <= clock
        /\ IsFiniteSet(l.rows) /\ Cardinality(l.rows) < l.limit
        /\ \A x \in l.rows : x <= l.after
        /\ \A s \in kept : \E h \in Held(client) : h.seq = s /\ Awaits(l, h)
    BY <2>1 DEF ListerOK
  <2>3. l.now \in Nat /\ clock \in Nat /\ sequence \in Nat
    BY <2>1, TypedState DEF TypeOK, Listing
  <2>4. l.now <= clock'
    BY <2>2, <2>3
  <2>5. kept' = {h.seq : h \in {x \in Held(client') : x.seq \in kept /\ x.deadline > clock'}}
    BY <2>1 DEF Remember
  <2>6. ASSUME NEW s \in kept' PROVE \E h \in Held(client') : h.seq = s /\ Awaits(l, h)'
    <3>1. PICK x \in Held(client') : x.seq \in kept /\ x.deadline > clock' /\ s = x.seq
      BY <2>5
    <3>2. PICK h \in Held(client) : h.seq = s /\ Awaits(l, h)
      BY <2>2, <3>1
    <3>3. h.seq <= sequence /\ h.seq \in Nat
      BY SeqsBounded
    <3>4. x \in Held(client)
      BY <2>3, <3>1, <3>2, <3>3 DEF NewOnly
    <3>5. x = h
      BY <3>1, <3>2, <3>4 DEF SeqsUnique
    <3>6. Awaits(l, x)'
      BY <3>1, <3>2, <3>5 DEF Awaits
    <3> QED BY <3>1, <3>6
  <2> QED BY <2>2, <2>4, <2>6
<1> QED BY <1>1, <1>2 DEF ListerOK

-----------------------------------------------------------------------------
(* Buckets and their counts.                                                 *)

Bucket == [Keys -> Client]

LEMMA KeyIs == \A k \in Keys : NamespaceOf(k) \in Namespaces
BY DEF Keys, NamespaceOf

LEMMA OwnFinite ==
  ASSUME NEW b, IsFiniteSet(Present(b)), NEW n
  PROVE  IsFiniteSet(Own(b, n)) /\ Cardinality(Own(b, n)) \in Nat
<1>1. Own(b, n) \in SUBSET Present(b)
  BY DEF Own
<1> QED BY <1>1, FS_Subset, FS_CardinalityType

(* Fewer clients of the same profiles, and counts that were brought up to date. *)
LEMMA BucketShrinks ==
  ASSUME NEW b, NEW ct, NEW p, BucketOK(b, ct, p), NEW b2, NEW ct2, NEW p2,
         Present(b2) \subseteq Present(b),
         \A k \in Present(b2) : /\ b2[k].generation = b[k].generation
                                /\ p2[NamespaceOf(k)] = p[NamespaceOf(k)],
         \A n \in Namespaces : ct2[n] = Cardinality(Own(b2, n)),
         p \in [Namespaces -> Generations \cup {Off}],
         \A k \in Present(b2) : p[NamespaceOf(k)] \in Generations
  PROVE  BucketOK(b2, ct2, p2)
<1>1. /\ IsFiniteSet(Present(b)) /\ Cardinality(Present(b)) <= MaxEntries
      /\ \A k \in Present(b) : /\ b[k].generation = p[NamespaceOf(k)]
                               /\ Cardinality(Own(b, NamespaceOf(k)))
                                    <= Config[p[NamespaceOf(k)]].max_clients
  BY DEF BucketOK
<1>2. /\ IsFiniteSet(Present(b2)) /\ Cardinality(Present(b2)) \in Nat
      /\ Cardinality(Present(b)) \in Nat /\ Cardinality(Present(b2)) <= Cardinality(Present(b))
  BY <1>1, FS_Subset, FS_CardinalityType
<1>3. Cardinality(Present(b2)) <= MaxEntries
  BY <1>1, <1>2, CapAssumption
<1>4. ASSUME NEW k \in Present(b2)
      PROVE  /\ b2[k].generation = p2[NamespaceOf(k)]
             /\ Cardinality(Own(b2, NamespaceOf(k))) <= Config[p2[NamespaceOf(k)]].max_clients
  <2> DEFINE n == NamespaceOf(k)
  <2>1. k \in Present(b) /\ b2[k].generation = b[k].generation /\ p2[n] = p[n]
    BY <1>4
  <2>2. b[k].generation = p[n] /\ Cardinality(Own(b, n)) <= Config[p[n]].max_clients
    BY <1>1, <2>1
  <2>3. /\ Own(b2, n) \in SUBSET Own(b, n)
        /\ IsFiniteSet(Own(b, n)) /\ Cardinality(Own(b, n)) \in Nat
        /\ IsFiniteSet(Own(b2, n)) /\ Cardinality(Own(b2, n)) \in Nat
    <3>1. Own(b2, n) \in SUBSET Own(b, n)
      BY DEF Own
    <3> QED BY <1>1, <1>2, <3>1, OwnFinite
  <2>4. Cardinality(Own(b2, n)) <= Cardinality(Own(b, n))
    BY <2>3, FS_Subset
  <2>5. Config[p[n]].max_clients \in Nat
    BY ProfileIs
  <2> HIDE DEF n
  <2>6. Cardinality(Own(b2, n)) <= Config[p[n]].max_clients
    BY <2>2, <2>3, <2>4, <2>5
  <2> QED BY <2>1, <2>2, <2>6 DEF n
<1> QED BY <1>2, <1>3, <1>4 DEF BucketOK

(* One more client, where there was room. *)
LEMMA BucketGrows ==
  ASSUME NEW b \in Bucket, NEW ct \in [Namespaces -> Nat], NEW p \in [Namespaces -> Generations \cup {Off}],
         BucketOK(b, ct, p), NEW k \in Keys, k \notin Present(b),
         NEW g \in Generations, p[NamespaceOf(k)] = g,
         ~(ct[NamespaceOf(k)] >= Config[g].max_clients),
         ~(Cardinality(Present(b)) >= MaxEntries),
         NEW c \in Client, c.incarnation # 0, c.generation = g
  PROVE  /\ Present([b EXCEPT ![k] = c]) = Present(b) \cup {k}
         /\ BucketOK([b EXCEPT ![k] = c], [ct EXCEPT ![NamespaceOf(k)] = @ + 1], p)
<1> DEFINE b2 == [b EXCEPT ![k] = c]
           m == NamespaceOf(k)
           ct2 == [ct EXCEPT ![m] = @ + 1]
<1>1. /\ IsFiniteSet(Present(b)) /\ Cardinality(Present(b)) \in Nat
      /\ \A n \in Namespaces : ct[n] = Cardinality(Own(b, n))
      /\ \A j \in Present(b) : /\ b[j].generation = p[NamespaceOf(j)]
                               /\ Cardinality(Own(b, NamespaceOf(j)))
                                    <= Config[p[NamespaceOf(j)]].max_clients
  BY FS_CardinalityType DEF BucketOK
<1>2. m \in Namespaces
  BY KeyIs
<1>3. b2[k] = c /\ \A j \in Keys : j # k => b2[j] = b[j]
  BY DEF Bucket
<1>4. Present(b2) = Present(b) \cup {k}
  BY <1>3 DEF Present
<1> HIDE DEF b2
<1>5. IsFiniteSet(Present(b2)) /\ Cardinality(Present(b2)) = Cardinality(Present(b)) + 1
  BY <1>1, <1>4, FS_AddElement
<1>6. Cardinality(Present(b2)) <= MaxEntries
  BY <1>1, <1>5, CapAssumption
<1>7. Own(b2, m) = Own(b, m) \cup {k} /\ k \notin Own(b, m)
      /\ \A n \in Namespaces : n # m => Own(b2, n) = Own(b, n)
  BY <1>4 DEF Own
<1>8. Cardinality(Own(b2, m)) = Cardinality(Own(b, m)) + 1 /\ Cardinality(Own(b, m)) \in Nat
  <2>1. IsFiniteSet(Own(b, m)) /\ Cardinality(Own(b, m)) \in Nat
    BY <1>1, OwnFinite
  <2> QED BY <1>7, <2>1, FS_AddElement
<1>9. \A n \in Namespaces : ct2[n] = Cardinality(Own(b2, n))
  BY <1>1, <1>2, <1>7, <1>8
<1>10. Cardinality(Own(b2, m)) <= Config[g].max_clients
  <2>1. Config[g].max_clients \in Nat /\ ct[m] = Cardinality(Own(b, m))
    BY <1>1, <1>2, ProfileIs
  <2> QED BY <1>8, <2>1
<1>11. ASSUME NEW j \in Present(b2)
       PROVE  /\ b2[j].generation = p[NamespaceOf(j)]
              /\ Cardinality(Own(b2, NamespaceOf(j))) <= Config[p[NamespaceOf(j)]].max_clients
  <2>1. CASE j = k
    BY <1>3, <1>10, <2>1
  <2>2. CASE j # k
    <3>1. j \in Present(b) /\ j \in Keys /\ b2[j] = b[j]
      BY <1>3, <1>4, <2>2 DEF Present
    <3>2. CASE NamespaceOf(j) = m
      BY <1>1, <1>10, <3>1, <3>2
    <3>3. CASE NamespaceOf(j) # m
      BY <1>1, <1>7, <3>1, <3>3, KeyIs
    <3> QED BY <3>2, <3>3
  <2> QED BY <2>1, <2>2
<1>12. BucketOK(b2, ct2, p)
  <2> HIDE DEF ct2
  <2> QED BY <1>5, <1>6, <1>9, <1>11 DEF BucketOK
<1> QED BY <1>4, <1>12 DEF b2

LEMMA EmptyBucketIs ==
  ASSUME NEW p
  PROVE  /\ EmptyBucket \in Bucket /\ Present(EmptyBucket) = {}
         /\ NoCounts \in [Namespaces -> Nat] /\ BucketOK(EmptyBucket, NoCounts, p)
<1>1. EmptyBucket \in Bucket /\ Present(EmptyBucket) = {}
  BY NoClientTyped DEF EmptyBucket, Bucket, Present
<1>2. NoCounts \in [Namespaces -> Nat] /\ \A n \in Namespaces : NoCounts[n] = 0
  BY DEF NoCounts
<1>3. \A n : Own(EmptyBucket, n) = {}
  BY <1>1 DEF Own
<1>4. 0 <= MaxEntries
  BY CapAssumption
<1> QED BY <1>1, <1>2, <1>3, <1>4, FS_EmptySet DEF BucketOK

(* The same clients. *)
LEMMA BucketSame ==
  ASSUME NEW b \in Bucket, NEW ct, NEW p, BucketOK(b, ct, p), NEW b2 \in Bucket,
         \A k \in Keys : b2[k].incarnation = b[k].incarnation /\ b2[k].generation = b[k].generation
  PROVE  Present(b2) = Present(b) /\ BucketOK(b2, ct, p)
<1>1. Present(b2) = Present(b) /\ \A k \in Present(b) : k \in Keys
  BY DEF Present
<1>2. \A n : Own(b2, n) = Own(b, n)
  BY <1>1 DEF Own
<1> QED BY <1>1, <1>2 DEF BucketOK

LEMMA CountsFollow == ASSUME TypeOK, BucketsOK PROVE CountsAreExact
<1>1. ASSUME NEW d \in Domains, NEW n \in Namespaces
      PROVE  /\ counts[d][n] = Cardinality({k \in Present(client[d]) : NamespaceOf(k) = n})
             /\ \A k \in {j \in Present(client[d]) : NamespaceOf(j) = n} :
                  /\ client[d][k].generation = profiles[n]
                  /\ Cardinality({j \in Present(client[d]) : NamespaceOf(j) = n})
                       <= Conf(k).max_clients
  <2>1. BucketOK(client[d], counts[d], profiles)
    BY DEF BucketsOK
  <2>2. Own(client[d], n) = {j \in Present(client[d]) : NamespaceOf(j) = n}
    BY DEF Own
  <2> QED BY <2>1, <2>2 DEF BucketOK, Conf
<1>2. ASSUME NEW d \in Domains
      PROVE  /\ Cardinality(Present(client[d])) <= MaxEntries
             /\ Present(client[d]) # {} => d \in domains
  BY DEF BucketsOK, BucketOK
<1>3. Cardinality(domains) <= MaxDomains
  BY DEF BucketsOK
<1> QED BY <1>1, <1>2, <1>3 DEF CountsAreExact

(* A bucket is made for a domain where there is room for one. *)
LEMMA DomainAdded ==
  ASSUME BucketsOK, NEW d, d \in domains \/ Cardinality(domains) < MaxDomains
  PROVE  IsFiniteSet(domains \cup {d}) /\ Cardinality(domains \cup {d}) <= MaxDomains
<1>1. IsFiniteSet(domains) /\ Cardinality(domains) \in Nat /\ Cardinality(domains) <= MaxDomains
  BY FS_CardinalityType DEF BucketsOK
<1>2. /\ IsFiniteSet(domains \cup {d})
      /\ Cardinality(domains \cup {d}) =
           IF d \in domains THEN Cardinality(domains) ELSE Cardinality(domains) + 1
  BY <1>1, FS_AddElement
<1> QED BY <1>1, <1>2, CapAssumption

-----------------------------------------------------------------------------
(* Steps that make no ban.                                                   *)

LEMMA SameBan ==
  ASSUME TypeOK, SeqsUnique,
         NEW d \in Domains, NEW k \in Keys, NEW b \in client[d][k].ban,
         NEW d2 \in Domains, NEW k2 \in Keys, NEW x \in client[d2][k2].ban, b.seq = x.seq
  PROVE  d = d2 /\ k = k2 /\ b = x
<1>1. client \in Buckets /\ client[d][k] \in Client /\ client[d2][k2] \in Client
  BY TypedState
<1>2. PICK h \in Held(client) : /\ h.seq = b.seq /\ h.deadline = b.deadline
                                /\ h.domain = d /\ h.key = k
  BY <1>1, PlaceIsHeld
<1>3. PICK g \in Held(client) : /\ g.seq = x.seq /\ g.deadline = x.deadline
                                /\ g.domain = d2 /\ g.key = k2
  BY <1>1, PlaceIsHeld
<1>4. g = h
  BY <1>2, <1>3 DEF SeqsUnique
<1>5. b \in [seq : Nat, deadline : Nat] /\ x \in [seq : Nat, deadline : Nat]
  BY <1>1, ClientFields
<1>6. b.deadline = x.deadline
  BY <1>2, <1>3, <1>4
<1>7. b = x
  BY <1>5, <1>6
<1> QED BY <1>2, <1>3, <1>4, <1>7

(* A client is left alone, loses its ban, is dropped, or is made. *)
Mild(c, e, i) ==
  \/ /\ e.incarnation = c.incarnation /\ e.generation = c.generation
     /\ e.ban = c.ban /\ c.reset <= e.reset
  \/ /\ e.incarnation = c.incarnation /\ e.generation = c.generation
     /\ c.ban # {} /\ e.ban = {} /\ c.reset < e.reset
  \/ e = NoClient
  \/ e.incarnation = i + 1 /\ e.ban = {} /\ e.generation \in Generations

LEMMA MildIs ==
  ASSUME NEW c \in Client, NEW e \in Client, NEW q \in Nat, NEW i \in Nat,
         NEW q2 \in Nat, NEW i2 \in Nat, q <= q2, i <= i2, Sound(c, q, i), Mild(c, e, i),
         e.incarnation = i + 1 => i + 1 <= i2
  PROVE  Sound(e, q2, i2) /\ StepOf(c, e, i) /\ e.ban \subseteq c.ban
<1>1. /\ c.incarnation \in Nat /\ c.reset \in Nat /\ c.ban \subseteq [seq : Nat, deadline : Nat]
      /\ e.incarnation \in Nat /\ e.reset \in Nat
  BY ClientFields
<1>2. /\ c.incarnation <= i
      /\ c.incarnation = 0 => c.ban = {}
      /\ c.incarnation # 0 => c.generation \in Generations
      /\ \A b \in c.ban : b.seq <= q
      /\ \A a, b \in c.ban : a = b
  BY DEF Sound
<1>3. \A b \in c.ban : b.seq <= q2
  BY <1>1, <1>2
<1>4. c.incarnation <= i2
  BY <1>1, <1>2
<1>5. CASE /\ e.incarnation = c.incarnation /\ e.generation = c.generation
           /\ e.ban = c.ban /\ c.reset <= e.reset
  BY <1>2, <1>3, <1>4, <1>5 DEF Sound, StepOf
<1>6. CASE /\ e.incarnation = c.incarnation /\ e.generation = c.generation
           /\ c.ban # {} /\ e.ban = {} /\ c.reset < e.reset
  <2>1. c.reset <= e.reset
    BY <1>1, <1>6
  <2> QED BY <1>2, <1>4, <1>6, <2>1 DEF Sound, StepOf
<1>7. CASE e = NoClient
  <2>1. e.incarnation = 0 /\ e.ban = {} /\ 0 <= i2
    BY <1>7, NoClientTyped
  <2> QED BY <2>1 DEF Sound, StepOf
<1>8. CASE e.incarnation = i + 1 /\ e.ban = {} /\ e.generation \in Generations
  <2>1. e.incarnation # 0 /\ e.incarnation <= i2
    BY <1>8
  <2> QED BY <1>8, <2>1 DEF Sound, StepOf
<1> QED BY <1>5, <1>6, <1>7, <1>8 DEF Mild

(* What every step that makes no ban has in common. *)
LEMMA MildStep ==
  ASSUME TypeOK, ClientsOK, client' \in Buckets, sequence' = sequence, incarnation' \in Nat,
         incarnation <= incarnation',
         \A d \in Domains, k \in Keys :
           /\ Mild(client[d][k], client'[d][k], incarnation)
           /\ client'[d][k].incarnation = incarnation + 1 => incarnation + 1 <= incarnation'
  PROVE  ClientsOK' /\ ClientsStep /\ NewOnly /\ Held(client') \subseteq Held(client)
<1>1. /\ client \in Buckets /\ sequence \in Nat /\ incarnation \in Nat /\ sequence <= sequence
  BY TypedState
<1>2. ASSUME NEW d \in Domains, NEW k \in Keys
      PROVE  /\ Sound(client'[d][k], sequence, incarnation')
             /\ StepOf(client[d][k], client'[d][k], incarnation)
             /\ client'[d][k].ban \subseteq client[d][k].ban
  <2>1. client[d][k] \in Client /\ client'[d][k] \in Client
    BY <1>1 DEF Buckets
  <2>2. Sound(client[d][k], sequence, incarnation) /\ Mild(client[d][k], client'[d][k], incarnation)
    BY DEF ClientsOK
  <2> QED BY <1>1, <2>1, <2>2, MildIs
<1>3. Held(client') \subseteq Held(client)
  <2> SUFFICES ASSUME NEW h \in Held(client') PROVE h \in Held(client)
    OBVIOUS
  <2>1. h \in Active /\ BanIn(h) \in client'[h.domain][h.key].ban
    BY HeldIs
  <2>2. h.domain \in Domains /\ h.key \in Keys
    BY <2>1 DEF Active
  <2> QED BY <1>1, <1>2, <2>1, <2>2, HeldIs
<1> QED BY <1>2, <1>3 DEF ClientsOK, ClientsStep, NewOnly

LEMMA SettleIsMild ==
  ASSUME NEW c \in Client, NEW now \in Nat, \A a, b \in c.ban : a = b, NEW i
  PROVE  Mild(c, Settle(c, now), i)
<1>1. c.reset \in Nat
  BY ClientFields
<1>2. CASE Settle(c, now) = c
  BY <1>1, <1>2 DEF Mild
<1>3. CASE c.ban # {} /\ Settle(c, now) = Reset(c)
  <2>1. c.reset < c.reset + 1
    BY <1>1
  <2> QED BY <1>3, <2>1, ResetTyped DEF Mild
<1> QED BY <1>2, <1>3, SettleIs

(* One client of one bucket is replaced. *)
LEMMA OneReplaced ==
  ASSUME TypeOK, NEW d \in Domains, NEW k \in Keys, NEW e \in Client,
         client' = [client EXCEPT ![d][k] = e]
  PROVE  /\ client' \in Buckets
         /\ client'[d][k] = e
         /\ \A d2 \in Domains, k2 \in Keys : d2 # d \/ k2 # k => client'[d2][k2] = client[d2][k2]
BY TypedState DEF Buckets

LEMMA OneLoses ==
  ASSUME TypeOK, SeqsUnique, NEW d \in Domains, NEW k \in Keys, NEW e \in Client,
         client' = [client EXCEPT ![d][k] = e], NEW S,
         S \subseteq {b.seq : b \in client[d][k].ban},
         e.ban = {b \in client[d][k].ban : b.seq \notin S}
  PROVE  Loses(client, client', S)
<1>1. client \in Buckets
  BY TypedState
<1>2. ASSUME NEW s \in S PROVE \E h \in Held(client) : h.seq = s
  <2>1. PICK b \in client[d][k].ban : s = b.seq
    OBVIOUS
  <2> QED BY <1>1, <2>1, PlaceIsHeld
<1>3. ASSUME NEW d2 \in Domains, NEW k2 \in Keys
      PROVE  client'[d2][k2].ban = {b \in client[d2][k2].ban : b.seq \notin S}
  <2>1. CASE d2 = d /\ k2 = k
    <3>1. client'[d][k] = e
      BY <1>1 DEF Buckets
    <3> QED BY <2>1, <3>1
  <2>2. CASE d2 # d \/ k2 # k
    <3>1. client'[d2][k2] = client[d2][k2]
      BY <2>2, OneReplaced
    <3>2. ASSUME NEW b \in client[d2][k2].ban, b.seq \in S PROVE FALSE
      <4>1. PICK x \in client[d][k].ban : b.seq = x.seq
        BY <3>2
      <4> QED BY <2>2, <4>1, SameBan
    <3> QED BY <3>1, <3>2
  <2> QED BY <2>1, <2>2
<1> QED BY <1>2, <1>3 DEF Loses

(* The buckets keep their clients. *)
LEMMA SameClients ==
  ASSUME TypeOK, BucketsOK, client' \in Buckets, counts' = counts, profiles' = profiles,
         domains \subseteq domains', IsFiniteSet(domains'), Cardinality(domains') <= MaxDomains,
         \A d \in Domains : \A k \in Keys :
           /\ client'[d][k].incarnation = client[d][k].incarnation
           /\ client'[d][k].generation = client[d][k].generation
  PROVE  BucketsOK'
<1>1. ASSUME NEW d \in Domains
      PROVE  BucketOK(client'[d], counts'[d], profiles') /\ (Present(client'[d]) # {} => d \in domains')
  <2>1. client[d] \in Bucket /\ client'[d] \in Bucket
    BY TypedState DEF Buckets, Bucket
  <2>2. BucketOK(client[d], counts[d], profiles) /\ (Present(client[d]) # {} => d \in domains)
    BY DEF BucketsOK
  <2>3. \A k \in Keys : /\ client'[d][k].incarnation = client[d][k].incarnation
                        /\ client'[d][k].generation = client[d][k].generation
    OBVIOUS
  <2>4. Present(client'[d]) = Present(client[d]) /\ BucketOK(client'[d], counts[d], profiles)
    BY <2>1, <2>2, <2>3, BucketSame
  <2> QED BY <2>2, <2>4
<1> QED BY <1>1 DEF BucketsOK

-----------------------------------------------------------------------------
(* What a step achieves, its tickets aside.                                  *)

TypesStep ==
  /\ profiles' \in [Namespaces -> Generations \cup {Off}]
  /\ hosts' \subseteq Domains /\ domains' \subseteq hosts'
  /\ client' \in Buckets /\ counts' \in [Domains -> [Namespaces -> Nat]]
  /\ active' \subseteq Active /\ expiry' \subseteq Nat \X Nat
  /\ sequence' \in 0 .. MaxSequence /\ incarnation' \in 0 .. MaxIncarnation
  /\ clock' \in 0 .. MaxClock
  /\ ended' \subseteq Nat

Effects ==
  /\ TypesStep
  /\ ClientsOK' /\ SeqsUnique' /\ IndexIsExact' /\ BucketsOK'
  /\ ClientsStep /\ NewOnly
  /\ incarnation <= incarnation' /\ clock <= clock'
  /\ EndsStep /\ HoldsStep

EvidenceStep ==
  \A r \in Requests : \A t \in ticket[r] \ ticket'[r] :
    void[r] \/ client[t.domain][t.key].ban # {}
    => /\ sequence' = sequence
       /\ client'[t.domain][t.key].counters \in {client[t.domain][t.key].counters, NoCounters}
       /\ client'[t.domain][t.key].ban \subseteq client[t.domain][t.key].ban

TicketEffects ==
  /\ TicketStep /\ EvidenceStep
  /\ ticket' \in [Requests -> SUBSET Ticket]

(* No ticket is returned. *)
LEMMA TicketsUntouched ==
  ASSUME TypeOK, ticket' = ticket
  PROVE  TicketEffects
BY DEF TicketEffects, TicketStep, EvidenceStep, TypeOK

LEMMA TicketIssued ==
  ASSUME TypeOK, NEW r \in Requests, NEW c \in Client, NEW d \in Domains, NEW k \in Keys,
         NEW login \in BOOLEAN, NEW path \in Paths, ticket[r] = {},
         Issue(r, c, d, k, login, path), c = client'[d][k],
         c.generation \in Generations, c.incarnation # 0, c.incarnation <= incarnation'
  PROVE  TicketEffects
<1> DEFINE t == [generation |-> c.generation, incarnation |-> c.incarnation, reset |-> c.reset,
                 domain |-> d, key |-> k, login |-> login, path |-> path]
<1>1. c.incarnation \in Nat /\ c.reset \in Nat
  BY ClientFields
<1>2. t \in Ticket
  BY <1>1 DEF Ticket
<1>3. t.incarnation = c.incarnation /\ t.reset = c.reset /\ t.domain = d /\ t.key = k
  OBVIOUS
<1>4. ticket' = [ticket EXCEPT ![r] = {t}]
  BY DEF Issue
<1> HIDE DEF t
<1>5. ticket \in [Requests -> SUBSET Ticket]
  BY DEF TypeOK
<1>6. /\ ticket' \in [Requests -> SUBSET Ticket] /\ ticket'[r] = {t}
      /\ \A q \in Requests : q # r => ticket'[q] = ticket[q]
  BY <1>2, <1>4, <1>5
<1>7. TicketStep
  BY <1>2, <1>3, <1>6 DEF TicketStep
<1>8. EvidenceStep
  BY <1>6 DEF EvidenceStep
<1> QED BY <1>6, <1>7, <1>8 DEF TicketEffects

LEMMA TicketReturned ==
  ASSUME TypeOK, TicketsOK, NEW r \in Requests, NEW t \in ticket[r], Return(r),
         void[r] \/ client[t.domain][t.key].ban # {}
         => /\ sequence' = sequence
            /\ client'[t.domain][t.key].counters \in {client[t.domain][t.key].counters, NoCounters}
            /\ client'[t.domain][t.key].ban \subseteq client[t.domain][t.key].ban
  PROVE  TicketEffects
<1>1. ticket \in [Requests -> SUBSET Ticket] /\ ticket' = [ticket EXCEPT ![r] = {}]
  BY DEF TypeOK, Return
<1>2. /\ ticket' \in [Requests -> SUBSET Ticket] /\ ticket'[r] = {}
      /\ \A q \in Requests : q # r => ticket'[q] = ticket[q]
  BY <1>1
<1>3. TicketStep
  BY <1>2 DEF TicketStep
<1>4. \A u \in ticket[r] : u = t
  BY DEF TicketsOK
<1>5. ASSUME NEW q \in Requests, NEW u \in ticket[q] \ ticket'[q] PROVE q = r /\ u = t
  BY <1>2, <1>4
<1>6. EvidenceStep
  BY <1>5 DEF EvidenceStep
<1> QED BY <1>2, <1>3, <1>6 DEF TicketEffects

(* One client is settled, or settled and released. *)
LEMMA OneClientStep ==
  ASSUME RegistryInv, NEW d \in Domains, NEW k \in Keys, NEW e \in Client,
         client' = [client EXCEPT ![d][k] = e], NEW S,
         S \subseteq {b.seq : b \in client[d][k].ban},
         e.ban = {b \in client[d][k].ban : b.seq \notin S},
         Mild(client[d][k], e, incarnation),
         e.incarnation = client[d][k].incarnation, e.generation = client[d][k].generation,
         RemoveActive(S), ended' = S,
         \A b \in client[d][k].ban : b.seq \in S => b.deadline <= clock \/ b.seq \in asked',
         domains \subseteq domains', domains' \subseteq hosts,
         IsFiniteSet(domains'), Cardinality(domains') <= MaxDomains,
         UNCHANGED <<profiles, hosts, counts, sequence, incarnation, clock>>
  PROVE  Effects
<1> USE DEF RegistryInv
<1>1. /\ client \in Buckets /\ sequence \in Nat /\ incarnation \in Nat /\ clock \in Nat
      /\ client[d][k] \in Client
  BY TypedState
<1>2. /\ client' \in Buckets /\ client'[d][k] = e
      /\ \A d2 \in Domains, k2 \in Keys : d2 # d \/ k2 # k => client'[d2][k2] = client[d2][k2]
  BY <1>1 DEF Buckets
<1>3. Loses(client, client', S)
  BY OneLoses
<1>4. IndexIsExact' /\ SeqsUnique' /\ active' \subseteq Active /\ expiry' \subseteq Nat \X Nat
  BY <1>2, <1>3, IndexAfterLoss
<1>5. ASSUME NEW h \in Held(client), h.seq \in S PROVE h.deadline <= clock \/ h.seq \in asked'
  <2>1. h \in Active /\ BanIn(h) \in client[h.domain][h.key].ban
    BY <1>1, HeldIs
  <2>2. h.domain \in Domains /\ h.key \in Keys /\ BanIn(h).seq = h.seq /\ BanIn(h).deadline = h.deadline
    BY <2>1 DEF Active, BanIn
  <2>3. PICK b \in client[d][k].ban : h.seq = b.seq
    BY <1>5
  <2>4. BanIn(h) = b
    BY <2>1, <2>2, <2>3, SameBan
  <2> QED BY <1>5, <2>2, <2>3, <2>4
<1>6. EndsStep /\ HoldsStep
  BY <1>2, <1>3, <1>5, LossIsAnnounced
<1>7. ASSUME NEW d2 \in Domains, NEW k2 \in Keys
      PROVE  /\ Mild(client[d2][k2], client'[d2][k2], incarnation)
             /\ client'[d2][k2].incarnation = client[d2][k2].incarnation
             /\ client'[d2][k2].generation = client[d2][k2].generation
  <2>1. CASE d2 = d /\ k2 = k
    BY <1>2, <2>1
  <2>2. CASE d2 # d \/ k2 # k
    <3>1. client'[d2][k2] = client[d2][k2] /\ client[d2][k2].reset \in Nat
      BY <1>1, <1>2, <2>2, TypedState, ClientFields
    <3>2. client[d2][k2].reset <= client'[d2][k2].reset
      BY <3>1
    <3> QED BY <3>1, <3>2 DEF Mild
  <2> QED BY <2>1, <2>2
<1>8. ASSUME NEW d2 \in Domains, NEW k2 \in Keys
      PROVE  client'[d2][k2].incarnation # incarnation + 1
  <2>1. client[d2][k2].incarnation \in Nat /\ client[d2][k2].incarnation <= incarnation
    BY TypedState, ClientFields DEF ClientsOK, Sound
  <2> QED BY <1>1, <1>7, <2>1
<1>9. ClientsOK' /\ ClientsStep /\ NewOnly
  BY <1>1, <1>2, <1>7, <1>8, MildStep
<1>10. BucketsOK'
  BY <1>2, <1>7, SameClients
<1>11. TypesStep
  <2>1. ended' \subseteq Nat
    <3>1. \A b \in client[d][k].ban : b.seq \in Nat
      BY <1>1, ClientFields
    <3> QED BY <3>1
  <2> QED BY <1>2, <1>4, <2>1 DEF TypesStep, TypeOK
<1> QED BY <1>1, <1>4, <1>6, <1>9, <1>10, <1>11 DEF Effects

(* Settling one client ends what is due of its ban. *)
LEMMA SettledOne ==
  ASSUME TypeOK, ClientsOK, NEW d \in Domains, NEW k \in Keys
  PROVE  /\ Settle(client[d][k], clock) \in Client
         /\ Expired(client[d], {k}, clock) \subseteq {b.seq : b \in client[d][k].ban}
         /\ Settle(client[d][k], clock).ban =
              {b \in client[d][k].ban : b.seq \notin Expired(client[d], {k}, clock)}
         /\ \A b \in client[d][k].ban : b.seq \in Expired(client[d], {k}, clock) => b.deadline <= clock
         /\ Mild(client[d][k], Settle(client[d][k], clock), incarnation)
         /\ Settle(client[d][k], clock).incarnation = client[d][k].incarnation
         /\ Settle(client[d][k], clock).generation = client[d][k].generation
<1> DEFINE c == client[d][k]
<1>1. c \in Client /\ clock \in Nat /\ \A a, b \in c.ban : a = b
  BY TypedState DEF ClientsOK, Sound
<1>2. \A s : s \in Expired(client[d], {k}, clock) <=>
               \E x \in client[d][k].ban : x.deadline <= clock /\ s = x.seq
  BY ExpiredIs
<1>3. Due(c, clock) = {b \in c.ban : b.deadline <= clock}
  BY DEF Due
<1>4. Settle(c, clock).ban = c.ban \ Due(c, clock) /\ Settle(c, clock) \in Client
      /\ Settle(c, clock).generation = c.generation /\ Settle(c, clock).incarnation = c.incarnation
  BY <1>1, SettleIs
<1>5. Mild(c, Settle(c, clock), incarnation)
  BY <1>1, SettleIsMild
<1>6. \A b \in c.ban : b.seq \in Expired(client[d], {k}, clock) <=> b.deadline <= clock
  BY <1>1, <1>2
<1>7. Settle(c, clock).ban = {b \in c.ban : b.seq \notin Expired(client[d], {k}, clock)}
  BY <1>3, <1>4, <1>6
<1>8. Expired(client[d], {k}, clock) \subseteq {b.seq : b \in client[d][k].ban}
  BY <1>2
<1> QED BY <1>4, <1>5, <1>6, <1>7, <1>8

-----------------------------------------------------------------------------
(* Admissions and observations of a client that is there.                    *)

LEMMA ReachesRoom ==
  ASSUME RegistryInv, NEW r, NEW d \in Domains, NEW k \in Keys, Reaches(r, d, k)
  PROVE  /\ domains \subseteq domains \cup {d} /\ domains \cup {d} \subseteq hosts
         /\ IsFiniteSet(domains \cup {d}) /\ Cardinality(domains \cup {d}) <= MaxDomains
         /\ profiles[NamespaceOf(k)] \in Generations
<1>1. d \in hosts /\ profiles[NamespaceOf(k)] # Off
      /\ (d \in domains \/ Cardinality(domains) < MaxDomains)
  BY DEF Reaches
<1>2. IsFiniteSet(domains \cup {d}) /\ Cardinality(domains \cup {d}) <= MaxDomains
  BY <1>1, DomainAdded DEF RegistryInv
<1> QED BY <1>1, <1>2, KeyIs DEF RegistryInv, TypeOK

LEMMA AdmitUnwatchedStep ==
  ASSUME RegistryInv, NEW r \in Requests, NEW d \in Domains, NEW k \in Keys,
         AdmitUnwatched(r, d, k)
  PROVE  Effects /\ TicketEffects /\ asked' \subseteq Nat /\ page' = {} /\ lister' = lister
<1> DEFINE c == client[d][k]
           over == Expired(client[d], {k}, clock)
<1>1. TypeOK /\ ClientsOK
  BY DEF RegistryInv
<1>2. /\ Reaches(r, d, k) /\ domains' = domains \cup {d}
      /\ client' = [client EXCEPT ![d][k] = Settle(@, clock)]
      /\ RemoveActive(over) /\ ended' = over /\ asked' = {} /\ page' = {}
      /\ UNCHANGED <<profiles, hosts, counts, sequence, incarnation, ticket, lister, clock>>
  BY DEF AdmitUnwatched, Announce
<1>3. client' = [client EXCEPT ![d][k] = Settle(c, clock)]
  BY <1>1, <1>2 DEF TypeOK
<1>4. /\ Settle(c, clock) \in Client
      /\ over \subseteq {b.seq : b \in c.ban}
      /\ Settle(c, clock).ban = {b \in c.ban : b.seq \notin over}
      /\ \A b \in c.ban : b.seq \in over => b.deadline <= clock
      /\ Mild(c, Settle(c, clock), incarnation)
      /\ Settle(c, clock).incarnation = c.incarnation
      /\ Settle(c, clock).generation = c.generation
  BY <1>1, SettledOne
<1>5. /\ domains \subseteq domains' /\ domains' \subseteq hosts
      /\ IsFiniteSet(domains') /\ Cardinality(domains') <= MaxDomains
  BY <1>2, ReachesRoom
<1>6. Effects
  <2> DEFINE e == Settle(c, clock)
  <2> HIDE DEF over, e
  <2> QED BY <1>2, <1>3, <1>4, <1>5, OneClientStep DEF e
<1>7. TicketEffects
  BY <1>1, <1>2, TicketsUntouched
<1> QED BY <1>2, <1>6, <1>7

LEMMA AdmitKnownStep ==
  ASSUME RegistryInv, NEW r \in Requests, NEW d \in Domains, NEW k \in Keys,
         NEW login \in BOOLEAN, NEW path \in Paths, AdmitKnown(r, d, k, login, path)
  PROVE  Effects /\ TicketEffects /\ asked' \subseteq Nat /\ page' = {} /\ lister' = lister
<1> DEFINE c == client[d][k]
           s == Settle(c, clock)
           e == Touched(s, k)
           over == Expired(client[d], {k}, clock)
<1>1. TypeOK /\ ClientsOK /\ BucketsOK
  BY DEF RegistryInv
<1>2. /\ Reaches(r, d, k) /\ k \in Present(client[d])
      /\ client' = [client EXCEPT ![d][k] = e]
      /\ RemoveActive(over) /\ ended' = over /\ asked' = {} /\ page' = {}
      /\ Issue(r, e, d, k, login, path)
      /\ UNCHANGED <<profiles, hosts, domains, counts, sequence, incarnation, lister, clock>>
  BY DEF AdmitKnown, Announce
<1>3. /\ s \in Client
      /\ over \subseteq {b.seq : b \in c.ban}
      /\ s.ban = {b \in c.ban : b.seq \notin over}
      /\ \A b \in c.ban : b.seq \in over => b.deadline <= clock
      /\ Mild(c, s, incarnation)
      /\ s.incarnation = c.incarnation /\ s.generation = c.generation
  BY <1>1, SettledOne
<1>4. profiles[NamespaceOf(k)] \in Generations
  BY <1>2, ReachesRoom
<1>5. /\ e \in Client
      /\ e.generation = s.generation /\ e.incarnation = s.incarnation
      /\ e.reset = s.reset /\ e.ban = s.ban
  <2> HIDE DEF s
  <2> QED BY <1>1, <1>3, <1>4, TouchedIs
<1>6. c.incarnation # 0 /\ c.generation \in Generations /\ c.incarnation <= incarnation
  BY <1>1, <1>2 DEF Present, ClientsOK, Sound
<1> HIDE DEF over, s, e
<1>7. Mild(c, e, incarnation)
  <2>1. s # NoClient
    BY <1>3, <1>6, NoClientTyped
  <2>2. s.incarnation # incarnation + 1
    <3>1. c.incarnation \in Nat /\ incarnation \in Nat
      BY <1>1, TypedState, ClientFields
    <3> QED BY <1>3, <1>6, <3>1
  <2> QED BY <1>3, <1>5, <2>1, <2>2 DEF Mild
<1>8. Effects
  <2>1. /\ domains \subseteq domains' /\ domains' \subseteq hosts
        /\ IsFiniteSet(domains') /\ Cardinality(domains') <= MaxDomains
    BY <1>1, <1>2 DEF BucketsOK, TypeOK
  <2>2. e.incarnation = c.incarnation /\ e.generation = c.generation
        /\ e.ban = {b \in c.ban : b.seq \notin over}
    BY <1>3, <1>5
  <2> QED BY <1>2, <1>3, <1>5, <1>7, <2>1, <2>2, OneClientStep
<1>9. TicketEffects
  <2>1. client'[d][k] = e
    BY <1>1, <1>2, TypedState DEF Buckets
  <2>2. ticket[r] = {}
    BY <1>2 DEF Reaches
  <2>3. e.generation \in Generations /\ e.incarnation # 0 /\ e.incarnation <= incarnation'
    BY <1>2, <1>3, <1>5, <1>6
  <2> QED BY <1>1, <1>2, <1>5, <2>1, <2>2, <2>3, TicketIssued
<1> QED BY <1>2, <1>8, <1>9

LEMMA ObserveStaleStep ==
  ASSUME RegistryInv, NEW r \in Requests, NEW t \in ticket[r], ObserveStale(r, t)
  PROVE  Effects /\ TicketEffects /\ asked' \subseteq Nat /\ page' = {} /\ lister' = lister
<1> DEFINE d == t.domain
           k == t.key
           c == client[d][k]
           e == Settle(c, clock)
           over == Expired(client[d], {k}, clock)
<1>1. TypeOK /\ ClientsOK /\ BucketsOK /\ TicketsOK
  BY DEF RegistryInv
<1>2. /\ client' = [client EXCEPT ![d][k] = e]
      /\ RemoveActive(over) /\ ended' = over /\ asked' = {} /\ page' = {} /\ Return(r)
      /\ UNCHANGED <<profiles, hosts, domains, counts, sequence, incarnation, lister, clock>>
  BY DEF ObserveStale, Announce
<1>3. d \in Domains /\ k \in Keys
  BY <1>1 DEF TypeOK, Ticket
<1> HIDE DEF d, k
<1>4. /\ e \in Client
      /\ over \subseteq {b.seq : b \in c.ban}
      /\ e.ban = {b \in c.ban : b.seq \notin over}
      /\ \A b \in c.ban : b.seq \in over => b.deadline <= clock
      /\ Mild(c, e, incarnation)
      /\ e.incarnation = c.incarnation /\ e.generation = c.generation
  BY <1>1, <1>3, SettledOne
<1>5. e.counters \in {c.counters, NoCounters}
  <2>1. c \in Client /\ clock \in Nat /\ \A a, b \in c.ban : a = b
    BY <1>1, <1>3, TypedState DEF ClientsOK, Sound
  <2>2. e = c \/ e = Reset(c)
    BY <2>1, SettleIs
  <2> QED BY <2>1, <2>2, ResetTyped
<1> HIDE DEF over, e
<1>6. Effects
  <2>1. /\ domains \subseteq domains' /\ domains' \subseteq hosts
        /\ IsFiniteSet(domains') /\ Cardinality(domains') <= MaxDomains
    BY <1>1, <1>2 DEF BucketsOK, TypeOK
  <2> QED BY <1>2, <1>3, <1>4, <2>1, OneClientStep
<1>7. TicketEffects
  <2>1. client'[d][k] = e
    BY <1>1, <1>2, <1>3, TypedState DEF Buckets
  <2>2. e.ban \subseteq c.ban
    BY <1>4
  <2>3. /\ sequence' = sequence
        /\ client'[t.domain][t.key].counters \in {client[t.domain][t.key].counters, NoCounters}
        /\ client'[t.domain][t.key].ban \subseteq client[t.domain][t.key].ban
    BY <1>2, <1>5, <2>1, <2>2 DEF d, k
  <2> QED BY <1>1, <1>2, <2>3, TicketReturned
<1> QED BY <1>2, <1>6, <1>7

LEMMA ReleaseStep ==
  ASSUME RegistryInv, NEW d \in Domains, NEW k \in Keys, NEW s \in 1 .. sequence, Release(d, k, s)
  PROVE  Effects /\ TicketEffects /\ asked' \subseteq Nat /\ page' = {} /\ lister' = lister
<1> DEFINE b0 == client[d][k]
           over == Expired(client[d], {k}, clock)
           c == Settle(b0, clock)
           gone == over \cup (IF Releases(c, s) THEN {b.seq : b \in c.ban} ELSE {})
           e == IF Releases(c, s) THEN Reset(c) ELSE c
<1>1. TypeOK /\ ClientsOK /\ BucketsOK /\ SeqsUnique
  BY DEF RegistryInv
<1>2. /\ client' = [client EXCEPT ![d][k] = e]
      /\ RemoveActive(gone) /\ ended' = gone /\ asked' = {s} /\ page' = {}
      /\ UNCHANGED <<profiles, hosts, domains, counts, sequence, incarnation, ticket, lister, clock>>
  BY DEF Release
<1>3. /\ c \in Client
      /\ over \subseteq {b.seq : b \in b0.ban}
      /\ c.ban = {b \in b0.ban : b.seq \notin over}
      /\ \A b \in b0.ban : b.seq \in over => b.deadline <= clock
      /\ Mild(b0, c, incarnation)
      /\ c.incarnation = b0.incarnation /\ c.generation = b0.generation
  BY <1>1, SettledOne
<1>4. b0 \in Client /\ \A x, y \in b0.ban : x = y
  BY <1>1, TypedState DEF ClientsOK, Sound
<1>5. Reset(c) \in Client /\ Reset(c).generation = c.generation
      /\ Reset(c).incarnation = c.incarnation /\ Reset(c).reset = c.reset + 1 /\ Reset(c).ban = {}
  <2> HIDE DEF c
  <2> QED BY <1>3, ResetTyped
<1>6. c = b0 \/ c.ban = {}
  <2>1. clock \in Nat
    BY <1>1, TypedState
  <2> QED BY <1>4, <2>1, SettleIs, ResetTyped
<1> HIDE DEF c, over
<1>7. e \in Client /\ e.incarnation = b0.incarnation /\ e.generation = b0.generation
  BY <1>3, <1>5
<1>8. Releases(c, s) => c = b0 /\ b0.ban # {} /\ over = {}
  <2> SUFFICES ASSUME Releases(c, s) PROVE c = b0 /\ b0.ban # {} /\ over = {}
    OBVIOUS
  <2>1. c.ban # {}
    BY DEF Releases
  <2>2. c = b0
    BY <1>6, <2>1
  <2> QED BY <1>3, <2>1, <2>2
<1>9. gone \subseteq {b.seq : b \in b0.ban} /\ e.ban = {b \in b0.ban : b.seq \notin gone}
  <2>1. CASE Releases(c, s)
    <3>1. gone = {b.seq : b \in b0.ban} /\ e.ban = {}
      BY <1>5, <1>8, <2>1
    <3> QED BY <3>1
  <2>2. CASE ~Releases(c, s)
    <3>1. gone = over /\ e = c
      BY <2>2
    <3> QED BY <1>3, <3>1
  <2> QED BY <2>1, <2>2
<1>10. Mild(b0, e, incarnation)
  <2>1. CASE Releases(c, s)
    <3>1. e = Reset(c) /\ c = b0 /\ b0.ban # {} /\ b0.reset \in Nat
      BY <1>4, <1>8, <2>1, ClientFields
    <3>2. b0.reset < e.reset
      BY <1>5, <3>1
    <3> QED BY <1>5, <3>1, <3>2 DEF Mild
  <2>2. CASE ~Releases(c, s)
    BY <1>3, <2>2
  <2> QED BY <2>1, <2>2
<1>11. \A b \in b0.ban : b.seq \in gone => b.deadline <= clock \/ b.seq \in asked'
  <2>1. CASE Releases(c, s)
    <3>1. PICK x \in b0.ban : x.seq = s
      BY <1>8, <2>1 DEF Releases
    <3>2. \A b \in b0.ban : b = x
      BY <1>4
    <3> QED BY <1>2, <3>1, <3>2
  <2>2. CASE ~Releases(c, s)
    <3>1. gone = over
      BY <2>2
    <3> QED BY <1>3, <3>1
  <2> QED BY <2>1, <2>2
<1> HIDE DEF gone, e
<1>12. Effects
  <2>1. /\ domains \subseteq domains' /\ domains' \subseteq hosts
        /\ IsFiniteSet(domains') /\ Cardinality(domains') <= MaxDomains
    BY <1>1, <1>2 DEF BucketsOK, TypeOK
  <2> QED BY <1>2, <1>7, <1>9, <1>10, <1>11, <2>1, OneClientStep
<1>13. TicketEffects
  BY <1>1, <1>2, TicketsUntouched
<1>14. asked' \subseteq Nat
  BY <1>1, <1>2, TypedState
<1> QED BY <1>2, <1>12, <1>13, <1>14

-----------------------------------------------------------------------------
(* Admission of a client that is not there: the bucket may be swept first.   *)

(* What admission may leave in the bucket of d when the bans S are over. *)
Cleared(d, b, S) ==
  /\ b \in Bucket
  /\ \A j \in Keys : /\ Mild(client[d][j], b[j], incarnation)
                     /\ b[j].ban = {x \in client[d][j].ban : x.seq \notin S}

(* Every ban in S is a ban of d that is due. *)
Overdue(d, S) ==
  /\ \A s \in S : \E h \in Held(client) : h.seq = s
  /\ \A h \in Held(client) : h.seq \in S => h.domain = d /\ h.deadline <= clock

LEMMA SweptIs ==
  ASSUME RegistryInv, NEW d \in Domains
  PROVE  /\ Cleared(d, Swept(d), Expired(client[d], Keys, clock))
         /\ Overdue(d, Expired(client[d], Keys, clock))
         /\ SweptCounts(d) \in [Namespaces -> Nat]
         /\ BucketOK(Swept(d), SweptCounts(d), profiles)
         /\ Present(Swept(d)) \subseteq Present(client[d])
         /\ \A j \in Keys : Swept(d)[j].incarnation <= incarnation
<1> DEFINE b == client[d]
           over == Expired(client[d], Keys, clock)
<1>1. TypeOK /\ ClientsOK /\ SeqsUnique /\ BucketsOK
  BY DEF RegistryInv
<1>2. /\ clock \in Nat /\ incarnation \in Nat /\ client \in Buckets
      /\ \A j \in Keys : b[j] \in Client /\ \A x, y \in b[j].ban : x = y
  BY <1>1, TypedState DEF ClientsOK, Sound
<1>3. \A s : s \in over <=> \E j \in Keys : \E x \in b[j].ban : x.deadline <= clock /\ s = x.seq
  BY ExpiredIs
<1> HIDE DEF over
<1>4. ASSUME NEW j \in Keys, NEW x \in b[j].ban PROVE x.seq \in over <=> x.deadline <= clock
  <2>1. ASSUME x.seq \in over PROVE x.deadline <= clock
    <3>0. PICK j2 \in Keys : \E y \in b[j2].ban : y.deadline <= clock /\ x.seq = y.seq
      BY <1>3, <2>1
    <3>1. PICK y \in b[j2].ban : y.deadline <= clock /\ x.seq = y.seq
      BY <3>0
    <3>2. x = y
      BY <1>1, <3>1, SameBan
    <3> QED BY <3>1, <3>2
  <2> QED BY <1>3, <2>1
<1>5. ASSUME NEW j \in Keys
      PROVE  /\ Settle(b[j], clock) \in Client /\ Mild(b[j], Settle(b[j], clock), incarnation)
             /\ Settle(b[j], clock).ban = {x \in b[j].ban : x.seq \notin over}
             /\ Settle(b[j], clock).incarnation = b[j].incarnation
             /\ Settle(b[j], clock).generation = b[j].generation
  <2>1. /\ Settle(b[j], clock) \in Client
        /\ Settle(b[j], clock).ban = b[j].ban \ Due(b[j], clock)
        /\ Settle(b[j], clock).incarnation = b[j].incarnation
        /\ Settle(b[j], clock).generation = b[j].generation
    BY <1>2, SettleIs
  <2>2. Mild(b[j], Settle(b[j], clock), incarnation)
    BY <1>2, SettleIsMild
  <2>3. b[j].ban \ Due(b[j], clock) = {x \in b[j].ban : x.seq \notin over}
    BY <1>4 DEF Due
  <2> QED BY <2>1, <2>2, <2>3
<1>6. \A j \in Idlers(d) : j \in Present(b) /\ j \in Keys /\ Settle(b[j], clock).ban = {}
  BY DEF Idlers, Idle, Present
<1>7. \A j \in Keys : Swept(d)[j] = IF j \in Idlers(d) THEN NoClient ELSE Settle(b[j], clock)
  BY DEF Swept
<1>8. Swept(d) \in Bucket
  BY <1>5, NoClientTyped DEF Swept, Bucket
<1>9. Cleared(d, Swept(d), over)
  <2>1. ASSUME NEW j \in Keys
        PROVE  /\ Mild(b[j], Swept(d)[j], incarnation)
               /\ Swept(d)[j].ban = {x \in b[j].ban : x.seq \notin over}
    <3>1. CASE j \in Idlers(d)
      <4>1. Swept(d)[j] = NoClient
        BY <1>7, <3>1
      <4>2. Mild(b[j], Swept(d)[j], incarnation)
        BY <4>1 DEF Mild
      <4> QED BY <1>5, <1>6, <3>1, <4>1, <4>2, NoClientTyped
    <3>2. CASE j \notin Idlers(d)
      BY <1>5, <1>7, <3>2
    <3> QED BY <3>1, <3>2
  <2> QED BY <1>8, <2>1 DEF Cleared
<1>10. Overdue(d, over)
  <2>1. ASSUME NEW s \in over PROVE \E h \in Held(client) : h.seq = s
    <3>0. PICK j \in Keys : \E x \in b[j].ban : s = x.seq
      BY <1>3
    <3>1. PICK x \in b[j].ban : s = x.seq
      BY <3>0
    <3> QED BY <1>2, <3>1, PlaceIsHeld
  <2>2. ASSUME NEW h \in Held(client), h.seq \in over PROVE h.domain = d /\ h.deadline <= clock
    <3>0. PICK j \in Keys : \E x \in b[j].ban : x.deadline <= clock /\ h.seq = x.seq
      BY <1>3, <2>2
    <3>1. PICK x \in b[j].ban : x.deadline <= clock /\ h.seq = x.seq
      BY <3>0
    <3>2. h \in Active /\ BanIn(h) \in client[h.domain][h.key].ban
      BY <1>2, HeldIs
    <3>3. /\ h.domain \in Domains /\ h.key \in Keys
          /\ BanIn(h).seq = h.seq /\ BanIn(h).deadline = h.deadline
      BY <3>2 DEF Active, BanIn
    <3>4. h.domain = d /\ BanIn(h) = x
      BY <1>1, <3>1, <3>2, <3>3, SameBan
    <3> QED BY <3>1, <3>3, <3>4
  <2> QED BY <2>1, <2>2 DEF Overdue
<1>11. Present(Swept(d)) = Present(b) \ Idlers(d)
  <2>1. ASSUME NEW j \in Keys PROVE Swept(d)[j].incarnation # 0 <=> b[j].incarnation # 0 /\ j \notin Idlers(d)
    BY <1>5, <1>7, NoClientTyped
  <2> QED BY <2>1 DEF Present
<1>12. BucketOK(b, counts[d], profiles) /\ IsFiniteSet(Present(b))
       /\ \A n \in Namespaces : counts[d][n] = Cardinality(Own(b, n))
  BY <1>1 DEF BucketsOK, BucketOK
<1>13. ASSUME NEW n \in Namespaces
       PROVE  SweptCounts(d)[n] = Cardinality(Own(Swept(d), n)) /\ SweptCounts(d)[n] \in Nat
  <2> DEFINE out == {j \in Idlers(d) : NamespaceOf(j) = n}
  <2>1. SweptCounts(d)[n] = Cardinality(Own(b, n)) - Cardinality(out)
    BY <1>12 DEF SweptCounts
  <2>2. Own(Swept(d), n) = Own(b, n) \ out /\ Own(b, n) \cap out = out
    <3>1. Own(Swept(d), n) = {j \in Present(b) \ Idlers(d) : NamespaceOf(j) = n}
      BY <1>11 DEF Own
    <3>2. Own(b, n) = {j \in Present(b) : NamespaceOf(j) = n} /\ Idlers(d) \subseteq Present(b)
      BY <1>6 DEF Own
    <3> QED BY <3>1, <3>2
  <2>3. IsFiniteSet(Own(b, n))
    BY <1>12, OwnFinite
  <2> HIDE DEF out
  <2>4. /\ IsFiniteSet(Own(b, n) \ out)
        /\ Cardinality(Own(b, n) \ out) = Cardinality(Own(b, n)) - Cardinality(Own(b, n) \cap out)
    BY <2>3, FS_Difference
  <2>5. Cardinality(Own(b, n) \ out) \in Nat
    BY <2>4, FS_CardinalityType
  <2> QED BY <2>1, <2>2, <2>4, <2>5
<1>14. SweptCounts(d) \in [Namespaces -> Nat]
  BY <1>13 DEF SweptCounts
<1>15. BucketOK(Swept(d), SweptCounts(d), profiles)
  <2>1. Present(Swept(d)) \subseteq Present(b)
    BY <1>11
  <2>2. ASSUME NEW j \in Present(Swept(d))
        PROVE  /\ Swept(d)[j].generation = b[j].generation
               /\ profiles[NamespaceOf(j)] \in Generations
    <3>1. j \in Present(b) /\ j \notin Idlers(d) /\ j \in Keys /\ b[j].incarnation # 0
      BY <1>11 DEF Present
    <3>2. Swept(d)[j].generation = b[j].generation
      BY <1>5, <1>7, <3>1
    <3>3. b[j].generation \in Generations
      BY <1>1, <3>1 DEF ClientsOK, Sound
    <3>4. b[j].generation = profiles[NamespaceOf(j)]
      BY <1>12, <3>1 DEF BucketOK
    <3> QED BY <3>2, <3>3, <3>4
  <2>3. profiles \in [Namespaces -> Generations \cup {Off}]
    BY <1>1 DEF TypeOK
  <2> QED BY <1>12, <1>13, <2>1, <2>2, <2>3, BucketShrinks
<1>16. ASSUME NEW j \in Keys PROVE Swept(d)[j].incarnation <= incarnation
  <2>1. b[j].incarnation <= incarnation
    BY <1>1 DEF ClientsOK, Sound
  <2> QED BY <1>2, <1>5, <1>7, <2>1, NoClientTyped
<1> QED BY <1>9, <1>10, <1>11, <1>14, <1>15, <1>16 DEF over

LEMMA RoomIs ==
  ASSUME RegistryInv, NEW d \in Domains, NEW k \in Keys
  PROVE  /\ Cleared(d, Room(d, k), Over(d, k)) /\ Overdue(d, Over(d, k))
         /\ RoomCounts(d, k) \in [Namespaces -> Nat]
         /\ BucketOK(Room(d, k), RoomCounts(d, k), profiles)
         /\ Present(Room(d, k)) \subseteq Present(client[d])
         /\ \A j \in Keys : Room(d, k)[j].incarnation <= incarnation
<1>1. CASE AtCapacity(d, k)
  <2>1. /\ Room(d, k) = Swept(d) /\ RoomCounts(d, k) = SweptCounts(d)
        /\ Over(d, k) = Expired(client[d], Keys, clock)
    BY <1>1 DEF Room, RoomCounts, Over
  <2> QED BY <2>1, SweptIs
<1>2. CASE ~AtCapacity(d, k)
  <2>1. Room(d, k) = client[d] /\ RoomCounts(d, k) = counts[d] /\ Over(d, k) = {}
    BY <1>2 DEF Room, RoomCounts, Over
  <2>2. TypeOK /\ BucketsOK /\ \A j \in Keys : client[d][j].incarnation <= incarnation
    BY DEF RegistryInv, ClientsOK, Sound
  <2>3. client[d] \in Bucket /\ counts[d] \in [Namespaces -> Nat]
        /\ BucketOK(client[d], counts[d], profiles)
    BY <2>2, TypedState DEF TypeOK, BucketsOK, Buckets, Bucket
  <2>4. ASSUME NEW j \in Keys PROVE Mild(client[d][j], client[d][j], incarnation)
    <3>1. client[d][j].reset \in Nat
      BY <2>3, ClientFields DEF Bucket
    <3> QED BY <3>1 DEF Mild
  <2>5. Cleared(d, client[d], {}) /\ Overdue(d, {})
    BY <2>3, <2>4 DEF Cleared, Overdue
  <2> QED BY <2>1, <2>2, <2>3, <2>5
<1> QED BY <1>1, <1>2

(* One bucket is replaced. *)
LEMMA BucketStep ==
  ASSUME RegistryInv, NEW r, NEW d \in Domains, NEW k \in Keys, Reaches(r, d, k),
         NEW b, NEW ct, NEW S, Cleared(d, b, S), Overdue(d, S),
         ct \in [Namespaces -> Nat], BucketOK(b, ct, profiles),
         client' = [client EXCEPT ![d] = b], counts' = [counts EXCEPT ![d] = ct],
         domains' = domains \cup {d}, RemoveActive(S), ended' = S,
         incarnation' \in 0 .. MaxIncarnation, incarnation <= incarnation',
         \A j \in Keys : b[j].incarnation = incarnation + 1 => incarnation + 1 <= incarnation',
         UNCHANGED <<profiles, hosts, sequence, clock>>
  PROVE  Effects
<1>1. TypeOK /\ ClientsOK /\ SeqsUnique /\ BucketsOK /\ IndexIsExact
  BY DEF RegistryInv
<1>2. /\ client \in Buckets /\ sequence \in Nat /\ incarnation \in Nat /\ clock \in Nat
      /\ incarnation' \in Nat
  BY <1>1, TypedState, CapAssumption
<1>3. b \in Bucket
  BY DEF Cleared
<1>4. /\ client' \in Buckets /\ client'[d] = b
      /\ \A d2 \in Domains : d2 # d => client'[d2] = client[d2]
  BY <1>2, <1>3 DEF Buckets, Bucket
<1>5. ASSUME NEW d2 \in Domains, d2 # d, NEW j \in Keys, NEW x \in client[d2][j].ban
      PROVE  x.seq \notin S
  <2>1. SUFFICES ASSUME x.seq \in S PROVE FALSE
    OBVIOUS
  <2>2. PICK h \in Held(client) : h.seq = x.seq /\ h.domain = d2
    BY <1>2, PlaceIsHeld
  <2>3. h.domain = d
    BY <2>1, <2>2 DEF Overdue
  <2> QED BY <1>5, <2>2, <2>3
<1>6. Loses(client, client', S)
  <2>1. ASSUME NEW d2 \in Domains, NEW j \in Keys
        PROVE  client'[d2][j].ban = {x \in client[d2][j].ban : x.seq \notin S}
    <3>1. CASE d2 = d
      BY <1>4, <3>1 DEF Cleared
    <3>2. CASE d2 # d
      <4>1. client'[d2] = client[d2]
        BY <1>4, <3>2
      <4> QED BY <1>5, <3>2, <4>1
    <3> QED BY <3>1, <3>2
  <2> QED BY <2>1 DEF Loses, Overdue
<1>7. IndexIsExact' /\ SeqsUnique' /\ active' \subseteq Active /\ expiry' \subseteq Nat \X Nat
  BY <1>1, <1>4, <1>6, IndexAfterLoss
<1>8. EndsStep /\ HoldsStep
  BY <1>1, <1>4, <1>6, LossIsAnnounced DEF Overdue
<1>9. ASSUME NEW d2 \in Domains, NEW j \in Keys
      PROVE  /\ Mild(client[d2][j], client'[d2][j], incarnation)
             /\ client'[d2][j].incarnation = incarnation + 1 => incarnation + 1 <= incarnation'
  <2>1. CASE d2 = d
    BY <1>4, <2>1 DEF Cleared
  <2>2. CASE d2 # d
    <3>1. client'[d2][j] = client[d2][j]
      BY <1>4, <2>2
    <3>2. client[d2][j].reset \in Nat /\ client[d2][j].incarnation \in Nat
          /\ client[d2][j].incarnation <= incarnation
      BY <1>1, TypedState, ClientFields DEF ClientsOK, Sound
    <3>3. client'[d2][j].incarnation # incarnation + 1
      BY <1>2, <3>1, <3>2
    <3> QED BY <3>1, <3>2, <3>3 DEF Mild
  <2> QED BY <2>1, <2>2
<1>10. ClientsOK' /\ ClientsStep /\ NewOnly
  BY <1>1, <1>2, <1>4, <1>9, MildStep
<1>11. /\ domains \subseteq domains' /\ domains' \subseteq hosts
       /\ IsFiniteSet(domains') /\ Cardinality(domains') <= MaxDomains
  BY ReachesRoom
<1>12. counts' \in [Domains -> [Namespaces -> Nat]] /\ counts'[d] = ct
       /\ \A d2 \in Domains : d2 # d => counts'[d2] = counts[d2]
  BY <1>1 DEF TypeOK
<1>13. BucketsOK'
  <2>1. ASSUME NEW d2 \in Domains
        PROVE  BucketOK(client'[d2], counts'[d2], profiles') /\ (Present(client'[d2]) # {} => d2 \in domains')
    <3>1. CASE d2 = d
      BY <1>4, <1>12, <3>1
    <3>2. CASE d2 # d
      <4>1. client'[d2] = client[d2] /\ counts'[d2] = counts[d2]
        BY <1>4, <1>12, <3>2
      <4>2. BucketOK(client[d2], counts[d2], profiles) /\ (Present(client[d2]) # {} => d2 \in domains)
        BY <1>1 DEF BucketsOK
      <4> QED BY <1>11, <4>1, <4>2
    <3> QED BY <3>1, <3>2
  <2> QED BY <1>11, <2>1 DEF BucketsOK
<1>14. TypesStep
  <2>1. ended' \subseteq Nat
    <3> SUFFICES ASSUME NEW s \in S PROVE s \in Nat
      OBVIOUS
    <3>1. PICK h \in Held(client) : h.seq = s
      BY DEF Overdue
    <3> QED BY <1>2, <3>1, HeldTyped
  <2> QED BY <1>1, <1>4, <1>7, <1>11, <1>12, <2>1 DEF TypesStep, TypeOK
<1> QED BY <1>2, <1>7, <1>8, <1>10, <1>13, <1>14 DEF Effects

LEMMA AdmitSaturatedStep ==
  ASSUME RegistryInv, NEW r \in Requests, NEW d \in Domains, NEW k \in Keys,
         NEW login \in BOOLEAN, AdmitSaturated(r, d, k, login)
  PROVE  Effects /\ TicketEffects /\ asked' \subseteq Nat /\ page' = {} /\ lister' = lister
<1> DEFINE b == Room(d, k)
           ct == RoomCounts(d, k)
           S == Over(d, k)
<1>1. /\ Reaches(r, d, k) /\ domains' = domains \cup {d}
      /\ client' = [client EXCEPT ![d] = b] /\ counts' = [counts EXCEPT ![d] = ct]
      /\ RemoveActive(S) /\ ended' = S /\ asked' = {} /\ page' = {}
      /\ UNCHANGED <<profiles, hosts, sequence, incarnation, ticket, lister, clock>>
  BY DEF AdmitSaturated, Announce
<1>2. /\ Cleared(d, b, S) /\ Overdue(d, S) /\ ct \in [Namespaces -> Nat]
      /\ BucketOK(b, ct, profiles) /\ \A j \in Keys : b[j].incarnation <= incarnation
  BY RoomIs
<1>3. TypeOK
  BY DEF RegistryInv
<1> HIDE DEF b, ct, S
<1>4. incarnation \in Nat /\ incarnation' \in 0 .. MaxIncarnation /\ incarnation <= incarnation'
  BY <1>1, <1>3, TypedState DEF TypeOK
<1>5. ASSUME NEW j \in Keys PROVE b[j].incarnation # incarnation + 1
  <2>1. b[j].incarnation \in Nat /\ b[j].incarnation <= incarnation
    BY <1>2, ClientFields DEF Cleared, Bucket
  <2> QED BY <1>4, <2>1
<1>6. Effects
  BY <1>1, <1>2, <1>4, <1>5, BucketStep
<1>7. TicketEffects
  BY <1>1, <1>3, TicketsUntouched
<1> QED BY <1>1, <1>6, <1>7

LEMMA AdmitNewStep ==
  ASSUME RegistryInv, NEW r \in Requests, NEW d \in Domains, NEW k \in Keys,
         NEW login \in BOOLEAN, NEW path \in Paths, AdmitNew(r, d, k, login, path)
  PROVE  Effects /\ TicketEffects /\ asked' \subseteq Nat /\ page' = {} /\ lister' = lister
<1> DEFINE b == Room(d, k)
           ct == RoomCounts(d, k)
           S == Over(d, k)
           n == NamespaceOf(k)
           c0 == [NoClient EXCEPT !.generation = profiles[n], !.incarnation = incarnation + 1]
           c == Touched(c0, k)
           b2 == [b EXCEPT ![k] = c]
           ct2 == [ct EXCEPT ![n] = @ + 1]
<1>1. /\ Reaches(r, d, k) /\ domains' = domains \cup {d}
      /\ client' = [client EXCEPT ![d] = b2] /\ counts' = [counts EXCEPT ![d] = ct2]
      /\ RemoveActive(S) /\ ended' = S /\ asked' = {} /\ page' = {}
      /\ Issue(r, c, d, k, login, path)
      /\ incarnation < MaxIncarnation /\ incarnation' = incarnation + 1
      /\ k \notin Present(client[d]) /\ ~Full(d, k)
      /\ UNCHANGED <<profiles, hosts, sequence, lister, clock>>
  BY DEF AdmitNew, Announce
<1>2. /\ Cleared(d, b, S) /\ Overdue(d, S) /\ ct \in [Namespaces -> Nat]
      /\ BucketOK(b, ct, profiles) /\ Present(b) \subseteq Present(client[d])
      /\ \A j \in Keys : b[j].incarnation <= incarnation
  BY RoomIs
<1>3. TypeOK /\ ClientsOK
  BY DEF RegistryInv
<1>4. incarnation \in Nat /\ incarnation' \in 0 .. MaxIncarnation /\ incarnation <= incarnation'
      /\ incarnation + 1 \in Nat /\ incarnation + 1 # 0 /\ incarnation + 1 <= incarnation'
  BY <1>1, <1>3, TypedState, CapAssumption
<1>5. profiles[n] \in Generations /\ profiles \in [Namespaces -> Generations \cup {Off}]
  BY <1>1, <1>3, ReachesRoom DEF TypeOK
<1>6. c0 \in Client /\ c0.generation = profiles[n] /\ c0.incarnation = incarnation + 1
      /\ c0.reset = 0 /\ c0.ban = {}
  <2>1. NoCounters \in Counters
    BY NoCountersTyped
  <2>2. c0 = [generation |-> profiles[n], incarnation |-> incarnation + 1, reset |-> 0,
              counters |-> NoCounters, ban |-> {}, idle_at |-> 0]
    <3> DEFINE e == [NoClient EXCEPT !.generation = profiles[n]]
    <3>1. e = [generation |-> profiles[n], incarnation |-> 0, reset |-> 0,
               counters |-> NoCounters, ban |-> {}, idle_at |-> 0]
      BY DEF NoClient
    <3>2. c0 = [e EXCEPT !.incarnation = incarnation + 1]
      OBVIOUS
    <3> HIDE DEF e
    <3> QED BY <3>1, <3>2
  <2> QED BY <1>4, <1>5, <2>1, <2>2, ClientIs
<1> HIDE DEF c0
<1>7. c \in Client /\ c.generation = profiles[n] /\ c.incarnation = incarnation + 1
      /\ c.reset = 0 /\ c.ban = {}
  BY <1>3, <1>5, <1>6, TouchedIs
<1> HIDE DEF c
<1>8. /\ ~(ct[n] >= Config[profiles[n]].max_clients)
      /\ ~(Cardinality(Present(b)) >= MaxEntries)
  BY <1>1 DEF Full, Conf
<1> HIDE DEF b, ct, S
<1>9. b \in Bucket /\ k \notin Present(b)
  BY <1>1, <1>2 DEF Cleared
<1>10. BucketOK(b2, ct2, profiles)
  BY <1>2, <1>4, <1>5, <1>7, <1>8, <1>9, BucketGrows
<1>11. b2 \in Bucket /\ b2[k] = c /\ \A j \in Keys : j # k => b2[j] = b[j]
  BY <1>7, <1>9 DEF Bucket
<1>12. ct2 \in [Namespaces -> Nat]
  <2>1. n \in Namespaces
    BY KeyIs
  <2>2. ct[n] + 1 \in Nat
    BY <1>2, <2>1
  <2> QED BY <1>2, <2>2
<1> HIDE DEF b2, ct2
<1>13. Cleared(d, b2, S)
  <2>1. ASSUME NEW j \in Keys
        PROVE  /\ Mild(client[d][j], b2[j], incarnation)
               /\ b2[j].ban = {x \in client[d][j].ban : x.seq \notin S}
    <3>1. CASE j = k
      <4>1. client[d][k].ban = {}
        BY <1>1, <1>3 DEF Present, ClientsOK, Sound
      <4>2. Mild(client[d][k], c, incarnation)
        BY <1>5, <1>7 DEF Mild
      <4> QED BY <1>7, <1>11, <3>1, <4>1, <4>2
    <3>2. CASE j # k
      BY <1>2, <1>11, <3>2 DEF Cleared
    <3> QED BY <3>1, <3>2
  <2> QED BY <1>11, <2>1 DEF Cleared
<1>14. Effects
  BY <1>1, <1>2, <1>4, <1>10, <1>12, <1>13, BucketStep
<1>15. TicketEffects
  <2>1. client'[d][k] = c
    BY <1>1, <1>3, <1>11, TypedState DEF Buckets
  <2>2. ticket[r] = {}
    BY <1>1 DEF Reaches
  <2>3. c.incarnation # 0 /\ c.incarnation <= incarnation' /\ c.generation \in Generations
    BY <1>4, <1>5, <1>7
  <2> QED BY <1>1, <1>3, <1>7, <2>1, <2>2, <2>3, TicketIssued
<1> QED BY <1>1, <1>14, <1>15

-----------------------------------------------------------------------------
(* Fresh evidence.                                                           *)

(* A ticket that is fresh after settling names a client without a ban, and   *)
(* is not void.                                                              *)
LEMMA FreshIs ==
  ASSUME RegistryInv, NEW r \in Requests, NEW t \in ticket[r],
         Fresh(t, Settle(client[t.domain][t.key], clock))
  PROVE  client[t.domain][t.key].ban = {} /\ ~void[r]
<1> DEFINE c == client[t.domain][t.key]
<1>1. TypeOK /\ ClientsOK /\ TicketsOK
  BY DEF RegistryInv
<1>2. t.domain \in Domains /\ t.key \in Keys /\ t.reset \in Nat
  BY <1>1 DEF TypeOK, Ticket
<1>3. c \in Client /\ clock \in Nat /\ \A a, b \in c.ban : a = b
  BY <1>1, <1>2, TypedState DEF ClientsOK, Sound
<1>4. TicketOK(t, void[r], c)
  BY <1>1 DEF TicketsOK
<1>5. /\ Settle(c, clock).incarnation = t.incarnation
      /\ Settle(c, clock).reset = t.reset
      /\ Settle(c, clock).ban = {}
  BY DEF Fresh
<1>6. /\ Settle(c, clock).incarnation = c.incarnation
      /\ (Settle(c, clock) = c \/ (c.ban # {} /\ Settle(c, clock) = Reset(c)))
  BY <1>3, SettleIs
<1> HIDE DEF c
<1>7. t.reset <= c.reset /\ (void[r] => t.reset < c.reset) /\ c.reset \in Nat
  BY <1>3, <1>4, <1>5, <1>6, ClientFields DEF TicketOK
<1>8. Settle(c, clock) = c
  <2>1. SUFFICES ASSUME Settle(c, clock) = Reset(c) PROVE FALSE
    BY <1>6
  <2>2. t.reset = c.reset + 1
    BY <1>3, <1>5, <2>1, ResetTyped
  <2> QED BY <1>2, <1>7, <2>2
<1>9. c.reset = t.reset /\ c.ban = {}
  BY <1>5, <1>8
<1>10. ~void[r]
  BY <1>2, <1>7, <1>9
<1> QED BY <1>9, <1>10 DEF c

(* One client gains at most one ban, numbered next and not yet due. *)
LEMMA GainStep ==
  ASSUME RegistryInv, NEW d \in Domains, NEW k \in Keys, NEW e \in Client, NEW ban,
         client' = [client EXCEPT ![d][k] = e], e.ban = ban, client[d][k].ban = {},
         e.incarnation = client[d][k].incarnation, e.generation = client[d][k].generation,
         e.reset = client[d][k].reset, client[d][k].incarnation # 0,
         sequence' \in 0 .. MaxSequence, sequence <= sequence',
         \/ ban = {}
         \/ /\ sequence' = sequence + 1
            /\ \E at \in Nat : at > clock /\ ban = {[seq |-> sequence + 1, deadline |-> at]},
         active' = active \cup {[seq |-> b.seq, deadline |-> b.deadline, domain |-> d, key |-> k] : b \in ban},
         expiry' = expiry \cup {<<b.deadline, b.seq>> : b \in ban},
         ended' = {}, UNCHANGED <<profiles, hosts, domains, counts, incarnation, clock>>
  PROVE  Effects
<1> DEFINE New == {[seq |-> b.seq, deadline |-> b.deadline, domain |-> d, key |-> k] : b \in ban}
           c == client[d][k]
<1>1. TypeOK /\ ClientsOK /\ SeqsUnique /\ BucketsOK /\ IndexIsExact
  BY DEF RegistryInv
<1>2. /\ client \in Buckets /\ sequence \in Nat /\ incarnation \in Nat /\ clock \in Nat
      /\ sequence' \in Nat /\ c \in Client
  BY <1>1, TypedState, CapAssumption
<1>3. /\ client' \in Buckets /\ client'[d][k] = e
      /\ \A d2 \in Domains, k2 \in Keys : d2 # d \/ k2 # k => client'[d2][k2] = client[d2][k2]
  BY <1>2 DEF Buckets
<1>4. /\ \A b \in ban : b.seq = sequence + 1 /\ b.deadline \in Nat /\ b.deadline > clock
      /\ \A b \in ban : b \in [seq : Nat, deadline : Nat] /\ b.seq <= sequence'
      /\ \A a, b \in ban : a = b
  BY <1>2
<1>5. ASSUME NEW h PROVE h \in Held(client') <=> h \in Held(client) \/ h \in New
  <2>1. ASSUME h \in New PROVE h \in Held(client')
    <3>1. PICK b \in ban : h = [seq |-> b.seq, deadline |-> b.deadline, domain |-> d, key |-> k]
      BY <2>1
    <3>2. h \in Active /\ h.domain = d /\ h.key = k /\ BanIn(h) = b
      BY <1>4, <3>1 DEF Active, BanIn
    <3>3. BanIn(h) \in client'[h.domain][h.key].ban
      BY <1>3, <3>2
    <3> HIDE DEF New
    <3> QED BY <1>3, <3>2, <3>3, HeldIs
  <2>2. ASSUME h \in Held(client) PROVE h \in Held(client')
    <3>1. h \in Active /\ BanIn(h) \in client[h.domain][h.key].ban
      BY <1>2, <2>2, HeldIs
    <3>2. h.domain \in Domains /\ h.key \in Keys /\ (h.domain # d \/ h.key # k)
      BY <3>1 DEF Active
    <3>3. client'[h.domain][h.key] = client[h.domain][h.key]
      BY <1>3, <3>2
    <3> QED BY <1>3, <3>1, <3>3, HeldIs
  <2>3. ASSUME h \in Held(client') PROVE h \in Held(client) \/ h \in New
    <3>1. h \in Active /\ BanIn(h) \in client'[h.domain][h.key].ban
      BY <1>3, <2>3, HeldIs
    <3>2. h.domain \in Domains /\ h.key \in Keys
      BY <3>1 DEF Active
    <3>3. CASE h.domain = d /\ h.key = k
      <4>1. BanIn(h) \in ban
        BY <1>3, <3>1, <3>3
      <4>2. h = [seq |-> BanIn(h).seq, deadline |-> BanIn(h).deadline, domain |-> d, key |-> k]
        BY <3>1, <3>3 DEF Active, BanIn
      <4> QED BY <4>1, <4>2
    <3>4. CASE h.domain # d \/ h.key # k
      <4>1. client'[h.domain][h.key] = client[h.domain][h.key]
        BY <1>3, <3>2, <3>4
      <4> QED BY <1>2, <3>1, <4>1, HeldIs
    <3> QED BY <3>3, <3>4
  <2> QED BY <2>1, <2>2, <2>3
<1>6. \A h \in New : h.seq = sequence + 1 /\ h.deadline > clock /\ h.deadline \in Nat
  BY <1>4
<1>7. \A g, h \in New : g = h
  BY <1>4
<1>8. SeqsUnique'
  <2> SUFFICES ASSUME NEW g \in Held(client'), NEW h \in Held(client'), g.seq = h.seq PROVE g = h
    BY DEF SeqsUnique
  <2>1. \A x \in Held(client) : x.seq <= sequence /\ x.seq \in Nat
    BY <1>1, SeqsBounded
  <2>2. CASE g \in Held(client) /\ h \in Held(client)
    BY <1>1, <2>2 DEF SeqsUnique
  <2>3. CASE g \in New /\ h \in New
    BY <1>7, <2>3
  <2>4. CASE g \in New /\ h \in Held(client)
    BY <1>2, <1>6, <2>1, <2>4
  <2>5. CASE h \in New /\ g \in Held(client)
    BY <1>2, <1>6, <2>1, <2>5
  <2> QED BY <1>5, <2>2, <2>3, <2>4, <2>5
<1>9. IndexIsExact'
  <2>1. /\ active \subseteq Held(client)
        /\ \A h \in Held(client) : h.deadline > clock => h \in active
        /\ expiry = {<<a.deadline, a.seq>> : a \in active}
    BY <1>1 DEF IndexIsExact
  <2>2. active' = active \cup New
    OBVIOUS
  <2>3. active' \subseteq Held(client')
    BY <1>5, <2>1, <2>2
  <2>4. \A h \in Held(client') : h.deadline > clock' => h \in active'
    BY <1>5, <2>1, <2>2
  <2>5. {<<b.deadline, b.seq>> : b \in ban} = {<<h.deadline, h.seq>> : h \in New}
    <3>1. ASSUME NEW b \in ban PROVE \E h \in New : <<b.deadline, b.seq>> = <<h.deadline, h.seq>>
      <4> DEFINE h == [seq |-> b.seq, deadline |-> b.deadline, domain |-> d, key |-> k]
      <4>1. h \in New /\ h.deadline = b.deadline /\ h.seq = b.seq
        OBVIOUS
      <4> HIDE DEF h, New
      <4> QED BY <4>1
    <3>2. ASSUME NEW h \in New PROVE \E b \in ban : <<b.deadline, b.seq>> = <<h.deadline, h.seq>>
      OBVIOUS
    <3> HIDE DEF New
    <3> QED BY <3>1, <3>2
  <2>6. expiry' = {<<a.deadline, a.seq>> : a \in active'}
    <3>1. expiry' = expiry \cup {<<h.deadline, h.seq>> : h \in New}
      BY <2>5
    <3> HIDE DEF New
    <3> QED BY <2>1, <2>2, <3>1
  <2> QED BY <2>3, <2>4, <2>6 DEF IndexIsExact
<1>10. ASSUME NEW d2 \in Domains, NEW k2 \in Keys
       PROVE  /\ client'[d2][k2].incarnation = client[d2][k2].incarnation
              /\ client'[d2][k2].generation = client[d2][k2].generation
              /\ Sound(client'[d2][k2], sequence', incarnation)
              /\ StepOf(client[d2][k2], client'[d2][k2], incarnation)
  <2>1. /\ Sound(client[d2][k2], sequence, incarnation)
        /\ client[d2][k2].reset \in Nat /\ client[d2][k2].reset <= client[d2][k2].reset
        /\ client[d2][k2].ban \subseteq [seq : Nat, deadline : Nat]
    <3>1. client[d2][k2].reset \in Nat /\ client[d2][k2].ban \subseteq [seq : Nat, deadline : Nat]
      BY <1>1, TypedState, ClientFields
    <3> QED BY <1>1, <3>1 DEF ClientsOK
  <2>2. CASE d2 = d /\ k2 = k
    <3>1. client'[d2][k2] = e
      BY <1>3, <2>2
    <3>2. Sound(e, sequence', incarnation)
      BY <1>4, <2>1, <2>2 DEF Sound
    <3>3. StepOf(c, e, incarnation)
      BY <2>1, <2>2 DEF StepOf
    <3> QED BY <2>2, <3>1, <3>2, <3>3
  <2>3. CASE d2 # d \/ k2 # k
    <3>1. client'[d2][k2] = client[d2][k2]
      BY <1>3, <2>3
    <3>2. \A b \in client[d2][k2].ban : b.seq <= sequence'
      BY <1>2, <2>1 DEF Sound
    <3>3. Sound(client[d2][k2], sequence', incarnation)
      BY <2>1, <3>2 DEF Sound
    <3> QED BY <2>1, <3>1, <3>3 DEF StepOf
  <2> QED BY <2>2, <2>3
<1>11. ClientsOK' /\ ClientsStep
  BY <1>10 DEF ClientsOK, ClientsStep
<1>12. NewOnly /\ EndsStep /\ HoldsStep
  <2> HIDE DEF New
  <2> QED BY <1>5, <1>6 DEF NewOnly, EndsStep, HoldsStep
<1>13. BucketsOK'
  <2>1. /\ domains \subseteq domains' /\ IsFiniteSet(domains') /\ Cardinality(domains') <= MaxDomains
    BY <1>1 DEF BucketsOK
  <2> QED BY <1>1, <1>3, <1>10, <2>1, SameClients
<1>14. TypesStep
  <2>1. active' \subseteq Active
    <3>1. active' \subseteq Held(client')
      BY <1>9 DEF IndexIsExact
    <3> QED BY <1>3, <3>1, HeldTyped
  <2>2. expiry' \subseteq Nat \X Nat
    BY <1>1, <1>4 DEF TypeOK
  <2> QED BY <1>1, <1>3, <2>1, <2>2 DEF TypesStep, TypeOK
<1>15. incarnation <= incarnation' /\ clock <= clock'
  BY <1>2
<1> QED BY <1>8, <1>9, <1>11, <1>12, <1>13, <1>14, <1>15 DEF Effects

LEMMA ObserveFreshStep ==
  ASSUME RegistryInv, NEW r \in Requests, NEW t \in ticket[r],
         NEW failed \in BOOLEAN, NEW missing \in BOOLEAN, ObserveFresh(r, t, failed, missing)
  PROVE  Effects /\ TicketEffects /\ asked' \subseteq Nat /\ page' = {} /\ lister' = lister
<1> DEFINE d == t.domain
           k == t.key
           c == client[d][k]
           seen == Observed(c.counters, Conf(k), clock, t, failed, missing)
           ban == NewBan(seen.crossings)
           detected == seen.crossings # <<>>
           touched == Touched(c, k)
           idle == Max({touched.idle_at} \cup {b.deadline : b \in ban})
           e == [touched EXCEPT !.counters = seen.counters, !.ban = ban, !.idle_at = idle]
<1>1. TypeOK /\ ClientsOK /\ BucketsOK /\ TicketsOK
  BY DEF RegistryInv
<1>2. /\ Found(t) /\ Fresh(t, Settle(c, clock))
      /\ detected => sequence < MaxSequence
      /\ client' = [client EXCEPT ![d][k] =
           [touched EXCEPT !.counters = seen.counters, !.ban = ban,
                           !.idle_at = Max({@} \cup {b.deadline : b \in ban})]]
      /\ active' = active \cup {[seq |-> b.seq, deadline |-> b.deadline, domain |-> d, key |-> k] : b \in ban}
      /\ expiry' = expiry \cup {<<b.deadline, b.seq>> : b \in ban}
      /\ sequence' = IF detected THEN sequence + 1 ELSE sequence
      /\ Return(r) /\ ended' = {} /\ asked' = {} /\ page' = {}
      /\ UNCHANGED <<profiles, hosts, domains, counts, incarnation, lister, clock>>
  BY DEF ObserveFresh, Quiet, Announce
<1>3. t \in Ticket /\ d \in Domains /\ k \in Keys /\ t.generation \in Generations
  BY <1>1 DEF TypeOK, Ticket
<1>4. c.ban = {} /\ ~void[r]
  BY <1>2, FreshIs
<1>5. c \in Client /\ clock \in Nat /\ sequence \in Nat /\ c.counters \in Counters
  BY <1>1, <1>3, TypedState, ClientFields
<1>6. profiles[NamespaceOf(k)] \in Generations /\ k \in Present(client[d])
  BY <1>2, <1>3 DEF Found
<1>7. Seen(seen)
  BY <1>3, <1>5, <1>6, ObservedTyped DEF Conf
<1>8. seen.counters \in Counters /\ seen.crossings \in Seq(Rule)
  BY <1>7 DEF Seen
<1>9. /\ touched \in Client /\ touched.generation = c.generation
      /\ touched.incarnation = c.incarnation /\ touched.reset = c.reset
  BY <1>1, <1>3, <1>5, <1>6, TouchedIs
<1> HIDE DEF seen, touched
<1>10. \/ ban = {}
       \/ /\ detected
          /\ \E at \in Nat : at > clock /\ ban = {[seq |-> sequence + 1, deadline |-> at]}
  BY <1>1, <1>8, NewBanIs
<1> HIDE DEF ban, detected
<1>11. ban \subseteq [seq : Nat, deadline : Nat]
  BY <1>5, <1>10
<1>12. idle \in Nat
  <2> DEFINE S == {touched.idle_at} \cup {b.deadline : b \in ban}
  <2>1. touched.idle_at \in Nat
    BY <1>9, ClientFields
  <2>2. S \in SUBSET Nat /\ S # {}
    BY <1>11, <2>1
  <2>3. \E N \in Nat : \A y \in S : y <= N
    <3>1. CASE ban = {}
      BY <2>1, <3>1
    <3>2. CASE ban # {}
      <4>1. PICK at \in Nat : ban = {[seq |-> sequence + 1, deadline |-> at]}
        BY <1>10, <3>2
      <4>2. \A y \in S : y = touched.idle_at \/ y = at
        BY <4>1
      <4>3. touched.idle_at + at \in Nat /\ touched.idle_at <= touched.idle_at + at
            /\ at <= touched.idle_at + at
        BY <2>1
      <4>4. \A y \in S : y <= touched.idle_at + at
        <5> HIDE DEF S
        <5> QED BY <4>2, <4>3
      <4> QED BY <4>3, <4>4
    <3> QED BY <3>1, <3>2
  <2> HIDE DEF S
  <2>4. Max(S) \in Nat
    BY <2>2, <2>3, MaxOfBounded
  <2> QED BY <2>4 DEF S
<1>13. client' = [client EXCEPT ![d][k] = e]
  <2>1. [touched EXCEPT !.counters = seen.counters, !.ban = ban,
                        !.idle_at = Max({@} \cup {b.deadline : b \in ban})] = e
    OBVIOUS
  <2> QED BY <1>2, <2>1
<1> HIDE DEF idle
<1>14. /\ e \in Client /\ e.ban = ban /\ e.incarnation = c.incarnation
       /\ e.generation = c.generation /\ e.reset = c.reset
  <2>1. touched \in [generation : Generations \cup {Off}, incarnation : Nat, reset : Nat,
                     counters : Counters, ban : SUBSET [seq : Nat, deadline : Nat], idle_at : Nat]
    BY <1>9, ClientIs
  <2> DEFINE x == [touched EXCEPT !.counters = seen.counters]
             y == [x EXCEPT !.ban = ban]
  <2>2. x = [generation |-> c.generation, incarnation |-> c.incarnation, reset |-> c.reset,
             counters |-> seen.counters, ban |-> touched.ban, idle_at |-> touched.idle_at]
    BY <1>9, <2>1
  <2> HIDE DEF x
  <2>3. y = [generation |-> c.generation, incarnation |-> c.incarnation, reset |-> c.reset,
             counters |-> seen.counters, ban |-> ban, idle_at |-> touched.idle_at]
    BY <2>2
  <2>4. e = [y EXCEPT !.idle_at = idle]
    BY DEF x
  <2> HIDE DEF y
  <2>5. e = [generation |-> c.generation, incarnation |-> c.incarnation, reset |-> c.reset,
             counters |-> seen.counters, ban |-> ban, idle_at |-> idle]
    BY <2>3, <2>4
  <2>6. /\ c.generation \in Generations \cup {Off} /\ c.incarnation \in Nat /\ c.reset \in Nat
    BY <1>5, ClientFields
  <2>7. e \in [generation : Generations \cup {Off}, incarnation : Nat, reset : Nat,
               counters : Counters, ban : SUBSET [seq : Nat, deadline : Nat], idle_at : Nat]
    BY <1>8, <1>11, <1>12, <2>5, <2>6
  <2>8. e \in Client
    BY <2>7, ClientIs
  <2> QED BY <2>5, <2>8
<1> HIDE DEF e
<1>15. sequence' \in 0 .. MaxSequence /\ sequence <= sequence'
       /\ (detected => sequence' = sequence + 1)
  BY <1>1, <1>2, <1>5, CapAssumption DEF TypeOK
<1>16. \/ ban = {}
       \/ /\ sequence' = sequence + 1
          /\ \E at \in Nat : at > clock /\ ban = {[seq |-> sequence + 1, deadline |-> at]}
  BY <1>10, <1>15
<1>17. c.incarnation # 0
  BY <1>6 DEF Present
<1>18. Effects
  <2> HIDE DEF d, k
  <2>1. UNCHANGED <<profiles, hosts, domains, counts, incarnation, clock>>
    BY <1>2
  <2>2. /\ active' = active \cup {[seq |-> b.seq, deadline |-> b.deadline, domain |-> d, key |-> k] : b \in ban}
        /\ expiry' = expiry \cup {<<b.deadline, b.seq>> : b \in ban} /\ ended' = {}
    BY <1>2
  <2> QED BY <1>3, <1>4, <1>13, <1>14, <1>15, <1>16, <1>17, <2>1, <2>2, GainStep
<1>19. TicketEffects
  <2>1. ~(void[r] \/ client[t.domain][t.key].ban # {})
    BY <1>4
  <2> QED BY <1>1, <1>2, <2>1, TicketReturned
<1> QED BY <1>2, <1>18, <1>19

-----------------------------------------------------------------------------
(* Steps that leave the registry alone, and reloads.                         *)

LEMMA StillStep ==
  ASSUME RegistryInv, UNCHANGED registry, clock' \in 0 .. MaxClock, clock <= clock', ended' = {}
  PROVE  Effects
<1>1. TypeOK /\ ClientsOK /\ SeqsUnique /\ BucketsOK /\ IndexIsExact
  BY DEF RegistryInv
<1>2. UNCHANGED <<profiles, hosts, domains, client, counts, active, expiry, sequence, incarnation>>
  BY DEF registry
<1>3. client \in Buckets /\ clock \in Nat /\ incarnation \in Nat /\ clock' \in Nat
  BY <1>1, TypedState, CapAssumption
<1>4. SeqsUnique' /\ BucketsOK' /\ ClientsOK'
  BY <1>1, <1>2 DEF SeqsUnique, BucketsOK, ClientsOK
<1>5. IndexIsExact'
  <2>1. \A h \in Held(client) : h.deadline > clock' => h.deadline > clock
    BY <1>3, HeldTyped
  <2> QED BY <1>1, <1>2, <2>1 DEF IndexIsExact
<1>6. ClientsStep
  <2>1. ASSUME NEW d \in Domains, NEW k \in Keys PROVE client[d][k].reset <= client[d][k].reset
    <3>1. client[d][k].reset \in Nat
      BY <1>1, TypedState, ClientFields
    <3> QED BY <3>1
  <2> QED BY <1>2, <2>1 DEF ClientsStep, StepOf
<1>7. NewOnly /\ EndsStep /\ HoldsStep
  BY <1>2 DEF NewOnly, EndsStep, HoldsStep
<1>8. TypesStep
  BY <1>1, <1>2, <1>3 DEF TypesStep, TypeOK
<1>9. incarnation <= incarnation'
  BY <1>2, <1>3
<1> QED BY <1>4, <1>5, <1>6, <1>7, <1>8, <1>9 DEF Effects

LEMMA DiscardStep ==
  ASSUME RegistryInv, NEW r \in Requests, Discard(r)
  PROVE  Effects /\ TicketEffects /\ asked' \subseteq Nat /\ page' = {} /\ lister' = lister
<1>1. /\ ticket[r] # {} /\ Return(r) /\ ended' = {} /\ asked' = {} /\ page' = {}
      /\ UNCHANGED registry /\ lister' = lister /\ clock' = clock
  BY DEF Discard, Quiet, Announce
<1>2. TypeOK /\ TicketsOK /\ clock \in Nat
  BY TypedState DEF RegistryInv
<1>3. Effects
  <2>1. clock' \in 0 .. MaxClock /\ clock <= clock'
    BY <1>1, <1>2 DEF TypeOK
  <2> QED BY <1>1, <2>1, StillStep
<1>4. PICK t \in ticket[r] : TRUE
  BY <1>1
<1>5. /\ sequence' = sequence
      /\ client'[t.domain][t.key].counters \in {client[t.domain][t.key].counters, NoCounters}
      /\ client'[t.domain][t.key].ban \subseteq client[t.domain][t.key].ban
  BY <1>1 DEF registry
<1>6. TicketEffects
  BY <1>1, <1>2, <1>5, TicketReturned
<1> QED BY <1>1, <1>3, <1>6

LEMMA TickStep ==
  ASSUME RegistryInv, Tick
  PROVE  Effects /\ TicketEffects /\ asked' \subseteq Nat /\ page' = {} /\ lister' = lister
<1>1. /\ clock < MaxClock /\ clock' = clock + 1 /\ ended' = {} /\ asked' = {} /\ page' = {}
      /\ UNCHANGED registry /\ lister' = lister /\ ticket' = ticket
  BY DEF Tick, Quiet, Announce
<1>2. TypeOK /\ clock \in Nat
  BY TypedState DEF RegistryInv
<1>3. clock' \in 0 .. MaxClock /\ clock <= clock'
  BY <1>1, <1>2, CapAssumption
<1>4. Effects
  BY <1>1, <1>3, StillStep
<1>5. TicketEffects
  BY <1>1, <1>2, TicketsUntouched
<1> QED BY <1>1, <1>4, <1>5

(* A reload keeps a client or drops it, and rebuilds the index. *)
LEMMA ReloadStep ==
  ASSUME RegistryInv, client' \in Buckets,
         \A d \in Domains, k \in Keys :
           \/ client'[d][k] = client[d][k]
           \/ /\ client'[d][k] = NoClient
              /\ \A h \in Held(client) : h.domain = d /\ h.key = k => Reloaded(h),
         RebuildActive(client', clock), ended' = {}, ticket' = ticket,
         UNCHANGED <<sequence, incarnation, clock>>
  PROVE  /\ ClientsOK' /\ SeqsUnique' /\ IndexIsExact' /\ ClientsStep /\ NewOnly
         /\ EndsStep /\ HoldsStep
         /\ active' \subseteq Active /\ expiry' \subseteq Nat \X Nat
<1>1. TypeOK /\ ClientsOK /\ SeqsUnique
  BY DEF RegistryInv
<1>2. client \in Buckets /\ clock \in Nat /\ incarnation \in Nat /\ sequence \in Nat
  BY <1>1, TypedState
<1>3. ASSUME NEW d \in Domains, NEW k \in Keys
      PROVE  /\ Mild(client[d][k], client'[d][k], incarnation)
             /\ client'[d][k].incarnation # incarnation + 1
  <2>1. client[d][k].reset \in Nat /\ client[d][k].incarnation \in Nat
        /\ client[d][k].incarnation <= incarnation
    BY <1>1, TypedState, ClientFields DEF ClientsOK, Sound
  <2>2. CASE client'[d][k] = client[d][k]
    BY <1>2, <2>1, <2>2 DEF Mild
  <2>3. CASE client'[d][k] = NoClient
    <3>1. Mild(client[d][k], client'[d][k], incarnation)
      BY <2>3 DEF Mild
    <3> QED BY <1>2, <2>3, <3>1, NoClientTyped
  <2> QED BY <2>2, <2>3
<1>4. incarnation' \in Nat /\ incarnation <= incarnation' /\ sequence' = sequence
  BY <1>2
<1>5. ClientsOK' /\ ClientsStep /\ NewOnly /\ Held(client') \subseteq Held(client)
  BY <1>1, <1>3, <1>4, MildStep
<1>6. SeqsUnique'
  BY <1>1, <1>5 DEF SeqsUnique
<1>7. /\ active' = {h \in Held(client') : h.deadline > clock}
      /\ expiry' = {<<h.deadline, h.seq>> : h \in active'}
  BY DEF RebuildActive
<1>8. IndexIsExact'
  BY <1>7 DEF IndexIsExact
<1>9. ASSUME NEW h \in Held(client), h \notin Held(client') PROVE Reloaded(h)
  <2>1. h \in Active /\ BanIn(h) \in client[h.domain][h.key].ban
    BY <1>2, HeldIs
  <2>2. h.domain \in Domains /\ h.key \in Keys
    BY <2>1 DEF Active
  <2>3. client'[h.domain][h.key] # client[h.domain][h.key]
    BY <1>9, <2>1, HeldIs
  <2> QED BY <2>2, <2>3
<1>10. EndsStep /\ HoldsStep
  BY <1>9 DEF EndsStep, HoldsStep
<1>11. active' \subseteq Active /\ expiry' \subseteq Nat \X Nat
  <2>1. ASSUME NEW a \in active' PROVE a \in Active /\ a.seq \in Nat /\ a.deadline \in Nat
    BY <1>7, HeldTyped
  <2> QED BY <1>7, <2>1
<1> QED BY <1>5, <1>6, <1>8, <1>10, <1>11

LEMMA RetainHostsStep ==
  ASSUME RegistryInv, NEW H \in SUBSET Domains, RetainHosts(H)
  PROVE  Effects /\ TicketEffects /\ asked' \subseteq Nat /\ page' = {} /\ lister' = lister
<1> DEFINE cl == [d \in Domains |-> IF d \in H THEN client[d] ELSE EmptyBucket]
<1>1. /\ hosts' = H /\ domains' = domains \cap H /\ client' = cl
      /\ counts' = [d \in Domains |-> IF d \in H THEN counts[d] ELSE NoCounts]
      /\ RebuildActive(cl, clock) /\ ended' = {} /\ asked' = {} /\ page' = {}
      /\ UNCHANGED <<profiles, sequence, incarnation, ticket, lister, clock>>
  BY DEF RetainHosts, Quiet, Announce
<1>2. TypeOK /\ BucketsOK
  BY DEF RegistryInv
<1>3. client \in Buckets /\ clock \in Nat /\ incarnation \in Nat
  BY <1>2, TypedState
<1>4. /\ EmptyBucket \in Bucket /\ Present(EmptyBucket) = {}
      /\ NoCounts \in [Namespaces -> Nat] /\ BucketOK(EmptyBucket, NoCounts, profiles)
  BY EmptyBucketIs
<1>5. cl \in Buckets
  BY <1>3, <1>4 DEF Buckets, Bucket
<1>6. ASSUME NEW d \in Domains, NEW k \in Keys
      PROVE  \/ client'[d][k] = client[d][k]
             \/ /\ client'[d][k] = NoClient
                /\ \A h \in Held(client) : h.domain = d /\ h.key = k => Reloaded(h)
  <2>1. CASE d \in H
    BY <1>1, <2>1
  <2>2. CASE d \notin H
    <3>1. client'[d][k] = NoClient
      BY <1>1, <2>2 DEF EmptyBucket
    <3> QED BY <1>1, <2>2, <3>1 DEF Reloaded
  <2> QED BY <2>1, <2>2
<1> HIDE DEF cl
<1>7. /\ ClientsOK' /\ SeqsUnique' /\ IndexIsExact' /\ ClientsStep /\ NewOnly
      /\ EndsStep /\ HoldsStep /\ active' \subseteq Active /\ expiry' \subseteq Nat \X Nat
  BY <1>1, <1>5, <1>6, ReloadStep
<1>8. counts' \in [Domains -> [Namespaces -> Nat]]
  BY <1>1, <1>2, <1>4 DEF TypeOK
<1>9. BucketsOK'
  <2>1. IsFiniteSet(domains) /\ Cardinality(domains) <= MaxDomains
    BY <1>2 DEF BucketsOK
  <2>2. /\ IsFiniteSet(domains') /\ Cardinality(domains') <= Cardinality(domains)
        /\ Cardinality(domains) \in Nat /\ Cardinality(domains') \in Nat
    BY <1>1, <2>1, FS_Intersection, FS_CardinalityType
  <2>3. Cardinality(domains') <= MaxDomains
    BY <2>1, <2>2, CapAssumption
  <2>4. ASSUME NEW d \in Domains
        PROVE  BucketOK(client'[d], counts'[d], profiles') /\ (Present(client'[d]) # {} => d \in domains')
    <3>1. BucketOK(client[d], counts[d], profiles) /\ (Present(client[d]) # {} => d \in domains)
      BY <1>2 DEF BucketsOK
    <3>2. CASE d \in H
      <4>1. client'[d] = client[d] /\ counts'[d] = counts[d]
        BY <1>1, <3>2 DEF cl
      <4> QED BY <1>1, <3>1, <3>2, <4>1
    <3>3. CASE d \notin H
      <4>1. client'[d] = EmptyBucket /\ counts'[d] = NoCounts
        BY <1>1, <3>3 DEF cl
      <4> QED BY <1>1, <1>4, <4>1
    <3> QED BY <3>2, <3>3
  <2> QED BY <2>2, <2>3, <2>4 DEF BucketsOK
<1>10. TypesStep
  BY <1>1, <1>2, <1>5, <1>7, <1>8 DEF TypesStep, TypeOK
<1>11. incarnation <= incarnation' /\ clock <= clock'
  BY <1>1, <1>3
<1>12. TicketEffects
  BY <1>1, <1>2, TicketsUntouched
<1> QED BY <1>1, <1>7, <1>9, <1>10, <1>11, <1>12 DEF Effects

LEMMA ActivateStep ==
  ASSUME RegistryInv, NEW given \in [Namespaces -> Generations \cup {Off}],
         NEW retained \in SUBSET Namespaces, Activate(given, retained)
  PROVE  Effects /\ TicketEffects /\ asked' \subseteq Nat /\ page' = {} /\ lister' = lister
<1> DEFINE new == Profiles(given, retained)
           cl == [d \in Domains |-> [k \in Keys |->
                    IF client[d][k].generation = new[NamespaceOf(k)] THEN client[d][k] ELSE NoClient]]
<1>1. /\ profiles' = new /\ client' = cl
      /\ domains' = {d \in domains : Present(cl[d]) # {}}
      /\ counts' = [d \in Domains |-> [n \in Namespaces |->
                      Cardinality({k \in Present(cl[d]) : NamespaceOf(k) = n})]]
      /\ RebuildActive(cl, clock) /\ ended' = {} /\ asked' = {} /\ page' = {}
      /\ UNCHANGED <<hosts, sequence, incarnation, ticket, lister, clock>>
  BY DEF Activate, Quiet, Announce
<1>2. TypeOK /\ BucketsOK /\ ClientsOK
  BY DEF RegistryInv
<1>3. client \in Buckets /\ clock \in Nat /\ incarnation \in Nat
  BY <1>2, TypedState
<1>4. new \in [Namespaces -> Generations \cup {Off}]
  BY <1>2 DEF Profiles, TypeOK
<1> HIDE DEF new
<1>5. cl \in Buckets /\ \A d \in Domains, k \in Keys :
        cl[d][k] = IF client[d][k].generation = new[NamespaceOf(k)] THEN client[d][k] ELSE NoClient
  BY <1>3, NoClientTyped DEF Buckets
<1>6. ASSUME NEW d \in Domains, NEW k \in Present(client[d])
      PROVE  /\ client[d][k].generation = profiles[NamespaceOf(k)]
             /\ client[d][k].generation \in Generations /\ k \in Keys
  <2>1. k \in Keys /\ client[d][k].incarnation # 0
    BY DEF Present
  <2>2. client[d][k].generation \in Generations
    BY <1>2, <2>1 DEF ClientsOK, Sound
  <2>3. client[d][k].generation = profiles[NamespaceOf(k)]
    BY <1>2 DEF BucketsOK, BucketOK
  <2> QED BY <2>1, <2>2, <2>3
<1>7. ASSUME NEW d \in Domains, NEW k \in Keys
      PROVE  \/ client'[d][k] = client[d][k]
             \/ /\ client'[d][k] = NoClient
                /\ \A h \in Held(client) : h.domain = d /\ h.key = k => Reloaded(h)
  <2>1. CASE client[d][k].generation = new[NamespaceOf(k)]
    BY <1>1, <1>5, <2>1
  <2>2. CASE client[d][k].generation # new[NamespaceOf(k)]
    <3>1. client'[d][k] = NoClient
      BY <1>1, <1>5, <2>2
    <3>2. ASSUME NEW h \in Held(client), h.domain = d, h.key = k PROVE Reloaded(h)
      <4>1. BanIn(h) \in client[d][k].ban
        BY <1>3, <3>2, HeldIs
      <4>2. k \in Present(client[d])
        BY <1>2, <4>1 DEF Present, ClientsOK, Sound
      <4>3. client[d][k].generation = profiles[NamespaceOf(k)]
        BY <1>6, <4>2
      <4> QED BY <1>1, <2>2, <3>2, <4>3 DEF Reloaded
    <3> QED BY <3>1, <3>2
  <2> QED BY <2>1, <2>2
<1> HIDE DEF cl
<1>8. /\ ClientsOK' /\ SeqsUnique' /\ IndexIsExact' /\ ClientsStep /\ NewOnly
      /\ EndsStep /\ HoldsStep /\ active' \subseteq Active /\ expiry' \subseteq Nat \X Nat
  BY <1>1, <1>5, <1>7, ReloadStep
<1>9. ASSUME NEW d \in Domains
      PROVE  /\ Present(cl[d]) \subseteq Present(client[d])
             /\ \A k \in Present(cl[d]) : cl[d][k] = client[d][k]
                                          /\ client[d][k].generation = new[NamespaceOf(k)]
  <2>1. ASSUME NEW k \in Keys, cl[d][k].incarnation # 0
        PROVE  cl[d][k] = client[d][k] /\ client[d][k].generation = new[NamespaceOf(k)]
    BY <1>5, <2>1, NoClientTyped
  <2> QED BY <2>1 DEF Present
<1>10. ASSUME NEW d \in Domains
       PROVE  /\ BucketOK(cl[d], counts'[d], new)
              /\ counts'[d] \in [Namespaces -> Nat]
              /\ Present(client[d]) # {} => d \in domains
  <2>1. BucketOK(client[d], counts[d], profiles) /\ (Present(client[d]) # {} => d \in domains)
    BY <1>2 DEF BucketsOK
  <2>2. ASSUME NEW k \in Present(cl[d])
        PROVE  /\ cl[d][k].generation = client[d][k].generation
               /\ new[NamespaceOf(k)] = profiles[NamespaceOf(k)]
               /\ profiles[NamespaceOf(k)] \in Generations
    BY <1>6, <1>9
  <2>3. counts'[d] = [n \in Namespaces |-> Cardinality(Own(cl[d], n))]
    BY <1>1 DEF Own
  <2>4. \A n \in Namespaces : counts'[d][n] = Cardinality(Own(cl[d], n))
    BY <2>3
  <2>5. profiles \in [Namespaces -> Generations \cup {Off}]
    BY <1>2 DEF TypeOK
  <2>6. BucketOK(cl[d], counts'[d], new)
    BY <1>9, <2>1, <2>2, <2>4, <2>5, BucketShrinks
  <2>7. \A n \in Namespaces : Cardinality(Own(cl[d], n)) \in Nat
    BY <2>6, OwnFinite DEF BucketOK
  <2> QED BY <2>1, <2>3, <2>6, <2>7
<1>11. BucketsOK'
  <2>1. IsFiniteSet(domains) /\ Cardinality(domains) <= MaxDomains
    BY <1>2 DEF BucketsOK
  <2>2. /\ IsFiniteSet(domains') /\ Cardinality(domains') <= Cardinality(domains)
        /\ Cardinality(domains) \in Nat /\ Cardinality(domains') \in Nat
    <3>1. domains' \in SUBSET domains
      BY <1>1
    <3> QED BY <2>1, <3>1, FS_Subset, FS_CardinalityType
  <2>3. Cardinality(domains') <= MaxDomains
    BY <2>1, <2>2, CapAssumption
  <2>4. ASSUME NEW d \in Domains
        PROVE  BucketOK(client'[d], counts'[d], profiles') /\ (Present(client'[d]) # {} => d \in domains')
    <3>1. Present(cl[d]) # {} => d \in domains
      BY <1>9, <1>10
    <3> QED BY <1>1, <1>10, <3>1
  <2> QED BY <2>2, <2>3, <2>4 DEF BucketsOK
<1>12. counts' \in [Domains -> [Namespaces -> Nat]]
  <2>1. counts' = [d \in Domains |-> counts'[d]]
    BY <1>1
  <2> QED BY <1>10, <2>1
<1>13. TypesStep
  BY <1>1, <1>2, <1>4, <1>5, <1>8, <1>12 DEF TypesStep, TypeOK
<1>14. incarnation <= incarnation' /\ clock <= clock'
  BY <1>1, <1>3
<1>15. TicketEffects
  BY <1>1, <1>2, TicketsUntouched
<1> QED BY <1>1, <1>8, <1>11, <1>13, <1>14, <1>15 DEF Effects

-----------------------------------------------------------------------------
(* Listing.                                                                  *)

LEMMA ListExpireStep ==
  ASSUME RegistryInv, NEW l \in lister, ListExpire(l)
  PROVE  Effects /\ TicketEffects /\ asked' \subseteq Nat /\ page' = {} /\ lister' = lister
<1> DEFINE batch == DueBatch(l.now)
           due == {e[2] : e \in batch}
           named == {h \in active \cap Held(client) : h.seq \in due}
           S == {h.seq : h \in named}
           At(d, k) == \E h \in named : h.domain = d /\ h.key = k
<1>1. /\ client' = [d \in Domains |-> [k \in Keys |->
           IF At(d, k) THEN Settle(client[d][k], l.now) ELSE client[d][k]]]
      /\ active' = {a \in active : a.seq \notin due} /\ expiry' = expiry \ batch
      /\ ended' = S /\ asked' = {} /\ page' = {}
      /\ UNCHANGED <<profiles, hosts, domains, counts, sequence, incarnation, ticket, lister, clock>>
  BY DEF ListExpire, Announce
<1>2. TypeOK /\ ClientsOK /\ SeqsUnique /\ IndexIsExact /\ BucketsOK /\ ListerOK
  BY DEF RegistryInv
<1>3. client \in Buckets /\ clock \in Nat /\ incarnation \in Nat /\ sequence \in Nat
  BY <1>2, TypedState
<1>4. l.now \in Nat /\ l.now <= clock
  BY <1>2 DEF TypeOK, Listing, ListerOK
<1>5. /\ active \subseteq Held(client)
      /\ expiry = {<<a.deadline, a.seq>> : a \in active}
  BY <1>2 DEF IndexIsExact
<1>6. \A e \in batch : e \in expiry /\ e[1] <= l.now
  BY DEF DueBatch
<1> HIDE DEF batch
<1>7. ASSUME NEW e \in batch
      PROVE  \E a \in named : e = <<a.deadline, a.seq>> /\ a.deadline <= l.now /\ a.seq = e[2]
  <2>1. PICK a \in active : e = <<a.deadline, a.seq>>
    BY <1>5, <1>6
  <2>2. a.deadline = e[1] /\ a.seq = e[2] /\ a.seq \in due
    BY <2>1
  <2>3. a \in named
    BY <1>5, <2>2
  <2> QED BY <1>6, <2>1, <2>2, <2>3
<1>8. ASSUME NEW h \in named
      PROVE  h \in Held(client) /\ h \in active /\ h.deadline <= l.now /\ <<h.deadline, h.seq>> \in batch
  <2>1. PICK e \in batch : h.seq = e[2]
    OBVIOUS
  <2>2. PICK a \in named : e = <<a.deadline, a.seq>> /\ a.deadline <= l.now /\ a.seq = e[2]
    BY <1>7
  <2>3. a = h
    BY <1>2, <2>1, <2>2 DEF SeqsUnique
  <2> QED BY <2>2, <2>3
<1>9. S = due
  BY <1>7
<1>10. RemoveActive(S)
  <2>1. ASSUME NEW x PROVE x \in batch <=> \E a \in active : a.seq \in S /\ x = <<a.deadline, a.seq>>
    <3>1. ASSUME x \in batch PROVE \E a \in active : a.seq \in S /\ x = <<a.deadline, a.seq>>
      BY <1>7, <3>1
    <3>2. ASSUME NEW a \in active, a.seq \in S, x = <<a.deadline, a.seq>> PROVE x \in batch
      <4>1. a \in named
        BY <1>5, <1>9, <3>2
      <4> QED BY <1>8, <3>2, <4>1
    <3> QED BY <3>1, <3>2
  <2> HIDE DEF S, due
  <2>2. batch = {<<a.deadline, a.seq>> : a \in {x \in active : x.seq \in S}}
    BY <2>1
  <2> QED BY <1>1, <1>9, <2>2 DEF RemoveActive
<1>11. ASSUME NEW d \in Domains, NEW k \in Keys
       PROVE  /\ client'[d][k] \in Client
              /\ Mild(client[d][k], client'[d][k], incarnation)
              /\ client'[d][k].incarnation = client[d][k].incarnation
              /\ client'[d][k].generation = client[d][k].generation
              /\ client'[d][k].ban = {b \in client[d][k].ban : b.seq \notin S}
  <2> DEFINE c == client[d][k]
  <2>1. c \in Client /\ c.reset \in Nat /\ \A a, b \in c.ban : a = b
    BY <1>2, TypedState, ClientFields DEF ClientsOK, Sound
  <2>2. CASE At(d, k)
    <3>1. PICK h \in named : h.domain = d /\ h.key = k
      BY <2>2
    <3>2. h \in Held(client) /\ h.deadline <= l.now /\ h.seq \in S
      BY <1>8
    <3>3. BanIn(h) \in c.ban /\ BanIn(h).deadline = h.deadline /\ BanIn(h).seq = h.seq
      BY <1>3, <3>1, <3>2, HeldIs DEF BanIn
    <3>4. Due(c, l.now) = c.ban /\ c.ban = {BanIn(h)}
      BY <2>1, <3>2, <3>3 DEF Due
    <3>5. client'[d][k] = Settle(c, l.now)
      BY <1>1, <2>2
    <3>6. /\ Settle(c, l.now) \in Client
          /\ Settle(c, l.now).generation = c.generation
          /\ Settle(c, l.now).incarnation = c.incarnation
          /\ Settle(c, l.now).ban = {}
      BY <1>4, <2>1, <3>4, SettleIs
    <3>7. Mild(c, Settle(c, l.now), incarnation)
      BY <1>4, <2>1, SettleIsMild
    <3>8. {b \in c.ban : b.seq \notin S} = {}
      BY <3>2, <3>3, <3>4
    <3> QED BY <3>5, <3>6, <3>7, <3>8
  <2>3. CASE ~At(d, k)
    <3>1. client'[d][k] = c
      BY <1>1, <2>3
    <3>2. ASSUME NEW b \in c.ban, b.seq \in S PROVE FALSE
      <4>1. PICK h \in named : h.seq = b.seq
        BY <3>2
      <4>2. h \in Held(client)
        BY <1>8
      <4>3. h \in Active /\ BanIn(h) \in client[h.domain][h.key].ban
        BY <1>3, <4>2, HeldIs
      <4>4. h.domain \in Domains /\ h.key \in Keys /\ BanIn(h).seq = h.seq
        BY <4>3 DEF Active, BanIn
      <4>5. h.domain = d /\ h.key = k
        BY <1>2, <4>1, <4>3, <4>4, SameBan
      <4> QED BY <2>3, <4>5
    <3>3. c.reset <= c.reset
      BY <2>1
    <3>4. Mild(c, c, incarnation)
      BY <3>3 DEF Mild
    <3> QED BY <2>1, <3>1, <3>2, <3>4
  <2> QED BY <2>2, <2>3
<1>12. client' \in Buckets
  <2> DEFINE f(d, k) == IF At(d, k) THEN Settle(client[d][k], l.now) ELSE client[d][k]
  <2>1. client' = [d \in Domains |-> [k \in Keys |-> f(d, k)]]
    BY <1>1
  <2> HIDE DEF f
  <2>2. \A d \in Domains, k \in Keys : f(d, k) \in Client
    BY <1>11, <2>1
  <2> QED BY <2>1, <2>2 DEF Buckets
<1>13. Loses(client, client', S)
  <2>1. \A s \in S : \E h \in Held(client) : h.seq = s
    BY <1>8
  <2> QED BY <1>11, <2>1 DEF Loses
<1>14. IndexIsExact' /\ SeqsUnique' /\ active' \subseteq Active /\ expiry' \subseteq Nat \X Nat
  BY <1>1, <1>2, <1>10, <1>12, <1>13, IndexAfterLoss
<1>15. EndsStep /\ HoldsStep
  <2>1. ASSUME NEW h \in Held(client), h.seq \in S PROVE h.deadline <= clock
    <3>1. PICK g \in named : g.seq = h.seq
      BY <2>1
    <3>2. g = h
      BY <1>2, <1>8, <3>1 DEF SeqsUnique
    <3>3. h.deadline <= l.now /\ h.deadline \in Nat
      BY <1>3, <1>8, <3>2, HeldTyped
    <3> QED BY <1>3, <1>4, <3>3
  <2> HIDE DEF S
  <2> QED BY <1>1, <1>2, <1>12, <1>13, <2>1, LossIsAnnounced
<1>16. ASSUME NEW d \in Domains, NEW k \in Keys PROVE client'[d][k].incarnation # incarnation + 1
  <2>1. client[d][k].incarnation \in Nat /\ client[d][k].incarnation <= incarnation
    BY <1>2, TypedState, ClientFields DEF ClientsOK, Sound
  <2> QED BY <1>3, <1>11, <2>1
<1>17. ClientsOK' /\ ClientsStep /\ NewOnly
  <2>1. sequence' = sequence /\ incarnation' \in Nat /\ incarnation <= incarnation'
    BY <1>1, <1>3
  <2> QED BY <1>2, <1>11, <1>12, <1>16, <2>1, MildStep
<1>18. BucketsOK'
  <2>1. /\ domains \subseteq domains' /\ IsFiniteSet(domains') /\ Cardinality(domains') <= MaxDomains
        /\ counts' = counts /\ profiles' = profiles
    BY <1>1, <1>2 DEF BucketsOK
  <2> QED BY <1>2, <1>11, <1>12, <2>1, SameClients
<1>19. ended' \subseteq Nat
  <2>1. \A h \in named : h.seq \in Nat
    BY <1>3, <1>8, HeldTyped
  <2> QED BY <1>1, <2>1
<1>20. TypesStep
  BY <1>1, <1>2, <1>12, <1>14, <1>19 DEF TypesStep, TypeOK
<1>21. TicketEffects
  BY <1>1, <1>2, TicketsUntouched
<1>22. incarnation <= incarnation' /\ clock <= clock'
  BY <1>1, <1>3
<1> QED BY <1>1, <1>14, <1>15, <1>17, <1>18, <1>20, <1>21, <1>22 DEF Effects

(* The index is finite, and its bans are told apart by their numbers. *)
LEMMA ActiveNumbered ==
  ASSUME RegistryInv, NEW T \in SUBSET active
  PROVE  Numbered(T) /\ \A a \in T : a.seq <= sequence
<1>1. TypeOK /\ ClientsOK /\ SeqsUnique /\ IndexIsExact /\ sequence \in Nat /\ client \in Buckets
  BY TypedState DEF RegistryInv
<1>2. \A a \in T : a \in Held(client) /\ a.seq \in Nat /\ a.seq <= sequence
  BY <1>1, SeqsBounded DEF IndexIsExact
<1>3. \A a, b \in T : a.seq = b.seq => a = b
  BY <1>1, <1>2 DEF SeqsUnique
<1> DEFINE f == [a \in T |-> a.seq]
<1>4. f \in Injection(T, 0 .. sequence)
  BY <1>1, <1>2, <1>3 DEF Injection, IsInjective
<1>5. IsFiniteSet(T)
  BY <1>1, <1>4, FS_Injection, FS_Interval
<1> QED BY <1>2, <1>3, <1>5 DEF Numbered

LEMMA ListStartStep ==
  ASSUME RegistryInv, NEW after \in Cursors, NEW limit \in Limits, NEW filter \in Filters,
         ListStart(after, limit, filter), Remember
  PROVE  /\ Effects /\ TicketEffects /\ asked' \subseteq Nat
         /\ ListerOK' /\ ListIsComplete' /\ lister' \subseteq Listing /\ page' \subseteq Listing
<1> DEFINE seqs == {0} \cup {a.seq : a \in active}
           l == [now |-> clock, max |-> Max(seqs), after |-> after, limit |-> limit,
                 filter |-> filter, rows |-> {}]
<1>1. /\ lister = {} /\ lister' = {l} /\ ended' = {} /\ asked' = {} /\ page' = {}
      /\ UNCHANGED registry /\ ticket' = ticket /\ clock' = clock
  BY DEF ListStart, Quiet, Announce
<1>2. TypeOK /\ IndexIsExact /\ client \in Buckets /\ clock \in Nat /\ sequence \in Nat
  BY TypedState DEF RegistryInv
<1>3. Effects /\ TicketEffects
  <2>1. clock' \in 0 .. MaxClock /\ clock <= clock'
    BY <1>1, <1>2 DEF TypeOK
  <2> QED BY <1>1, <1>2, <2>1, StillStep, TicketsUntouched
<1>4. \A a \in active : a.seq \in Nat /\ a.seq <= sequence
  BY ActiveNumbered DEF Numbered
<1>5. Max(seqs) \in Nat /\ \A a \in active : a.seq <= Max(seqs)
  <2>1. seqs \in SUBSET Nat /\ seqs # {} /\ \A y \in seqs : y <= sequence
    BY <1>2, <1>4
  <2>2. \A a \in active : a.seq \in seqs
    OBVIOUS
  <2> HIDE DEF seqs
  <2> QED BY <1>2, <2>1, <2>2, MaxOfBounded
<1> HIDE DEF seqs
<1>6. after \in Nat /\ limit \in Nat \ {0} /\ filter \subseteq Domains \X Namespaces
  BY ListingAssumption DEF Filters
<1>7. l \in Listing
  BY <1>2, <1>5, <1>6 DEF Listing
<1>8. /\ l.now = clock /\ l.max = Max(seqs) /\ l.after = after /\ l.limit = limit
      /\ l.filter = filter /\ l.rows = {}
  OBVIOUS
<1> HIDE DEF l
<1>9. ASSUME NEW m \in lister', NEW s \in kept'
      PROVE  \E h \in Held(client') : h.seq = s /\ Awaits(m, h)'
  <2>1. kept' = {h.seq : h \in {x \in Held(client) :
                   /\ x.deadline > clock
                   /\ \E y \in lister' : x.seq > y.after /\ PlaceOf(x) \in y.filter}}
    BY <1>1 DEF Remember
  <2>2. PICK h \in Held(client) : /\ h.deadline > clock /\ h.seq = s
                                  /\ h.seq > m.after /\ PlaceOf(h) \in m.filter
    BY <1>1, <2>1
  <2>3. m.max = Max(seqs) /\ m.after = after
    BY <1>1, <1>8
  <2>4. h \in active /\ h.seq \in Nat /\ h.seq <= m.max
    BY <1>2, <1>4, <1>5, <2>2, <2>3 DEF IndexIsExact
  <2>5. m.after < h.seq
    BY <1>6, <2>2, <2>3, <2>4
  <2>6. h.deadline > clock'
    BY <1>1, <2>2
  <2>7. Awaits(m, h)'
    BY <2>2, <2>4, <2>5, <2>6 DEF Awaits
  <2>8. client' = client
    BY <1>1 DEF registry
  <2> QED BY <2>2, <2>7, <2>8
<1>10. ASSUME NEW m \in lister'
       PROVE  /\ m.now <= clock' /\ IsFiniteSet(m.rows) /\ Cardinality(m.rows) < m.limit
              /\ m.rows = {} /\ \A y \in lister' : y = m
  BY <1>1, <1>2, <1>6, <1>8, FS_EmptySet
<1>11. ListerOK'
  BY <1>9, <1>10 DEF ListerOK
<1>12. ListIsComplete'
  BY <1>1 DEF ListIsComplete
<1> QED BY <1>1, <1>3, <1>7, <1>11, <1>12

(* A batch of the scan: what it looks at, what it adds and where it stops. *)
Ahead(l) == {a \in active : l.after < a.seq /\ a.seq <= l.max}
Matching(l) == {a \in Candidates(l) : a.deadline > l.now /\ PlaceOf(a) \in l.filter}
Taken(l) == Lowest(Matching(l), l.limit - Cardinality(l.rows))
RowsNow(l) == l.rows \cup {a.seq : a \in Taken(l)}
Through(l) == Max({l.after} \cup {a.seq : a \in Candidates(l)})

LEMMA PageGrows ==
  ASSUME NEW rows \in SUBSET Nat, IsFiniteSet(rows), NEW L, Numbered(L),
         \A x \in rows : \A a \in L : x < a.seq
  PROVE  /\ IsFiniteSet(rows \cup {a.seq : a \in L})
         /\ Cardinality(rows \cup {a.seq : a \in L}) = Cardinality(rows) + Cardinality(L)
<1> DEFINE Q == {a.seq : a \in L}
           f == [a \in L |-> a.seq]
<1>1. f \in Bijection(L, Q)
  BY DEF Bijection, Injection, Surjection, IsInjective, Numbered
<1>2. ExistsBijection(L, Q)
  BY <1>1 DEF ExistsBijection
<1>3. rows \cap Q = {}
  BY DEF Numbered
<1> HIDE DEF Q, f
<1>4. IsFiniteSet(Q) /\ Cardinality(Q) = Cardinality(L)
  BY <1>2, FS_Bijection DEF Numbered
<1>5. /\ IsFiniteSet(rows \cup Q)
      /\ Cardinality(rows \cup Q) = Cardinality(rows) + Cardinality(Q) - Cardinality(rows \cap Q)
  BY <1>4, FS_Union
<1>6. Cardinality(rows \cap Q) = 0
  BY <1>3, FS_EmptySet
<1>7. Cardinality(rows) \in Nat /\ Cardinality(Q) \in Nat
  BY <1>4, FS_CardinalityType
<1>8. Cardinality(rows \cup Q) = Cardinality(rows) + Cardinality(L)
  BY <1>4, <1>5, <1>6, <1>7
<1> QED BY <1>5, <1>8 DEF Q

LEMMA ListingIs ==
  ASSUME RegistryInv, NEW l \in lister
  PROVE  /\ l \in Listing /\ l.now \in Nat /\ l.max \in Nat /\ l.after \in Nat /\ l.limit \in Nat
         /\ l.rows \subseteq Nat /\ l.now <= clock
         /\ IsFiniteSet(l.rows) /\ Cardinality(l.rows) \in Nat
         /\ l.limit - Cardinality(l.rows) \in Nat
         /\ \A x \in l.rows : x <= l.after
<1>1. TypeOK /\ ListerOK
  BY DEF RegistryInv
<1>2. /\ l \in Listing /\ l.now \in Nat /\ l.max \in Nat /\ l.after \in Nat /\ l.limit \in Nat
      /\ l.rows \subseteq Nat
  BY <1>1 DEF TypeOK, Listing
<1>3. /\ l.now <= clock /\ IsFiniteSet(l.rows) /\ Cardinality(l.rows) < l.limit
      /\ \A x \in l.rows : x <= l.after
  BY <1>1 DEF ListerOK
<1>4. Cardinality(l.rows) \in Nat
  BY <1>3, FS_CardinalityType
<1>5. l.limit - Cardinality(l.rows) \in Nat
  BY <1>2, <1>3, <1>4
<1> QED BY <1>2, <1>3, <1>4, <1>5

LEMMA ScanIs ==
  ASSUME RegistryInv, NEW l \in lister
  PROVE  /\ Numbered(Ahead(l)) /\ Numbered(Matching(l)) /\ Numbered(Taken(l))
         /\ Candidates(l) = Lowest(Ahead(l), Batch) /\ Candidates(l) \subseteq Ahead(l)
         /\ Taken(l) \subseteq Matching(l) /\ Matching(l) \subseteq Candidates(l)
         /\ Through(l) \in Nat /\ l.after <= Through(l)
         /\ Through(l) = l.after \/ \E a \in Candidates(l) : Through(l) = a.seq
         /\ \A a \in Candidates(l) : a.seq <= Through(l)
<1>1. /\ l.after \in Nat /\ l.limit - Cardinality(l.rows) \in Nat
      /\ Batch \in Nat /\ sequence \in Nat
  BY ListingIs, TypedState, ListingAssumption DEF RegistryInv
<1>2. Ahead(l) \in SUBSET active
  BY DEF Ahead
<1>3. Numbered(Ahead(l)) /\ \A a \in Ahead(l) : a.seq \in Nat /\ a.seq <= sequence
  BY <1>2, ActiveNumbered DEF Numbered
<1>4. Candidates(l) = Lowest(Ahead(l), Batch)
  BY DEF Candidates, Ahead
<1>5. Candidates(l) \subseteq Ahead(l)
  BY <1>1, <1>3, <1>4, LowestFinite
<1>6. Matching(l) \in SUBSET active /\ Matching(l) \subseteq Candidates(l)
  BY <1>2, <1>5 DEF Matching
<1>7. Numbered(Matching(l))
  BY <1>6, ActiveNumbered
<1>8. Numbered(Taken(l)) /\ Taken(l) \subseteq Matching(l)
  BY <1>1, <1>7, LowestFinite DEF Taken
<1> DEFINE Q == {l.after} \cup {a.seq : a \in Candidates(l)}
<1>9. Q \in SUBSET Nat /\ Q # {}
  BY <1>1, <1>3, <1>5
<1>10. \E N \in Nat : \A y \in Q : y <= N
  <2>1. CASE l.after <= sequence
    BY <1>1, <1>3, <1>5, <2>1
  <2>2. CASE sequence < l.after
    <3>1. \A a \in Candidates(l) : a.seq <= l.after
      BY <1>1, <1>3, <1>5, <2>2
    <3> QED BY <1>1, <3>1
  <2> QED BY <1>1, <2>1, <2>2
<1>11. Through(l) = Max(Q)
  BY DEF Through
<1>12. l.after \in Q /\ \A a \in Candidates(l) : a.seq \in Q
  OBVIOUS
<1>13. \A y \in Q : y = l.after \/ \E a \in Candidates(l) : y = a.seq
  OBVIOUS
<1> HIDE DEF Q
<1>14. Max(Q) \in Q /\ Max(Q) \in Nat /\ \A y \in Q : y <= Max(Q)
  BY <1>9, <1>10, MaxOfBounded
<1> QED BY <1>3, <1>4, <1>5, <1>6, <1>7, <1>8, <1>11, <1>12, <1>13, <1>14

LEMMA RowsNowIs ==
  ASSUME RegistryInv, NEW l \in lister
  PROVE  /\ RowsNow(l) \subseteq Nat /\ IsFiniteSet(RowsNow(l))
         /\ Cardinality(RowsNow(l)) = Cardinality(l.rows) + Cardinality(Taken(l))
         /\ Cardinality(RowsNow(l)) \in Nat /\ Cardinality(RowsNow(l)) <= l.limit
         /\ \A x \in RowsNow(l) : x <= Through(l)
<1>1. /\ l.after \in Nat /\ l.limit \in Nat /\ l.limit - Cardinality(l.rows) \in Nat
      /\ l.rows \in SUBSET Nat /\ IsFiniteSet(l.rows) /\ Cardinality(l.rows) \in Nat
      /\ \A x \in l.rows : x <= l.after
  BY ListingIs
<1>2. /\ Numbered(Matching(l)) /\ Numbered(Taken(l)) /\ Taken(l) \subseteq Matching(l)
      /\ Matching(l) \subseteq Candidates(l) /\ Candidates(l) \subseteq Ahead(l)
      /\ Through(l) \in Nat /\ l.after <= Through(l)
      /\ \A a \in Candidates(l) : a.seq <= Through(l)
  BY ScanIs
<1>3. \A a \in Taken(l) : a.seq \in Nat /\ l.after < a.seq /\ a.seq <= Through(l)
  BY <1>2 DEF Ahead, Numbered
<1>4. \A x \in l.rows : \A a \in Taken(l) : x < a.seq
  BY <1>1, <1>3
<1>5. /\ IsFiniteSet(RowsNow(l))
      /\ Cardinality(RowsNow(l)) = Cardinality(l.rows) + Cardinality(Taken(l))
  BY <1>1, <1>2, <1>4, PageGrows DEF RowsNow
<1>6. Cardinality(Taken(l)) <= l.limit - Cardinality(l.rows) /\ Cardinality(Taken(l)) \in Nat
  BY <1>1, <1>2, LowestBound, LowestFinite DEF Taken
<1>7. Cardinality(RowsNow(l)) \in Nat /\ Cardinality(RowsNow(l)) <= l.limit
  BY <1>1, <1>5, <1>6
<1>8. RowsNow(l) \subseteq Nat
  BY <1>1, <1>3 DEF RowsNow
<1>9. \A x \in RowsNow(l) : x <= Through(l)
  <2>1. \A x \in l.rows : x <= Through(l)
    BY <1>1, <1>2
  <2> QED BY <1>3, <2>1 DEF RowsNow
<1> QED BY <1>5, <1>7, <1>8, <1>9

(* Every ban the listing still owes is on the page, behind a full page, or   *)
(* beyond the batch.                                                         *)
LEMMA ScanFinds ==
  ASSUME RegistryInv, NEW l \in lister, NEW h \in Held(client), Awaits(l, h)
  PROVE  \/ h.seq \in RowsNow(l)
         \/ Cardinality(RowsNow(l)) = l.limit /\ \A x \in RowsNow(l) : x < h.seq
         \/ /\ Candidates(l) # {} /\ Through(l) < h.seq /\ h.seq <= l.max
            /\ \A x \in RowsNow(l) : x < h.seq
<1>1. TypeOK /\ IndexIsExact /\ client \in Buckets /\ clock \in Nat
  BY TypedState DEF RegistryInv
<1>2. /\ l.after \in Nat /\ l.limit \in Nat /\ l.limit - Cardinality(l.rows) \in Nat
      /\ l.now \in Nat /\ l.now <= clock
      /\ l.rows \in SUBSET Nat /\ Cardinality(l.rows) \in Nat
      /\ \A x \in l.rows : x <= l.after
  BY ListingIs
<1>3. h.deadline \in Nat /\ h.seq \in Nat
  BY <1>1, HeldTyped
<1>4. /\ h.deadline > clock /\ PlaceOf(h) \in l.filter
      /\ h.seq \in l.rows \/ (l.after < h.seq /\ h.seq <= l.max)
  BY DEF Awaits
<1>5. CASE h.seq \in l.rows
  BY <1>5 DEF RowsNow
<1>6. CASE l.after < h.seq /\ h.seq <= l.max
  <2>1. h \in Ahead(l)
    BY <1>1, <1>4, <1>6 DEF IndexIsExact, Ahead
  <2>2. /\ Numbered(Ahead(l)) /\ Numbered(Matching(l)) /\ Taken(l) \subseteq Matching(l)
        /\ Candidates(l) = Lowest(Ahead(l), Batch)
        /\ Through(l) \in Nat
        /\ Through(l) = l.after \/ \E a \in Candidates(l) : Through(l) = a.seq
    BY ScanIs
  <2>3. CASE h \in Candidates(l)
    <3>1. h.deadline > l.now
      BY <1>1, <1>2, <1>3, <1>4
    <3>2. h \in Matching(l)
      BY <1>4, <2>3, <3>1 DEF Matching
    <3>3. CASE h \in Taken(l)
      BY <3>3 DEF RowsNow
    <3>4. CASE h \notin Taken(l)
      <4>1. /\ Cardinality(Taken(l)) = l.limit - Cardinality(l.rows)
            /\ \A b \in Taken(l) : b.seq < h.seq
        BY <1>2, <2>2, <3>2, <3>4, LowestRest DEF Taken
      <4>2. Cardinality(RowsNow(l)) = Cardinality(l.rows) + Cardinality(Taken(l))
        BY RowsNowIs
      <4>3. Cardinality(RowsNow(l)) = l.limit
        BY <1>2, <4>1, <4>2
      <4>4. \A x \in l.rows : x < h.seq
        BY <1>2, <1>3, <1>6
      <4>5. \A x \in RowsNow(l) : x < h.seq
        BY <4>1, <4>4 DEF RowsNow
      <4> QED BY <4>3, <4>5
    <3> QED BY <3>3, <3>4
  <2>4. CASE h \notin Candidates(l)
    <3>1. /\ Cardinality(Candidates(l)) = Batch
          /\ \A b \in Candidates(l) : b.seq < h.seq
      BY <2>1, <2>2, <2>4, ListingAssumption, LowestRest
    <3>2. Candidates(l) # {}
      <4>1. Cardinality({}) = 0
        BY FS_EmptySet
      <4> QED BY <3>1, <4>1, ListingAssumption
    <3>3. Through(l) < h.seq
      BY <1>6, <2>2, <3>1
    <3>4. \A x \in RowsNow(l) : x \in Nat /\ x <= Through(l)
      BY RowsNowIs
    <3>5. \A x \in RowsNow(l) : x < h.seq
      BY <1>3, <2>2, <3>3, <3>4
    <3> QED BY <1>6, <3>2, <3>3, <3>5
  <2> QED BY <2>3, <2>4
<1> QED BY <1>4, <1>5, <1>6

LEMMA ListScanStep ==
  ASSUME RegistryInv, NEW l \in lister, ListScan(l), Remember
  PROVE  /\ Effects /\ TicketEffects /\ asked' \subseteq Nat
         /\ ListerOK' /\ ListIsComplete' /\ lister' \subseteq Listing /\ page' \subseteq Listing
<1> DEFINE rows == RowsNow(l)
           through == Through(l)
           next == [l EXCEPT !.rows = rows, !.after = through]
           done == \/ Candidates(l) = {}
                   \/ Cardinality(rows) = l.limit
                   \/ through >= l.max
<1>1. /\ lister' = IF done THEN {} ELSE {next}
      /\ page' = IF done THEN {next} ELSE {}
      /\ ended' = {} /\ asked' = {} /\ UNCHANGED registry /\ ticket' = ticket /\ clock' = clock
  BY DEF ListScan, RowsNow, Taken, Matching, Through
<1>2. TypeOK /\ ListerOK /\ client \in Buckets /\ clock \in Nat
  BY TypedState DEF RegistryInv
<1>3. Effects /\ TicketEffects
  <2>1. clock' \in 0 .. MaxClock /\ clock <= clock'
    BY <1>1, <1>2 DEF TypeOK
  <2> QED BY <1>1, <1>2, <2>1, StillStep, TicketsUntouched
<1>4. /\ rows \subseteq Nat /\ IsFiniteSet(rows)
      /\ Cardinality(rows) \in Nat /\ Cardinality(rows) <= l.limit
      /\ \A x \in rows : x <= through
  BY RowsNowIs
<1>5. through \in Nat
  BY ScanIs
<1>6. /\ l \in Listing /\ l.now \in Nat /\ l.max \in Nat /\ l.after \in Nat /\ l.limit \in Nat
      /\ l.now <= clock
  BY ListingIs
<1> HIDE DEF rows, through
<1>7. /\ next \in Listing /\ next.now = l.now /\ next.max = l.max /\ next.limit = l.limit
      /\ next.filter = l.filter /\ next.rows = rows /\ next.after = through
  BY <1>4, <1>5, <1>6 DEF Listing
<1> HIDE DEF next
<1>8. client' = client
  BY <1>1 DEF registry
<1>9. ASSUME NEW s \in kept'
      PROVE  \E h \in Held(client) :
               /\ h.seq = s /\ h.deadline > clock /\ PlaceOf(h) \in l.filter
               /\ \/ s \in rows
                  \/ Cardinality(rows) = l.limit /\ \A x \in rows : x < s
                  \/ /\ Candidates(l) # {} /\ through < s /\ s <= l.max
                     /\ \A x \in rows : x < s
  <2>1. kept' = {h.seq : h \in {x \in Held(client') : x.seq \in kept /\ x.deadline > clock'}}
    BY DEF Remember
  <2>2. s \in kept
    BY <2>1
  <2>3. PICK h \in Held(client) : h.seq = s /\ Awaits(l, h)
    BY <1>2, <2>2 DEF ListerOK
  <2>4. h.deadline > clock /\ PlaceOf(h) \in l.filter
    BY <2>3 DEF Awaits
  <2>5. \/ h.seq \in rows
        \/ Cardinality(rows) = l.limit /\ \A x \in rows : x < h.seq
        \/ /\ Candidates(l) # {} /\ through < h.seq /\ h.seq <= l.max
           /\ \A x \in rows : x < h.seq
    BY <2>3, ScanFinds DEF rows, through
  <2> QED BY <2>3, <2>4, <2>5
<1>10. kept' \subseteq Nat
  <2>1. kept' = {h.seq : h \in {x \in Held(client') : x.seq \in kept /\ x.deadline > clock'}}
    BY DEF Remember
  <2> QED BY <1>2, <1>8, <2>1, HeldTyped
<1>11. CASE done
  <2>1. lister' = {} /\ page' = {next}
    BY <1>1, <1>11
  <2>2. ListerOK'
    BY <2>1 DEF ListerOK
  <2>3. ASSUME NEW p \in page', NEW s \in kept' \ p.rows
        PROVE  Cardinality(p.rows) = p.limit /\ \A x \in p.rows : x < s
    <3>1. p.rows = rows /\ p.limit = l.limit
      BY <1>7, <2>1
    <3>2. s \in kept' /\ s \notin rows /\ s \in Nat
      BY <1>10, <3>1
    <3>3. \/ Cardinality(rows) = l.limit /\ \A x \in rows : x < s
          \/ /\ Candidates(l) # {} /\ through < s /\ s <= l.max
             /\ \A x \in rows : x < s
      BY <1>9, <3>2
    <3>4. Cardinality(rows) = l.limit
      BY <1>5, <1>6, <1>11, <3>2, <3>3
    <3> QED BY <3>1, <3>3, <3>4
  <2>4. ListIsComplete'
    BY <2>3 DEF ListIsComplete
  <2> QED BY <1>1, <1>3, <1>7, <2>1, <2>2, <2>4
<1>12. CASE ~done
  <2>1. lister' = {next} /\ page' = {}
    BY <1>1, <1>12
  <2>2. ListIsComplete'
    BY <2>1 DEF ListIsComplete
  <2>3. Cardinality(rows) < l.limit
    BY <1>4, <1>6, <1>12
  <2>4. ASSUME NEW m \in lister'
        PROVE  /\ \A y \in lister' : y = m
               /\ m.now <= clock' /\ IsFiniteSet(m.rows) /\ Cardinality(m.rows) < m.limit
               /\ \A x \in m.rows : x <= m.after
    BY <1>1, <1>4, <1>6, <1>7, <2>1, <2>3
  <2>5. ASSUME NEW m \in lister', NEW s \in kept'
        PROVE  \E h \in Held(client') : h.seq = s /\ Awaits(m, h)'
    <3>1. m.filter = l.filter /\ m.rows = rows /\ m.after = through /\ m.max = l.max
      BY <1>7, <2>1
    <3>2. PICK h \in Held(client) :
               /\ h.seq = s /\ h.deadline > clock /\ PlaceOf(h) \in l.filter
               /\ \/ s \in rows
                  \/ Cardinality(rows) = l.limit /\ \A x \in rows : x < s
                  \/ /\ Candidates(l) # {} /\ through < s /\ s <= l.max
                     /\ \A x \in rows : x < s
      BY <1>9
    <3>3. h.seq \in rows \/ (through < h.seq /\ h.seq <= l.max)
      BY <1>4, <1>6, <2>3, <3>2
    <3>4. h.deadline > clock' /\ PlaceOf(h) \in m.filter
          /\ (h.seq \in m.rows \/ (m.after < h.seq /\ h.seq <= m.max))
      BY <1>1, <3>1, <3>2, <3>3
    <3>5. Awaits(m, h)'
      BY <3>4 DEF Awaits
    <3> QED BY <1>8, <3>2, <3>5
  <2>6. ListerOK'
    BY <2>4, <2>5 DEF ListerOK
  <2> QED BY <1>1, <1>3, <1>7, <2>1, <2>2, <2>6
<1> QED BY <1>11, <1>12

-----------------------------------------------------------------------------
(* The invariant.                                                            *)

Achieved ==
  /\ Effects /\ TicketEffects /\ asked' \subseteq Nat
  /\ ListerOK' /\ ListIsComplete' /\ lister' \subseteq Listing /\ page' \subseteq Listing

LEMMA InitOK == Init => RegistryInv
<1> SUFFICES ASSUME Init PROVE RegistryInv
  OBVIOUS
<1>1. /\ profiles = [n \in Namespaces |-> Off] /\ hosts = Domains /\ domains = {}
      /\ client = [d \in Domains |-> EmptyBucket] /\ counts = [d \in Domains |-> NoCounts]
      /\ active = {} /\ expiry = {} /\ sequence = 0 /\ incarnation = 0
      /\ ticket = [r \in Requests |-> {}] /\ lister = {} /\ clock = 0 /\ asked = {}
      /\ ended = {} /\ void = [r \in Requests |-> FALSE] /\ kept = {} /\ page = {}
  BY DEF Init
<1>2. EmptyBucket \in Bucket /\ Present(EmptyBucket) = {} /\ NoCounts \in [Namespaces -> Nat]
  BY EmptyBucketIs
<1>3. client \in Buckets
  BY <1>1, <1>2 DEF Buckets, Bucket
<1>4. TypeOK
  <2>1. sequence \in 0 .. MaxSequence /\ incarnation \in 0 .. MaxIncarnation /\ clock \in 0 .. MaxClock
    BY <1>1, CapAssumption
  <2>2. void \in [Requests -> BOOLEAN]
    BY <1>1
  <2>3. profiles \in [Namespaces -> Generations \cup {Off}]
    BY <1>1
  <2>4. counts \in [Domains -> [Namespaces -> Nat]]
    BY <1>1, <1>2
  <2>5. ticket \in [Requests -> SUBSET Ticket]
    BY <1>1
  <2> QED BY <1>1, <1>3, <2>1, <2>2, <2>3, <2>4, <2>5 DEF TypeOK, Buckets
<1>5. ASSUME NEW d \in Domains, NEW k \in Keys PROVE client[d][k] = NoClient
  BY <1>1 DEF EmptyBucket
<1>6. Held(client) = {}
  <2> SUFFICES ASSUME NEW h \in Held(client) PROVE FALSE
    OBVIOUS
  <2>1. h.domain \in Domains /\ h.key \in Keys /\ BanIn(h) \in client[h.domain][h.key].ban
    BY <1>3, HeldIs, HeldTyped
  <2> QED BY <1>5, <2>1, NoClientTyped
<1>7. ClientsOK
  BY <1>1, <1>5, NoClientTyped DEF ClientsOK, Sound
<1>8. SeqsUnique /\ IndexIsExact
  BY <1>1, <1>6 DEF SeqsUnique, IndexIsExact
<1>9. BucketsOK
  <2>1. IsFiniteSet(domains) /\ Cardinality(domains) <= MaxDomains
    BY <1>1, FS_EmptySet, CapAssumption
  <2>2. ASSUME NEW d \in Domains
        PROVE  BucketOK(client[d], counts[d], profiles) /\ Present(client[d]) = {}
    BY <1>1, <1>2, EmptyBucketIs
  <2> QED BY <2>1, <2>2 DEF BucketsOK
<1>10. TicketsOK /\ ListerOK /\ ListIsComplete
  BY <1>1 DEF TicketsOK, ListerOK, ListIsComplete
<1> QED BY <1>4, <1>7, <1>8, <1>9, <1>10 DEF RegistryInv

(* A step that leaves the listing alone. *)
LEMMA ListingUntouched ==
  ASSUME RegistryInv, Remember, Effects, page' = {}, lister' = lister
  PROVE  ListerOK' /\ ListIsComplete' /\ lister' \subseteq Listing /\ page' \subseteq Listing
<1>1. TypeOK /\ ClientsOK /\ SeqsUnique /\ ListerOK
  BY DEF RegistryInv
<1>2. NewOnly /\ clock <= clock' /\ client' \in Buckets /\ clock' \in Nat
  BY CapAssumption DEF Effects, TypesStep
<1>3. ListerOK' /\ ListIsComplete'
  BY <1>1, <1>2, ListerKept
<1> QED BY <1>1, <1>3 DEF TypeOK

LEMMA StepAchieves == ASSUME RegistryInv, Next PROVE Achieved
<1> DEFINE Other == Effects /\ TicketEffects /\ asked' \subseteq Nat /\ page' = {} /\ lister' = lister
<1>1. Step /\ Remember
  BY DEF Next
<1>2. ASSUME Other PROVE Achieved
  BY <1>1, <1>2, ListingUntouched DEF Achieved
<1>3. CASE Reload
  <2>1. ASSUME NEW H \in SUBSET Domains, RetainHosts(H) PROVE Other
    BY <2>1, RetainHostsStep
  <2>2. ASSUME NEW given \in [Namespaces -> Generations \cup {Off}],
               NEW retained \in SUBSET Namespaces, Activate(given, retained)
        PROVE  Other
    BY <2>2, ActivateStep
  <2> QED BY <1>2, <1>3, <2>1, <2>2 DEF Reload
<1>4. ASSUME NEW r \in Requests, Serve(r) PROVE Achieved
  <2>1. PICK d \in Domains, k \in Keys :
          \/ AdmitUnwatched(r, d, k)
          \/ \E login \in BOOLEAN, path \in Paths :
               \/ AdmitKnown(r, d, k, login, path)
               \/ AdmitNew(r, d, k, login, path)
          \/ \E login \in BOOLEAN : AdmitSaturated(r, d, k, login)
    BY <1>4 DEF Serve
  <2>2. CASE AdmitUnwatched(r, d, k)
    BY <1>2, <2>2, AdmitUnwatchedStep
  <2>3. ASSUME NEW login \in BOOLEAN, NEW path \in Paths, AdmitKnown(r, d, k, login, path)
        PROVE  Achieved
    BY <1>2, <2>3, AdmitKnownStep
  <2>4. ASSUME NEW login \in BOOLEAN, NEW path \in Paths, AdmitNew(r, d, k, login, path)
        PROVE  Achieved
    BY <1>2, <2>4, AdmitNewStep
  <2>5. ASSUME NEW login \in BOOLEAN, AdmitSaturated(r, d, k, login) PROVE Achieved
    BY <1>2, <2>5, AdmitSaturatedStep
  <2> QED BY <2>1, <2>2, <2>3, <2>4, <2>5
<1>5. ASSUME NEW r \in Requests, Complete(r) PROVE Achieved
  <2>1. CASE Discard(r)
    BY <1>2, <2>1, DiscardStep
  <2>2. ASSUME NEW t \in ticket[r], ObserveStale(r, t) PROVE Achieved
    BY <1>2, <2>2, ObserveStaleStep
  <2>3. ASSUME NEW t \in ticket[r], NEW failed \in BOOLEAN, NEW missing \in BOOLEAN,
               ObserveFresh(r, t, failed, missing)
        PROVE  Achieved
    BY <1>2, <2>3, ObserveFreshStep
  <2> QED BY <1>5, <2>1, <2>2, <2>3 DEF Complete
<1>6. CASE Operate
  <2>1. ASSUME NEW d \in Domains, NEW k \in Keys, NEW s \in 1 .. sequence, Release(d, k, s)
        PROVE  Achieved
    BY <1>2, <2>1, ReleaseStep
  <2>2. ASSUME NEW after \in Cursors, NEW limit \in Limits, NEW filter \in Filters,
               ListStart(after, limit, filter)
        PROVE  Achieved
    BY <1>1, <2>2, ListStartStep DEF Achieved
  <2>3. ASSUME NEW l \in lister, ListExpire(l) PROVE Achieved
    BY <1>2, <2>3, ListExpireStep
  <2>4. ASSUME NEW l \in lister, ListScan(l) PROVE Achieved
    BY <1>1, <2>4, ListScanStep DEF Achieved
  <2> QED BY <1>6, <2>1, <2>2, <2>3, <2>4 DEF Operate
<1>7. CASE Tick
  BY <1>2, <1>7, TickStep
<1> QED BY <1>1, <1>3, <1>4, <1>5, <1>6, <1>7 DEF Step

LEMMA StepKeeps == ASSUME RegistryInv, Next PROVE RegistryInv'
<1>1. Achieved /\ Remember
  BY StepAchieves DEF Next
<1>2. TypeOK /\ TicketsOK /\ client \in Buckets
  BY TypedState DEF RegistryInv
<1>3. /\ Effects /\ TicketEffects /\ asked' \subseteq Nat
      /\ ListerOK' /\ ListIsComplete' /\ lister' \subseteq Listing /\ page' \subseteq Listing
  BY <1>1 DEF Achieved
<1>4. /\ TypesStep /\ ClientsOK' /\ SeqsUnique' /\ IndexIsExact' /\ BucketsOK'
      /\ ClientsStep /\ incarnation <= incarnation'
  BY <1>3 DEF Effects
<1>5. client' \in Buckets /\ incarnation' \in Nat
  BY <1>4, CapAssumption DEF TypesStep
<1>6. TicketStep /\ ticket' \in [Requests -> SUBSET Ticket]
  BY <1>3 DEF TicketEffects
<1>7. TicketsOK'
  BY <1>1, <1>2, <1>4, <1>5, <1>6, TicketsKept
<1>8. kept' \subseteq Nat
  <2>1. kept' \subseteq {h.seq : h \in Held(client)} \/ kept' \subseteq {h.seq : h \in Held(client')}
    BY <1>1 DEF Remember
  <2>2. (\A h \in Held(client) : h.seq \in Nat) /\ (\A h \in Held(client') : h.seq \in Nat)
    BY <1>2, <1>5, HeldTyped
  <2> QED BY <2>1, <2>2
<1>9. void' \in [Requests -> BOOLEAN]
  <2> DEFINE v(r) == \E t \in ticket[r] \cap ticket'[r] : void[r] \/ Forgiven(t.domain, t.key)
  <2>1. void' = [r \in Requests |-> v(r)]
    BY <1>1 DEF Remember
  <2>2. \A r \in Requests : v(r) \in BOOLEAN
    OBVIOUS
  <2> HIDE DEF v
  <2> QED BY <2>1, <2>2
<1>10. TypeOK'
  BY <1>3, <1>4, <1>6, <1>8, <1>9 DEF TypeOK, TypesStep, Buckets
<1> QED BY <1>3, <1>4, <1>7, <1>10 DEF RegistryInv

LEMMA StutterKeeps == ASSUME RegistryInv, UNCHANGED vars PROVE RegistryInv'
<1>1. /\ UNCHANGED <<profiles, hosts, domains, client, counts, active, expiry, sequence, incarnation>>
      /\ UNCHANGED <<ticket, lister, clock, asked, ended, void, kept, page>>
  BY DEF vars, registry, history
<1>2. TypeOK' /\ ClientsOK' /\ SeqsUnique' /\ IndexIsExact'
  BY <1>1 DEF RegistryInv, TypeOK, ClientsOK, SeqsUnique, IndexIsExact
<1>3. BucketsOK' /\ TicketsOK'
  BY <1>1 DEF RegistryInv, BucketsOK, TicketsOK
<1>4. ListerOK' /\ ListIsComplete'
  BY <1>1 DEF RegistryInv, ListerOK, ListIsComplete, Awaits
<1> QED BY <1>2, <1>3, <1>4 DEF RegistryInv

LEMMA Always == Spec => []RegistryInv
<1>1. RegistryInv /\ [Next]_vars => RegistryInv'
  BY StepKeeps, StutterKeeps
<1> QED BY <1>1, InitOK, PTL DEF Spec

(* What the registry derives from its clients agrees with them in every      *)
(* state: the index of bans in force and its expiry order, the counts that   *)
(* admission trusts, and each page that a listing returns although other     *)
(* operations run between its batches.                                       *)
THEOREM DerivedStaysExact == Spec => []DerivedIsExact
<1>1. RegistryInv => DerivedIsExact
  BY CountsFollow DEF RegistryInv, DerivedIsExact
<1> QED BY <1>1, Always, PTL

(* A ban's end is announced by the step that takes the ban from its client,  *)
(* whichever operation that is, and by no other; only a reload is silent.    *)
THEOREM EndsAreAnnouncedOnce == Spec => EndsOnce
<1>1. RegistryInv /\ [Next]_vars => [EndsStep]_vars
  BY StepAchieves DEF Achieved, Effects
<1> QED BY <1>1, Always, PTL DEF Spec, EndsOnce, EndsStep

(* A ban in force survives every step until its deadline, unless it is the   *)
(* one an operator asked to release or a reload takes its profile or host.   *)
THEOREM BansHold == Spec => BanHolds
<1>1. RegistryInv /\ [Next]_vars => [HoldsStep]_vars
  BY StepAchieves DEF Achieved, Effects
<1> QED BY <1>1, Always, PTL DEF Spec, BanHolds, HoldsStep

(* The answer to a request whose client has been banned or forgiven since    *)
(* the admission adds nothing to the counters and makes no ban.              *)
THEOREM OnlyFreshEvidenceCounts == Spec => FreshEvidence
<1>1. RegistryInv /\ [Next]_vars => [EvidenceStep]_vars
  BY StepAchieves DEF Achieved, TicketEffects
<1> QED BY <1>1, Always, PTL DEF Spec, FreshEvidence, EvidenceStep
=============================================================================
