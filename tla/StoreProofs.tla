----------------------------- MODULE StoreProofs -----------------------------
(*****************************************************************************)
(* Proofs about the two bounded stores: domain-keyed state (ScopedStore) and *)
(* the file cache (FileCache).  They share no variable.                      *)
(*****************************************************************************)
EXTENDS ScopedStore, FileCache, FiniteSetTheorems, WellFoundedInduction, TLAPS

-----------------------------------------------------------------------------
(*****************************************************************************)
(* ScopedStore, for any hosts, clients, callers, limits and times to live.   *)
(*                                                                           *)
(* Every operation but insert only shrinks buckets, and insert shrinks one   *)
(* and puts one entry into it (Shrinks, and one lemma per operator that      *)
(* makes a bucket).  The caps and the bound are then facts about one bucket  *)
(* at a time; that no value is handed out twice needs the numbering of what  *)
(* is stored (Numbered).                                                     *)
(*****************************************************************************)

BucketType == [entries : [Identities -> Entry], earliest : SUBSET Nat]
CallType == [op : Ops, domain : Buckets, identity : Identities \cup {NoIdentity},
             ttl : Nat, now : Nat]

(* The bound of one bucket: it is an option, and never too high. *)
Bounded(b) == /\ \A e, f \in b.earliest : e = f
              /\ \A i \in Keys(b) : \E e \in b.earliest : e <= b.entries[i].expires_at

(* c is b without some of its entries. *)
Shrinks(b, c) ==
  /\ c \in BucketType
  /\ Keys(c) \subseteq Keys(b)
  /\ \A i \in Keys(c) : c.entries[i] = b.entries[i]
  /\ Bounded(b) => Bounded(c)

(* A non-empty set of times has a least one: the sets of elements below each *)
(* of them are finite, so one of those sets is minimal, and it is empty.     *)
LEMMA LeastNatural ==
  ASSUME NEW S \in SUBSET Nat, S # {}
  PROVE  \E m \in MinOf(S) : \A n \in S : m <= n
<1> DEFINE Below(k) == {j \in S : j < k}
           T == {Below(k) : k \in S}
<1>1. \A k \in S : k \in Nat
  OBVIOUS
<1>2. ASSUME NEW k \in S PROVE Below(k) \in FiniteSubsetsOf(S)
  <2>1. Below(k) \in SUBSET S /\ \A s \in Below(k) : s \in S /\ s < k
    OBVIOUS
  <2>2. Below(k) \in SUBSET Nat /\ k \in Nat
    BY <2>1
  <2>3. \A s \in Below(k) : s <= k
    BY <2>1, <2>2
  <2>4. IsFiniteSet(Below(k))
    BY <2>2, <2>3, FS_BoundedSetOfNaturals
  <2> QED BY <2>4 DEF FiniteSubsetsOf
<1>3. T \subseteq FiniteSubsetsOf(S) /\ T # {}
  BY <1>2
<1>4. \E X \in T : \A Y \in T : ~(<<Y, X>> \in StrictSubsetOrdering(S))
  <2> HIDE DEF T
  <2> QED BY <1>3, WFMin, FS_StrictSubsetOrderingWellFounded
<1>5. PICK m \in S : \A Y \in T : ~(<<Y, Below(m)>> \in StrictSubsetOrdering(S))
  BY <1>4
<1>6. \A n \in S : m <= n
  <2>1. SUFFICES ASSUME NEW n \in S, n < m PROVE FALSE
    BY <1>1
  <2>2. n \in Below(m) /\ n \notin Below(n)
    BY <1>1, <2>1
  <2>3. ASSUME NEW s \in Below(n) PROVE s \in Below(m)
    BY <1>1, <2>1
  <2>4. <<Below(n), Below(m)>> \in StrictSubsetOrdering(S)
    BY <2>2, <2>3 DEF StrictSubsetOrdering
  <2> QED BY <1>5, <2>4
<1> QED BY <1>6 DEF MinOf

LEMMA MinOfIsOption ==
  ASSUME NEW S \in SUBSET Nat
  PROVE  \A e, f \in MinOf(S) : e = f
<1> SUFFICES ASSUME NEW e \in S, NEW f \in S, e <= f, f <= e PROVE e = f
  BY DEF MinOf
<1>1. e \in Nat /\ f \in Nat
  OBVIOUS
<1> QED BY <1>1

LEMMA EmptyBucketFacts ==
  EmptyBucket \in BucketType /\ Keys(EmptyBucket) = {} /\ EmptyBucket.earliest = {}
BY DEF EmptyBucket, BucketType, Entry, NoEntry, Keys

LEMMA KeepOnlyFacts ==
  ASSUME NEW b \in BucketType, NEW keep, keep \subseteq Keys(b)
  PROVE  Shrinks(b, KeepOnly(b, keep)) /\ Keys(KeepOnly(b, keep)) = keep
<1> DEFINE c == KeepOnly(b, keep)
<1>1. /\ c = [entries |-> c.entries, earliest |-> b.earliest]
      /\ c.entries = [i \in Identities |-> IF i \in keep THEN b.entries[i] ELSE NoEntry]
  BY DEF KeepOnly, BucketType
<1>2. c \in BucketType
  BY <1>1 DEF BucketType, Entry, NoEntry
<1>3. Keys(c) = keep
  BY <1>1 DEF Keys, NoEntry
<1>4. \A i \in keep : c.entries[i] = b.entries[i]
  BY <1>1 DEF Keys
<1> HIDE DEF c
<1>5. Bounded(b) => Bounded(c)
  BY <1>1, <1>3, <1>4 DEF Bounded
<1> QED BY <1>2, <1>3, <1>4, <1>5 DEF Shrinks, c

LEMMA RecomputeFacts ==
  ASSUME NEW b \in BucketType
  PROVE  /\ Recompute(b) \in BucketType
         /\ Keys(Recompute(b)) = Keys(b)
         /\ Recompute(b).entries = b.entries
         /\ Bounded(Recompute(b))
<1> DEFINE c == Recompute(b)
<1>1. c = [entries |-> b.entries, earliest |-> MinOf(Deadlines(b))]
  BY DEF Recompute, BucketType
<1>2. Deadlines(b) \in SUBSET Nat
  BY DEF Deadlines, Keys, BucketType, Entry
<1>3. c \in BucketType /\ Keys(c) = Keys(b) /\ c.entries = b.entries
  BY <1>1, <1>2 DEF BucketType, Keys, MinOf
<1>4. ASSUME NEW i \in Keys(b)
      PROVE  \E e \in MinOf(Deadlines(b)) : e <= b.entries[i].expires_at
  <2>1. b.entries[i].expires_at \in Deadlines(b)
    BY DEF Deadlines
  <2> QED BY <1>2, <2>1, LeastNatural
<1> HIDE DEF c
<1>5. c.earliest = MinOf(Deadlines(b))
  BY <1>1
<1>6. Bounded(c)
  BY <1>2, <1>3, <1>4, <1>5, MinOfIsOption DEF Bounded
<1> QED BY <1>3, <1>6 DEF c

LEMMA KeysAndLive ==
  ASSUME NEW b \in BucketType, NEW now \in Nat
  PROVE  /\ Live(b, now) \subseteq Keys(b)
         /\ \A i \in Keys(b) \ Live(b, now) : b.entries[i].expires_at <= now
BY DEF Live, Keys, BucketType, Entry

LEMMA ReclaimFacts ==
  ASSUME NEW b \in BucketType, NEW now \in Nat
  PROVE  /\ Shrinks(b, Reclaim(b, now))
         /\ Keys(Reclaim(b, now)) = Live(b, now)
BY KeepOnlyFacts, KeysAndLive DEF Reclaim

LEMMA RecomputeShrinks ==
  ASSUME NEW b, NEW c, Shrinks(b, c)
  PROVE  Shrinks(b, Recompute(c)) /\ Bounded(Recompute(c))
BY RecomputeFacts DEF Shrinks

LEMMA ShrinksRefl ==
  ASSUME NEW b \in BucketType
  PROVE  Shrinks(b, b)
BY DEF Shrinks

LEMMA EmptyShrinks ==
  ASSUME NEW b
  PROVE  Shrinks(b, EmptyBucket)
BY EmptyBucketFacts DEF Shrinks, Bounded

LEMMA MadeRoomFacts ==
  ASSUME NEW b \in BucketType, NEW i, NEW now \in Nat
  PROVE  /\ Shrinks(b, MadeRoom(b, i, now))
         /\ \A k \in Keys(b) \ Keys(MadeRoom(b, i, now)) : b.entries[k].expires_at <= now
<1>1. CASE NeedsRoom(b, i) /\ \A e \in b.earliest : e <= now
  <2>1. MadeRoom(b, i, now) = Recompute(Reclaim(b, now))
    BY <1>1 DEF MadeRoom
  <2>2. Shrinks(b, Reclaim(b, now)) /\ Keys(Reclaim(b, now)) = Live(b, now)
    BY ReclaimFacts
  <2>3. Reclaim(b, now) \in BucketType
    BY <2>2 DEF Shrinks
  <2>4. Keys(Recompute(Reclaim(b, now))) = Live(b, now)
    BY <2>2, <2>3, RecomputeFacts
  <2> QED BY <2>1, <2>2, <2>4, RecomputeShrinks, KeysAndLive
<1>2. CASE ~(NeedsRoom(b, i) /\ \A e \in b.earliest : e <= now)
  BY <1>2, ShrinksRefl DEF MadeRoom
<1> QED BY <1>1, <1>2

LEMMA PutFacts ==
  ASSUME NEW b \in BucketType, NEW i \in Identities, NEW s \in Nat \ {0}, NEW x \in Nat
  PROVE  /\ Put(b, i, s, x) \in BucketType
         /\ Keys(Put(b, i, s, x)) = Keys(b) \cup {i}
         /\ Put(b, i, s, x).entries[i] = [serial |-> s, expires_at |-> x]
         /\ \A k \in Identities \ {i} : Put(b, i, s, x).entries[k] = b.entries[k]
         /\ Bounded(b) => Bounded(Put(b, i, s, x))
<1> DEFINE c == Put(b, i, s, x)
           early == b.earliest \cup {x}
<1>1. c = [entries |-> [b.entries EXCEPT ![i] = [serial |-> s, expires_at |-> x]],
           earliest |-> MinOf(early)]
  BY DEF Put
<1>2. early \in SUBSET Nat /\ early # {}
  BY DEF BucketType
<1>3. c \in BucketType
  BY <1>1, <1>2 DEF BucketType, Entry, MinOf
<1>4. /\ c.entries[i] = [serial |-> s, expires_at |-> x]
      /\ \A k \in Identities \ {i} : c.entries[k] = b.entries[k]
  BY <1>1 DEF BucketType
<1>5. Keys(c) = Keys(b) \cup {i}
  BY <1>4 DEF Keys
<1>6. Bounded(b) => Bounded(c)
  <2>1. PICK m \in MinOf(early) : \A n \in early : m <= n
    BY <1>2, LeastNatural
  <2>2. m \in Nat /\ m <= x /\ \A n \in b.earliest : m <= n
    BY <1>2, <2>1 DEF MinOf
  <2>3. SUFFICES ASSUME Bounded(b), NEW k \in Keys(c)
                 PROVE  m <= c.entries[k].expires_at
    <3>1. c.earliest = MinOf(early) /\ \A e, f \in MinOf(early) : e = f
      BY <1>1, <1>2, MinOfIsOption
    <3> QED BY <2>1, <3>1 DEF Bounded
  <2>4. CASE k = i
    BY <1>4, <2>2, <2>4
  <2>5. CASE k # i
    <3>1. k \in Keys(b) /\ c.entries[k] = b.entries[k] /\ b.entries[k].expires_at \in Nat
      BY <1>4, <1>5, <2>5 DEF Keys, BucketType, Entry
    <3>2. PICK e \in b.earliest : e <= b.entries[k].expires_at
      BY <2>3, <3>1 DEF Bounded
    <3>3. e \in Nat
      BY DEF BucketType
    <3> QED BY <2>2, <3>1, <3>2, <3>3
  <2> QED BY <2>4, <2>5
<1> QED BY <1>3, <1>4, <1>5, <1>6

-----------------------------------------------------------------------------
(* The inductive invariant.                                                  *)

Typed ==
  /\ bucket \in [Buckets -> BucketType]
  /\ call \in [Threads -> CallType]
  /\ \A t \in Threads : call[t].op = "insert" => call[t].identity \in Identities
  /\ clock \in Nat

(* The slots, and what they hold. *)
SlotsOK ==
  /\ domains \subseteq Slots
  /\ IsFiniteSet(domains)
  /\ Cardinality(domains) <= MaxDomains
  /\ \A d \in Slots \ domains : bucket[d] = EmptyBucket
  /\ NoSlotLeak

(* Each bucket by itself. *)
EntriesOK ==
  \A d \in Buckets : /\ IsFiniteSet(Keys(bucket[d]))
                     /\ Cardinality(Keys(bucket[d])) <= MaxEntries
                     /\ Bounded(bucket[d])

(* No two places hold the same insert, and an insert that is stored, or is   *)
(* still to come, has not been handed out.                                   *)
Numbered ==
  /\ serial \in Nat /\ serial <= MaxInserts
  /\ takes \in [1..MaxInserts -> Nat]
  /\ \A s \in 1..MaxInserts : takes[s] <= 1 /\ (s > serial => takes[s] = 0)
  /\ \A d \in Buckets : \A i \in Keys(bucket[d]) :
       /\ bucket[d].entries[i].serial \in 1..serial
       /\ takes[bucket[d].entries[i].serial] = 0
  /\ \A d, e \in Buckets : \A i \in Keys(bucket[d]), j \in Keys(bucket[e]) :
       bucket[d].entries[i].serial = bucket[e].entries[j].serial => d = e /\ i = j

BucketsInv == Typed /\ SlotsOK /\ EntriesOK /\ Numbered

LEMMA InitInv == Init => BucketsInv
<1> SUFFICES ASSUME Init PROVE BucketsInv
  OBVIOUS
<1>1. Typed
  BY EmptyBucketFacts, TtlAssumption
     DEF Init, Typed, CallType, Idle, Ops, Buckets, NoIdentity
<1>2. \A d \in Buckets : bucket[d] = EmptyBucket
  BY DEF Init
<1>3. SlotsOK
  BY <1>2, FS_EmptySet, LimitAssumption DEF Init, SlotsOK, NoSlotLeak, Buckets
<1>4. EntriesOK
  BY <1>2, EmptyBucketFacts, FS_EmptySet, LimitAssumption DEF EntriesOK, Bounded
<1>5. Numbered
  BY <1>2, EmptyBucketFacts, LimitAssumption DEF Init, Numbered
<1> QED BY <1>1, <1>3, <1>4, <1>5 DEF BucketsInv

(* A step that only takes entries away. *)
Shrunk == /\ bucket' \in [Buckets -> BucketType]
          /\ \A d \in Buckets : Shrinks(bucket[d], bucket'[d])

LEMMA ShrunkEntries ==
  ASSUME EntriesOK, Shrunk
  PROVE  EntriesOK'
<1> SUFFICES ASSUME NEW d \in Buckets
             PROVE  /\ IsFiniteSet(Keys(bucket'[d]))
                    /\ Cardinality(Keys(bucket'[d])) <= MaxEntries
                    /\ Bounded(bucket'[d])
  BY DEF EntriesOK
<1>1. Keys(bucket'[d]) \in SUBSET Keys(bucket[d]) /\ Bounded(bucket'[d])
  BY DEF Shrunk, Shrinks, EntriesOK
<1>2. /\ IsFiniteSet(Keys(bucket'[d]))
      /\ Cardinality(Keys(bucket'[d])) <= Cardinality(Keys(bucket[d]))
  BY <1>1, FS_Subset DEF EntriesOK
<1>3. Cardinality(Keys(bucket'[d])) \in Nat /\ Cardinality(Keys(bucket[d])) \in Nat
  BY <1>2, FS_CardinalityType DEF EntriesOK
<1> QED BY <1>1, <1>2, <1>3, LimitAssumption DEF EntriesOK

LEMMA ShrunkNumbers ==
  ASSUME Numbered, Shrunk, UNCHANGED <<serial, takes>>
  PROVE  Numbered'
<1>1. ASSUME NEW d \in Buckets, NEW i \in Keys(bucket'[d])
      PROVE  i \in Keys(bucket[d]) /\ bucket'[d].entries[i] = bucket[d].entries[i]
  BY DEF Shrunk, Shrinks
<1>2. \A d \in Buckets : \A i \in Keys(bucket'[d]) :
        /\ bucket'[d].entries[i].serial \in 1..serial
        /\ takes[bucket'[d].entries[i].serial] = 0
  BY <1>1 DEF Numbered
<1>3. ASSUME NEW d \in Buckets, NEW e \in Buckets,
             NEW i \in Keys(bucket'[d]), NEW j \in Keys(bucket'[e]),
             bucket'[d].entries[i].serial = bucket'[e].entries[j].serial
      PROVE  d = e /\ i = j
  <2>1. /\ i \in Keys(bucket[d]) /\ j \in Keys(bucket[e])
        /\ bucket[d].entries[i].serial = bucket[e].entries[j].serial
    BY <1>1, <1>3
  <2> QED BY <2>1 DEF Numbered
<1> QED BY <1>2, <1>3 DEF Numbered

(* A subset of the slots is within the cap. *)
LEMMA FewerSlots ==
  ASSUME NEW D \in SUBSET domains, SlotsOK
  PROVE  IsFiniteSet(D) /\ Cardinality(D) <= MaxDomains
<1>1. IsFiniteSet(D) /\ Cardinality(D) <= Cardinality(domains)
  BY FS_Subset DEF SlotsOK
<1>2. Cardinality(D) \in Nat /\ Cardinality(domains) \in Nat
  BY <1>1, FS_CardinalityType DEF SlotsOK
<1> QED BY <1>1, <1>2, LimitAssumption DEF SlotsOK

(* Storing a smaller bucket gives the slot back when it is empty. *)
LEMMA StoreFacts ==
  ASSUME Typed, SlotsOK, NEW d \in Buckets, Tracked(d), NEW b, Shrinks(bucket[d], b),
         Store(d, b)
  PROVE  Shrunk /\ SlotsOK'
<1>1. b \in BucketType /\ \A e \in Buckets : Shrinks(bucket[e], bucket[e])
  BY ShrinksRefl DEF Typed, Shrinks
<1>2. CASE d # Overflow /\ Keys(b) = {}
  <2>1. /\ domains' = domains \ {d} /\ bucket'[d] = EmptyBucket
        /\ \A e \in Buckets : e # d => bucket'[e] = bucket[e]
    BY <1>2 DEF Store, Typed
  <2>2. Shrunk
    BY <1>1, <1>2, <2>1, EmptyShrinks, EmptyBucketFacts DEF Store, Shrunk, Typed
  <2>3. SlotsOK'
    BY <2>1, FewerSlots DEF SlotsOK, NoSlotLeak, Buckets
  <2> QED BY <2>2, <2>3
<1>3. CASE ~(d # Overflow /\ Keys(b) = {})
  <2>1. /\ domains' = domains /\ bucket'[d] = b
        /\ \A e \in Buckets : e # d => bucket'[e] = bucket[e]
    BY <1>3 DEF Store, Typed
  <2>2. Shrunk
    BY <1>1, <1>3, <2>1 DEF Store, Shrunk, Typed
  <2>3. d = Overflow \/ (d \in domains /\ Keys(b) # {})
    BY <1>3 DEF Tracked
  <2>4. SlotsOK'
    BY <2>1, <2>3, OverflowIsNoSlot DEF SlotsOK, NoSlotLeak, Buckets
  <2> QED BY <2>2, <2>4
<1> QED BY <1>2, <1>3

-----------------------------------------------------------------------------
(* One lemma per operation.                                                  *)

LEMMA ReturnTyped ==
  ASSUME Typed, NEW t \in Threads, Return(t), bucket' \in [Buckets -> BucketType],
         UNCHANGED clock
  PROVE  Typed'
<1>1. Idle \in CallType /\ Idle.op = "idle"
  BY DEF Idle, CallType, Ops, Buckets
<1>2. call' \in [Threads -> CallType] /\ call'[t] = Idle
      /\ \A u \in Threads : u # t => call'[u] = call[u]
  BY <1>1 DEF Typed, Return
<1> QED BY <1>1, <1>2 DEF Typed

LEMMA CallInv ==
  ASSUME BucketsInv, NEW t \in Threads, NEW op \in Ops, NEW d \in Buckets,
         NEW i \in Identities \cup {NoIdentity}, NEW ttl \in Nat, Call(t, op, d, i, ttl),
         op = "insert" => i \in Identities
  PROVE  BucketsInv'
<1> DEFINE c == [op |-> op, domain |-> d, identity |-> i, ttl |-> ttl, now |-> clock]
<1>1. c \in CallType /\ c.op = op /\ c.identity = i
  BY DEF CallType, BucketsInv, Typed
<1>2. UNCHANGED <<domains, bucket, clock, serial, takes>> /\ call' = [call EXCEPT ![t] = c]
  BY DEF Call
<1> HIDE DEF c
<1>3. Typed'
  BY <1>1, <1>2 DEF Typed, BucketsInv
<1> QED BY <1>2, <1>3 DEF BucketsInv, SlotsOK, NoSlotLeak, EntriesOK, Numbered

(* What every operation reads. *)
LEMMA CallFacts ==
  ASSUME Typed, NEW t \in Threads
  PROVE  /\ call[t].domain \in Buckets /\ call[t].now \in Nat /\ call[t].ttl \in Nat
         /\ bucket[call[t].domain] \in BucketType
BY DEF Typed, CallType

LEMMA UnchangedShrunk ==
  ASSUME Typed, UNCHANGED bucket
  PROVE  Shrunk
BY ShrinksRefl DEF Shrunk, Typed

LEMMA ShrinkingInv ==
  ASSUME BucketsInv, NEW t \in Threads, Return(t), Shrunk, SlotsOK', UNCHANGED <<clock, serial, takes>>
  PROVE  BucketsInv'
BY ReturnTyped, ShrunkEntries, ShrunkNumbers DEF BucketsInv, Shrunk

LEMMA RefuseDomainInv ==
  ASSUME BucketsInv, NEW t \in Threads, RefuseDomain(t)
  PROVE  BucketsInv'
<1>1. Return(t) /\ UNCHANGED <<domains, bucket, clock, serial, takes>>
  BY DEF RefuseDomain
<1>2. Shrunk /\ SlotsOK'
  BY <1>1, UnchangedShrunk DEF BucketsInv, SlotsOK, NoSlotLeak
<1> QED BY <1>1, <1>2, ShrinkingInv

LEMMA RefuseEntryInv ==
  ASSUME BucketsInv, NEW t \in Threads, RefuseEntry(t)
  PROVE  BucketsInv'
<1> DEFINE c == call[t]
           d == c.domain
           b == MadeRoom(bucket[d], c.identity, c.now)
<1>1. /\ Admitted(d) /\ NeedsRoom(b, c.identity) /\ Return(t)
      /\ bucket' = [bucket EXCEPT ![d] = b]
      /\ domains' = domains \cup ({d} \ {Overflow})
      /\ UNCHANGED <<clock, serial, takes>>
  BY DEF RefuseEntry
<1>2. d \in Buckets /\ Shrinks(bucket[d], b)
  BY CallFacts, MadeRoomFacts DEF BucketsInv
<1> HIDE DEF b, d
<1>3. /\ bucket'[d] = b
      /\ \A e \in Buckets : e # d => bucket'[e] = bucket[e]
  BY <1>1, <1>2 DEF BucketsInv, Typed
<1>4. Shrunk
  BY <1>1, <1>2, <1>3, ShrinksRefl DEF Shrunk, BucketsInv, Typed, Shrinks
<1>5. EntriesOK'
  BY <1>4, ShrunkEntries DEF BucketsInv
<1>6. MaxEntries > 0 => Keys(b) # {}
  BY <1>1, FS_EmptySet, LimitAssumption DEF NeedsRoom
<1>7. CASE Tracked(d)
  <2>1. domains' = domains
    BY <1>1, <1>7 DEF Tracked
  <2>2. SlotsOK'
    BY <1>2, <1>3, <1>6, <1>7, <2>1, OverflowIsNoSlot
       DEF SlotsOK, NoSlotLeak, Buckets, BucketsInv, Tracked
  <2> QED BY <1>1, <1>4, <2>2, ShrinkingInv
<1>8. CASE ~Tracked(d)
  <2>1. d \in Slots /\ d \notin domains /\ domains' = domains \cup {d}
    BY <1>1, <1>2, <1>8 DEF Tracked, Buckets
  <2>2. Cardinality(domains) < MaxDomains
    BY <1>1, <1>8 DEF Admitted
  <2>3. /\ IsFiniteSet(domains \cup {d})
        /\ Cardinality(domains \cup {d}) = Cardinality(domains) + 1
    BY <2>1, FS_AddElement DEF BucketsInv, SlotsOK
  <2>4. Cardinality(domains) \in Nat
    BY FS_CardinalityType DEF BucketsInv, SlotsOK
  <2>5. IsFiniteSet(domains') /\ Cardinality(domains') <= MaxDomains
    BY <2>1, <2>2, <2>3, <2>4, LimitAssumption
  <2>6. SlotsOK'
    BY <1>3, <1>6, <2>1, <2>5 DEF SlotsOK, NoSlotLeak, Buckets, BucketsInv
  <2> QED BY <1>1, <1>4, <2>6, ShrinkingInv
<1> QED BY <1>7, <1>8

LEMMA InsertInv ==
  ASSUME BucketsInv, NEW t \in Threads, Insert(t)
  PROVE  BucketsInv'
<1> DEFINE c == call[t]
           d == c.domain
           i == c.identity
           b == MadeRoom(bucket[d], i, c.now)
           x == Deadline(c)
           p == Put(b, i, serial + 1, x)
<1>1. /\ serial < MaxInserts
      /\ Admitted(d) /\ ~NeedsRoom(b, i) /\ Return(t) /\ i \in Identities
      /\ bucket' = [bucket EXCEPT ![d] = p]
      /\ domains' = domains \cup ({d} \ {Overflow})
      /\ serial' = serial + 1
      /\ UNCHANGED <<clock, takes>>
  BY DEF Insert, Running, BucketsInv, Typed
<1>2. d \in Buckets /\ Shrinks(bucket[d], b) /\ x \in Nat /\ serial + 1 \in Nat \ {0}
  BY CallFacts, MadeRoomFacts DEF BucketsInv, Deadline, Numbered
<1>3. /\ p \in BucketType
      /\ Keys(p) = Keys(b) \cup {i}
      /\ p.entries[i] = [serial |-> serial + 1, expires_at |-> x]
      /\ \A k \in Identities \ {i} : p.entries[k] = b.entries[k]
      /\ Bounded(b) => Bounded(p)
  BY <1>1, <1>2, PutFacts DEF Shrinks
<1> HIDE DEF c, d, i, b, x, p
<1>4. /\ bucket'[d] = p
      /\ \A e \in Buckets : e # d => bucket'[e] = bucket[e]
      /\ bucket' \in [Buckets -> BucketType]
  BY <1>1, <1>2, <1>3 DEF BucketsInv, Typed
<1>5. Typed'
  BY <1>1, <1>4, ReturnTyped DEF BucketsInv
<1>6. /\ Bounded(b) /\ IsFiniteSet(Keys(b)) /\ Cardinality(Keys(b)) \in Nat
      /\ Cardinality(Keys(b)) <= MaxEntries
  <2>1. Keys(b) \in SUBSET Keys(bucket[d]) /\ Bounded(b)
    BY <1>2 DEF Shrinks, BucketsInv, EntriesOK
  <2>2. /\ IsFiniteSet(Keys(b)) /\ Cardinality(Keys(b)) <= Cardinality(Keys(bucket[d]))
        /\ IsFiniteSet(Keys(bucket[d])) /\ Cardinality(Keys(bucket[d])) <= MaxEntries
    BY <1>2, <2>1, FS_Subset DEF BucketsInv, EntriesOK
  <2>3. Cardinality(Keys(b)) \in Nat /\ Cardinality(Keys(bucket[d])) \in Nat
    BY <2>2, FS_CardinalityType
  <2> QED BY <2>1, <2>2, <2>3, LimitAssumption
<1>7. IsFiniteSet(Keys(p)) /\ Cardinality(Keys(p)) <= MaxEntries
  <2>1. /\ IsFiniteSet(Keys(p))
        /\ Cardinality(Keys(p)) = IF i \in Keys(b) THEN Cardinality(Keys(b))
                                                   ELSE Cardinality(Keys(b)) + 1
    BY <1>3, <1>6, FS_AddElement
  <2> QED BY <1>1, <1>6, <2>1, LimitAssumption DEF NeedsRoom
<1>8. EntriesOK'
  BY <1>3, <1>4, <1>6, <1>7 DEF EntriesOK, BucketsInv
<1>9. SlotsOK'
  <2>1. CASE Tracked(d)
    <3>1. domains' = domains
      BY <1>1, <2>1 DEF Tracked
    <3> QED BY <1>2, <1>3, <1>4, <2>1, <3>1, OverflowIsNoSlot
            DEF SlotsOK, NoSlotLeak, Buckets, BucketsInv, Tracked
  <2>2. CASE ~Tracked(d)
    <3>1. d \in Slots /\ d \notin domains /\ domains' = domains \cup {d}
      BY <1>1, <1>2, <2>2 DEF Tracked, Buckets
    <3>2. Cardinality(domains) < MaxDomains /\ Cardinality(domains) \in Nat
      BY <1>1, <2>2, FS_CardinalityType DEF Admitted, BucketsInv, SlotsOK
    <3>3. /\ IsFiniteSet(domains \cup {d})
          /\ Cardinality(domains \cup {d}) = Cardinality(domains) + 1
      BY <3>1, FS_AddElement DEF BucketsInv, SlotsOK
    <3>4. IsFiniteSet(domains') /\ Cardinality(domains') <= MaxDomains
      BY <3>1, <3>2, <3>3, LimitAssumption
    <3> QED BY <1>3, <1>4, <3>1, <3>4 DEF SlotsOK, NoSlotLeak, Buckets, BucketsInv
  <2> QED BY <2>1, <2>2
<1>10. ASSUME NEW e \in Buckets, NEW k \in Keys(bucket'[e])
       PROVE  \/ e = d /\ k = i /\ bucket'[e].entries[k].serial = serial + 1
              \/ k \in Keys(bucket[e]) /\ bucket'[e].entries[k] = bucket[e].entries[k]
  <2>1. k \in Identities
    BY DEF Keys
  <2> QED BY <1>2, <1>3, <1>4, <2>1 DEF Shrinks
<1>11. Numbered'
  <2>1. serial \in Nat /\ MaxInserts \in Nat /\ serial' \in Nat /\ serial' <= MaxInserts
    BY <1>1, LimitAssumption DEF BucketsInv, Numbered
  <2>2. /\ takes' \in [1..MaxInserts -> Nat]
        /\ \A s \in 1..MaxInserts : takes'[s] <= 1 /\ (s > serial' => takes'[s] = 0)
    BY <1>1, <2>1 DEF BucketsInv, Numbered
  <2>3. ASSUME NEW e \in Buckets, NEW k \in Keys(bucket'[e])
        PROVE  /\ bucket'[e].entries[k].serial \in 1..serial'
               /\ takes'[bucket'[e].entries[k].serial] = 0
    <3>1. CASE bucket'[e].entries[k].serial = serial + 1
      BY <1>1, <2>1, <3>1 DEF BucketsInv, Numbered
    <3>2. CASE k \in Keys(bucket[e]) /\ bucket'[e].entries[k] = bucket[e].entries[k]
      BY <1>1, <2>1, <3>2 DEF BucketsInv, Numbered
    <3> QED BY <1>10, <3>1, <3>2
  <2>4. ASSUME NEW e \in Buckets, NEW f \in Buckets,
               NEW k \in Keys(bucket'[e]), NEW l \in Keys(bucket'[f]),
               bucket'[e].entries[k].serial = bucket'[f].entries[l].serial
        PROVE  e = f /\ k = l
    <3>1. ASSUME NEW g \in Buckets, NEW m \in Keys(bucket[g])
          PROVE  bucket[g].entries[m].serial # serial + 1
      BY <2>1 DEF BucketsInv, Numbered
    <3>2. CASE bucket'[e].entries[k].serial = serial + 1
      <4>1. e = d /\ k = i
        <5>1. CASE k \in Keys(bucket[e]) /\ bucket'[e].entries[k] = bucket[e].entries[k]
          BY <3>1, <3>2, <5>1
        <5> QED BY <1>10, <5>1
      <4>2. f = d /\ l = i
        <5>1. CASE l \in Keys(bucket[f]) /\ bucket'[f].entries[l] = bucket[f].entries[l]
          BY <2>4, <3>1, <3>2, <5>1
        <5> QED BY <1>10, <5>1
      <4> QED BY <4>1, <4>2
    <3>3. CASE bucket'[e].entries[k].serial # serial + 1
      <4>1. /\ k \in Keys(bucket[e]) /\ l \in Keys(bucket[f])
            /\ bucket[e].entries[k].serial = bucket[f].entries[l].serial
        BY <1>10, <2>4, <3>3
      <4> QED BY <4>1 DEF BucketsInv, Numbered
    <3> QED BY <3>2, <3>3
  <2> QED BY <2>1, <2>2, <2>3, <2>4 DEF Numbered
<1> QED BY <1>5, <1>8, <1>9, <1>11 DEF BucketsInv

(* read, entries and retain: nothing happens, or a smaller bucket is stored. *)
LEMMA SmallerBucketInv ==
  ASSUME BucketsInv, NEW t \in Threads, Return(t), UNCHANGED <<clock, serial, takes>>,
         \/ UNCHANGED <<domains, bucket>>
         \/ /\ Tracked(call[t].domain)
            /\ \E b : Shrinks(bucket[call[t].domain], b) /\ Store(call[t].domain, b)
  PROVE  BucketsInv'
<1>1. CASE UNCHANGED <<domains, bucket>>
  BY <1>1, UnchangedShrunk, ShrinkingInv DEF BucketsInv, SlotsOK, NoSlotLeak
<1>2. CASE /\ Tracked(call[t].domain)
           /\ \E b : Shrinks(bucket[call[t].domain], b) /\ Store(call[t].domain, b)
  <2>1. PICK b : Shrinks(bucket[call[t].domain], b) /\ Store(call[t].domain, b)
    BY <1>2
  <2>2. Shrunk /\ SlotsOK'
    BY <1>2, <2>1, StoreFacts, CallFacts DEF BucketsInv
  <2> QED BY <2>2, ShrinkingInv
<1> QED BY <1>1, <1>2

LEMMA ReadInv ==
  ASSUME BucketsInv, NEW t \in Threads, Read(t)
  PROVE  BucketsInv'
<1> DEFINE c == call[t]
           b == bucket[c.domain]
<1>1. Shrinks(b, Recompute(Reclaim(b, c.now)))
  BY CallFacts, ReclaimFacts, RecomputeShrinks DEF BucketsInv
<1>2. /\ Return(t) /\ UNCHANGED <<clock, serial, takes>>
      /\ \/ UNCHANGED <<domains, bucket>>
         \/ Tracked(c.domain) /\ Store(c.domain, Recompute(Reclaim(b, c.now)))
  BY DEF Read
<1> QED BY <1>1, <1>2, SmallerBucketInv

LEMMA CountEntriesInv ==
  ASSUME BucketsInv, NEW t \in Threads, CountEntries(t)
  PROVE  BucketsInv'
<1> DEFINE c == call[t]
           b == bucket[c.domain]
<1>1. Shrinks(b, Reclaim(b, c.now))
  BY CallFacts, ReclaimFacts DEF BucketsInv
<1>2. /\ Return(t) /\ UNCHANGED <<clock, serial, takes>>
      /\ \/ UNCHANGED <<domains, bucket>>
         \/ Tracked(c.domain) /\ Store(c.domain, Reclaim(b, c.now))
  BY DEF CountEntries
<1> QED BY <1>1, <1>2, SmallerBucketInv

LEMMA RetainInv ==
  ASSUME BucketsInv, NEW t \in Threads, Retain(t)
  PROVE  BucketsInv'
<1> DEFINE c == call[t]
           b == bucket[c.domain]
<1>1. /\ Return(t) /\ UNCHANGED <<clock, serial, takes>>
      /\ \/ UNCHANGED <<domains, bucket>>
         \/ /\ Tracked(c.domain)
            /\ \E keep \in SUBSET Live(b, c.now) :
                 Store(c.domain, Recompute(KeepOnly(b, keep)))
  BY DEF Retain
<1>2. ASSUME NEW keep \in SUBSET Live(b, c.now)
      PROVE  Shrinks(b, Recompute(KeepOnly(b, keep)))
  <2>1. b \in BucketType /\ keep \subseteq Keys(b)
    BY CallFacts, KeysAndLive DEF BucketsInv
  <2> QED BY <2>1, KeepOnlyFacts, RecomputeShrinks
<1> QED BY <1>1, <1>2, SmallerBucketInv

LEMMA TotalEntriesInv ==
  ASSUME BucketsInv, NEW t \in Threads, TotalEntries(t)
  PROVE  BucketsInv'
<1> DEFINE now == call[t].now
           dead == {d \in domains : Live(bucket[d], now) = {}}
           After(d) == IF d \in dead THEN EmptyBucket
                       ELSE IF Tracked(d) THEN Recompute(Reclaim(bucket[d], now))
                       ELSE bucket[d]
<1>1. /\ domains' = domains \ dead /\ bucket' = [d \in Buckets |-> After(d)]
      /\ Return(t) /\ UNCHANGED <<clock, serial, takes>>
  BY DEF TotalEntries
<1>2. ASSUME NEW d \in Buckets
      PROVE  /\ Shrinks(bucket[d], Recompute(Reclaim(bucket[d], now)))
             /\ Keys(Recompute(Reclaim(bucket[d], now))) = Live(bucket[d], now)
  <2>1. bucket[d] \in BucketType /\ now \in Nat
    BY CallFacts DEF BucketsInv, Typed
  <2>2. Shrinks(bucket[d], Reclaim(bucket[d], now))
        /\ Keys(Reclaim(bucket[d], now)) = Live(bucket[d], now)
    BY <2>1, ReclaimFacts
  <2> QED BY <2>2, RecomputeShrinks, RecomputeFacts DEF Shrinks
<1>3. ASSUME NEW d \in Buckets PROVE Shrinks(bucket[d], After(d))
  <2>1. Shrinks(bucket[d], bucket[d])
    BY ShrinksRefl DEF BucketsInv, Typed
  <2> QED BY <1>2, <2>1, EmptyShrinks
<1>4. Shrunk
  <2>1. \A d \in Buckets : After(d) \in BucketType
    BY <1>3 DEF Shrinks
  <2> HIDE DEF After
  <2> QED BY <1>1, <1>3, <2>1 DEF Shrunk
<1>5. SlotsOK'
  <2>1. /\ domains' \subseteq Slots /\ IsFiniteSet(domains')
        /\ Cardinality(domains') <= MaxDomains
    BY <1>1, FewerSlots DEF BucketsInv, SlotsOK
  <2>2. ASSUME NEW d \in Slots \ domains' PROVE bucket'[d] = EmptyBucket
    <3>1. d \in Buckets /\ d # Overflow
      BY OverflowIsNoSlot DEF Buckets
    <3>2. CASE d \in dead
      BY <1>1, <3>1, <3>2
    <3>3. CASE d \notin dead
      <4>1. d \notin domains
        BY <1>1, <3>3
      <4>2. bucket'[d] = bucket[d]
        BY <1>1, <3>1, <3>3, <4>1 DEF Tracked
      <4> QED BY <4>1, <4>2 DEF BucketsInv, SlotsOK
    <3> QED BY <3>2, <3>3
  <2>3. ASSUME NEW d \in domains' PROVE Keys(bucket'[d]) # {}
    <3>1. d \in domains /\ d \notin dead /\ d \in Buckets /\ Live(bucket[d], now) # {}
      BY <1>1 DEF BucketsInv, SlotsOK, Buckets
    <3>2. bucket'[d] = Recompute(Reclaim(bucket[d], now))
      BY <1>1, <3>1 DEF Tracked
    <3> QED BY <1>2, <3>1, <3>2
  <2> QED BY <2>1, <2>2, <2>3 DEF SlotsOK, NoSlotLeak
<1> QED BY <1>1, <1>4, <1>5, ShrinkingInv

(* The one step that hands a value out takes it away in the same lock hold.  *)
LEMMA RemoveInv ==
  ASSUME BucketsInv, NEW t \in Threads, Remove(t)
  PROVE  BucketsInv'
<1> DEFINE c == call[t]
           d == c.domain
           i == c.identity
           b == bucket[d]
           r == KeepOnly(b, Keys(b) \ {i})
           s == b.entries[i].serial
<1>1. d \in Buckets /\ c.now \in Nat /\ b \in BucketType
  BY CallFacts DEF BucketsInv
<1>2. Shrinks(b, r) /\ Keys(r) = Keys(b) \ {i}
  BY <1>1, KeepOnlyFacts
<1>3. Return(t) /\ UNCHANGED <<clock, serial>>
  BY DEF Remove
<1>4. CASE Tracked(d) /\ i \in Live(b, c.now)
  <2>1. Store(d, r) /\ takes' = [takes EXCEPT ![s] = @ + 1]
    BY <1>4 DEF Remove
  <2>2. i \in Keys(b)
    BY <1>1, <1>4, KeysAndLive
  <2>3. Shrunk /\ SlotsOK'
    BY <1>1, <1>2, <1>4, <2>1, StoreFacts DEF BucketsInv
  <2>4. i \notin Keys(bucket'[d])
    BY <1>1, <1>2, <2>1, EmptyBucketFacts DEF Store, BucketsInv, Typed
  <2> HIDE DEF s, b, r, i, d, c
  <2>5. serial \in Nat /\ serial <= MaxInserts /\ MaxInserts \in Nat
    BY LimitAssumption DEF BucketsInv, Numbered
  <2>6. s \in 1..serial /\ s \in 1..MaxInserts /\ takes[s] = 0
    <3>1. s \in 1..serial /\ takes[s] = 0
      BY <1>1, <2>2 DEF BucketsInv, Numbered, s, b
    <3> QED BY <2>5, <3>1
  <2>7. /\ takes' \in [1..MaxInserts -> Nat]
        /\ \A n \in 1..MaxInserts : takes'[n] = IF n = s THEN 1 ELSE takes[n]
    BY <2>1, <2>6 DEF BucketsInv, Numbered
  <2>8. \A n \in 1..MaxInserts : takes'[n] <= 1 /\ (n > serial' => takes'[n] = 0)
    <3>1. \A n \in 1..MaxInserts : takes[n] <= 1 /\ (n > serial => takes[n] = 0)
      BY DEF BucketsInv, Numbered
    <3>2. s <= serial
      BY <2>5, <2>6
    <3> QED BY <1>3, <2>5, <2>7, <3>1, <3>2
  <2>9. ASSUME NEW e \in Buckets, NEW k \in Keys(bucket'[e])
        PROVE  /\ k \in Keys(bucket[e]) /\ bucket'[e].entries[k] = bucket[e].entries[k]
               /\ bucket'[e].entries[k].serial # s
    <3>1. k \in Keys(bucket[e]) /\ bucket'[e].entries[k] = bucket[e].entries[k]
      BY <2>3 DEF Shrunk, Shrinks
    <3>2. ~(e = d /\ k = i)
      BY <2>4
    <3> QED BY <1>1, <2>2, <3>1, <3>2 DEF BucketsInv, Numbered, s, b
  <2>10. ASSUME NEW e \in Buckets, NEW k \in Keys(bucket'[e])
         PROVE  /\ bucket'[e].entries[k].serial \in 1..serial'
                /\ takes'[bucket'[e].entries[k].serial] = 0
    <3>1. /\ bucket'[e].entries[k].serial \in 1..serial
          /\ takes[bucket'[e].entries[k].serial] = 0
          /\ bucket'[e].entries[k].serial # s
      BY <2>9 DEF BucketsInv, Numbered
    <3> QED BY <1>3, <2>5, <2>7, <3>1
  <2>11. ASSUME NEW e \in Buckets, NEW f \in Buckets,
                NEW k \in Keys(bucket'[e]), NEW l \in Keys(bucket'[f]),
                bucket'[e].entries[k].serial = bucket'[f].entries[l].serial
         PROVE  e = f /\ k = l
    <3>1. /\ k \in Keys(bucket[e]) /\ l \in Keys(bucket[f])
          /\ bucket[e].entries[k].serial = bucket[f].entries[l].serial
      BY <2>9, <2>11
    <3> QED BY <3>1 DEF BucketsInv, Numbered
  <2>12. Numbered'
    BY <1>3, <2>5, <2>7, <2>8, <2>10, <2>11 DEF Numbered
  <2> QED BY <1>3, <2>3, <2>12, ReturnTyped, ShrunkEntries DEF BucketsInv, Shrunk
<1>5. CASE ~(Tracked(d) /\ i \in Live(b, c.now))
  <2>1. /\ UNCHANGED takes
        /\ UNCHANGED <<domains, bucket>> \/ (Tracked(d) /\ Store(d, r))
    BY <1>5 DEF Remove
  <2> QED BY <1>2, <1>3, <2>1, SmallerBucketInv
<1> QED BY <1>4, <1>5

LEMMA SetClockInv ==
  ASSUME BucketsInv, SetClock
  PROVE  BucketsInv'
<1>1. clock' \in Nat
  BY LimitAssumption DEF SetClock
<1> QED BY <1>1 DEF SetClock, BucketsInv, Typed, SlotsOK, NoSlotLeak, EntriesOK, Numbered

(* A step of a caller is one of the calls or one of the operations. *)
LEMMA StepCases ==
  ASSUME NEW t \in Threads, Step(t)
  PROVE  \/ \E op \in Ops, d \in Buckets, i \in Identities \cup {NoIdentity}, ttl \in Nat :
              Call(t, op, d, i, ttl) /\ (op = "insert" => i \in Identities)
         \/ Insert(t) \/ RefuseDomain(t) \/ RefuseEntry(t)
         \/ Read(t) \/ Remove(t) \/ CountEntries(t) \/ TotalEntries(t) \/ Retain(t)
<1>1. CASE \E d \in Buckets, i \in Identities, ttl \in Ttls : Call(t, "insert", d, i, ttl)
  BY <1>1, TtlAssumption DEF Ops
<1>2. CASE \E op \in {"read", "remove"}, d \in Buckets, i \in Identities : Call(t, op, d, i, 0)
  BY <1>2 DEF Ops
<1>3. CASE \E op \in {"entries", "retain"}, d \in Buckets : Call(t, op, d, NoIdentity, 0)
  BY <1>3 DEF Ops
<1>4. CASE Call(t, "total_entries", Overflow, NoIdentity, 0)
  BY <1>4 DEF Ops, Buckets
<1> QED BY <1>1, <1>2, <1>3, <1>4 DEF Step

LEMMA NextInv == BucketsInv /\ [Next]_vars => BucketsInv'
<1>1. ASSUME BucketsInv, NEW t \in Threads, Step(t) PROVE BucketsInv'
  BY <1>1, StepCases, CallInv, InsertInv, RefuseDomainInv, RefuseEntryInv, ReadInv,
     RemoveInv, CountEntriesInv, TotalEntriesInv, RetainInv
<1>2. ASSUME BucketsInv, UNCHANGED vars PROVE BucketsInv'
  BY <1>2 DEF vars, BucketsInv, Typed, SlotsOK, NoSlotLeak, EntriesOK, Numbered
<1> QED BY <1>1, <1>2, SetClockInv DEF Next

LEMMA Always == Spec => []BucketsInv
BY InitInv, NextInv, PTL DEF Spec

-----------------------------------------------------------------------------
(* The store keeps both of its caps and gives emptied slots back, and        *)
(* `remove` hands each stored value out at most once, whatever callers with  *)
(* old clocks do.                                                            *)
THEOREM StoreIsSafe == Spec => []StoreInv
<1>1. BucketsInv => StoreInv
  BY DEF BucketsInv, StoreInv, TypeOK, WithinLimits, TakeOnce, Typed, SlotsOK, EntriesOK, Numbered,
         BucketType, CallType
<1> QED BY <1>1, Always, PTL

(* The bound on the deadlines of a bucket is never too high, so the scan     *)
(* that insert skips would have found nothing.                               *)
THEOREM BoundNeverTooHigh == Spec => []EarliestIsBound
<1>1. BucketsInv => EarliestIsBound
  BY DEF BucketsInv, EntriesOK, EarliestIsBound, Bounded
<1> QED BY <1>1, Always, PTL

-----------------------------------------------------------------------------
(* Action properties.                                                        *)

(* When insert is refused an entry, what is left in the bucket is live: if   *)
(* the scan ran, it dropped the rest; if it was skipped, the bound says that *)
(* there was nothing to drop.                                                *)
LEMMA RefusedAmongLive ==
  ASSUME NEW b \in BucketType, Bounded(b), NEW i, NEW now \in Nat,
         NeedsRoom(MadeRoom(b, i, now), i)
  PROVE  Live(MadeRoom(b, i, now), now) = Keys(MadeRoom(b, i, now))
<1>1. CASE NeedsRoom(b, i) /\ \A e \in b.earliest : e <= now
  <2>1. MadeRoom(b, i, now) = Recompute(Reclaim(b, now))
    BY <1>1 DEF MadeRoom
  <2>2. Shrinks(b, Reclaim(b, now)) /\ Keys(Reclaim(b, now)) = Live(b, now)
    BY ReclaimFacts
  <2>3. /\ Keys(Recompute(Reclaim(b, now))) = Live(b, now)
        /\ \A k \in Live(b, now) : Recompute(Reclaim(b, now)).entries[k] = b.entries[k]
    BY <2>2, RecomputeFacts DEF Shrinks
  <2> QED BY <2>1, <2>3 DEF Live
<1>2. CASE ~(NeedsRoom(b, i) /\ \A e \in b.earliest : e <= now)
  <2>1. MadeRoom(b, i, now) = b
    BY <1>2 DEF MadeRoom
  <2>2. PICK e \in b.earliest : ~(e <= now)
    BY <1>2, <2>1
  <2>3. ASSUME NEW k \in Keys(b) PROVE b.entries[k].expires_at > now
    <3>1. PICK f \in b.earliest : f <= b.entries[k].expires_at
      BY DEF Bounded
    <3>2. e = f /\ e \in Nat /\ b.entries[k].expires_at \in Nat
      BY DEF Bounded, BucketType, Entry, Keys
    <3> QED BY <2>2, <3>1, <3>2
  <2> QED BY <2>1, <2>3 DEF Live
<1> QED BY <1>1, <1>2

LEMMA OthersWait ==
  ASSUME Typed, NEW t \in Threads, NEW u \in Threads, Step(u), t # u
  PROVE  call'[t] = call[t]
BY StepCases DEF Call, Return, Insert, RefuseDomain, RefuseEntry, Read, Remove, CountEntries,
                 TotalEntries, Retain, Typed

LEMMA RefusalStep ==
  ASSUME BucketsInv, [Next]_vars, NEW t \in Threads, Refused(t)
  PROVE  RefuseDomain(t) \/ RefuseEntry(t)
<1>1. call'[t] # call[t]
  BY DEF Refused
<1>2. PICK u \in Threads : Step(u)
  BY <1>1 DEF Next, vars, SetClock
<1>3. Step(t)
  BY <1>1, <1>2, OthersWait DEF BucketsInv
<1>4. \A op, d, i, ttl : ~Call(t, op, d, i, ttl)
  BY DEF Refused, Call, Idle
<1>5. ~Insert(t)
  BY DEF Refused, Insert, BucketsInv, Numbered
<1> QED BY <1>3, <1>4, <1>5, StepCases
        DEF Refused, Running, Read, Remove, CountEntries, TotalEntries, Retain

(* insert is refused only when the domain cap is reached, or when every      *)
(* place in the bucket holds an entry of somebody else that is live at the   *)
(* caller's time.                                                            *)
THEOREM RefusalsAreDue == Spec => RefusedOnlyWhenFull
<1> DEFINE Due(t) ==
      LET c == call[t]
          b == bucket'[c.domain]
      IN \/ /\ c.domain \in Slots \ domains
            /\ Cardinality(domains) >= MaxDomains
         \/ /\ c.identity \notin Keys(b)
            /\ Live(b, c.now) = Keys(b)
            /\ Cardinality(Keys(b)) >= MaxEntries
<1>1. ASSUME BucketsInv, NEW t \in Threads, RefuseDomain(t) PROVE Due(t)
  BY <1>1, CallFacts DEF RefuseDomain, Tracked, BucketsInv, Buckets
<1>2. ASSUME BucketsInv, NEW t \in Threads, RefuseEntry(t) PROVE Due(t)
  <2> DEFINE c == call[t]
             d == c.domain
             b == MadeRoom(bucket[d], c.identity, c.now)
  <2>1. d \in Buckets /\ c.now \in Nat /\ bucket[d] \in BucketType /\ Bounded(bucket[d])
    BY <1>2, CallFacts DEF BucketsInv, EntriesOK
  <2>2. NeedsRoom(b, c.identity) /\ bucket'[d] = b
    BY <1>2, <2>1 DEF RefuseEntry, BucketsInv, Typed
  <2>3. Live(b, c.now) = Keys(b)
    BY <2>1, <2>2, RefusedAmongLive
  <2> HIDE DEF b
  <2> QED BY <2>2, <2>3 DEF NeedsRoom
<1> HIDE DEF Due
<1>3. BucketsInv /\ [Next]_vars => \A t \in Threads : Refused(t) => Due(t)
  BY <1>1, <1>2, RefusalStep
<1>4. BucketsInv /\ [Next]_vars => [\A t \in Threads : Refused(t) => Due(t)]_vars
  BY <1>3
<1> QED BY <1>4, Always, PTL DEF Spec, RefusedOnlyWhenFull, Due

(* What a stored bucket of one domain loses. *)
LEMMA StoreDrops ==
  ASSUME Typed, NEW d \in Buckets, NEW b, Shrinks(bucket[d], b), Store(d, b),
         NEW e \in Buckets, NEW i \in Keys(bucket[e]),
         bucket'[e].entries[i] # bucket[e].entries[i]
  PROVE  e = d /\ i \notin Keys(b)
<1>1. CASE d # Overflow /\ Keys(b) = {}
  BY <1>1 DEF Store, Typed
<1>2. CASE ~(d # Overflow /\ Keys(b) = {})
  BY <1>2 DEF Store, Typed, Shrinks
<1> QED BY <1>1, <1>2

(* Why thread t may take the value of i in d away. *)
MayDrop(t, d, i) ==
  /\ call[t] # Idle /\ call'[t] = Idle
  /\ \/ bucket[d].entries[i].expires_at <= call[t].now
     \/ call[t].op \in {"insert", "remove"}
        /\ call[t].domain = d /\ call[t].identity = i
     \/ call[t].op = "retain" /\ call[t].domain = d

LEMMA DropIsAllowed ==
  ASSUME BucketsInv, NEW t \in Threads, Step(t), NEW d \in Buckets, NEW i \in Keys(bucket[d]),
         bucket'[d].entries[i] # bucket[d].entries[i]
  PROVE  MayDrop(t, d, i)
<1> DEFINE c == call[t]
           b == bucket[c.domain]
<1>1. /\ c.domain \in Buckets /\ c.now \in Nat /\ b \in BucketType
      /\ bucket[d] \in BucketType /\ i \in Identities
  BY CallFacts DEF BucketsInv, Typed, Keys
<1>2. bucket' # bucket
  OBVIOUS
<1>3. (\A op, e, k, ttl : ~Call(t, op, e, k, ttl)) /\ ~RefuseDomain(t)
  BY <1>2 DEF Call, RefuseDomain
<1>4. c.op # "idle" => c # Idle
  BY DEF Idle
<1>5. Return(t) => call'[t] = Idle
  BY DEF Return, BucketsInv, Typed
<1>6. CASE Insert(t)
  <2> DEFINE m == MadeRoom(b, c.identity, c.now)
             p == Put(m, c.identity, serial + 1, Deadline(c))
  <2>1. /\ c.op = "insert" /\ Return(t) /\ c.identity \in Identities
        /\ bucket' = [bucket EXCEPT ![c.domain] = p]
    BY <1>6 DEF Insert, Running, BucketsInv, Typed
  <2>2. d = c.domain /\ bucket'[d] = p
    BY <1>1, <2>1 DEF BucketsInv, Typed
  <2>3. /\ Shrinks(b, m)
        /\ \A k \in Keys(b) \ Keys(m) : b.entries[k].expires_at <= c.now
    BY <1>1, MadeRoomFacts
  <2>4. serial + 1 \in Nat \ {0} /\ Deadline(c) \in Nat
    BY <1>1, CallFacts DEF BucketsInv, Numbered, Deadline
  <2>5. \A k \in Identities \ {c.identity} : p.entries[k] = m.entries[k]
    <3>1. m \in BucketType
      BY <2>3 DEF Shrinks
    <3>2. /\ p \in BucketType
          /\ Keys(p) = Keys(m) \cup {c.identity}
          /\ p.entries[c.identity] = [serial |-> serial + 1, expires_at |-> Deadline(c)]
          /\ \A k \in Identities \ {c.identity} : p.entries[k] = m.entries[k]
          /\ Bounded(m) => Bounded(p)
      BY <2>1, <2>4, <3>1, PutFacts
    <3> QED BY <3>2
  <2> HIDE DEF p, m
  <2>6. i = c.identity \/ b.entries[i].expires_at <= c.now
    BY <1>1, <2>2, <2>3, <2>5 DEF Shrinks
  <2> QED BY <1>4, <1>5, <2>1, <2>2, <2>6 DEF MayDrop
<1>7. CASE RefuseEntry(t)
  <2> DEFINE m == MadeRoom(b, c.identity, c.now)
  <2>1. c.op = "insert" /\ Return(t) /\ bucket' = [bucket EXCEPT ![c.domain] = m]
    BY <1>7 DEF RefuseEntry, Running
  <2>2. d = c.domain /\ bucket'[d] = m
    BY <1>1, <2>1 DEF BucketsInv, Typed
  <2>3. /\ Shrinks(b, m)
        /\ \A k \in Keys(b) \ Keys(m) : b.entries[k].expires_at <= c.now
    BY <1>1, MadeRoomFacts
  <2> HIDE DEF m
  <2>4. b.entries[i].expires_at <= c.now
    BY <2>2, <2>3 DEF Shrinks
  <2> QED BY <1>4, <1>5, <2>1, <2>2, <2>4 DEF MayDrop
<1>8. CASE Read(t)
  <2>1. /\ c.op = "read" /\ Return(t)
        /\ Store(c.domain, Recompute(Reclaim(b, c.now)))
    BY <1>2, <1>8 DEF Read, Running
  <2>2. /\ Shrinks(b, Recompute(Reclaim(b, c.now)))
        /\ Keys(Recompute(Reclaim(b, c.now))) = Live(b, c.now)
    BY <1>1, ReclaimFacts, RecomputeShrinks, RecomputeFacts, SMTT(30) DEF Shrinks
  <2>3. d = c.domain /\ i \notin Live(b, c.now)
    BY <1>1, <2>1, <2>2, StoreDrops DEF BucketsInv
  <2>4. bucket[d].entries[i].expires_at <= c.now
    BY <1>1, <2>3, KeysAndLive
  <2> QED BY <1>4, <1>5, <2>1, <2>4 DEF MayDrop
<1>9. CASE CountEntries(t)
  <2>1. c.op = "entries" /\ Return(t) /\ Store(c.domain, Reclaim(b, c.now))
    BY <1>2, <1>9 DEF CountEntries, Running
  <2>2. Shrinks(b, Reclaim(b, c.now)) /\ Keys(Reclaim(b, c.now)) = Live(b, c.now)
    BY <1>1, ReclaimFacts
  <2>3. d = c.domain /\ i \notin Live(b, c.now)
    BY <1>1, <2>1, <2>2, StoreDrops DEF BucketsInv
  <2>4. bucket[d].entries[i].expires_at <= c.now
    BY <1>1, <2>3, KeysAndLive
  <2> QED BY <1>4, <1>5, <2>1, <2>4 DEF MayDrop
<1>10. CASE Remove(t)
  <2>1. c.op = "remove" /\ Return(t) /\ Store(c.domain, KeepOnly(b, Keys(b) \ {c.identity}))
    BY <1>2, <1>10 DEF Remove, Running
  <2>2. /\ Shrinks(b, KeepOnly(b, Keys(b) \ {c.identity}))
        /\ Keys(KeepOnly(b, Keys(b) \ {c.identity})) = Keys(b) \ {c.identity}
    BY <1>1, KeepOnlyFacts
  <2>3. d = c.domain /\ i = c.identity
    BY <1>1, <2>1, <2>2, StoreDrops, SMTT(30) DEF BucketsInv
  <2> QED BY <1>4, <1>5, <2>1, <2>3 DEF MayDrop
<1>11. CASE TotalEntries(t)
  <2>1. /\ c.op = "total_entries" /\ Return(t)
        /\ \/ d \in domains /\ Live(bucket[d], c.now) = {}
           \/ bucket'[d] = Recompute(Reclaim(bucket[d], c.now))
    BY <1>1, <1>11 DEF TotalEntries, Running
  <2>2. i \notin Live(bucket[d], c.now)
    <3>1. /\ Shrinks(bucket[d], Reclaim(bucket[d], c.now))
          /\ Keys(Reclaim(bucket[d], c.now)) = Live(bucket[d], c.now)
      BY <1>1, ReclaimFacts
    <3>2. \A k \in Live(bucket[d], c.now) :
            Recompute(Reclaim(bucket[d], c.now)).entries[k] = bucket[d].entries[k]
      BY <3>1, RecomputeFacts DEF Shrinks
    <3> QED BY <2>1, <3>2
  <2>3. bucket[d].entries[i].expires_at <= c.now
    BY <1>1, <2>2, KeysAndLive
  <2> QED BY <1>4, <1>5, <2>1, <2>3 DEF MayDrop
<1>12. CASE Retain(t)
  <2>1. c.op = "retain" /\ Return(t)
    BY <1>12 DEF Retain, Running
  <2>2. PICK keep \in SUBSET Live(b, c.now) : Store(c.domain, Recompute(KeepOnly(b, keep)))
    BY <1>2, <1>12 DEF Retain
  <2>3. Shrinks(b, Recompute(KeepOnly(b, keep)))
    BY <1>1, KeysAndLive, KeepOnlyFacts, RecomputeShrinks
  <2>4. d = c.domain
    BY <1>1, <2>2, <2>3, StoreDrops DEF BucketsInv
  <2> QED BY <1>4, <1>5, <2>1, <2>4 DEF MayDrop
<1> QED BY <1>3, <1>6, <1>7, <1>8, <1>9, <1>10, <1>11, <1>12, StepCases

(* A full store never displaces: a value goes away only because it had       *)
(* expired at its caller's time, because its own identity was refreshed or   *)
(* removed, or because its owner's retain dropped it.                        *)
THEOREM FullNeverDisplaces == Spec => NeverDisplaced
<1> DEFINE Displaced(d, i) == /\ i \in Keys(bucket[d])
                              /\ bucket'[d].entries[i] # bucket[d].entries[i]
<1>1. ASSUME BucketsInv, [Next]_vars, NEW d \in Buckets, NEW i \in Identities, Displaced(d, i)
      PROVE  \E t \in Threads : MayDrop(t, d, i)
  <2>1. bucket' # bucket
    BY <1>1
  <2>2. PICK t \in Threads : Step(t)
    BY <1>1, <2>1 DEF Next, SetClock, vars
  <2> QED BY <1>1, <2>2, DropIsAllowed
<1>2. BucketsInv /\ [Next]_vars => [\A d \in Buckets, i \in Identities :
                               Displaced(d, i) => \E t \in Threads : MayDrop(t, d, i)]_vars
  <2> HIDE DEF Displaced
  <2> QED BY <1>1
<1> QED BY <1>2, Always, PTL DEF Spec, NeverDisplaced, MayDrop

-----------------------------------------------------------------------------
(*****************************************************************************)
(* FileCache, for any finite set of keys, tasks and lengths, and any quotas. *)
(*                                                                           *)
(* The invariant says of every task what it holds at each step between two   *)
(* awaits (TaskOK), that whatever is on disk, in memory or in the hands of a *)
(* task is newer than what was purged (FilesOK, HotOK, HeldOK), and that     *)
(* memory and the other tasks leave the key of a lone purge alone (AloneOK). *)
(*****************************************************************************)

Places == {"idle", "purge", "stat_rm", "rm"} \cup Reading \cup Writing

TaskType ==
  [at : Places, key : CacheKeys \cup {NoKey}, obj : Objects, old : Nat, evicts : Nat,
   victim : CacheKeys \cup {NoKey}, refresh : BOOLEAN, todo : SUBSET (Nat \cup CacheKeys),
   alone : BOOLEAN]

(* What is served: only a file an earlier process left may lack its end. *)
Sound(obj) == obj.cut # "no" => obj.cut = "body" /\ obj.v = 1

(* One task: what it holds at which step. *)
TaskOK(q) ==
  /\ q \in TaskType
  /\ q.at \in {"idle", "purge"} => q.key = NoKey
  /\ q.at \notin {"idle", "purge"} => q.key \in CacheKeys
  /\ q.at = "purge" => q.todo \subseteq CacheKeys
  /\ q.at = "evict" => q.victim \in CacheKeys /\ q.todo \subseteq Nat /\ q.evicts > 0
  /\ q.at \in {"admit"} \cup Writing => q.obj # NoObject
  /\ q.alone => q.at \in {"stat_rm", "rm"}
  /\ Sound(q.obj)

TasksOK == task \in [Tasks -> TaskType] /\ \A t \in Tasks : TaskOK(task[t])

CacheTyped ==
  /\ files \in [CacheKeys -> Objects] /\ hot \in [CacheKeys -> Objects]
  /\ left \in [Lengths -> Nat] /\ gone \in [CacheKeys -> Nat]
  /\ size \in 0 .. Width - 1 /\ puts \in 1 .. MaxPuts

(* Nothing of a key, on disk, in memory or in a task's hands, is as old as   *)
(* what was purged, and what was purged was written.                         *)
Newer(obj, g) == obj # NoObject => obj.v > g

FilesOK == \A k \in CacheKeys : /\ files[k].cut # "no" => files[k].v = 1
                                /\ Newer(files[k], gone[k])
HotOK == \A k \in CacheKeys : Sound(hot[k]) /\ Newer(hot[k], gone[k])
GoneOK == \A k \in CacheKeys : gone[k] <= puts
HeldOK == \A t \in Tasks : task[t].obj # NoObject =>
                             task[t].key \in CacheKeys /\ Newer(task[t].obj, gone[task[t].key])

(* A purge that is alone with its key: memory has nothing of it, and no other *)
(* task has to do with it.                                                   *)
AloneOK == \A t \in Tasks : task[t].alone =>
             /\ hot[task[t].key] = NoObject
             /\ \A u \in Tasks \ {t} : task[u].key # task[t].key

CacheInv == CacheTyped /\ TasksOK /\ FilesOK /\ HotOK /\ GoneOK /\ HeldOK /\ AloneOK

-----------------------------------------------------------------------------
(* Sizes.                                                                    *)

LEMMA WrappedIs == ASSUME NEW n \in Int PROVE Wrapped(n) \in 0 .. Width - 1
BY CacheAssumption DEF Wrapped

LEMMA SaturatingIs == ASSUME NEW n \in Int PROVE Saturating(n) \in 0 .. Width - 1
BY CacheAssumption DEF Saturating

LEMMA ObjectIs ==
  ASSUME NEW obj \in Objects
  PROVE  /\ obj.len \in Nat /\ obj.v \in Nat /\ obj.cut \in Cuts
         /\ obj # NoObject => obj.len \in Lengths /\ obj.v \in 1 .. MaxPuts
<1>1. CASE obj = NoObject
  BY <1>1 DEF NoObject, Cuts
<1>2. CASE obj \in [v : 1 .. MaxPuts, len : Lengths, cut : Cuts]
  <2>1. MaxPuts \in Nat /\ \A n \in Lengths : n \in Nat
    BY CacheAssumption
  <2> QED BY <1>2, <2>1
<1> QED BY <1>1, <1>2 DEF Objects

LEMMA NoObjectIs == NoObject \in Objects /\ NoObject.v = 0 /\ NoObject.len = 0 /\ NoObject.cut = "no"
BY DEF Objects, NoObject

(* There is a longest length. *)
LEMMA LongestExists == \E m \in Nat : (m = 0 \/ m \in Lengths) /\ \A n \in Lengths : n <= m
<1> DEFINE Longer(n) == {x \in Lengths : x > n}
           Longers == {Longer(n) : n \in Lengths}
<1>1. CASE Lengths = {}
  BY <1>1
<1>2. CASE Lengths # {}
  <2>1. IsWellFoundedOn(StrictSubsetOrdering(Lengths), FiniteSubsetsOf(Lengths))
    BY FS_StrictSubsetOrderingWellFounded
  <2>2. Longers \subseteq FiniteSubsetsOf(Lengths) /\ Longers # {}
    <3>1. \A n \in Lengths : Longer(n) \subseteq Lengths
      OBVIOUS
    <3> HIDE DEF Longer
    <3>2. \A n \in Lengths : IsFiniteSet(Longer(n))
      BY <3>1, FS_Subset, CacheAssumption
    <3> QED BY <1>2, <3>1, <3>2 DEF FiniteSubsetsOf
  <2> HIDE DEF Longers
  <2>3. PICK A \in Longers : \A B \in Longers : ~(<<B, A>> \in StrictSubsetOrdering(Lengths))
    BY <2>1, <2>2, WFMin
  <2>4. PICK m \in Lengths : A = Longer(m)
    BY <2>3 DEF Longers
  <2>5. \A x \in Lengths : ~(x > m)
    <3> SUFFICES ASSUME NEW x \in Lengths, x > m PROVE FALSE
      OBVIOUS
    <3>1. x \in Nat /\ m \in Nat /\ \A y \in Lengths : y \in Nat
      BY CacheAssumption
    <3>2. Longer(x) \subseteq Longer(m) /\ x \in Longer(m) /\ x \notin Longer(x)
      <4>1. ~(x > x) /\ \A y \in Lengths : y > x => y > m
        BY <3>1
      <4> QED BY <4>1, Zenon
    <3>3. Longer(x) \subseteq Lengths /\ Longer(m) \subseteq Lengths
      OBVIOUS
    <3> HIDE DEF Longer
    <3>4. Longer(x) \in Longers
      BY DEF Longers
    <3> QED BY <2>3, <2>4, <3>2, <3>3, <3>4 DEF StrictSubsetOrdering
  <2> QED BY <2>5, CacheAssumption
<1> QED BY <1>1, <1>2

LEMMA OnDiskIs ==
  ASSUME NEW f \in [CacheKeys -> Objects], NEW m \in Nat, \A n \in Lengths : n <= m
  PROVE  OnDisk(f) \in Nat /\ OnDisk(f) <= Cardinality(CacheKeys) * m
<1> DEFINE B == UNION {{k} \X (1 .. f[k].len) : k \in CacheKeys}
<1>1. IsFiniteSet(1 .. m) /\ Cardinality(1 .. m) = m
  BY FS_Interval
<1>2. IsFiniteSet(CacheKeys \X (1 .. m)) /\ Cardinality(CacheKeys \X (1 .. m)) = Cardinality(CacheKeys) * m
  BY <1>1, FS_Product, CacheAssumption
<1>3. \A k \in CacheKeys : f[k].len \in Nat /\ f[k].len <= m
  BY ObjectIs, NoObjectIs
<1>4. B \subseteq CacheKeys \X (1 .. m)
  <2>1. \A k \in CacheKeys : 1 .. f[k].len \subseteq 1 .. m
    BY <1>3
  <2> QED BY <2>1
<1> HIDE DEF B
<1>5. IsFiniteSet(B) /\ Cardinality(B) <= Cardinality(CacheKeys \X (1 .. m))
  BY <1>2, <1>4, FS_Subset
<1>6. OnDisk(f) = Cardinality(B)
  BY DEF OnDisk, B
<1> QED BY <1>2, <1>5, <1>6, FS_CardinalityType

LEMMA LeftFilesAreFinite ==
  ASSUME NEW l \in [Lengths -> Nat]
  PROVE  IsFiniteSet(LeftFiles(l))
<1> DEFINE Of(n) == {n} \X (1 .. l[n])
           All == {Of(n) : n \in Lengths}
<1>1. \A n \in Lengths : IsFiniteSet(Of(n))
  <2> SUFFICES ASSUME NEW n \in Lengths PROVE IsFiniteSet({n} \X (1 .. l[n]))
    OBVIOUS
  <2>1. IsFiniteSet({n}) /\ IsFiniteSet(1 .. l[n])
    <3>1. 1 \in Int /\ l[n] \in Int
      OBVIOUS
    <3>2. IsFiniteSet(1 .. l[n])
      BY <3>1, FS_Interval
    <3> QED BY <3>2, FS_Singleton
  <2> QED BY <2>1, FS_Product
<1> HIDE DEF Of
<1>2. IsFiniteSet(All)
  <2> DEFINE g == [n \in Lengths |-> Of(n)]
  <2>1. g \in Surjection(Lengths, All)
    BY DEF Surjection
  <2> QED BY <2>1, CacheAssumption, FS_Surjection
<1>3. \A T \in All : IsFiniteSet(T)
  BY <1>1
<1>4. LeftFiles(l) = UNION All
  BY DEF LeftFiles, Of
<1> HIDE DEF All
<1> QED BY <1>2, <1>3, <1>4, FS_UNION

LEMMA LeftoverIs ==
  ASSUME NEW l \in [Lengths -> Nat], NEW m \in Nat, \A n \in Lengths : n <= m,
         Cardinality(LeftFiles(l)) <= MaxLeft
  PROVE  Leftover(l) \in Nat /\ Leftover(l) <= MaxLeft * m
<1> DEFINE F == LeftFiles(l)
           B == UNION {{file} \X (1 .. file[1]) : file \in F}
<1>1. IsFiniteSet(1 .. m) /\ Cardinality(1 .. m) = m
  BY FS_Interval
<1>2. IsFiniteSet(F)
  BY LeftFilesAreFinite
<1>3. \A file \in F : file[1] \in Nat /\ file[1] <= m
  BY CacheAssumption DEF LeftFiles
<1> HIDE DEF F
<1>4. IsFiniteSet(F \X (1 .. m)) /\ Cardinality(F \X (1 .. m)) = Cardinality(F) * m
  BY <1>1, <1>2, FS_Product
<1>5. B \subseteq F \X (1 .. m)
  <2>1. \A file \in F : 1 .. file[1] \subseteq 1 .. m
    BY <1>3
  <2> QED BY <2>1
<1> HIDE DEF B
<1>6. IsFiniteSet(B) /\ Cardinality(B) <= Cardinality(F \X (1 .. m))
  BY <1>4, <1>5, FS_Subset
<1>7. Leftover(l) = Cardinality(B) /\ Cardinality(F) <= MaxLeft
  BY DEF Leftover, B, F
<1>8. Cardinality(F) \in Nat /\ Cardinality(B) \in Nat /\ MaxLeft \in Nat
  BY <1>2, <1>6, FS_CardinalityType, CacheAssumption
<1>9. \A x, y \in Nat : x <= y => x * m <= y * m
  OBVIOUS
<1> QED BY <1>4, <1>6, <1>7, <1>8, <1>9

(* What a process measures when it starts fits the counter. *)
LEMMA MeasuredIs ==
  ASSUME NEW f \in [CacheKeys -> Objects], NEW l \in [Lengths -> Nat],
         Cardinality(LeftFiles(l)) <= MaxLeft
  PROVE  OnDisk(f) + Leftover(l) \in 0 .. Width - 1
<1>1. PICK m \in Nat : (m = 0 \/ m \in Lengths) /\ \A n \in Lengths : n <= m
  BY LongestExists
<1>2. /\ OnDisk(f) \in Nat /\ OnDisk(f) <= Cardinality(CacheKeys) * m
      /\ Leftover(l) \in Nat /\ Leftover(l) <= MaxLeft * m
  BY <1>1, OnDiskIs, LeftoverIs
<1>3. Cardinality(CacheKeys) \in Nat /\ MaxLeft \in Nat /\ Width \in Nat \ {0}
  BY FS_CardinalityType, CacheAssumption
<1>4. (Cardinality(CacheKeys) + MaxLeft) * m < Width
  <2>1. CASE m = 0
    BY <1>3, <2>1
  <2>2. CASE m \in Lengths
    BY <2>2, CacheAssumption
  <2> QED BY <1>1, <2>1, <2>2
<1>5. (Cardinality(CacheKeys) + MaxLeft) * m = Cardinality(CacheKeys) * m + MaxLeft * m
  BY <1>3
<1>6. Cardinality(CacheKeys) * m \in Nat /\ MaxLeft * m \in Nat
  BY <1>3
<1> HIDE DEF OnDisk, Leftover
<1> QED BY <1>2, <1>3, <1>4, <1>5, <1>6

-----------------------------------------------------------------------------
(* Tasks.  A step puts q in the place of one task's record.                  *)

LEMMA IdleIs == TaskOK(IdleTask) /\ IdleTask.key = NoKey /\ IdleTask.obj = NoObject /\ ~IdleTask.alone
<1>1. IdleTask \in TaskType
  BY NoObjectIs DEF IdleTask, TaskType, Places
<1> QED BY <1>1, NoObjectIs DEF TaskOK, IdleTask, Sound, Writing

(* What is asked of the new record of a task whose key was k. *)
Successor(q, k, g) ==
  /\ TaskOK(q)
  /\ q.key \in {k, NoKey}
  /\ q.obj # NoObject => q.key \in CacheKeys /\ Newer(q.obj, g[q.key])

LEMMA StepTask ==
  ASSUME CacheInv, NEW t \in Tasks, NEW q, task' = [task EXCEPT ![t] = q],
         Successor(q, task[t].key, gone), q.alone => task[t].alone /\ q.key = task[t].key,
         gone' = gone,
         \A k \in CacheKeys : hot'[k] \in {hot[k], NoObject} \/ k = task[t].key,
         q.alone => hot' = hot
  PROVE  TasksOK' /\ HeldOK' /\ AloneOK'
<1>1. task \in [Tasks -> TaskType] /\ \A u \in Tasks : TaskOK(task[u])
  BY DEF CacheInv, TasksOK
<1>2. task'[t] = q /\ \A u \in Tasks \ {t} : task'[u] = task[u]
  BY <1>1
<1>3. TasksOK'
  <2>1. q \in TaskType
    BY DEF Successor, TaskOK
  <2>2. task' \in [Tasks -> TaskType]
    BY <1>1, <2>1
  <2>3. \A u \in Tasks : TaskOK(task'[u])
    BY <1>1, <1>2 DEF Successor
  <2> QED BY <2>2, <2>3 DEF TasksOK, TaskOK, TaskType, Sound
<1>4. HeldOK'
  BY <1>2 DEF CacheInv, HeldOK, Successor
<1>5. AloneOK'
  <2> SUFFICES ASSUME NEW u \in Tasks, task'[u].alone
               PROVE  /\ hot'[task'[u].key] = NoObject
                      /\ \A w \in Tasks \ {u} : task'[w].key # task'[u].key
    BY DEF AloneOK
  <2>1. task[u].alone /\ task'[u].key = task[u].key /\ task[u].key \in CacheKeys
    <3>1. task[u].alone /\ task'[u].key = task[u].key
      BY <1>2
    <3>2. task[u].alone => task[u].key \in CacheKeys
      BY <1>1 DEF TaskOK
    <3> QED BY <3>1, <3>2
  <2>2. hot[task[u].key] = NoObject /\ \A w \in Tasks \ {u} : task[w].key # task[u].key
    BY <2>1 DEF CacheInv, AloneOK
  <2>3. hot'[task'[u].key] = NoObject
    <3>1. CASE u = t
      BY <1>2, <2>1, <2>2, <3>1
    <3>2. CASE u # t
      BY <2>1, <2>2, <3>2
    <3> QED BY <3>1, <3>2
  <2>4. \A w \in Tasks \ {u} : task'[w].key # task'[u].key
    <3>1. task[u].key # NoKey
      BY <2>1, CacheAssumption
    <3> QED BY <1>2, <2>1, <2>2, <3>1 DEF Successor
  <2> QED BY <2>3, <2>4
<1> QED BY <1>3, <1>4, <1>5

(* A purge that is no longer alone with its key. *)
LEMMA UnaloneIs ==
  ASSUME NEW r \in TaskType, NEW s, s = [r EXCEPT !.alone = FALSE]
  PROVE  /\ s \in TaskType
         /\ s.at = r.at /\ s.key = r.key /\ s.obj = r.obj /\ s.todo = r.todo
         /\ s.victim = r.victim /\ s.evicts = r.evicts
<1>1. s.at = r.at /\ s.key = r.key /\ s.obj = r.obj /\ s.todo = r.todo
      /\ s.victim = r.victim /\ s.evicts = r.evicts
  BY DEF TaskType
<1>2. s \in TaskType
  BY DEF TaskType
<1> QED BY <1>1, <1>2

LEMMA BeginTask ==
  ASSUME CacheInv, NEW t \in Tasks, NEW k \in CacheKeys, NEW q, Begins(t, k, q),
         Successor(q, k, gone), gone' = gone,
         q.alone => q.key = k /\ hot'[k] = NoObject /\ \A u \in Tasks \ {t} : task[u].key # k,
         \A j \in CacheKeys : hot'[j] \in {hot[j], NoObject} \/ j = k
  PROVE  TasksOK' /\ HeldOK' /\ AloneOK'
<1>1. task \in [Tasks -> TaskType] /\ \A u \in Tasks : TaskOK(task[u])
  BY DEF CacheInv, TasksOK
<1>2. task'[t] = q /\ task' = [u \in Tasks |-> task'[u]]
  BY DEF Begins
<1>3. \A u \in Tasks \ {t} :
        /\ task'[u] = IF task[u].key = k THEN [task[u] EXCEPT !.alone = FALSE] ELSE task[u]
        /\ task[u] \in TaskType
  BY <1>1 DEF Begins
<1>4. ASSUME NEW u \in Tasks \ {t}
      PROVE  /\ task'[u].at = task[u].at /\ task'[u].key = task[u].key /\ task'[u].obj = task[u].obj
             /\ task'[u].todo = task[u].todo /\ task'[u].victim = task[u].victim
             /\ task'[u].evicts = task[u].evicts
             /\ task'[u] \in TaskType
  <2>1. CASE task[u].key = k
    <3>1. task'[u] = [task[u] EXCEPT !.alone = FALSE] /\ task[u] \in TaskType
      BY <1>3, <2>1
    <3> QED BY <3>1, UnaloneIs
  <2>2. CASE task[u].key # k
    BY <1>3, <2>2
  <2> QED BY <2>1, <2>2
<1>5. ASSUME NEW u \in Tasks \ {t}, task'[u].alone PROVE task[u].alone /\ task[u].key # k
  <2>1. CASE task[u].key = k
    <3>1. task'[u].alone = FALSE
      BY <1>3, <2>1 DEF TaskType
    <3> QED BY <1>5, <3>1
  <2>2. CASE task[u].key # k
    <3>1. task'[u] = task[u]
      BY <1>3, <2>2
    <3> QED BY <1>5, <2>2, <3>1
  <2> QED BY <2>1, <2>2
<1>6. \A u \in Tasks \ {t} : TaskOK(task'[u])
  BY <1>1, <1>4, <1>5 DEF TaskOK
<1>7. TasksOK'
  <2>1. TaskOK(q) /\ q \in TaskType
    BY DEF Successor, TaskOK
  <2>2. \A u \in Tasks : TaskOK(task'[u]) /\ task'[u] \in TaskType
    BY <1>2, <1>4, <1>6, <2>1
  <2>3. task' \in [Tasks -> TaskType]
    BY <1>2, <2>2
  <2> QED BY <2>2, <2>3 DEF TasksOK, TaskOK, TaskType, Sound
<1>8. HeldOK'
  BY <1>2, <1>4 DEF CacheInv, HeldOK, Successor
<1>9. AloneOK'
  <2> SUFFICES ASSUME NEW u \in Tasks, task'[u].alone
               PROVE  /\ hot'[task'[u].key] = NoObject
                      /\ \A w \in Tasks \ {u} : task'[w].key # task'[u].key
    BY DEF AloneOK
  <2>1. CASE u = t
    BY <1>2, <1>4, <2>1
  <2>2. CASE u # t
    <3>1. task[u].alone /\ task[u].key # k /\ task'[u].key = task[u].key
      BY <1>4, <1>5, <2>2
    <3>2. task[u].key \in CacheKeys
      BY <1>1, <3>1 DEF TaskOK
    <3>3. hot[task[u].key] = NoObject /\ \A w \in Tasks \ {u} : task[w].key # task[u].key
      BY <3>1 DEF CacheInv, AloneOK
    <3>4. q.key # task[u].key
      BY <3>1, <3>2, CacheAssumption DEF Successor
    <3> QED BY <1>2, <1>4, <3>1, <3>2, <3>3, <3>4
  <2> QED BY <2>1, <2>2
<1> QED BY <1>7, <1>8, <1>9

LEMMA EndTask ==
  ASSUME CacheInv, NEW t \in Tasks, Ends(t), gone' = gone,
         \A k \in CacheKeys : hot'[k] \in {hot[k], NoObject} \/ k = task[t].key
  PROVE  TasksOK' /\ HeldOK' /\ AloneOK'
<1>1. Successor(IdleTask, task[t].key, gone)
  BY IdleIs DEF Successor
<1>2. task' = [task EXCEPT ![t] = IdleTask]
  BY DEF Ends
<1> HIDE DEF IdleTask
<1> QED BY <1>1, <1>2, IdleIs, StepTask

(* A task goes on to its next step with what it has. *)
LEMMA GoOn ==
  ASSUME CacheInv, NEW t \in Tasks, NEW q, task' = [task EXCEPT ![t] = q], TaskOK(q),
         q.key = task[t].key, q.obj = task[t].obj, q.alone = task[t].alone,
         gone' = gone, hot' = hot
  PROVE  TasksOK' /\ HeldOK' /\ AloneOK'
<1>1. Successor(q, task[t].key, gone)
  BY DEF Successor, CacheInv, HeldOK
<1> QED BY <1>1, StepTask

LEMMA TaskIs ==
  ASSUME CacheInv, NEW t \in Tasks
  PROVE  TaskOK(task[t]) /\ task[t] \in TaskType /\ DOMAIN task = Tasks /\ task \in [Tasks -> TaskType]
BY DEF CacheInv, TasksOK, TaskOK

LEMMA PutsTask ==
  ASSUME CacheInv, NEW t \in Tasks, NEW k \in CacheKeys,
         NEW obj \in Objects, obj # NoObject, Sound(obj), Newer(obj, gone[k]),
         Puts(t, k, obj), gone' = gone,
         \A j \in CacheKeys : hot'[j] \in {hot[j], NoObject} \/ j = k
  PROVE  TasksOK' /\ HeldOK' /\ AloneOK'
<1> DEFINE q == [IdleTask EXCEPT !.at = "stat", !.key = k, !.obj = obj]
<1>1. q \in TaskType /\ q.at = "stat" /\ q.key = k /\ q.obj = obj /\ q.alone = FALSE
  BY DEF IdleTask, TaskType, Places, Writing
<1>2. Begins(t, k, q) \/ Begins(t, k, IdleTask)
  BY DEF Puts
<1> HIDE DEF q
<1>3. TaskOK(q)
  BY <1>1 DEF TaskOK, Writing
<1>4. Successor(q, k, gone)
  BY <1>1, <1>3 DEF Successor
<1>5. Successor(IdleTask, k, gone) /\ ~IdleTask.alone /\ ~q.alone
  BY <1>1, IdleIs DEF Successor
<1> HIDE DEF IdleTask
<1>6. CASE Begins(t, k, q)
  BY <1>4, <1>5, <1>6, BeginTask
<1>7. CASE Begins(t, k, IdleTask)
  BY <1>5, <1>7, BeginTask
<1> QED BY <1>2, <1>6, <1>7

-----------------------------------------------------------------------------
(* The steps of a request.                                                   *)

Quiet == UNCHANGED <<files, left, size, puts, gone>>

(* What a step that only changes tasks and memory leaves. *)
LEMMA QuietKeeps ==
  ASSUME CacheInv, Quiet, hot' \in [CacheKeys -> Objects],
         \A k \in CacheKeys : Sound(hot'[k]) /\ Newer(hot'[k], gone[k])
  PROVE  CacheTyped' /\ FilesOK' /\ HotOK' /\ GoneOK'
<1>1. CacheTyped'
  BY DEF CacheInv, CacheTyped, Quiet
<1>2. FilesOK'
  BY DEF CacheInv, FilesOK, Quiet
<1>3. HotOK'
  BY DEF HotOK, Quiet
<1>4. GoneOK'
  BY DEF CacheInv, GoneOK, Quiet
<1> QED BY <1>1, <1>2, <1>3, <1>4

LEMMA QuietSame ==
  ASSUME CacheInv, Quiet, hot' = hot
  PROVE  CacheTyped' /\ FilesOK' /\ HotOK' /\ GoneOK'
<1>1. hot' \in [CacheKeys -> Objects] /\ \A k \in CacheKeys : Sound(hot'[k]) /\ Newer(hot'[k], gone[k])
  BY DEF CacheInv, CacheTyped, HotOK
<1> QED BY <1>1, QuietKeeps

LEMMA GetKeeps == ASSUME CacheInv, NEW t \in Tasks, NEW k \in CacheKeys, Get(t, k) PROVE CacheInv'
<1>1. PICK refresh \in BOOLEAN :
        Begins(t, k, [IdleTask EXCEPT !.at = "read", !.key = k, !.refresh = refresh])
  BY DEF Get
<1> DEFINE q == [IdleTask EXCEPT !.at = "read", !.key = k, !.refresh = refresh]
<1>2. q \in TaskType /\ q.at = "read" /\ q.key = k /\ q.obj = NoObject /\ q.alone = FALSE
  BY NoObjectIs DEF IdleTask, TaskType, Places, Reading
<1>3. Begins(t, k, q)
  BY <1>1
<1> HIDE DEF q
<1>4. Successor(q, k, gone)
  BY <1>2, NoObjectIs DEF Successor, TaskOK, Sound, Writing
<1>5. Quiet /\ hot' = hot /\ gone' = gone
  BY DEF Get, Quiet
<1>6. TasksOK' /\ HeldOK' /\ AloneOK'
  BY <1>2, <1>3, <1>4, <1>5, BeginTask
<1> QED BY <1>5, <1>6, QuietSame DEF CacheInv

LEMMA ReadFileKeeps == ASSUME CacheInv, NEW t \in Tasks, ReadFile(t) PROVE CacheInv'
<1> DEFINE k == task[t].key
<1>1. TaskOK(task[t]) /\ task[t] \in TaskType /\ task[t].at = "read" /\ k \in CacheKeys
  BY TaskIs DEF ReadFile, TaskOK
<1>2. Quiet /\ hot' = hot /\ gone' = gone
  BY DEF ReadFile, Quiet
<1>3. TasksOK' /\ HeldOK' /\ AloneOK'
  <2>1. CASE Stored(k) /\ Parses(files[k]) /\ task' = [task EXCEPT ![t].at = "admit", ![t].obj = files[k]]
    <3> DEFINE q == [task[t] EXCEPT !.at = "admit", !.obj = files[k]]
    <3>1. files[k] \in Objects /\ files[k] # NoObject
      BY <1>1, <2>1 DEF CacheInv, CacheTyped, Stored
    <3>2. /\ q \in TaskType /\ q.at = "admit" /\ q.key = k /\ q.obj = files[k]
          /\ q.alone = task[t].alone
      BY <1>1, <3>1 DEF TaskType, Places, Reading
    <3>3. task' = [task EXCEPT ![t] = q]
      BY <1>1, <2>1, TaskIs
    <3> HIDE DEF q
    <3>4. Sound(files[k]) /\ Newer(files[k], gone[k])
      BY <1>1, <2>1, <3>1, ObjectIs DEF CacheInv, FilesOK, Sound, Parses, Cuts
    <3>5. ~task[t].alone
      BY <1>1 DEF TaskOK
    <3>6. Successor(q, k, gone)
      BY <1>1, <3>1, <3>2, <3>4, <3>5 DEF Successor, TaskOK, Writing
    <3> QED BY <1>2, <3>2, <3>3, <3>5, <3>6, StepTask
  <2>2. CASE Goes(t, "stat_corrupt")
    <3> DEFINE q == [task[t] EXCEPT !.at = "stat_corrupt"]
    <3>1. /\ q \in TaskType /\ q.at = "stat_corrupt" /\ q.key = k /\ q.obj = task[t].obj
          /\ q.alone = task[t].alone
      BY <1>1 DEF TaskType, Places, Reading
    <3>2. task' = [task EXCEPT ![t] = q]
      BY <2>2, TaskIs DEF Goes
    <3> HIDE DEF q
    <3>3. TaskOK(q)
      BY <1>1, <3>1 DEF TaskOK, Writing
    <3> QED BY <1>2, <3>1, <3>2, <3>3, GoOn
  <2>3. CASE Ends(t)
    BY <1>2, <2>3, EndTask
  <2> QED BY <2>1, <2>2, <2>3 DEF ReadFile
<1> QED BY <1>2, <1>3, QuietSame DEF CacheInv

LEMMA AdmitKeeps == ASSUME CacheInv, NEW t \in Tasks, Admit(t) PROVE CacheInv'
<1> DEFINE k == task[t].key
<1>1. /\ TaskOK(task[t]) /\ task[t] \in TaskType /\ task[t].at = "admit" /\ k \in CacheKeys
      /\ task[t].obj \in Objects /\ task[t].obj # NoObject /\ Sound(task[t].obj)
  BY TaskIs DEF Admit, TaskOK, TaskType
<1>2. Quiet /\ hot' = [hot EXCEPT ![k] = task[t].obj] /\ gone' = gone
  BY DEF Admit, Quiet
<1>3. Newer(task[t].obj, gone[k])
  BY <1>1 DEF CacheInv, HeldOK
<1>4. hot \in [CacheKeys -> Objects] /\ HotOK
  BY DEF CacheInv, CacheTyped
<1>5. /\ hot' \in [CacheKeys -> Objects] /\ hot'[k] = task[t].obj
      /\ \A j \in CacheKeys \ {k} : hot'[j] = hot[j]
  BY <1>1, <1>2, <1>4
<1>6. \A j \in CacheKeys : Sound(hot'[j]) /\ Newer(hot'[j], gone[j])
  BY <1>1, <1>3, <1>4, <1>5 DEF HotOK
<1>7. TasksOK' /\ HeldOK' /\ AloneOK'
  <2>1. Puts(t, k, task[t].obj) \/ Ends(t)
    BY DEF Admit
  <2>2. \A j \in CacheKeys : hot'[j] \in {hot[j], NoObject} \/ j = k
    BY <1>5
  <2>3. CASE Puts(t, k, task[t].obj)
    BY <1>1, <1>2, <1>3, <2>2, <2>3, PutsTask
  <2>4. CASE Ends(t)
    BY <1>2, <2>2, <2>4, EndTask
  <2> QED BY <2>1, <2>3, <2>4
<1> QED BY <1>2, <1>5, <1>6, <1>7, QuietKeeps DEF CacheInv

LEMMA RefreshHotKeeps ==
  ASSUME CacheInv, NEW t \in Tasks, NEW k \in CacheKeys, RefreshHot(t, k) PROVE CacheInv'
<1>1. Quiet /\ hot' = hot /\ gone' = gone
  BY DEF RefreshHot, Quiet
<1>2. hot[k] \in Objects /\ hot[k] # NoObject /\ Sound(hot[k]) /\ Newer(hot[k], gone[k]) /\ Puts(t, k, hot[k])
  BY DEF RefreshHot, CacheInv, CacheTyped, HotOK
<1>3. TasksOK' /\ HeldOK' /\ AloneOK'
  BY <1>1, <1>2, PutsTask
<1> QED BY <1>1, <1>3, QuietSame DEF CacheInv

LEMMA StatCorruptKeeps == ASSUME CacheInv, NEW t \in Tasks, StatCorrupt(t) PROVE CacheInv'
<1> DEFINE k == task[t].key
           q == [task[t] EXCEPT !.at = "rm_corrupt", !.old = files[k].len]
<1>1. TaskOK(task[t]) /\ task[t] \in TaskType /\ task[t].at = "stat_corrupt" /\ k \in CacheKeys
  BY TaskIs DEF StatCorrupt, TaskOK
<1>2. Quiet /\ hot' = hot /\ gone' = gone
  BY DEF StatCorrupt, Quiet
<1>3. files[k].len \in Nat /\ MaxEvict \in Nat
  BY <1>1, ObjectIs, CacheAssumption DEF CacheInv, CacheTyped
<1>4. /\ q \in TaskType /\ q.at = "rm_corrupt" /\ q.key = k /\ q.obj = task[t].obj
      /\ q.alone = task[t].alone
  BY <1>1, <1>3 DEF TaskType, Places, Reading, Writing
<1>5. task' = [task EXCEPT ![t] = q]
  BY TaskIs DEF StatCorrupt, Goes
<1> HIDE DEF q
<1>6. TaskOK(q)
  BY <1>1, <1>4 DEF TaskOK, Writing
<1>7. TasksOK' /\ HeldOK' /\ AloneOK'
  BY <1>2, <1>4, <1>5, <1>6, GoOn
<1> QED BY <1>2, <1>7, QuietSame DEF CacheInv

LEMMA StatKeeps == ASSUME CacheInv, NEW t \in Tasks, Stat(t) PROVE CacheInv'
<1> DEFINE k == task[t].key
           q == [task[t] EXCEPT !.at = "space", !.old = files[k].len, !.evicts = MaxEvict]
<1>1. TaskOK(task[t]) /\ task[t] \in TaskType /\ task[t].at = "stat" /\ k \in CacheKeys
  BY TaskIs DEF Stat, TaskOK
<1>2. Quiet /\ hot' = hot /\ gone' = gone
  BY DEF Stat, Quiet
<1>3. files[k].len \in Nat /\ MaxEvict \in Nat
  BY <1>1, ObjectIs, CacheAssumption DEF CacheInv, CacheTyped
<1>4. /\ q \in TaskType /\ q.at = "space" /\ q.key = k /\ q.obj = task[t].obj
      /\ q.alone = task[t].alone
  BY <1>1, <1>3 DEF TaskType, Places, Reading, Writing
<1>5. task' = [task EXCEPT ![t] = q]
  BY TaskIs DEF Stat, Goes
<1> HIDE DEF q
<1>6. TaskOK(q)
  BY <1>1, <1>4 DEF TaskOK, Writing
<1>7. TasksOK' /\ HeldOK' /\ AloneOK'
  BY <1>2, <1>4, <1>5, <1>6, GoOn
<1> QED BY <1>2, <1>7, QuietSame DEF CacheInv

LEMMA WriteTempKeeps == ASSUME CacheInv, NEW t \in Tasks, WriteTemp(t) PROVE CacheInv'
<1> DEFINE k == task[t].key
           q == [task[t] EXCEPT !.at = "rename"]
<1>1. TaskOK(task[t]) /\ task[t] \in TaskType /\ task[t].at = "write" /\ k \in CacheKeys
  BY TaskIs DEF WriteTemp, TaskOK
<1>2. Quiet /\ hot' = hot /\ gone' = gone
  BY DEF WriteTemp, Quiet
<1>3. files[k].len \in Nat /\ MaxEvict \in Nat
  BY <1>1, ObjectIs, CacheAssumption DEF CacheInv, CacheTyped
<1>4. /\ q \in TaskType /\ q.at = "rename" /\ q.key = k /\ q.obj = task[t].obj
      /\ q.alone = task[t].alone
  BY <1>1, <1>3 DEF TaskType, Places, Reading, Writing
<1>5. task' = [task EXCEPT ![t] = q]
  BY TaskIs DEF WriteTemp, Goes
<1> HIDE DEF q
<1>6. TaskOK(q)
  BY <1>1, <1>4 DEF TaskOK, Writing
<1>7. TasksOK' /\ HeldOK' /\ AloneOK'
  BY <1>2, <1>4, <1>5, <1>6, GoOn
<1> QED BY <1>2, <1>7, QuietSame DEF CacheInv

LEMMA StatRemoveKeeps == ASSUME CacheInv, NEW t \in Tasks, StatRemove(t) PROVE CacheInv'
<1> DEFINE k == task[t].key
           q == [task[t] EXCEPT !.at = "rm", !.old = files[k].len]
<1>1. TaskOK(task[t]) /\ task[t] \in TaskType /\ task[t].at = "stat_rm" /\ k \in CacheKeys
  BY TaskIs DEF StatRemove, TaskOK
<1>2. Quiet /\ hot' = hot /\ gone' = gone
  BY DEF StatRemove, Quiet
<1>3. files[k].len \in Nat /\ MaxEvict \in Nat
  BY <1>1, ObjectIs, CacheAssumption DEF CacheInv, CacheTyped
<1>4. /\ q \in TaskType /\ q.at = "rm" /\ q.key = k /\ q.obj = task[t].obj
      /\ q.alone = task[t].alone
  BY <1>1, <1>3 DEF TaskType, Places, Reading, Writing
<1>5. task' = [task EXCEPT ![t] = q]
  BY TaskIs DEF StatRemove, Goes
<1> HIDE DEF q
<1>6. TaskOK(q)
  BY <1>1, <1>4 DEF TaskOK, Writing
<1>7. TasksOK' /\ HeldOK' /\ AloneOK'
  BY <1>2, <1>4, <1>5, <1>6, GoOn
<1> QED BY <1>2, <1>7, QuietSame DEF CacheInv

LEMMA WalkKeeps == ASSUME CacheInv, NEW t \in Tasks, Walk(t) PROVE CacheInv'
<1> DEFINE k == task[t].key
<1>1. TaskOK(task[t]) /\ task[t] \in TaskType /\ task[t].at = "space" /\ k \in CacheKeys
  BY TaskIs DEF Walk, TaskOK
<1>2. Quiet /\ hot' = hot /\ gone' = gone
  BY DEF Walk, Quiet
<1>3. TasksOK' /\ HeldOK' /\ AloneOK'
  <2>1. CASE Goes(t, "write")
    <3> DEFINE q == [task[t] EXCEPT !.at = "write"]
    <3>1. /\ q \in TaskType /\ q.at = "write" /\ q.key = k /\ q.obj = task[t].obj
          /\ q.alone = task[t].alone
      BY <1>1 DEF TaskType, Places, Writing
    <3>2. task' = [task EXCEPT ![t] = q]
      BY <2>1, TaskIs DEF Goes
    <3> HIDE DEF q
    <3>3. TaskOK(q)
      BY <1>1, <3>1 DEF TaskOK, Writing
    <3> QED BY <1>2, <3>1, <3>2, <3>3, GoOn
  <2>2. ASSUME task[t].evicts # 0, NEW x \in CacheKeys,
               task' = [task EXCEPT ![t].at = "evict", ![t].victim = x, ![t].todo = {files[x].len}]
        PROVE  TasksOK' /\ HeldOK' /\ AloneOK'
    <3> DEFINE q == [task[t] EXCEPT !.at = "evict", !.victim = x, !.todo = {files[x].len}]
    <3>1. files[x].len \in Nat
      BY ObjectIs DEF CacheInv, CacheTyped
    <3>2. {files[x].len} \in SUBSET (Nat \cup CacheKeys) /\ {files[x].len} \subseteq Nat
      BY <3>1
    <3>3. /\ q \in TaskType /\ q.at = "evict" /\ q.key = k /\ q.obj = task[t].obj
          /\ q.alone = task[t].alone /\ q.victim = x /\ q.todo = {files[x].len}
          /\ q.evicts = task[t].evicts /\ q.evicts \in Nat
      BY <1>1, <3>2 DEF TaskType, Places, Writing
    <3>4. task' = [task EXCEPT ![t] = q]
      BY <2>2, TaskIs
    <3> HIDE DEF q
    <3>5. q.evicts > 0
      BY <2>2, <3>3
    <3>6. TaskOK(q)
      BY <1>1, <3>2, <3>3, <3>5 DEF TaskOK, Writing
    <3> QED BY <1>2, <3>3, <3>4, <3>6, GoOn
  <2> QED BY <2>1, <2>2 DEF Walk
<1> QED BY <1>2, <1>3, QuietSame DEF CacheInv

LEMMA PutObjectKeeps ==
  ASSUME CacheInv, NEW t \in Tasks, NEW k \in CacheKeys, PutObject(t, k) PROVE CacheInv'
<1>1. PICK n \in Lengths :
        LET obj == [v |-> puts + 1, len |-> n, cut |-> "no"] IN
        /\ hot' = IF n <= HotLength THEN [hot EXCEPT ![k] = obj] ELSE hot
        /\ Puts(t, k, obj)
  BY DEF PutObject
<1> DEFINE obj == [v |-> puts + 1, len |-> n, cut |-> "no"]
<1>2. /\ puts \in 1 .. MaxPuts /\ puts < MaxPuts /\ puts' = puts + 1 /\ MaxPuts \in Nat
      /\ files' = files /\ left' = left /\ size' = size /\ gone' = gone
  BY CacheAssumption DEF PutObject, CacheInv, CacheTyped
<1>3. obj \in Objects
  BY <1>2 DEF Objects, Cuts
<1>4. gone[k] \in Nat /\ gone[k] <= puts
  BY DEF CacheInv, CacheTyped, GoneOK
<1>5. obj # NoObject /\ Sound(obj) /\ Newer(obj, gone[k])
  BY <1>2, <1>4 DEF NoObject, Sound, Newer
<1>6. (hot' = [hot EXCEPT ![k] = obj] \/ hot' = hot) /\ Puts(t, k, obj)
  BY <1>1
<1> HIDE DEF obj
<1>7. hot \in [CacheKeys -> Objects] /\ HotOK
  BY DEF CacheInv, CacheTyped
<1>8. hot' \in [CacheKeys -> Objects] /\ \A j \in CacheKeys : hot'[j] = hot[j] \/ (j = k /\ hot'[j] = obj)
  BY <1>3, <1>6, <1>7
<1>9. TasksOK' /\ HeldOK' /\ AloneOK'
  BY <1>2, <1>3, <1>5, <1>6, <1>8, PutsTask
<1>10. CacheTyped'
  BY <1>2, <1>8 DEF CacheInv, CacheTyped
<1>11. FilesOK'
  BY <1>2 DEF CacheInv, FilesOK
<1>12. HotOK'
  BY <1>2, <1>5, <1>7, <1>8 DEF HotOK
<1>13. GoneOK'
  BY <1>2 DEF CacheInv, GoneOK, CacheTyped
<1> QED BY <1>9, <1>10, <1>11, <1>12, <1>13 DEF CacheInv

LEMMA RemoveObjectKeeps ==
  ASSUME CacheInv, NEW t \in Tasks, NEW k \in CacheKeys, RemoveObject(t, k) PROVE CacheInv'
<1> DEFINE a == \A u \in Tasks : task[u].at # "idle" => task[u].key # k
           q == [IdleTask EXCEPT !.at = "stat_rm", !.key = k, !.alone = a]
<1>1. Quiet /\ gone' = gone /\ hot' = [hot EXCEPT ![k] = NoObject] /\ Begins(t, k, q)
  BY DEF RemoveObject, Quiet
<1>2. a \in BOOLEAN
  OBVIOUS
<1>3. a => \A u \in Tasks : task[u].key # k
  <2>1. \A u \in Tasks : task[u].at = "idle" => task[u].key = NoKey
    BY TaskIs DEF TaskOK
  <2>2. k # NoKey
    BY CacheAssumption
  <2> QED BY <2>1, <2>2
<1> HIDE DEF a
<1>4. q \in TaskType /\ q.at = "stat_rm" /\ q.key = k /\ q.obj = NoObject
  BY <1>2, NoObjectIs DEF IdleTask, TaskType, Places
<1>5. q.alone = a
  BY DEF IdleTask
<1> HIDE DEF q
<1>6. hot \in [CacheKeys -> Objects] /\ HotOK
  BY DEF CacheInv, CacheTyped
<1>7. /\ hot' \in [CacheKeys -> Objects] /\ hot'[k] = NoObject
      /\ \A j \in CacheKeys : hot'[j] = hot[j] \/ hot'[j] = NoObject
  BY <1>1, <1>6, NoObjectIs
<1>8. TaskOK(q)
  BY <1>4, NoObjectIs DEF TaskOK, Sound, Writing
<1>9. Successor(q, k, gone)
  BY <1>4, <1>8 DEF Successor
<1>10. q.alone => q.key = k /\ hot'[k] = NoObject /\ \A u \in Tasks \ {t} : task[u].key # k
  BY <1>3, <1>4, <1>5, <1>7
<1>11. TasksOK' /\ HeldOK' /\ AloneOK'
  BY <1>1, <1>7, <1>9, <1>10, BeginTask
<1>12. \A j \in CacheKeys : Sound(hot'[j]) /\ Newer(hot'[j], gone[j])
  BY <1>6, <1>7, NoObjectIs DEF HotOK, Sound, Newer
<1> QED BY <1>1, <1>7, <1>11, <1>12, QuietKeeps DEF CacheInv

-----------------------------------------------------------------------------
(* Steps on the files.                                                       *)

(* A file that goes, or stays, whatever that does to the counter. *)
LEMMA FileGoes ==
  ASSUME CacheInv, NEW k \in CacheKeys,
         files' = [files EXCEPT ![k] = NoObject] \/ files' = files,
         size' \in 0 .. Width - 1, left' \in [Lengths -> Nat], puts' = puts, gone' = gone,
         hot' = [hot EXCEPT ![k] = NoObject] \/ hot' = hot
  PROVE  CacheTyped' /\ FilesOK' /\ HotOK' /\ GoneOK'
<1>1. /\ files \in [CacheKeys -> Objects] /\ hot \in [CacheKeys -> Objects]
      /\ gone \in [CacheKeys -> Nat] /\ puts \in 1 .. MaxPuts /\ FilesOK /\ HotOK /\ GoneOK
  BY DEF CacheInv, CacheTyped
<1>2. /\ files' \in [CacheKeys -> Objects] /\ hot' \in [CacheKeys -> Objects]
      /\ \A j \in CacheKeys : files'[j] \in {files[j], NoObject} /\ hot'[j] \in {hot[j], NoObject}
  BY <1>1, NoObjectIs
<1>3. CacheTyped'
  BY <1>1, <1>2 DEF CacheTyped
<1>4. FilesOK'
  BY <1>1, <1>2, NoObjectIs DEF FilesOK, Newer
<1>5. HotOK'
  BY <1>1, <1>2, NoObjectIs DEF HotOK, Newer, Sound
<1>6. GoneOK'
  BY <1>1 DEF GoneOK
<1> QED BY <1>3, <1>4, <1>5, <1>6

LEMMA SizeIs == ASSUME CacheInv PROVE size \in Nat /\ left \in [Lengths -> Nat]
BY DEF CacheInv, CacheTyped

LEMMA EvictOldestKeeps == ASSUME CacheInv, NEW t \in Tasks, EvictOldest(t) PROVE CacheInv'
<1>1. /\ TaskOK(task[t]) /\ task[t] \in TaskType /\ task[t].at = "evict" /\ task[t].key \in CacheKeys
      /\ task[t].victim \in CacheKeys /\ task[t].todo \subseteq Nat
      /\ task[t].evicts \in Nat /\ task[t].evicts > 0
  BY TaskIs DEF EvictOldest, TaskOK, TaskType
<1>2. hot' = hot /\ left' = left /\ puts' = puts /\ gone' = gone
  BY DEF EvictOldest
<1>3. CASE /\ files' = [files EXCEPT ![task[t].victim] = NoObject]
           /\ \E n \in task[t].todo : size' = Wrapped(size - n)
           /\ task' = [task EXCEPT ![t].at = "space", ![t].evicts = @ - 1, ![t].todo = {}]
  <2> DEFINE q == [task[t] EXCEPT !.at = "space", !.evicts = @ - 1, !.todo = {}]
  <2>1. size' \in 0 .. Width - 1
    <3>1. PICK n \in task[t].todo : size' = Wrapped(size - n)
      BY <1>3
    <3>2. size - n \in Int
      BY <1>1, <3>1, SizeIs
    <3> QED BY <3>1, <3>2, WrappedIs
  <2>2. CacheTyped' /\ FilesOK' /\ HotOK' /\ GoneOK'
    BY <1>1, <1>2, <1>3, <2>1, SizeIs, FileGoes
  <2>3. task[t].evicts - 1 \in Nat
    BY <1>1
  <2>4. /\ q \in TaskType /\ q.at = "space" /\ q.key = task[t].key /\ q.obj = task[t].obj
        /\ q.alone = task[t].alone
    BY <1>1, <2>3 DEF TaskType, Places, Writing
  <2>5. task' = [task EXCEPT ![t] = q]
    BY <1>3, TaskIs
  <2> HIDE DEF q
  <2>6. TaskOK(q)
    BY <1>1, <2>4 DEF TaskOK, Writing
  <2>7. TasksOK' /\ HeldOK' /\ AloneOK'
    BY <1>2, <2>4, <2>5, <2>6, GoOn
  <2> QED BY <2>2, <2>7 DEF CacheInv
<1>4. CASE task' = [task EXCEPT ![t].at = "write", ![t].todo = {}] /\ UNCHANGED <<files, size>>
  <2> DEFINE q == [task[t] EXCEPT !.at = "write", !.todo = {}]
  <2>1. /\ q \in TaskType /\ q.at = "write" /\ q.key = task[t].key /\ q.obj = task[t].obj
        /\ q.alone = task[t].alone
    BY <1>1 DEF TaskType, Places, Writing
  <2>2. task' = [task EXCEPT ![t] = q]
    BY <1>4, TaskIs
  <2> HIDE DEF q
  <2>3. TaskOK(q)
    BY <1>1, <2>1 DEF TaskOK, Writing
  <2>4. TasksOK' /\ HeldOK' /\ AloneOK'
    BY <1>2, <2>1, <2>2, <2>3, GoOn
  <2>5. Quiet
    BY <1>2, <1>4 DEF Quiet
  <2> QED BY <1>2, <2>4, <2>5, QuietSame DEF CacheInv
<1> QED BY <1>3, <1>4 DEF EvictOldest

LEMMA WriteFailsKeeps == ASSUME CacheInv, NEW t \in Tasks, WriteFails(t) PROVE CacheInv'
<1>1. /\ TaskOK(task[t]) /\ task[t] \in TaskType /\ task[t].at = "write" /\ task[t].key \in CacheKeys
      /\ task[t].obj \in Objects /\ task[t].obj # NoObject
  BY TaskIs DEF WriteFails, TaskOK, TaskType, Writing
<1>2. /\ left' = [left EXCEPT ![task[t].obj.len] = @ + 1] /\ Ends(t)
      /\ files' = files /\ hot' = hot /\ size' = size /\ puts' = puts /\ gone' = gone
  BY DEF WriteFails
<1>3. task[t].obj.len \in Lengths
  BY <1>1, ObjectIs
<1>4. left' \in [Lengths -> Nat]
  BY <1>2, <1>3, SizeIs
<1>5. size' \in 0 .. Width - 1
  BY <1>2 DEF CacheInv, CacheTyped
<1>6. CacheTyped' /\ FilesOK' /\ HotOK' /\ GoneOK'
  BY <1>1, <1>2, <1>4, <1>5, FileGoes
<1>7. TasksOK' /\ HeldOK' /\ AloneOK'
  BY <1>2, EndTask
<1> QED BY <1>6, <1>7 DEF CacheInv

LEMMA RenameKeeps == ASSUME CacheInv, NEW t \in Tasks, Rename(t) PROVE CacheInv'
<1> DEFINE k == task[t].key
<1>1. /\ TaskOK(task[t]) /\ task[t] \in TaskType /\ task[t].at = "rename" /\ k \in CacheKeys
      /\ task[t].obj \in Objects /\ task[t].obj # NoObject /\ Sound(task[t].obj)
  BY TaskIs DEF Rename, TaskOK, TaskType, Writing
<1>2. hot' = hot /\ left' = left /\ size' = size /\ puts' = puts /\ gone' = gone
  BY DEF Rename
<1>3. CASE files' = [files EXCEPT ![k] = task[t].obj] /\ Goes(t, "account")
  <2> DEFINE q == [task[t] EXCEPT !.at = "account"]
  <2>1. files \in [CacheKeys -> Objects] /\ FilesOK
    BY DEF CacheInv, CacheTyped
  <2>2. Newer(task[t].obj, gone[k])
    BY <1>1 DEF CacheInv, HeldOK
  <2>3. /\ files' \in [CacheKeys -> Objects] /\ files'[k] = task[t].obj
        /\ \A j \in CacheKeys \ {k} : files'[j] = files[j]
    BY <1>1, <1>3, <2>1
  <2>4. CacheTyped'
    BY <1>2, <2>3 DEF CacheInv, CacheTyped
  <2>5. FilesOK'
    BY <1>1, <1>2, <2>1, <2>2, <2>3 DEF FilesOK, Sound
  <2>6. HotOK' /\ GoneOK'
    BY <1>2 DEF CacheInv, HotOK, GoneOK
  <2>7. /\ q \in TaskType /\ q.at = "account" /\ q.key = k /\ q.obj = task[t].obj
        /\ q.alone = task[t].alone
    BY <1>1 DEF TaskType, Places, Writing
  <2>8. task' = [task EXCEPT ![t] = q]
    BY <1>3, TaskIs DEF Goes
  <2> HIDE DEF q
  <2>9. TaskOK(q)
    BY <1>1, <2>7 DEF TaskOK, Writing
  <2>10. TasksOK' /\ HeldOK' /\ AloneOK'
    BY <1>2, <2>7, <2>8, <2>9, GoOn
  <2> QED BY <2>4, <2>5, <2>6, <2>10 DEF CacheInv
<1>4. CASE UNCHANGED files /\ Ends(t)
  <2>1. Quiet
    BY <1>2, <1>4 DEF Quiet
  <2>2. TasksOK' /\ HeldOK' /\ AloneOK'
    BY <1>2, <1>4, EndTask
  <2> QED BY <1>2, <2>1, <2>2, QuietSame DEF CacheInv
<1> QED BY <1>3, <1>4 DEF Rename

LEMMA AccountKeeps == ASSUME CacheInv, NEW t \in Tasks, Account(t) PROVE CacheInv'
<1>1. /\ task[t] \in TaskType /\ task[t].obj \in Objects /\ task[t].old \in Nat /\ task[t].key \in CacheKeys
  BY TaskIs DEF Account, TaskOK, TaskType
<1>2. /\ size' = Saturating(Saturating(size - task[t].old) + task[t].obj.len) /\ Ends(t)
      /\ files' = files /\ hot' = hot /\ left' = left /\ puts' = puts /\ gone' = gone
  BY DEF Account
<1>3. size' \in 0 .. Width - 1
  <2>1. size - task[t].old \in Int /\ task[t].obj.len \in Nat
    BY <1>1, SizeIs, ObjectIs
  <2>2. Saturating(size - task[t].old) \in 0 .. Width - 1 /\ Width \in Nat
    BY <2>1, SaturatingIs, CacheAssumption
  <2>3. Saturating(size - task[t].old) + task[t].obj.len \in Int
    BY <2>1, <2>2
  <2> QED BY <1>2, <2>3, SaturatingIs
<1>4. CacheTyped' /\ FilesOK' /\ HotOK' /\ GoneOK'
  BY <1>1, <1>2, <1>3, SizeIs, FileGoes
<1>5. TasksOK' /\ HeldOK' /\ AloneOK'
  BY <1>2, EndTask
<1> QED BY <1>4, <1>5 DEF CacheInv

(* A purge that was alone moves gone up to what has been written: memory and *)
(* disk have nothing of the key, and nobody holds any of it.                 *)
LEMMA RemoveFileKeeps == ASSUME CacheInv, NEW t \in Tasks, RemoveFile(t) PROVE CacheInv'
<1> DEFINE k == task[t].key
<1>1. /\ TaskOK(task[t]) /\ task[t] \in TaskType /\ k \in CacheKeys /\ task[t].old \in Nat
  BY TaskIs DEF RemoveFile, TaskOK, TaskType
<1>2. /\ Ends(t) /\ left' = left /\ hot' = hot /\ puts' = puts
      /\ files' = [files EXCEPT ![k] = NoObject] \/ files' = files
      /\ size' = Wrapped(size - task[t].old) \/ size' = size
  BY DEF RemoveFile
<1>3. size' \in 0 .. Width - 1
  <2>1. size - task[t].old \in Int
    BY <1>1, SizeIs
  <2>2. size \in 0 .. Width - 1
    BY DEF CacheInv, CacheTyped
  <2> QED BY <1>2, <2>1, <2>2, WrappedIs
<1>4. CASE gone' = gone
  <2>1. CacheTyped' /\ FilesOK' /\ HotOK' /\ GoneOK'
    BY <1>1, <1>2, <1>3, <1>4, SizeIs, FileGoes
  <2>2. TasksOK' /\ HeldOK' /\ AloneOK'
    BY <1>2, <1>4, EndTask
  <2> QED BY <2>1, <2>2 DEF CacheInv
<1>5. CASE task[t].alone /\ files'[k] = NoObject /\ gone' = [gone EXCEPT ![k] = puts]
  <2>1. hot[k] = NoObject /\ \A u \in Tasks \ {t} : task[u].key # k
    BY <1>5 DEF CacheInv, AloneOK
  <2>2. /\ files \in [CacheKeys -> Objects] /\ hot \in [CacheKeys -> Objects]
        /\ gone \in [CacheKeys -> Nat] /\ puts \in 1 .. MaxPuts /\ left \in [Lengths -> Nat]
        /\ FilesOK /\ HotOK /\ GoneOK
    BY DEF CacheInv, CacheTyped
  <2>3. /\ gone' \in [CacheKeys -> Nat] /\ gone'[k] = puts
        /\ \A j \in CacheKeys \ {k} : gone'[j] = gone[j]
    BY <1>1, <1>5, <2>2
  <2>4. files' \in [CacheKeys -> Objects] /\ \A j \in CacheKeys \ {k} : files'[j] = files[j]
    BY <1>1, <1>2, <2>2, NoObjectIs
  <2>5. CacheTyped'
    BY <1>2, <1>3, <2>2, <2>3, <2>4 DEF CacheTyped
  <2>6. FilesOK'
    BY <1>5, <2>2, <2>3, <2>4, NoObjectIs DEF FilesOK, Newer
  <2>7. HotOK'
    BY <1>2, <2>1, <2>2, <2>3, NoObjectIs DEF HotOK, Newer
  <2>8. GoneOK'
    BY <1>2, <2>2, <2>3 DEF GoneOK
  <2>9. /\ task \in [Tasks -> TaskType] /\ task'[t] = IdleTask
        /\ \A u \in Tasks \ {t} : task'[u] = task[u]
    BY <1>2, TaskIs DEF Ends
  <2>10. TasksOK'
    <3>1. task' \in [Tasks -> TaskType] /\ \A u \in Tasks : TaskOK(task'[u])
      <4>1. IdleTask \in TaskType /\ TaskOK(IdleTask)
        BY IdleIs DEF TaskOK
      <4> HIDE DEF IdleTask
      <4>2. task' \in [Tasks -> TaskType]
        BY <1>2, <2>9, <4>1 DEF Ends
      <4> QED BY <2>9, <4>1, <4>2, TaskIs
    <3> QED BY <3>1 DEF TasksOK, TaskOK, TaskType, Sound
  <2>11. HeldOK'
    <3>1. IdleTask.obj = NoObject
      BY IdleIs
    <3> HIDE DEF IdleTask
    <3> QED BY <2>1, <2>3, <2>9, <3>1 DEF CacheInv, HeldOK
  <2>12. AloneOK'
    <3>1. ~IdleTask.alone /\ IdleTask.key = NoKey
      BY IdleIs
    <3> HIDE DEF IdleTask
    <3>2. \A u \in Tasks : task[u].alone => task[u].key # NoKey
      BY TaskIs, CacheAssumption DEF TaskOK
    <3> QED BY <1>2, <2>9, <3>1, <3>2 DEF CacheInv, AloneOK
  <2> QED BY <2>5, <2>6, <2>7, <2>8, <2>10, <2>11, <2>12 DEF CacheInv
<1> QED BY <1>4, <1>5 DEF RemoveFile

LEMMA PurgeNamespaceKeeps == ASSUME CacheInv, NEW t \in Tasks, PurgeNamespace(t) PROVE CacheInv'
<1> DEFINE K == {k \in CacheKeys : Stored(k)}
           q == [IdleTask EXCEPT !.at = "purge", !.todo = K]
<1>1. Quiet /\ hot' = hot /\ gone' = gone /\ task' = [task EXCEPT ![t] = q]
  BY DEF PurgeNamespace, Quiet
<1>2. K \subseteq CacheKeys
  OBVIOUS
<1> HIDE DEF K
<1>3. q \in TaskType /\ q.at = "purge" /\ q.key = NoKey /\ q.obj = NoObject /\ q.alone = FALSE /\ q.todo = K
  BY <1>2, NoObjectIs DEF IdleTask, TaskType, Places
<1> HIDE DEF q
<1>4. TaskOK(q)
  BY <1>2, <1>3, NoObjectIs DEF TaskOK, Sound, Writing
<1>5. Successor(q, task[t].key, gone) /\ ~q.alone
  BY <1>3, <1>4 DEF Successor
<1>6. TasksOK' /\ HeldOK' /\ AloneOK'
  BY <1>1, <1>5, StepTask
<1> QED BY <1>1, <1>6, QuietSame DEF CacheInv

LEMMA PurgeFileKeeps == ASSUME CacheInv, NEW t \in Tasks, PurgeFile(t) PROVE CacheInv'
<1>1. TaskOK(task[t]) /\ task[t] \in TaskType /\ task[t].at = "purge" /\ task[t].todo \subseteq CacheKeys
  BY TaskIs DEF PurgeFile, TaskOK
<1>2. left' = left /\ puts' = puts /\ gone' = gone
  BY DEF PurgeFile
<1>3. PICK k \in task[t].todo, n \in Lengths :
        /\ IF Stored(k)
           THEN /\ files' = [files EXCEPT ![k] = NoObject]
                /\ size' = Wrapped(size - n)
                /\ hot' = [hot EXCEPT ![k] = NoObject]
           ELSE UNCHANGED <<files, size, hot>>
        /\ IF task[t].todo = {k} THEN Ends(t)
           ELSE task' = [task EXCEPT ![t].todo = @ \ {k}]
  BY DEF PurgeFile
<1>4. k \in CacheKeys /\ files[k] \in Objects
  BY <1>1 DEF CacheInv, CacheTyped
<1>5. size' \in 0 .. Width - 1
  <2>1. size - n \in Int
    BY SizeIs, CacheAssumption
  <2>2. size \in 0 .. Width - 1
    BY DEF CacheInv, CacheTyped
  <2> QED BY <1>3, <2>1, <2>2, WrappedIs
<1>6. CacheTyped' /\ FilesOK' /\ HotOK' /\ GoneOK'
  BY <1>2, <1>3, <1>4, <1>5, SizeIs, FileGoes
<1>7. hot \in [CacheKeys -> Objects] /\ (hot' = [hot EXCEPT ![k] = NoObject] \/ hot' = hot)
  BY <1>3 DEF CacheInv, CacheTyped
<1>8. \A j \in CacheKeys : hot'[j] \in {hot[j], NoObject}
  BY <1>7
<1>9. TasksOK' /\ HeldOK' /\ AloneOK'
  <2>1. CASE Ends(t)
    BY <1>2, <1>8, <2>1, EndTask
  <2>2. CASE task' = [task EXCEPT ![t].todo = @ \ {k}]
    <3> DEFINE q == [task[t] EXCEPT !.todo = @ \ {k}]
    <3>1. task[t].todo \ {k} \subseteq CacheKeys
      BY <1>1
    <3>2. /\ q \in TaskType /\ q.at = "purge" /\ q.key = task[t].key /\ q.obj = task[t].obj
          /\ q.alone = task[t].alone /\ q.todo = task[t].todo \ {k}
      BY <1>1, <3>1 DEF TaskType
    <3>3. task' = [task EXCEPT ![t] = q]
      BY <2>2, TaskIs
    <3> HIDE DEF q
    <3>4. TaskOK(q) /\ ~task[t].alone
      BY <1>1, <3>1, <3>2 DEF TaskOK, Writing
    <3>5. Successor(q, task[t].key, gone)
      BY <3>2, <3>4 DEF Successor, CacheInv, HeldOK
    <3> QED BY <1>2, <1>8, <3>2, <3>3, <3>4, <3>5, StepTask
  <2> QED BY <1>3, <2>1, <2>2
<1> QED BY <1>6, <1>9 DEF CacheInv

LEMMA TasksSame ==
  ASSUME CacheInv, task' = task, gone' = gone, \A k \in CacheKeys : hot'[k] \in {hot[k], NoObject}
  PROVE  TasksOK' /\ HeldOK' /\ AloneOK'
<1>1. TasksOK' /\ HeldOK'
  BY DEF CacheInv, TasksOK, HeldOK, TaskOK, TaskType, Sound
<1>2. \A t \in Tasks : task[t].alone => task[t].key \in CacheKeys
  BY TaskIs DEF TaskOK
<1>3. AloneOK'
  BY <1>2 DEF CacheInv, AloneOK
<1> QED BY <1>1, <1>3

LEMMA ClearFileKeeps == ASSUME CacheInv, NEW t \in Tasks, ClearFile(t) PROVE CacheInv'
<1>1. hot' = hot /\ task' = task /\ puts' = puts /\ gone' = gone
  BY DEF ClearFile
<1>2. TasksOK' /\ HeldOK' /\ AloneOK'
  BY <1>1, TasksSame
<1>3. ASSUME NEW k \in CacheKeys, NEW n \in Lengths, files' = [files EXCEPT ![k] = NoObject],
             size' = Wrapped(size - n), left' = left
      PROVE  CacheInv'
  <2>1. size - n \in Int
    BY SizeIs, CacheAssumption
  <2>2. size' \in 0 .. Width - 1
    BY <1>3, <2>1, WrappedIs
  <2>3. CacheTyped' /\ FilesOK' /\ HotOK' /\ GoneOK'
    BY <1>1, <1>3, <2>2, SizeIs, FileGoes
  <2> QED BY <1>2, <2>3 DEF CacheInv
<1>4. ASSUME NEW n \in Lengths, left[n] > 0, left' = [left EXCEPT ![n] = @ - 1],
             size' = Wrapped(size - n), files' = files
      PROVE  CacheInv'
  <2>1. size - n \in Int /\ left' \in [Lengths -> Nat]
    BY <1>4, SizeIs, CacheAssumption
  <2>2. size' \in 0 .. Width - 1
    BY <1>4, <2>1, WrappedIs
  <2>3. CacheTyped'
    BY <1>1, <1>4, <2>1, <2>2 DEF CacheInv, CacheTyped
  <2>4. FilesOK' /\ HotOK' /\ GoneOK'
    BY <1>1, <1>4 DEF CacheInv, FilesOK, HotOK, GoneOK
  <2> QED BY <1>2, <2>3, <2>4 DEF CacheInv
<1> QED BY <1>3, <1>4 DEF ClearFile

LEMMA EvictHotKeeps == ASSUME CacheInv, NEW k \in CacheKeys, EvictHot(k) PROVE CacheInv'
<1>1. /\ hot' = [hot EXCEPT ![k] = NoObject]
      /\ task' = task /\ puts' = puts /\ gone' = gone /\ left' = left /\ size' = size /\ files' = files
  BY DEF EvictHot
<1>2. size' \in 0 .. Width - 1 /\ hot \in [CacheKeys -> Objects]
  BY <1>1 DEF CacheInv, CacheTyped
<1>3. CacheTyped' /\ FilesOK' /\ HotOK' /\ GoneOK'
  BY <1>1, <1>2, SizeIs, FileGoes
<1>4. TasksOK' /\ HeldOK' /\ AloneOK'
  BY <1>1, <1>2, TasksSame
<1> QED BY <1>3, <1>4 DEF CacheInv

(* No task runs and memory is empty: after a start. *)
LEMMA NoTasks ==
  ASSUME task = [t \in Tasks |-> IdleTask]
  PROVE  TasksOK /\ HeldOK /\ AloneOK
<1>1. \A t \in Tasks : task[t] = IdleTask
  OBVIOUS
<1>2. task \in [Tasks -> TaskType]
  BY IdleIs DEF TaskOK
<1> HIDE DEF IdleTask
<1> QED BY <1>1, <1>2, IdleIs DEF TasksOK, HeldOK, AloneOK

LEMMA ReopenKeeps == ASSUME CacheInv, Reopen PROVE CacheInv'
<1> DEFINE At(n) == {t \in Tasks : task[t].at = "rename" /\ task[t].obj.len = n}
<1>1. /\ left' = [n \in Lengths |-> left[n] + Cardinality(At(n))]
      /\ Cardinality(LeftFiles(left')) <= MaxLeft
      /\ hot' = [k \in CacheKeys |-> NoObject] /\ task' = [t \in Tasks |-> IdleTask]
      /\ size' = OnDisk(files) + Leftover(left')
      /\ files' = files /\ puts' = puts /\ gone' = gone
  BY DEF Reopen
<1>2. \A n \in Lengths : Cardinality(At(n)) \in Nat
  <2>1. \A n \in Lengths : At(n) \subseteq Tasks
    OBVIOUS
  <2> HIDE DEF At
  <2> QED BY <2>1, FS_Subset, FS_CardinalityType, CacheAssumption
<1> HIDE DEF At
<1>3. left' \in [Lengths -> Nat]
  BY <1>1, <1>2, SizeIs
<1>4. files \in [CacheKeys -> Objects] /\ gone \in [CacheKeys -> Nat] /\ FilesOK /\ GoneOK
      /\ puts \in 1 .. MaxPuts
  BY DEF CacheInv, CacheTyped
<1>5. size' \in 0 .. Width - 1
  BY <1>1, <1>3, <1>4, MeasuredIs
<1>6. CacheTyped'
  BY <1>1, <1>3, <1>4, <1>5, NoObjectIs DEF CacheTyped
<1>7. FilesOK' /\ GoneOK'
  BY <1>1, <1>4 DEF FilesOK, GoneOK
<1>8. HotOK'
  BY <1>1, NoObjectIs DEF HotOK, Sound, Newer
<1>9. TasksOK' /\ HeldOK' /\ AloneOK'
  <2>1. \A t \in Tasks : task'[t] = IdleTask
    BY <1>1
  <2>2. IdleTask \in TaskType /\ TaskOK(IdleTask)
    BY IdleIs DEF TaskOK
  <2>3. task' \in [Tasks -> TaskType]
    BY <1>1, <2>2
  <2> HIDE DEF IdleTask
  <2>4. TasksOK'
    BY <2>1, <2>2, <2>3 DEF TasksOK, TaskOK, TaskType, Sound
  <2> QED BY <2>1, <2>4, IdleIs DEF HeldOK, AloneOK
<1> QED BY <1>6, <1>7, <1>8, <1>9 DEF CacheInv

LEMMA CacheStarts == CacheInit => CacheInv
<1> SUFFICES ASSUME CacheInit PROVE CacheInv
  OBVIOUS
<1>1. files \in [CacheKeys -> Objects] /\ FilesOK
  <2>1. \A k \in CacheKeys : files[k] = NoObject \/ files[k] \in [v : {1}, len : Lengths, cut : Cuts]
    BY DEF CacheInit
  <2>2. 1 \in 1 .. MaxPuts
    BY CacheAssumption
  <2>3. \A k \in CacheKeys : files[k] \in Objects
    BY <2>1, <2>2 DEF Objects
  <2>4. files \in [CacheKeys -> Objects]
    BY <2>3 DEF CacheInit
  <2>5. FilesOK
    BY <2>1, NoObjectIs DEF CacheInit, FilesOK, Newer
  <2> QED BY <2>4, <2>5
<1>2. left \in [Lengths -> Nat] /\ gone \in [CacheKeys -> Nat] /\ puts \in 1 .. MaxPuts
  BY CacheAssumption DEF CacheInit
<1>3. size \in 0 .. Width - 1
  <2>1. LeftFiles(left) = {}
    BY DEF CacheInit, LeftFiles
  <2>2. Leftover(left) = 0 /\ Cardinality(LeftFiles(left)) = 0
    BY <2>1, FS_EmptySet DEF Leftover
  <2>3. 0 <= MaxLeft
    BY CacheAssumption
  <2>4. OnDisk(files) + Leftover(left) \in 0 .. Width - 1
    BY <1>1, <1>2, <2>2, <2>3, MeasuredIs
  <2>5. PICK m \in Nat : \A n \in Lengths : n <= m
    BY LongestExists
  <2>6. OnDisk(files) \in Nat
    BY <1>1, <2>5, OnDiskIs
  <2> QED BY <2>2, <2>4, <2>6 DEF CacheInit
<1>4. hot \in [CacheKeys -> Objects] /\ HotOK
  BY NoObjectIs DEF CacheInit, HotOK, Sound, Newer
<1>5. GoneOK
  BY DEF CacheInit, GoneOK
<1>6. TasksOK /\ HeldOK /\ AloneOK
  BY NoTasks DEF CacheInit
<1> QED BY <1>1, <1>2, <1>3, <1>4, <1>5, <1>6 DEF CacheInv, CacheTyped

LEMMA CacheStep == CacheInv /\ [CacheNext]_cacheVars => CacheInv'
<1> SUFFICES ASSUME CacheInv, [CacheNext]_cacheVars PROVE CacheInv'
  OBVIOUS
<1>1. ASSUME NEW t \in Tasks, NEW k \in CacheKeys,
             Get(t, k) \/ RefreshHot(t, k) \/ PutObject(t, k) \/ RemoveObject(t, k)
      PROVE  CacheInv'
  BY <1>1, GetKeeps, RefreshHotKeeps, PutObjectKeeps, RemoveObjectKeeps
<1>2. ASSUME NEW t \in Tasks,
             \/ ReadFile(t) \/ Admit(t) \/ StatCorrupt(t)
             \/ Stat(t) \/ Walk(t) \/ EvictOldest(t)
             \/ WriteTemp(t) \/ WriteFails(t) \/ Rename(t) \/ Account(t)
             \/ StatRemove(t) \/ RemoveFile(t)
             \/ PurgeNamespace(t) \/ PurgeFile(t) \/ ClearFile(t)
      PROVE  CacheInv'
  BY <1>2, ReadFileKeeps, AdmitKeeps, StatCorruptKeeps, StatKeeps, WalkKeeps, EvictOldestKeeps,
     WriteTempKeeps, WriteFailsKeeps, RenameKeeps, AccountKeeps, StatRemoveKeeps, RemoveFileKeeps,
     PurgeNamespaceKeeps, PurgeFileKeeps, ClearFileKeeps
<1>3. CASE Reopen
  BY <1>3, ReopenKeeps
<1>4. CASE UNCHANGED cacheVars
  <2>1. Quiet /\ hot' = hot /\ task' = task /\ gone' = gone
    BY <1>4 DEF cacheVars, Quiet
  <2> QED BY <2>1, QuietSame, TasksSame DEF CacheInv
<1> QED BY <1>1, <1>2, <1>3, <1>4, EvictHotKeeps DEF CacheNext

(* The file cache serves whole objects and nothing that was purged while the *)
(* purge was alone with its uri, and its counter stays in its width, for any *)
(* number of tasks between any two awaits of get, put, remove,               *)
(* purge_namespace and clear, and across restarts.                           *)
THEOREM CacheServesWhole == CacheSpec => []CacheServes
<1>1. CacheSpec => []CacheInv
  BY CacheStarts, CacheStep, PTL DEF CacheSpec
<1>2. CacheInv => CacheServes
  <2> SUFFICES ASSUME CacheInv PROVE CacheServes
    OBVIOUS
  <2>1. CacheTypeOK
    BY DEF CacheInv, CacheTyped, CacheTypeOK
  <2>2. ServedWhole
    BY DEF CacheInv, HotOK, Sound, ServedWhole
  <2>3. PurgedForGood
    BY DEF CacheInv, FilesOK, HotOK, Newer, PurgedForGood
  <2> QED BY <2>1, <2>2, <2>3 DEF CacheServes
<1> QED BY <1>1, <1>2, PTL
=============================================================================
