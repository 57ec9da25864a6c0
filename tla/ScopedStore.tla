----------------------------- MODULE ScopedStore -----------------------------
(***************************************************************************)
(* The bounded, domain-keyed, expiring container                           *)
(* (crates/pingap-domainstate/src/store.rs).                               *)
(*                                                                         *)
(* Every operation reads the clock first and takes the mutex afterwards,   *)
(* so an operation may run with a time older than one that ran before it:  *)
(* Call samples the clock, the operation's own action is the lock hold.    *)
(* The published counters are left out.                                    *)
(***************************************************************************)
EXTENDS Integers, FiniteSets

CONSTANTS
  Slots,        \* registered hosts
  Overflow,     \* the bucket every unregistered host shares
  Identities,   \* client keys
  Threads,      \* callers
  MaxDomains,   \* Limits::max_domains
  MaxEntries,   \* Limits::max_entries_per_domain
  Ttls,         \* the times to live callers ask for
  MaxClock,     \* bound on the clock
  MaxInserts    \* bound on the number of successful inserts

ASSUME OverflowIsNoSlot == Overflow \notin Slots
ASSUME LimitAssumption == /\ MaxDomains \in Nat /\ MaxEntries \in Nat
                          /\ MaxInserts \in Nat /\ MaxClock \in Nat
ASSUME TtlAssumption == Ttls \subseteq Nat

VARIABLES
  domains,   \* Inner::domains, the slots that have a bucket
  bucket,    \* each bucket's entries and its `earliest` bound
  call,      \* per thread: the operation under way and its sampled clock
  clock,     \* Clock::now_ms
  serial,    \* history: number of the last successful insert
  takes      \* history: how often `remove` returned each inserted value

vars == <<domains, bucket, call, clock, serial, takes>>

Buckets == Slots \cup {Overflow}

-----------------------------------------------------------------------------
(* Buckets.  Serial 0 marks an identity without an entry.  An Option is the  *)
(* empty set or a singleton.                                                 *)

NoEntry == [serial |-> 0, expires_at |-> 0]
Entry == [serial : Nat, expires_at : Nat]
EmptyBucket == [entries |-> [i \in Identities |-> NoEntry], earliest |-> {}]

Keys(b) == {i \in Identities : b.entries[i].serial # 0}
Live(b, now) == {i \in Keys(b) : b.entries[i].expires_at > now}
Deadlines(b) == {b.entries[i].expires_at : i \in Keys(b)}

MinOf(S) == {m \in S : \A n \in S : m <= n}

(* min_expiry *)
Recompute(b) == [b EXCEPT !.earliest = MinOf(Deadlines(b))]

(* reclaim: drop what has expired; only `keep` survives *)
KeepOnly(b, keep) ==
  [b EXCEPT !.entries = [i \in Identities |->
                           IF i \in keep THEN b.entries[i] ELSE NoEntry]]
Reclaim(b, now) == KeepOnly(b, Live(b, now))

(* Mutant of Put: the bound becomes the newest deadline. *)
PutLatest(b, i, s, deadline) ==
  [entries |-> [b.entries EXCEPT ![i] = [serial |-> s, expires_at |-> deadline]],
   earliest |-> {deadline}]

(* The running minimum: the bound can only be too low. *)
Put(b, i, s, deadline) ==
  [entries |-> [b.entries EXCEPT ![i] = [serial |-> s, expires_at |-> deadline]],
   earliest |-> MinOf(b.earliest \cup {deadline})]

(* Mutant of Store: drop_if_empty is forgotten. *)
StoreKeepsSlot(d, b) == UNCHANGED domains /\ bucket' = [bucket EXCEPT ![d] = b]

(* drop_if_empty: an emptied bucket gives its slot back. *)
Store(d, b) ==
  IF d # Overflow /\ Keys(b) = {}
    THEN /\ domains' = domains \ {d}
         /\ bucket' = [bucket EXCEPT ![d] = EmptyBucket]
    ELSE /\ UNCHANGED domains
         /\ bucket' = [bucket EXCEPT ![d] = b]

(* peek: a read admits nothing. *)
Tracked(d) == d = Overflow \/ d \in domains

-----------------------------------------------------------------------------
Ops == {"idle", "insert", "read", "remove", "entries", "total_entries", "retain"}
NoIdentity == "none"
Idle == [op |-> "idle", domain |-> Overflow, identity |-> NoIdentity, ttl |-> 0,
         now |-> 0]

Call(t, op, d, i, ttl) ==
  /\ call[t] = Idle
  /\ call' = [call EXCEPT ![t] = [op |-> op, domain |-> d, identity |-> i,
                                  ttl |-> ttl, now |-> clock]]
  /\ UNCHANGED <<domains, bucket, clock, serial, takes>>

Return(t) == call' = [call EXCEPT ![t] = Idle]

Running(t, op) == call[t].op = op

(* insert, refused by admit: Full::Domains *)
RefuseDomain(t) ==
  /\ Running(t, "insert")
  /\ ~Tracked(call[t].domain)
  /\ Cardinality(domains) >= MaxDomains
  /\ Return(t)
  /\ UNCHANGED <<domains, bucket, clock, serial, takes>>

Admitted(d) == Tracked(d) \/ Cardinality(domains) < MaxDomains

(* The bucket insert works on once it has made what room it can: a refresh   *)
(* needs none, and the scan is skipped when nothing can have expired.        *)
NeedsRoom(b, i) == i \notin Keys(b) /\ Cardinality(Keys(b)) >= MaxEntries

(* Mutants of MadeRoom: the scan is skipped on the deadline itself; a live   *)
(* entry is evicted to make room.                                            *)
MadeRoomStrict(b, i, now) ==
  IF NeedsRoom(b, i) /\ \A e \in b.earliest : e < now
    THEN Recompute(Reclaim(b, now))
    ELSE b
MadeRoomEvicts(b, i, now) ==
  IF NeedsRoom(b, i)
    THEN KeepOnly(b, {k \in Keys(b) : b.entries[k].expires_at \notin MinOf(Deadlines(b))})
    ELSE b

MadeRoom(b, i, now) ==
  IF NeedsRoom(b, i) /\ \A e \in b.earliest : e <= now
    THEN Recompute(Reclaim(b, now))
    ELSE b

Deadline(c) == c.now + c.ttl

Insert(t) ==
  LET c == call[t]
      d == c.domain
      b == MadeRoom(bucket[d], c.identity, c.now)
  IN /\ Running(t, "insert")
     /\ serial < MaxInserts
     /\ Admitted(d)
     /\ ~NeedsRoom(b, c.identity)
     /\ bucket' = [bucket EXCEPT ![d] = Put(b, c.identity, serial + 1, Deadline(c))]
     /\ domains' = domains \cup ({d} \ {Overflow})
     /\ serial' = serial + 1
     /\ Return(t)
     /\ UNCHANGED <<clock, takes>>

(* Full::Entries: the admitted bucket stays, whatever it holds. *)
RefuseEntry(t) ==
  LET c == call[t]
      d == c.domain
      b == MadeRoom(bucket[d], c.identity, c.now)
  IN /\ Running(t, "insert")
     /\ Admitted(d)
     /\ NeedsRoom(b, c.identity)
     /\ bucket' = [bucket EXCEPT ![d] = b]
     /\ domains' = domains \cup ({d} \ {Overflow})
     /\ Return(t)
     /\ UNCHANGED <<clock, serial, takes>>

(* with, get, update, contains: an expired entry triggers the reclaim. *)
Read(t) ==
  LET c == call[t]
      b == bucket[c.domain]
  IN /\ Running(t, "read")
     /\ IF Tracked(c.domain) /\ c.identity \in Keys(b) \ Live(b, c.now)
          THEN Store(c.domain, Recompute(Reclaim(b, c.now)))
          ELSE UNCHANGED <<domains, bucket>>
     /\ Return(t)
     /\ UNCHANGED <<clock, serial, takes>>

(* Mutant of Remove: the value is returned but stays. *)
RemoveLeaves(t) ==
  LET c == call[t]
      b == bucket[c.domain]
  IN /\ Running(t, "remove")
     /\ takes' = IF Tracked(c.domain) /\ c.identity \in Live(b, c.now)
                   THEN [takes EXCEPT ![b.entries[c.identity].serial] = @ + 1]
                   ELSE takes
     /\ Return(t)
     /\ UNCHANGED <<domains, bucket, clock, serial>>

(* remove: the bound is left as it is. *)
Remove(t) ==
  LET c == call[t]
      b == bucket[c.domain]
  IN /\ Running(t, "remove")
     /\ IF Tracked(c.domain)
          THEN Store(c.domain, KeepOnly(b, Keys(b) \ {c.identity}))
          ELSE UNCHANGED <<domains, bucket>>
     /\ takes' = IF Tracked(c.domain) /\ c.identity \in Live(b, c.now)
                   THEN [takes EXCEPT ![b.entries[c.identity].serial] = @ + 1]
                   ELSE takes
     /\ Return(t)
     /\ UNCHANGED <<clock, serial>>

(* entries: reclaims, and leaves the bound as it is. *)
CountEntries(t) ==
  LET c == call[t]
  IN /\ Running(t, "entries")
     /\ IF Tracked(c.domain)
          THEN Store(c.domain, Reclaim(bucket[c.domain], c.now))
          ELSE UNCHANGED <<domains, bucket>>
     /\ Return(t)
     /\ UNCHANGED <<clock, serial, takes>>

TotalEntries(t) ==
  LET now == call[t].now
      dead == {d \in domains : Live(bucket[d], now) = {}}
  IN /\ Running(t, "total_entries")
     /\ domains' = domains \ dead
     /\ bucket' = [d \in Buckets |->
          IF d \in dead THEN EmptyBucket
          ELSE IF Tracked(d) THEN Recompute(Reclaim(bucket[d], now)) ELSE bucket[d]]
     /\ Return(t)
     /\ UNCHANGED <<clock, serial, takes>>

(* retain: the owning subsystem chooses among the live entries. *)
Retain(t) ==
  LET c == call[t]
      b == bucket[c.domain]
  IN /\ Running(t, "retain")
     /\ IF Tracked(c.domain)
          THEN \E keep \in SUBSET Live(b, c.now) :
                 Store(c.domain, Recompute(KeepOnly(b, keep)))
          ELSE UNCHANGED <<domains, bucket>>
     /\ Return(t)
     /\ UNCHANGED <<clock, serial, takes>>

(* The wall clock may be set forward or back. *)
SetClock ==
  /\ clock' \in 0..MaxClock
  /\ UNCHANGED <<domains, bucket, call, serial, takes>>

-----------------------------------------------------------------------------
Init ==
  /\ domains = {}
  /\ bucket = [d \in Buckets |-> EmptyBucket]
  /\ call = [t \in Threads |-> Idle]
  /\ clock = 0
  /\ serial = 0
  /\ takes = [s \in 1..MaxInserts |-> 0]

Step(t) ==
  \/ \E d \in Buckets, i \in Identities, ttl \in Ttls : Call(t, "insert", d, i, ttl)
  \/ \E op \in {"read", "remove"}, d \in Buckets, i \in Identities : Call(t, op, d, i, 0)
  \/ \E op \in {"entries", "retain"}, d \in Buckets : Call(t, op, d, NoIdentity, 0)
  \/ Call(t, "total_entries", Overflow, NoIdentity, 0)
  \/ Insert(t) \/ RefuseDomain(t) \/ RefuseEntry(t)
  \/ Read(t) \/ Remove(t) \/ CountEntries(t) \/ TotalEntries(t) \/ Retain(t)

Next == SetClock \/ \E t \in Threads : Step(t)

Spec == Init /\ [][Next]_vars

-----------------------------------------------------------------------------
(* Properties.                                                              *)

TypeOK ==
  /\ domains \subseteq Slots
  /\ bucket \in [Buckets -> [entries : [Identities -> Entry], earliest : SUBSET Nat]]
  /\ call \in [Threads -> [op : Ops, domain : Buckets,
                           identity : Identities \cup {NoIdentity}, ttl : Nat, now : Nat]]
  /\ clock \in Nat
  /\ serial \in Nat
  /\ takes \in [1..MaxInserts -> Nat]

(* The comment on Bucket::earliest: the bound may be too low but never too   *)
(* high, so a guarded scan is never skipped when it would have found         *)
(* something.                                                                *)
EarliestIsBound ==
  \A d \in Buckets : \A i \in Keys(bucket[d]) :
    \E e \in bucket[d].earliest : e <= bucket[d].entries[i].expires_at

(* Both maps stay within their limits, and only an admitted domain has       *)
(* state.                                                                    *)
WithinLimits ==
  /\ Cardinality(domains) <= MaxDomains
  /\ \A d \in Buckets : Cardinality(Keys(bucket[d])) <= MaxEntries
  /\ \A d \in Slots \ domains : bucket[d] = EmptyBucket

(* drop_if_empty: a slot counted against max_domains holds something, so     *)
(* emptied domains cannot exhaust the cap.                                   *)
NoSlotLeak ==
  MaxEntries > 0 => \A d \in domains : Keys(bucket[d]) # {}

(* remove is take-once: concurrent presentations of one stored value get it  *)
(* at most once.                                                             *)
TakeOnce == \A s \in 1..MaxInserts : takes[s] <= 1

(* The caps hold and are not eaten up, and nothing stored is handed out      *)
(* twice, whatever the order in which callers with old clocks get the lock.  *)
StoreInv == TypeOK /\ WithinLimits /\ NoSlotLeak /\ TakeOnce

Refused(t) == call[t].op = "insert" /\ call'[t].op = "idle" /\ serial' = serial

(* insert is refused only where the documentation says: every place is held  *)
(* by somebody else's entry that is live at the caller's time, or the domain *)
(* cap is reached.                                                           *)
RefusedOnlyWhenFull ==
  [][\A t \in Threads : Refused(t) =>
       LET c == call[t]
           b == bucket'[c.domain]
       IN \/ /\ c.domain \in Slots \ domains
             /\ Cardinality(domains) >= MaxDomains
          \/ /\ c.identity \notin Keys(b)
             /\ Live(b, c.now) = Keys(b)
             /\ Cardinality(Keys(b)) >= MaxEntries]_vars

(* Full never displaces: a stored value goes away only when the caller's     *)
(* time says it expired, when its own identity is refreshed or removed, or   *)
(* when its owner's retain drops it.                                         *)
NeverDisplaced ==
  [][\A d \in Buckets, i \in Identities :
       /\ i \in Keys(bucket[d])
       /\ bucket'[d].entries[i] # bucket[d].entries[i]
       => \E t \in Threads :
            /\ call[t] # Idle /\ call'[t] = Idle
            /\ \/ bucket[d].entries[i].expires_at <= call[t].now
               \/ call[t].op \in {"insert", "remove"}
                  /\ call[t].domain = d /\ call[t].identity = i
               \/ call[t].op = "retain" /\ call[t].domain = d]_vars
=============================================================================
