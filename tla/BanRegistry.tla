----------------------------- MODULE BanRegistry -----------------------------
(***************************************************************************)
(* The process-local registry of abuse bans                                *)
(* (crates/pingap-behaviour/src/decisions.rs, scenario.rs).                *)
(*                                                                         *)
(* Every operation holds one mutex and reads the clock inside it, so an    *)
(* operation is one action, except the listing, which takes the lock anew  *)
(* for every batch.  A ticket lives outside the lock, in the request,      *)
(* until the upstream has answered.  Admissions that change nothing        *)
(* (unregistered, unavailable, blocked) are no actions.  The epoch, the    *)
(* wall clock and the counters are left out; lifecycle events go to        *)
(* EventPipeline, and only the end of a ban is recorded here.              *)
(***************************************************************************)
EXTENDS Integers, Sequences, FiniteSets, FiniteSetsExt

CONSTANTS
  Domains,      \* host names
  Namespaces,   \* profiles' namespaces
  Identities,   \* client addresses
  Paths,        \* request paths, by digest
  Requests,     \* requests that may hold a ticket
  Generations,  \* digests of profile contents
  Off,          \* no enabled profile
  Config,       \* what each generation says
  MaxDomains,   \* Limits::max_domains
  MaxEntries,   \* Limits::max_entries_per_domain
  Batch,        \* BATCH of filtered_decisions
  Cursors,      \* positions a listing may resume from
  Limits,       \* page sizes a listing may ask for
  MaxClock,     \* bound on the clock
  MaxSequence,  \* bound on Inner::sequence
  MaxIncarnation \* bound on Inner::incarnation

ASSUME OffAssumption == Off \notin Generations
ASSUME ListingAssumption == /\ Batch \in Nat \ {0}
                          /\ Cursors \subseteq Nat
                          /\ Limits \subseteq Nat \ {0}
ASSUME CapAssumption == /\ MaxDomains \in Nat
                        /\ MaxEntries \in Nat
                        /\ MaxClock \in Nat
                        /\ MaxSequence \in Nat
                        /\ MaxIncarnation \in Nat

(* AbuseConfig::validate: an absent scenario is the empty set. *)
Rule == [mode : {"detect", "block"}, window : Nat \ {0}, threshold : Nat \ {0},
         ban_ttl : Nat \ {0}]
ScenarioProfile == [max_clients : Nat \ {0}, failed_login : SUBSET Rule, scan : SUBSET Rule]

ASSUME ConfigAssumption ==
  /\ Config \in [Generations -> ScenarioProfile]
  /\ \A g \in Generations :
       \A scenario \in {Config[g].failed_login, Config[g].scan} :
         IsFiniteSet(scenario) /\ Cardinality(scenario) <= 1

VARIABLES
  profiles,     \* Inner::profiles, a generation for each namespace
  hosts,        \* Inner::hosts; None admits what the full set admits
  domains,      \* the domains that have a bucket
  client,       \* the clients of each bucket
  counts,       \* Bucket::counts
  active,       \* Inner::active
  expiry,       \* Inner::expiry
  sequence,     \* Inner::sequence
  incarnation,  \* Inner::incarnation
  ticket,       \* per request: the ticket it holds
  lister,       \* the listing under way, if there is one
  clock,        \* the monotonic clock
  asked,        \* history: the id the last step was asked to release
  ended,        \* history: the bans whose end the last step announced
  void,         \* history: tickets whose client has since been forgiven
  kept,         \* history: bans in force since the listing began
  page          \* history: the page the last step returned

registry == <<profiles, hosts, domains, client, counts, active, expiry, sequence, incarnation>>
history == <<asked, ended, void, kept, page>>
vars == <<registry, ticket, lister, clock, history>>

Keys == Namespaces \X Identities
NamespaceOf(k) == k[1]

-----------------------------------------------------------------------------
(* Counters (scenario.rs).  An observation yields the new counters and the   *)
(* thresholds it crosses.                                                    *)

NoCounters == [login |-> <<>>, login_crossed |-> FALSE, paths |-> {}, scan_crossed |-> FALSE]

(* What is left once the entries before `lower` have been popped off the front. *)
Recent(login, lower) ==
  CHOOSE rest \in {SubSeq(login, n + 1, Len(login)) : n \in 0..Len(login)} :
    \E n \in 0..Len(login) :
      /\ rest = SubSeq(login, n + 1, Len(login))
      /\ \A i \in 1..n : login[i] < lower
      /\ n = Len(login) \/ login[n + 1] >= lower

(* failed_login: the last `threshold` failures inside the window *)
CountLogin(c, rule, now, hit) ==
  LET recent == Recent(c.login, now - rule.window)
      crossed == c.login_crossed /\ Len(recent) >= rule.threshold
      room == IF Len(recent) = rule.threshold THEN Tail(recent) ELSE recent
      login == IF hit THEN Append(room, now) ELSE recent
      crosses == hit /\ Len(login) >= rule.threshold /\ ~crossed
  IN [counters |-> [c EXCEPT !.login = login, !.login_crossed = crossed \/ crosses],
      crossings |-> IF crosses THEN <<rule>> ELSE <<>>]

(* scan: the latest `threshold` distinct missing paths inside the window.    *)
(* The oldest goes first; a tie is broken by digest, here by CHOOSE.         *)
CountScan(c, rule, now, path, hit) ==
  LET recent == {p \in c.paths : p.at >= now - rule.window}
      crossed == c.scan_crossed /\ Cardinality(recent) >= rule.threshold
      known == {p \in recent : p.path = path}
      oldest == IF known = {} /\ Cardinality(recent) >= rule.threshold
                  THEN {CHOOSE p \in recent : \A q \in recent : p.at <= q.at}
                  ELSE {}
      paths == IF hit THEN (recent \ (known \cup oldest)) \cup {[path |-> path, at |-> now]}
                      ELSE recent
      crosses == hit /\ Cardinality(paths) >= rule.threshold /\ ~crossed
  IN [counters |-> [c EXCEPT !.paths = paths, !.scan_crossed = crossed \/ crosses],
      crossings |-> IF crosses THEN <<rule>> ELSE <<>>]

(* Counters::observe, both scenarios in turn *)
Observed(c, conf, now, t, failed, missing) ==
  LET nothing(k) == [counters |-> k, crossings |-> <<>>]
      l == IF conf.failed_login = {} THEN nothing(c)
           ELSE CountLogin(c, CHOOSE r \in conf.failed_login : TRUE, now, t.login /\ failed)
      s == IF conf.scan = {} THEN nothing(l.counters)
           ELSE CountScan(l.counters, CHOOSE r \in conf.scan : TRUE, now, t.path, missing)
  IN [counters |-> s.counters, crossings |-> l.crossings \o s.crossings]

(* ScenarioProfile::idle_ms *)
IdleMs(conf) == Max({0} \cup UNION {{r.window, r.ban_ttl} : r \in conf.failed_login \cup conf.scan})

-----------------------------------------------------------------------------
(* Clients and bans.  Incarnation 0 marks a key without a client; a ban is   *)
(* the empty set or a singleton.                                             *)

NoClient == [generation |-> Off, incarnation |-> 0, reset |-> 0,
             counters |-> NoCounters, ban |-> {}, idle_at |-> 0]
EmptyBucket == [k \in Keys |-> NoClient]
NoCounts == [n \in Namespaces |-> 0]

Present(b) == {k \in Keys : b[k].incarnation # 0}

(* The client forgets what it has counted and outdates its tickets. *)
Reset(c) == [c EXCEPT !.reset = @ + 1, !.counters = NoCounters, !.ban = {}]

Due(c, now) == {b \in c.ban : b.deadline <= now}

(* Client::settle *)
Settle(c, now) == IF Due(c, now) # {} THEN Reset(c) ELSE c

(* The sequence numbers of the bans that settling the clients S finds over. *)
Expired(b, S, now) == {x.seq : x \in UNION {Due(b[k], now) : k \in S}}

(* Every ban some client holds, with its place. *)
Held(cl) == UNION {{[seq |-> x.seq, deadline |-> x.deadline, domain |-> p[1], key |-> p[2]] :
                      x \in cl[p[1]][p[2]].ban} : p \in Domains \X Keys}

(* rebuild_active *)
RebuildActive(cl, now) ==
  LET live == {h \in Held(cl) : h.deadline > now}
  IN /\ active' = live
     /\ expiry' = {<<h.deadline, h.seq>> : h \in live}

(* Mutant of RemoveActive: the deadline stays behind. *)
RemoveActiveOnly(S) ==
  /\ active' = {a \in active : a.seq \notin S}
  /\ UNCHANGED expiry

(* remove_active: the expiry entry goes only with the active one. *)
RemoveActive(S) ==
  /\ active' = {a \in active : a.seq \notin S}
  /\ expiry' = expiry \ {<<a.deadline, a.seq>> : a \in {x \in active : x.seq \in S}}

(* transition(Expired) or transition(Released) *)
Announce(S) == ended' = S /\ asked' = {} /\ page' = {}
Quiet == Announce({})

-----------------------------------------------------------------------------
(* Reloads.                                                                  *)

(* retain_hosts *)
RetainHosts(H) ==
  LET cl == [d \in Domains |-> IF d \in H THEN client[d] ELSE EmptyBucket]
  IN /\ hosts' = H
     /\ domains' = domains \cap H
     /\ client' = cl
     /\ counts' = [d \in Domains |-> IF d \in H THEN counts[d] ELSE NoCounts]
     /\ RebuildActive(cl, clock)
     /\ Quiet
     /\ UNCHANGED <<profiles, sequence, incarnation, ticket, lister, clock>>

Profiles(given, retained) ==
  [n \in Namespaces |-> IF given[n] = Off /\ n \in retained THEN profiles[n] ELSE given[n]]

(* activate_with_retained: the counts are recomputed, empty buckets go. *)
Activate(given, retained) ==
  LET new == Profiles(given, retained)
      cl == [d \in Domains |-> [k \in Keys |->
               IF client[d][k].generation = new[NamespaceOf(k)] THEN client[d][k] ELSE NoClient]]
  IN /\ profiles' = new
     /\ client' = cl
     /\ domains' = {d \in domains : Present(cl[d]) # {}}
     /\ counts' = [d \in Domains |-> [n \in Namespaces |->
                     Cardinality({k \in Present(cl[d]) : NamespaceOf(k) = n})]]
     /\ RebuildActive(cl, clock)
     /\ Quiet
     /\ UNCHANGED <<hosts, sequence, incarnation, ticket, lister, clock>>

-----------------------------------------------------------------------------
(* admit_expected, with the profile the plugin was built for still current.  *)

Ticket == [generation : Generations, incarnation : Nat, reset : Nat, domain : Domains,
           key : Keys, login : BOOLEAN, path : Paths]

Issue(r, c, d, k, login, path) ==
  ticket' = [ticket EXCEPT ![r] =
    {[generation |-> c.generation, incarnation |-> c.incarnation, reset |-> c.reset,
      domain |-> d, key |-> k, login |-> login, path |-> path]}]

(* The request gets as far as looking for its client. *)
Reaches(r, d, k) ==
  /\ ticket[r] = {}
  /\ d \in hosts
  /\ profiles[NamespaceOf(k)] # Off
  /\ d \in domains \/ Cardinality(domains) < MaxDomains

Conf(k) == Config[profiles[NamespaceOf(k)]]
IsLogin(k, login) == login => Conf(k).failed_login # {}
Watched(k, login) == login \/ Conf(k).scan # {}

(* Nothing to count: Allowed(None).  The bucket has been made all the same,  *)
(* and a ban that is over has been settled.                                  *)
AdmitUnwatched(r, d, k) ==
  LET over == Expired(client[d], {k}, clock)
  IN /\ Reaches(r, d, k)
     /\ ~Watched(k, FALSE)
     /\ domains' = domains \cup {d}
     /\ client' = [client EXCEPT ![d][k] = Settle(@, clock)]
     /\ RemoveActive(over)
     /\ Announce(over)
     /\ UNCHANGED <<profiles, hosts, counts, sequence, incarnation, ticket, lister, clock>>

Touched(c, k) == [c EXCEPT !.idle_at = clock + IdleMs(Conf(k))]

AdmitKnown(r, d, k, login, path) ==
  LET c == Touched(Settle(client[d][k], clock), k)
      over == Expired(client[d], {k}, clock)
  IN /\ Reaches(r, d, k)
     /\ IsLogin(k, login) /\ Watched(k, login)
     /\ k \in Present(client[d])
     /\ c.ban = {}
     /\ client' = [client EXCEPT ![d][k] = c]
     /\ RemoveActive(over)
     /\ Announce(over)
     /\ Issue(r, c, d, k, login, path)
     /\ UNCHANGED <<profiles, hosts, domains, counts, sequence, incarnation, lister, clock>>

AtCapacity(d, k) ==
  \/ Cardinality(Present(client[d])) >= MaxEntries
  \/ counts[d][NamespaceOf(k)] >= Conf(k).max_clients

(* What the sweep of a full bucket drops. *)
Idle(c, now) == Settle(c, now).ban = {} /\ c.idle_at < now

Idlers(d) == {k \in Present(client[d]) : Idle(client[d][k], clock)}

(* The sweep settles every client of the bucket and drops the idle ones. *)
Swept(d) == [k \in Keys |-> IF k \in Idlers(d) THEN NoClient ELSE Settle(client[d][k], clock)]

SweptCounts(d) ==
  [n \in Namespaces |-> counts[d][n] - Cardinality({k \in Idlers(d) : NamespaceOf(k) = n})]

(* Mutant of Over: the sweep keeps the ends it finds to itself. *)
OverUnheard(d, k) == {}

(* The bans the sweep finds over. *)
Over(d, k) == IF AtCapacity(d, k) THEN Expired(client[d], Keys, clock) ELSE {}
Room(d, k) == IF AtCapacity(d, k) THEN Swept(d) ELSE client[d]
RoomCounts(d, k) == IF AtCapacity(d, k) THEN SweptCounts(d) ELSE counts[d]

Full(d, k) ==
  \/ RoomCounts(d, k)[NamespaceOf(k)] >= Conf(k).max_clients
  \/ Cardinality(Present(Room(d, k))) >= MaxEntries

(* Saturated: what the sweep did stays done.  An insert that the store       *)
(* refuses has used up an incarnation number, which nothing depends on.      *)
AdmitSaturated(r, d, k, login) ==
  /\ Reaches(r, d, k)
  /\ IsLogin(k, login) /\ Watched(k, login)
  /\ k \notin Present(client[d])
  /\ Full(d, k)
  /\ domains' = domains \cup {d}
  /\ client' = [client EXCEPT ![d] = Room(d, k)]
  /\ counts' = [counts EXCEPT ![d] = RoomCounts(d, k)]
  /\ RemoveActive(Over(d, k))
  /\ Announce(Over(d, k))
  /\ UNCHANGED <<profiles, hosts, sequence, incarnation, ticket, lister, clock>>

AdmitNew(r, d, k, login, path) ==
  LET c == Touched([NoClient EXCEPT !.generation = profiles[NamespaceOf(k)],
                                    !.incarnation = incarnation + 1], k)
  IN /\ Reaches(r, d, k)
     /\ IsLogin(k, login) /\ Watched(k, login)
     /\ k \notin Present(client[d])
     /\ ~Full(d, k)
     /\ incarnation < MaxIncarnation
     /\ incarnation' = incarnation + 1
     /\ domains' = domains \cup {d}
     /\ client' = [client EXCEPT ![d] = [Room(d, k) EXCEPT ![k] = c]]
     /\ counts' = [counts EXCEPT ![d] = [RoomCounts(d, k) EXCEPT ![NamespaceOf(k)] = @ + 1]]
     /\ RemoveActive(Over(d, k))
     /\ Announce(Over(d, k))
     /\ Issue(r, c, d, k, login, path)
     /\ UNCHANGED <<profiles, hosts, sequence, lister, clock>>

-----------------------------------------------------------------------------
(* observe: the upstream has answered.                                       *)

Return(r) == ticket' = [ticket EXCEPT ![r] = {}]

(* A local denial, no upstream answer at all, or a profile, bucket or client *)
(* that is gone.                                                             *)
Discard(r) ==
  /\ ticket[r] # {}
  /\ Return(r)
  /\ Quiet
  /\ UNCHANGED <<registry, lister, clock>>

(* The profile, the bucket and the client are found. *)
Found(t) ==
  /\ profiles[NamespaceOf(t.key)] = t.generation
  /\ t.domain \in domains
  /\ t.key \in Present(client[t.domain])

(* Mutant of Fresh: a client that was dropped and made again answers to the  *)
(* tickets of its predecessor.                                               *)
FreshAnyIncarnation(t, c) ==
  c.generation = t.generation /\ c.reset = t.reset /\ c.ban = {}

Fresh(t, c) ==
  /\ c.generation = t.generation
  /\ c.incarnation = t.incarnation
  /\ c.reset = t.reset
  /\ c.ban = {}

ObserveStale(r, t) ==
  LET c == Settle(client[t.domain][t.key], clock)
      over == Expired(client[t.domain], {t.key}, clock)
  IN /\ Found(t)
     /\ ~Fresh(t, c)
     /\ client' = [client EXCEPT ![t.domain][t.key] = c]
     /\ RemoveActive(over)
     /\ Announce(over)
     /\ Return(r)
     /\ UNCHANGED <<profiles, hosts, domains, counts, sequence, incarnation, lister, clock>>

(* The first crossed rule in block mode makes the ban. *)
NewBan(crossings) ==
  LET blocking == {i \in DOMAIN crossings : crossings[i].mode = "block"}
  IN IF blocking = {} THEN {}
     ELSE {[seq |-> sequence + 1, deadline |-> clock + crossings[Min(blocking)].ban_ttl]}

(* A client that a fresh ticket names had no ban to settle. *)
ObserveFresh(r, t, failed, missing) ==
  LET c == client[t.domain][t.key]
      seen == Observed(c.counters, Conf(t.key), clock, t, failed, missing)
      ban == NewBan(seen.crossings)
      detected == seen.crossings # <<>>
      touched == Touched(c, t.key)
  IN /\ Found(t)
     /\ Fresh(t, Settle(c, clock))
     /\ detected => sequence < MaxSequence
     /\ client' = [client EXCEPT ![t.domain][t.key] =
          [touched EXCEPT !.counters = seen.counters, !.ban = ban,
                          !.idle_at = Max({@} \cup {b.deadline : b \in ban})]]
     /\ active' = active \cup {[seq |-> b.seq, deadline |-> b.deadline, domain |-> t.domain,
                                key |-> t.key] : b \in ban}
     /\ expiry' = expiry \cup {<<b.deadline, b.seq>> : b \in ban}
     /\ sequence' = IF detected THEN sequence + 1 ELSE sequence
     /\ Return(r)
     /\ Quiet
     /\ UNCHANGED <<profiles, hosts, domains, counts, incarnation, lister, clock>>

-----------------------------------------------------------------------------
(* release_as: only the exact id releases, and only what settling left.      *)

(* Mutant of Releases: whatever ban the client has by now is released. *)
ReleasesAny(c, s) == c.ban # {}

Releases(c, s) == \E b \in c.ban : b.seq = s

Release(d, k, s) ==
  LET over == Expired(client[d], {k}, clock)
      c == Settle(client[d][k], clock)
      gone == over \cup (IF Releases(c, s) THEN {b.seq : b \in c.ban} ELSE {})
  IN /\ d \in domains
     /\ k \in Present(client[d])
     /\ client' = [client EXCEPT ![d][k] = IF Releases(c, s) THEN Reset(c) ELSE c]
     /\ RemoveActive(gone)
     /\ ended' = gone /\ asked' = {s} /\ page' = {}
     /\ UNCHANGED <<profiles, hosts, domains, counts, sequence, incarnation, ticket, lister, clock>>

-----------------------------------------------------------------------------
(* filtered_decisions.  `rows` are the sequence numbers of the page so far.  *)
(* No ban is created with a deadline the listing has passed, so once nothing *)
(* is due to it nothing ever will be: the lock hold that finds this out and  *)
(* ends the expiry loop is taken together with the scan's next one.          *)

(* The first lock hold.  A filter is the set of places it lets through. *)
ListStart(after, limit, filter) ==
  /\ lister = {}
  /\ lister' = {[now |-> clock, max |-> Max({0} \cup {a.seq : a \in active}),
                 after |-> after, limit |-> limit, filter |-> filter, rows |-> {}]}
  /\ Quiet
  /\ UNCHANGED <<registry, ticket, clock>>

Precedes(x, y) == x[1] < y[1] \/ (x[1] = y[1] /\ x[2] <= y[2])

(* The first `Batch` deadlines that have passed. *)
DueBatch(now) ==
  LET due == {e \in expiry : e[1] <= now}
  IN {e \in due : Cardinality({x \in due : Precedes(x, e)}) <= Batch}

(* A batch of the expiry loop: the client is settled only if it still holds  *)
(* the ban that the index names.                                             *)
ListExpire(l) ==
  LET due == {e[2] : e \in DueBatch(l.now)}
      named == {h \in active \cap Held(client) : h.seq \in due}
  IN /\ due # {}
     /\ client' = [d \in Domains |-> [k \in Keys |->
          IF \E h \in named : h.domain = d /\ h.key = k
            THEN Settle(client[d][k], l.now) ELSE client[d][k]]]
     /\ active' = {a \in active : a.seq \notin due}
     /\ expiry' = expiry \ DueBatch(l.now)
     /\ Announce({h.seq : h \in named})
     /\ UNCHANGED <<profiles, hosts, domains, counts, sequence, incarnation, ticket, lister, clock>>

PlaceOf(a) == <<a.domain, NamespaceOf(a.key)>>
Lowest(S, n) == {a \in S : Cardinality({b \in S : b.seq <= a.seq}) <= n}

(* Mutant of Candidates: the scan stops short of the last ban. *)
CandidatesBelow(l) == Lowest({a \in active : l.after < a.seq /\ a.seq < l.max}, Batch)

Candidates(l) == Lowest({a \in active : l.after < a.seq /\ a.seq <= l.max}, Batch)

(* A batch of the scan; the last one returns the page. *)
ListScan(l) ==
  LET matching == {a \in Candidates(l) : a.deadline > l.now /\ PlaceOf(a) \in l.filter}
      rows == l.rows \cup {a.seq : a \in Lowest(matching, l.limit - Cardinality(l.rows))}
      through == Max({l.after} \cup {a.seq : a \in Candidates(l)})
      done == \/ Candidates(l) = {}
              \/ Cardinality(rows) = l.limit
              \/ through >= l.max
      next == [l EXCEPT !.rows = rows, !.after = through]
  IN /\ DueBatch(l.now) = {}
     /\ lister' = IF done THEN {} ELSE {next}
     /\ page' = IF done THEN {next} ELSE {}
     /\ ended' = {} /\ asked' = {}
     /\ UNCHANGED <<registry, ticket, clock>>

Tick ==
  /\ clock < MaxClock
  /\ clock' = clock + 1
  /\ Quiet
  /\ UNCHANGED <<registry, ticket, lister>>

-----------------------------------------------------------------------------
(* History.  A client is forgiven when it is dropped or loses its ban; that  *)
(* voids the tickets it has given out.                                       *)

Forgiven(d, k) ==
  /\ k \in Present(client[d])
  /\ \/ k \notin Present(client'[d])
     \/ client[d][k].ban # {} /\ client'[d][k].ban # client[d][k].ban

Remember ==
  /\ void' = [r \in Requests |->
       \E t \in ticket[r] \cap ticket'[r] : void[r] \/ Forgiven(t.domain, t.key)]
  /\ kept' = {h.seq : h \in
       IF lister = {}
         THEN {x \in Held(client) : /\ x.deadline > clock
                                    /\ \E l \in lister' : /\ x.seq > l.after
                                                          /\ PlaceOf(x) \in l.filter}
         ELSE {x \in Held(client') : x.seq \in kept /\ x.deadline > clock'}}

-----------------------------------------------------------------------------
Init ==
  /\ profiles = [n \in Namespaces |-> Off]
  /\ hosts = Domains
  /\ domains = {}
  /\ client = [d \in Domains |-> EmptyBucket]
  /\ counts = [d \in Domains |-> NoCounts]
  /\ active = {} /\ expiry = {}
  /\ sequence = 0 /\ incarnation = 0
  /\ ticket = [r \in Requests |-> {}]
  /\ lister = {}
  /\ clock = 0
  /\ asked = {}
  /\ ended = {}
  /\ void = [r \in Requests |-> FALSE]
  /\ kept = {}
  /\ page = {}

Reload ==
  \/ \E H \in SUBSET Domains : RetainHosts(H)
  \/ \E given \in [Namespaces -> Generations \cup {Off}], retained \in SUBSET Namespaces :
       Activate(given, retained)

Serve(r) ==
  \E d \in Domains, k \in Keys :
    \/ AdmitUnwatched(r, d, k)
    \/ \E login \in BOOLEAN, path \in Paths :
         \/ AdmitKnown(r, d, k, login, path)
         \/ AdmitNew(r, d, k, login, path)
    \/ \E login \in BOOLEAN : AdmitSaturated(r, d, k, login)

Complete(r) ==
  \/ Discard(r)
  \/ \E t \in ticket[r] :
       \/ ObserveStale(r, t)
       \/ \E failed, missing \in BOOLEAN : ObserveFresh(r, t, failed, missing)

(* An absent filter lets everything through. *)
Filters == {D \X N : D \in {Domains} \cup {{d} : d \in Domains},
                    N \in {Namespaces} \cup {{n} : n \in Namespaces}}

Operate ==
  \/ \E d \in Domains, k \in Keys, s \in 1..sequence : Release(d, k, s)
  \/ \E after \in Cursors, limit \in Limits, filter \in Filters :
       ListStart(after, limit, filter)
  \/ \E l \in lister : ListExpire(l) \/ ListScan(l)

Step == Reload \/ (\E r \in Requests : Serve(r) \/ Complete(r)) \/ Operate \/ Tick

Next == Step /\ Remember

Spec == Init /\ [][Next]_vars

-----------------------------------------------------------------------------
(* Properties.                                                              *)

Client == [generation : Generations \cup {Off}, incarnation : Nat, reset : Nat,
           counters : [login : Seq(Nat), login_crossed : BOOLEAN,
                       paths : SUBSET [path : Paths, at : Nat], scan_crossed : BOOLEAN],
           ban : SUBSET [seq : Nat, deadline : Nat], idle_at : Nat]
Active == [seq : Nat, deadline : Nat, domain : Domains, key : Keys]
Listing == [now : Nat, max : Nat, after : Nat, limit : Nat, filter : SUBSET (Domains \X Namespaces),
            rows : SUBSET Nat]

TypeOK ==
  /\ profiles \in [Namespaces -> Generations \cup {Off}]
  /\ hosts \subseteq Domains
  /\ domains \subseteq hosts
  /\ client \in [Domains -> [Keys -> Client]]
  /\ counts \in [Domains -> [Namespaces -> Nat]]
  /\ active \subseteq Active
  /\ expiry \subseteq Nat \X Nat
  /\ sequence \in 0..MaxSequence
  /\ incarnation \in 0..MaxIncarnation
  /\ ticket \in [Requests -> SUBSET Ticket]
  /\ lister \subseteq Listing
  /\ clock \in 0..MaxClock
  /\ asked \subseteq Nat
  /\ ended \subseteq Nat
  /\ void \in [Requests -> BOOLEAN]
  /\ kept \subseteq Nat
  /\ page \subseteq Listing

(* Listing reads an index instead of the clients: every ban in force is in   *)
(* it, nothing is in it that no client holds, and the expiry order holds     *)
(* exactly its deadlines.                                                    *)
IndexIsExact ==
  /\ active \subseteq Held(client)
  /\ \A h \in Held(client) : h.deadline > clock => h \in active
  /\ expiry = {<<a.deadline, a.seq>> : a \in active}

(* The counts that admission trusts are the clients of the bucket, none of   *)
(* the caps is exceeded, and every client belongs to the profile in force.   *)
CountsAreExact ==
  /\ Cardinality(domains) <= MaxDomains
  /\ \A d \in Domains :
       /\ Cardinality(Present(client[d])) <= MaxEntries
       /\ Present(client[d]) # {} => d \in domains
       /\ \A n \in Namespaces :
            LET own == {k \in Present(client[d]) : NamespaceOf(k) = n}
            IN /\ counts[d][n] = Cardinality(own)
               /\ \A k \in own : /\ client[d][k].generation = profiles[n]
                                 /\ Cardinality(own) <= Conf(k).max_clients

(* A page misses no ban that was in force from the beginning of the listing  *)
(* to its end, although batches are read under separate lock holds: such a   *)
(* ban is on the page or the page is full of earlier ones.                   *)
ListIsComplete ==
  \A p \in page : \A s \in kept \ p.rows :
    Cardinality(p.rows) = p.limit /\ \A x \in p.rows : x < s

(* What is derived from the clients agrees with them: the index, the counts  *)
(* and every page of a listing.                                              *)
DerivedIsExact == TypeOK /\ IndexIsExact /\ CountsAreExact /\ ListIsComplete

\* a reload replaces the profile h was kept by or drops its domain
Reloaded(h) ==
  \/ profiles'[NamespaceOf(h.key)] # profiles[NamespaceOf(h.key)]
  \/ h.domain \notin hosts'

(* A ban's end is announced once: exactly when its client loses it to its    *)
(* deadline or to a release, whichever of the five lazy expiries or releases *)
(* comes first.  Only what a reload drops goes in silence.                   *)
EndsOnce ==
  [][/\ ended' \subseteq {h.seq : h \in Held(client) \ Held(client')}
     /\ \A h \in Held(client) \ Held(client') : h.seq \in ended' \/ Reloaded(h)]_vars

(* A ban in force lasts unchanged until its deadline, whatever the pressure  *)
(* on the bucket, unless an operator has asked for exactly this ban or a     *)
(* reload takes its profile or its host away.                                *)
BanHolds ==
  [][\A h \in Held(client) :
       h.deadline > clock /\ h \notin Held(client')
       => h.seq \in asked' \/ Reloaded(h)]_vars

(* A response to a request that was admitted before its client was banned,   *)
(* released, expired or dropped is no evidence against the client: it adds   *)
(* nothing to the counters and makes no ban.                                 *)
FreshEvidence ==
  [][\A r \in Requests : \A t \in ticket[r] \ ticket'[r] :
       void[r] \/ client[t.domain][t.key].ban # {}
       => /\ sequence' = sequence
          /\ client'[t.domain][t.key].counters \in
               {client[t.domain][t.key].counters, NoCounters}
          /\ client'[t.domain][t.key].ban \subseteq client[t.domain][t.key].ban]_vars
=============================================================================
