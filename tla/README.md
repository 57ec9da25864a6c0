# TLA+ verification of pingap-waf

pingap-waf is a reverse proxy with a web application firewall, an abuse policy
and a control plane. The proxy is the pingap project this repository forks; what
the repository adds is the path from an operator's edit to a config the data
plane runs, the state the request path keeps per host and client, and the
streams of events, metrics and alerts back to the operator. These modules model
the parts of both in which more than one actor is at work: awaits, locks,
background tasks, reloads, restarts and failing stores.

## Inventory

| Component | State | Operations | Talks to | What is hard | What makes it correct |
|---|---|---|---|---|---|
| Applier (`projection/apply.rs`) | the process-global operation lock | `apply`, `apply_if_current`, `rollback`, `settle_pending` | version table, config sink, providers | each step is an await: cancellation, store errors, crashes and a sweep in between | one applied version; no lost edit; every pending row is settled |
| Version table (`store.rs`) | `config_versions` rows | record, set status, newest, newest applied, list | Applier, edit routes, drift task | ordering by a timestamp sampled before the lock | rows are appended, statuses only move forward |
| Edit routes (`intent_resource.rs`, `config_versions.rs`) | none | read base, change one entry, hand over | version table, Applier | read-modify-write across requests | an edit is based on what is confirmed |
| Config manager (`pingap-config/manager.rs`) | files or etcd keys, `current_config` | `save_all`, `update`, `delete`, `load_all` | sink, reload, ACME task | several writes, three layouts | storage is a function of the intent |
| Hot reload and restart (`auto_restart.rs`, `common.rs`, `locations.rs`) | location, plugin and route providers | `diff_and_update_config`, `restart` | config manager, request path | category by category, failures not retried, caches rebuilt selectively | providers, index and order describe the current config |
| ACME renewal (`lets_encrypt.rs`) | the pair in the stored config, HTTP-01 tokens | check, order, save, publish | config manager, reload, CA | writes the config the projection and the reload also write | a valid certificate comes into effect and stays |
| Policy gate (`pingap-core/lib.rs`) | generation counter, reload lock | begin, drop, read | reload, router, behaviour plugin | requests read four things at four times | an unmoved even generation vouches for all of them |
| Request path (`pingap-proxy/server.rs`) | request context, location and upstream counters | pingora's callbacks, retries | location, plugins, upstream | policies are published while a request resolves them | no request passes without its policy; every request ends |
| Circuit breaker (`backend_circuit_state.rs`) | atomics and a mutex per backend | ask, report | request path | state read before, written outside the lock | an open breaker does not stay open |
| WAF (`pingap-waf`) | per-request buffers, cached responses | request, body, response hooks | engine, event queue, cache | verdicts chunk by chunk, answers before the body is complete | withheld or forwarded whole, on a verdict about its text; every hit offered once |
| Challenge (`pingap-challenge`) | token store, escalator, loop detector | issue, verify | request path | one token presented twice, caps, expiry between get and take | one pass per token; nobody else burns it |
| Ban registry (`pingap-behaviour/decisions.rs`) | candidates, bans, profiles, active index | admit, complete, release, activate, retain, list | behaviour plugin, reload, admin API | tickets that outlive what they refer to; lazy expiry in five places | derived state is exact; a ban in force holds and ends once |
| Scoped store (`pingap-domainstate/store.rs`) | per-host buckets of expiring entries | insert, read, update, remove, count, retain | challenge, behaviour, adaptive, bot | caps, lazy expiry, a cached bound, stale clock samples | bounded, never displaces, take-once |
| File cache (`pingap-cache/file.rs`) | files, a hot layer in memory, a byte counter | get, put, remove, purge, clear, evict | request path, PURGE, hourly task | every look and act are separated by an await | what is served is whole and not purged |
| Event queue and writer (`pingap-events`, `events/writer.rs`) | bounded queue, one batch in flight | offer, drain, flush, restore | WAF, ban registry, store | a full queue, failing writes, producers during the restore | nothing twice, nothing lost uncounted, priority |
| Metrics rollup (`projection.rs`, `metrics/`) | metric rows | tick, retention | findings, alerts | no mark of its own: what is done is read back from the rows | a finding is counted at last, and again only when the rows were not all read |
| Alerts (`alerts/`) | suppression state in memory | evaluate, decide, send, record | metrics, channels | one attempt, marked as sent before it is; a store error ends the tick | a lasting condition is heard |
| Adaptive limits (`pingap-adaptive`) | learners, stored baselines | record, restore, write back | store | restore and write-back race requests and restarts | what is stored is kept, or pushed out by newer samples |
| Intel feeds (`pingap-intel`) | registries, snapshots | refresh, publish | WAF policy | failing feeds, a registry rebuilt during a refresh | last good list until stale, then gone |
| Admin account (`admin_auth.rs`, `account.rs`, `users.rs`) | password, secret, sessions, used codes | login, second factor, enrol, revoke, change | store | each store call is an await | a code is good once per guard; a new password cuts off the old |
| Backup, cluster nodes, ACL, bot rules, scoring, web UI, other upstream crates | | | | | not modelled, see below |

`PROJECT.json` lists every component with its sources, every hazard with the
line where it bites and the properties that cover it, and the source lines of
every definition.

## Modules

**ConfigApply** is the core. `versions` is the table (a version id is its row
number; ids are UUIDv7, so within a process their order is insertion order),
`req` what each API request has read before it reaches the operation lock, `op`
the holder of that lock and where it stands, `storage` the stored config,
`current` the config manager's copy, `running` the providers. The steps of `op`
are the stretches of `apply_locked`, `settle` and `settle_pending` between two
awaits that matter: record, commit, read the runtime back, supersede, confirm,
fail, restore, recheck, next row of the sweep. An intent maps each entry name to
a value; `Domains` become locations and appear in the server's list, `Policies`
become plugins. The validator's verdict is a choice. Faults are actions bounded
by `MaxFaults`: `Abort` (a dropped request or a store error at an await: the lock
guard is dropped, the process lives), `Crash` (reboot from storage),
`CommitError` and `RestoreError` (a save that fails halfway), `ReloadPartly` (a
plugin constructor or the location build fails, and nobody retries) and
`HandEdit`. `confirmed` is a history variable. A boot from a stored config that
does not validate ends the process until someone repairs it; the model leaves
that out.

**VersionLedger** is what readers of the table may assume, with no mechanism:
rows are appended, confirmed at most once from pending, and never two at a time.
ConfigApply implements it under `ledger <- Statuses`.

**HotReload** takes the reload apart: `live` (location provider) is replaced
first, then the route (`ordered`, `index`) if the list of names differs.
`given` is the location an operator has for each name: a domain that is taken
out and put back comes back as it was, unless a `hosts` or `weight` edit changes
it. A `pattern` edit makes one that `Location::new` refuses: `validate`
(`pingap-config/src/common.rs:673-730`) does not compile host and path patterns, so
such a config is stored; the location reload then fails as a whole, the old map stays
(`refused`), and the reload goes on to the route and makes the config current.
Routing is `find_and_apply_location` restricted to hosts.

**PolicyReload** is the seqlock around that publication, with any number of
reload workers and requests: the order in `try_init_locations` is abuse hosts,
registered hosts, location map; a request reads generation, map, generation,
label, generation, registry.

**RequestPath** follows requests through pingora's callbacks while a reload
stages the desired policy, publishes the locations and then the plugins. A
config says what the policy contains and whether the location names it. The
location's and the upstream's counters go up and down where the code moves them,
connections fail and are retried. `Timed` are the requests to upstreams with
configured timeouts; the others may wait for their peer for ever.

**CircuitBreaker** is one backend's breaker with each atomic access and each
`try_lock` a step of its own, so that a caller acts on a state it read earlier.
Failure-rate trips and probes that never report are constants.

**CertRenewal** has two writers of one stored config, the renewal and the
projection, beside the hot reload and the restart. A config is a rule (all that
hot reload can apply), the certificate's names, the issued pair (its names and
the term it is valid in) and the HTTP-01 token. The renewal may fail to load or save,
and may find a certificate that does not parse, when it publishes the pair without
making its config current. The manual DNS provider, which runs once at start, is left
out.

**Challenge** keeps the token store, the escalator and the loop detector behind
their own locks; a request is a sequence of steps between them. A token that
does not fit in the store is stateless and in the client's hands. Whether a client
that has a pass sends its cookie is its choice, so passes are not kept as state.

**AdminAccess** is one account. Each awaited store call is a step. A password
and a secret are numbers, a code is the TOTP step it is for. The replay guard belongs
to the instance of the admin plugin: a reload that changes its configuration, or a
restart, brings a new and empty one (`RebuildPlugin`), and requests under way keep
theirs. `Surfaces` says which routes are used together.

**WafInspection** is one request at a time through the plugin's hooks and the
rule engine, and its answer through the two hooks on either side of the cache. A
body is a sequence of units: plain, something a rule matches, a leak, a mask, or a byte
that is not UTF-8, at which the text the engine reads ends (`Text`), on the request's
side and on the answer's. The origin may answer while the body still arrives, and the
body may go on after the answer (`drain`). The time budget runs out
nondeterministically.

**ScopedStore** models the container per operation, with the clock sample
(`Call`) apart from the lock hold, so two threads run with times out of order.
Reads reclaim lazily as in the code. `serial` and `takes` are history variables.

**FileCache** has a step for every stretch between two awaits of the file
system: a get that reads and admits, a put that stats, evicts, writes a temporary
file and renames it, removals, purges and the hourly clear, with I/O errors and a
restart that may find files cut short. The byte counter wraps at `Width`. A limit
of 0 on the reads or writes under way means none. A purge is `alone` with its uri
until any other request for it begins, a put that the writing limit keeps from the
disk included: that one still replaces what is in memory.

**EventPipeline** models `offer_notification` as one lock hold, `flush` as drain,
one write per run of WAF findings or native record, and the restore of what was
not acknowledged, one offer at a time.

**Rollups** is the rollup task: it reads its own rows, then the findings, then
inserts the rows of later buckets, `RowsPerBucket` for each node, while findings are
stored between the reads; the read of its own rows takes the oldest up to
`RollupReads`; the two prunes of the retention are steps of their own.

**Alerts** is the evaluation task: rule by rule it reads, evaluates, decides,
sends and records. Time is counted in ticks. The history rows are never read
back, so only whether writing them ends the tick is kept.

**Baselines** is the registry of learners with its cap, the restore sweep and the
write-back, across restarts. A profile is the window of one hour, a set of samples
numbered in order, from which the oldest are evicted at `max_samples_per_hour`
(`limit`, which a restart may change); requests that are denied, challenged or a bot's
make a learner without a sample (`Observe`). A row may be too old, of another shape or
no longer parse, and is then given up as the code gives it up.

**Feeds** is a registry per built policy and the refresh that works on the
registries it knew when it started; a contribution is the hour it was fetched.

**BanRegistry** models the registry of abuse bans. One mutex guards all of it and
the clock is read under the lock, so an operation is one action; a ticket lives
in the request between admission (`Serve`) and the upstream's answer
(`Complete`), and everything may happen in between. Only the listing releases
the lock between batches: `ListStart`, `ListExpire`, `ListScan`; the lock hold
that finds nothing left to expire is taken together with the next one of the
scan. Admissions that end in unregistered, unavailable or blocked change nothing
and are no actions. The epoch, the wall clock and the statistics are left out, as
is the incarnation number that an insert refused by the store uses up. `asked`,
`ended`, `void`, `kept` and `page` are history variables.

**MC modules.** `MCConfigApply`, `MCAdminAccess` and `MCBanRegistry` add model
values and symmetry. `MCClients`, `MCService`, `MCConverge` and `MCStores` put
components of one side of the system next to each other: a variable `part` is
chosen in the initial state and says which component moves. The components in
one such module share no variable, so a behaviour of the composition is a
behaviour of one of them while the others stand still, and every property is
about one component: nothing is lost against a run for each, and nothing is
claimed about their interleaving. Where components do interact, the interaction
is inside one module (the reload in ConfigApply, HotReload, PolicyReload and
RequestPath; the projection's write in CertRenewal; the rebuilt policy in Feeds).

The theorems are in modules of their own. `ConfigApplyProofs`,
`BanRegistryProofs`, `AdminAccessProofs`, `ChallengeProofs` and
`WafInspectionProofs` are named after the module they EXTEND. Three others hold one
section for each of several components: `ReloadProofs` for HotReload, PolicyReload
and RequestPath, `BackgroundProofs` for EventPipeline, Rollups and Baselines,
`StoreProofs` for ScopedStore and FileCache; the components of one such module share
no variable, and no section uses a lemma of another. Each defines the conjuncts of
its inductive invariant and states the lemmas each step rests on; a reader who wants
the argument reads the definitions at the head of a section and the theorems at its
end. Operators whose comment begins with "Mutant" are deliberately wrong variants, at
least one for each property; nothing uses them, and putting one in the place of the
definition it stands before makes TLC report the property.

## Runs

| Run | Instance | Shows |
|---|---|---|
| `apply_faults` | 2 requests, 1 domain, 1 policy, 3 versions, 2 faults of all 5 kinds, by_type layout | types, one applied version and what the lock holder relies on (`Inv`), rollback targets, row life cycle, refinement of VersionLedger |
| `apply_edits` | the same with a partial reload as the only fault and a moving clock | an edit has its base, storage is what the applied version says, no lost update |
| `converge` | ConfigApply: 1 request, 2 versions, 2 faults of all 5 kinds; CertRenewal: 2 name sets, 2 terms, 1 rule change, 1 change of names; fairness | every pending row is settled; a valid certificate comes into effect and stays |
| `clients` | HotReload: 2 names, 2 hosts, 2 weights, 3 edits of all four kinds; RequestPath: 2 requests, 2 configs; Challenge: 2 clients on 2 sites, room for 1 token; ScopedStore: 2 threads, 2 slots and the overflow bucket, caps of 1; WafInspection: 3 profiles, bodies of up to 3 units in chunks of up to 2, a limit of 2, 2 requests | no misrouting at any step, failed reloads included, and a list change heals staleness; no request past its policy; tokens earn once and are not burnt by others; limits, slot return, take-once, no displacement; the WAF's duties |
| `accounts` | AdminAccess: 2 requests, 2 sessions, 2 passwords, 2 secrets, 2 plugin instances, TOTP steps 1 to 3, codes of 0 and 2 | codes, promotion and arming; a new password cuts off |
| `service` | EventPipeline: 5 events, a queue of 3, batches of 2, 2 failing writes; Rollups: 2 nodes, 2 findings, 4 buckets, 2 rows for each node and bucket, reads of 2; Alerts: 2 rules, 1 channel, 1 mishap; Feeds: 2 feeds, 5 hours, 1 rebuild; PolicyReload: 2 workers, 1 request, 3 reloads, room for 1 of 2 hosts; CircuitBreaker: 2 callers; RequestPath: 2 requests, one with timeouts, 2 retries; fairness | nothing lost uncounted, priority, everything settles; findings counted at last, and again only when rows were cut off; alerts heard; feeds are current; the generation's guarantees and that the gate opens; an open breaker recovers; requests end |
| `store_entries` | ScopedStore: one bucket of 2 entries for 3 identities, a longer clock; FileCache: 2 tasks, 1 uri, objects of 1 and 2 bytes, a budget of 2, 3 writes; Baselines: 2 domains, room for 1, windows of 1 and 2, 3 new samples, 3 days, 1 restart | the cached bound, refusal only when full; what is served is whole and not purged; stored baselines are kept or pushed out by newer samples |
| `bans` | 1 domain, 1 namespace, 2 identities, 2 requests, 2 profile generations, clock 0..2, 2 bans, 2 incarnations, batches of 1, pages of 2 | index, counts and listings are exact; a ban in force holds and ends once; stale tickets are no evidence |
| `apply_by_item` | violation | storage keeps removed entries in the per-item layout |
| `apply_lost_base` | violation | an abort between the two status writes costs the edit base |
| `route_stale_index` | violation | what a change of host names leaves stale |
| `processing_limit` | violation | a refused request is discounted without having been counted |

Bounds. Two requests suffice for the operation lock and for stale bases, since a
third would wait as the second does; three versions give a confirmed base, one
version that is cut short and one after it; two faults allow a fault during the
recovery from another. One domain and one policy tell the two reload categories,
the partial save order and the list apart. For the stores, two threads race on
every pair of operations and the caps are small enough to be reached; one uri is
enough for the file cache's races, since its tasks meet only on one file, and the
budget is less than two objects, so that puts evict. The event queue's capacity
is below the number of events and a batch spans both record kinds. `MaxReloads =
3` lets a request span two complete reloads. `processing_limit` has three
requests: one that is refused, and one more than the limit. In `bans` one
generation bans on the first failed login and has room for both clients, the
other detects a scan, bans on the second failed login and has room for one:
saturation, the sweep of a full bucket, a second ban of the same client and a
listing of two batches all occur. With one domain the domain cap and crosstalk
between namespaces are not exercised. In Alerts only the second rule moves
(`Moving`), the first is there to cut the tick short before it. Rollup reads are
limited to 2 rows of 4 and more, so that ticks whose view of their rows is cut short
occur (and count findings again), as ticks with a whole view do; the limit on findings
is not exceeded. Three steps in `accounts` let the guard forget a code and two
instances let a request finish in the one that was replaced. A window of 1 or 2 with
four samples evicts, and a restart may halve it. The answers in `clients` consist of
leaks only, with an inspected prefix of 1: that the text of an answer ends at a byte
that is not UTF-8 is in the definition and in the theorem, and not exercised by the run;
for bodies it is.
`FindingsCounted` ends its obligation for a finding once the window has moved past it
(`Missed`), which the moving clock brings about for all but the buckets next to the
bound; it is those that carry the claim.

Fairness. `Operation` is weakly fair because the runtime polls a future until it
ends (a dropped one is the `Abort` fault); `SettlePending`, `Reload`, the rollup,
the alert task and the feed refresh are periodic background services; `Tick`,
`BucketCloses`, `HourPasses` and `CoolsDown` are time. `Drain`, `Write` and
`RestoreOne` are the event task, which awaits `flush` each tick. Failing writes,
ticks and refreshes are bounded, so the claims are about a store that recovers.
`try_init_locations` is synchronous, so its steps are weakly fair. A request's
next callback is weakly fair where the proxy itself calls it. Where it waits for a
peer, only a timeout guarantees it, and the upstream's timeouts are optional without a
default (`pingap-config/src/common.rs:374-400`, `upstream.rs:596-602`): the assumption
is made for the requests in `Timed`, and `RequestsEnd` says of the others that they end
or wait for ever in a state that awaits a peer. The breaker
needs requests that keep coming: only a request that asks can end the open
state. The renewal needs strong fairness of `Issue`, `StoreToken` and
`SaveCertificate` (neither the CA nor the storage fails for ever, and not every restart
comes between its answer and the save), of a reload cycle that may restart, and of the
restart itself, which is retried. Nothing is assumed of operators.

## Findings

The violation runs are disagreements between the code and what its comments or
docs say; `PROJECT.json` quotes both sides. The per-item layout keeps deleted
entries; the two status writes of `settle` are not atomic, and losing the second
one can lose the edit base; a change of host names does not rebuild the route's
index; a request refused for its `Content-Length` is subtracted from a counter it
was never added to, so the location later admits more than `max_processing`.

Further definitions state what a comment or a doc says and do not hold in the
model; they are kept beside the properties and have no run.

- `OrderIsConfigured` (HotReload) fails as `IndexIsLinearScan` does when only a
  priority changes. `ConfirmedInOrder` (ConfigApply) does not hold with `"abort"`
  among the faults: a rollback ignores pending rows, so a sweep can confirm an older
  stranded version over it; without an abort no older row is ever settled, so no run
  states it. `StoreInv`'s slot clause is stated
  for a positive entry cap: with a cap of zero `insert` admits the domain before
  it refuses the entry.
- `HeaviestServes` (HotReload) fails after a location reload that failed: the old map
  stays while `current_config` and the route move on (`auto_restart.rs:232-241`). A
  request then still gets only locations the current config lists, because the route
  holds no others (`NeverMisroutes`), but with their old hosts, and a location that was
  added with the failed config is not served until the next reload that differs.
- `FailsClosed` (PolicyReload): a reload between the plugin's last generation
  check and the registry's host check makes `admit` answer `Unregistered`, and
  the request is served without the policy; `pingap-core/src/lib.rs:21-23` says
  that it fails closed.
- `HalfOpenEnds` (CircuitBreaker): probes are counted when sent and only a report
  ends the half-open state, so probes that end unreported use up the budget and
  the breaker stays half open.
- `LiveSecretKept` (AdminAccess): setup reads whether a factor is armed and
  writes the new secret in a later store call; an enable in between is
  overwritten. `CodeSpentOnceEver`: `auth.rs:175` says that the guard rejects a code
  that has been accepted; a plugin rebuilt within the code's window accepts it again.
- `StatelessHonoured` (Challenge): a stateless token carries no kind, so a silent
  challenge issued while the store is full is checked as proof of work.
- `StoredAlwaysKept`, `LearningKept` (Baselines): a feature switched on while the
  sweep runs lets an emptier profile replace a stored one; and the next cycle then
  restores the row the sweep had passed over, which replaces samples already written.
- `CountedOnce` (Rollups): the rollup reads its own rows oldest first and at most
  10 000 of them (`projection.rs:131-141`), while 90 days of minutes are 129 600 rows
  for one node and one metric. Once more rows than that are kept, the latest bucket it
  knows is an old one, and the findings of the last day are counted again at every
  tick. With the bounds of `service` TLC reports it.
- `UnreadIsAdmitted` (WafInspection): `engine.rs:163` documents `truncated` as set
  when some input bytes were never inspected; the text ends at the first byte that is
  not UTF-8 and what follows sets nothing. `LateHitsOffered`: a body that is judged
  after the answer has ended offers its hits only when it is released by its last
  chunk.
- `CacheIsRedacted`, `CaveatPublished`, `EnforcementReported` (WafInspection; the first
  with a prefix of 2 or more): a rule reports its first match and the mask covers only that one
  (`plugin.rs:737` says an unredacted body is kept out of the cache); a body
  released at the limit is judged at once, but its caveat is published with the
  last chunk or the answer, so a request cut off in between never shows it
  (`docs/waf-plugin.md:157`); a request without a hit has its one event when its
  headers pass, so a later refusal for its size is not reported.
- `ToggleWithoutRestart`, `RulesTakeEffect`, `NamesAreKept`, `IssuedIsKept`
  (CertRenewal): the projection writes a config without the issued pair, so a
  rule toggle costs the certificate and a restart (`docs/config-projection.md:225`
  says it does not); the renewal makes the config it loaded current, which hides
  a rule it loaded from the next diff, and writes back the names it read. With
  `OnlyHotReload = TRUE` `CertificateCatchesUp` fails as well. HTTP-01 tokens are
  part of the stored config, so storing and clearing one restarts the process.

Read in the code and not stated as formulas: the cache's byte counter is not
exact (a put that evicts its own old file subtracts it twice, and so do two
evictions of one file, where the subtraction wraps; `file.rs:504` says the budget
stays honest); a failed write leaves its temporary file behind (`file.rs:520`);
a namespace purge misses objects that are only in memory, and a get that was
reading re-admits what is being purged; an alert evaluated as ok is also sent at
its first evaluation and at every reminder although `scheduler.rs:100` speaks of
suppressing unchanged states, and a history row that cannot be written ends the
tick without rows for the other channels; a second in-flight limiter on one
request replaces the first one's guard in the context and so releases its count
early; a batch drained by
the event writer is lost in a crash (`writer.rs:78`) and nothing counts it.

## Proofs

Assumed: the `ASSUME`s of the modules, which every run evaluates. They say that
domains and policies are disjoint, that `Absent` is not a value, that the layout
and faults are among those named, that bounds are naturals, and that what the
program starts with is there: one config (RequestPath), one password and one TOTP
step (AdminAccess), a client and a moment to serve it in (Challenge), a first day
(Baselines) and a first bucket (Rollups). Rollups also assumes what the code's
constants give, that findings and rows are kept for at least the window; BanRegistry
that a profile has at most one rule for each scenario, as `AbuseConfig` has. Nothing
bounds the number of entries, requests, versions, threads, clients, sessions, events,
hosts or reloads. Sets of actors may be infinite, except where something is counted
or sorted: the location names of HotReload, and the keys, lengths and tasks of the
file cache, whose sum of sizes has to fit the counter's width.

*ConfigApply.* `AtMostOneApplied` is not inductive: `SettleApply` would break it
if some other version were applied at that point. `LockHolder` supplies what is
missing, namely that the version being settled is pending, that the previous
version read earlier is still the only applied one, that at `confirm` none is,
and that the rows left to a sweep are pending and differ from the current one.
`Inv == TypeOK /\ AtMostOneApplied /\ LockHolder` is inductive; the step lemma
has one case per group of actions. `LifeCycle` and the refinement of
VersionLedger follow from `Inv` step by step: every action that writes a status
maps to `Record`, `Fail`, `Retire` or `Confirm`, everything else leaves the table
alone. `RollbackTargetConfirmed` needs one more conjunct about requests that have
read their target but not yet taken the lock: confirmed versions stay confirmed,
so what was checked outside the lock is still true inside it. All of this holds
for every combination of the five faults.

Three properties hold only as long as no operation is cut short: `apply_lost_base`
shows what an abort between the two status writes does to the edit base. The hypothesis `Uninterrupted` of their
theorems says just that (no `abort`, no `crash`); saves may still fail, reloads may
be partial and the stored config may be edited by hand. Then `ConfirmedOK` is
inductive relative to `Inv`: no row is left pending by a finished operation, the
history variable `confirmed` is the applied version except between settle's two
writes, it is what the operation goes back to, and the row being settled is newer
and, if an edit, based on it. `EditsOK` adds that an edit, in a request or in the
table, differs from its base in one entry at most; rows are never rewritten, so it
stays true. `EditBaseKept` and `NoLostUpdate` follow.
`StoredIsApplied` also needs `Undisturbed` (partial reloads only: a save that fails
or an edit by hand does change storage) and a layout that replaces whole files
(`apply_by_item` is the counterexample for the other); `StorageOK` says what storage
holds at each step of an operation.

*PolicyReload.* The invariant `GuardInv` adds that one worker at most publishes and
that the generation is odd exactly then (`Guarded`), what the publishing worker has
replaced so far (`Progress`), that requests carry no generation from the future
(`Past`), and the label before the check (`LabelIsCurrent`). From it follow
`GateInv` (types, one config behind an even generation, labels no reload takes
away) and `RouteIsCurrent`.

*HotReload.* `NeverMisroutes` rests on two conjuncts. The location map is the current
config's until a reload replaces it, unless the last one to try could not
(`LiveIsLoaded`), and the route lists locations of the current config only, failed
reload or not (`OrderedIsListed`); what the route proposes is looked up in the map
again. `StaleIsHealed` is about what a rebuild makes, so it needs that
every config has a route at all. The route is the stable sort of the listed names,
chosen by its properties; that it exists for every config (`RouteOrderIs`) is shown
without an induction over lists: a least set of names without a sort would have a last
name (`LastExists`), and the sort of the others extends to it (`SortExtends`).

*ScopedStore.* `BucketsInv` is a typing that knows the shape of every bucket (`Typed`),
which domains hold a slot (`SlotsOK`), caps and the cached bound per bucket
(`EntriesOK`) and that serials are handed out once and taken once (`Numbered`).
The code's scan keeps the least expiry it met; that a set of naturals has a least
element is `LeastNatural`, from the well-foundedness of the subset order, so that
nothing needs to be assumed about the number of identities. From it `StoreInv`,
`EarliestIsBound`, `RefusedOnlyWhenFull` and `NeverDisplaced` follow, the last two
one case per operation.

*RequestPath.* The order in which a reload publishes is the argument: the desired
policy before the location, the location before the plugins. `ConfigsOK` relates
the location in use to the config it came from, `DesiredIsLatest` says how far
the publication has come, `RequestsOK` what a request has resolved at each
callback and how new it is. `PathGuarded` follows.

*EventPipeline.* `Accounted` is inductive together with the finiteness of what was
lost: every step moves an event, or a prefix of the queue, between the producer,
the queue, the batch in flight, the store and the lost, and a move into the last
raises one counter. The lemmas are about sequences without repetitions (append,
removal of the first droppable element, head, tail, prefix). `PriorityKept` is
proved with them from the same invariant.

*Rollups.* The task keeps no mark of what it has counted; it looks for the latest row
of each node. `CountedOK` says that a counted finding, however often, has its row until
the retention takes it; `TickOK` that what a tick with a whole view read of its rows,
however long ago, covers every counted finding it could meet, and that what it is about
to record is not counted. Three facts close the argument: a finding is stored with the
bucket it was made in and read only while the window holds it; rows outlast the window;
and a read of all the rows finds the latest. Nothing is assumed of the number of rows:
a tick whose read is cut short may count a finding again, and a later whole one still
counts none.

*Baselines.* A stored row keeps its samples, or gives them up to a full window of newer
ones (`Covers`), because every learner that is written back has been through the sweep.
`SweptOK` says of a swept label that its learner covers what is stored, that its row was
given up, or that there is no room for a learner now or later; `RestoreOK` what the
sweep has still to do, and that only a feature switched on meanwhile (`raced`) can have
missed its turn; `WriteOK` that what is about to be written covers what is stored and is
covered by the learner. `Covers` is transitive (`CoversTrans`: a sample that was pushed
out has a full window above it, and if one of those is pushed out in turn, so does that
one), and what eviction and trimming leave of a window covers it (`WindowCovers`).

*FileCache.* `TaskOK` says what a task holds at each step between two awaits. The
versions order what was written: `FilesOK`, `HotOK` and `HeldOK` say that on disk, in
memory and in the hands of a task there is nothing of a key as old as what was purged,
and that only a file left by an earlier process may lack its end; `AloneOK` that memory
and the other tasks leave the key of a lone purge alone, so that its last step may
raise `gone` to all that was written. The byte counter stays in its width because its
sources are sums of sizes, counted as a set of bytes, of finitely many files.
`CacheServes` follows.

*BanRegistry.* The registry keeps three things twice: bans in the clients and in an
index with an expiry order, clients in the buckets and in counts, and the identity of
a client in the tickets it gave out. `RegistryInv` says that they agree. `ClientsOK`
is about one client (one ban at most, numbers of the past, none without a client),
`SeqsUnique` about all of them: no two bans share a sequence number, which is what
makes removal from the index by number exact. `IndexIsExact` needs both. `BucketsOK`
has the caps and counts per bucket with the finiteness that cardinalities need.
`TicketsOK` says that a ticket is no newer than its client and that a void one is
older, so `Fresh` refuses it. `ListerOK` says of a listing between two lock holds that
every ban in force since its beginning is on the page so far or still ahead of the
cursor; `ScanFinds` shows that a batch of the lowest numbers keeps it so, which rests
on `LowestRest`: what a batch leaves out comes after a full batch. The actions share
one shape: bans are taken from some clients and from the index under the same numbers
(`Loses`, `HeldAfterLoss`, `IndexAfterLoss`), clients change only in mild ways
(`Mild`), one ticket is issued or returned. Each action has a lemma that shows this
and concludes `Effects` and `TicketEffects`, of which the invariant, `EndsOnce`,
`BanHolds` and `FreshEvidence` are consequences. `DerivedIsExact` follows from
`RegistryInv` with `CountsFollow`. All of it for any numbers of domains, namespaces,
identities, requests and generations, any profiles, caps, batch and page sizes.

*AdminAccess.* A guard, one per plugin instance, spends a code once although it
forgets old steps: `GuardOK` says that a step it forgot has left the window in which
a code is accepted.
`SessionsOK` and `AccountOK` say whose code promoted and armed what, and `CallsOK`
what each request that is between two store calls may rely on; the lemma that
other requests' steps keep it (`RequestKept`) goes through one relation, `Onward`,
of the few things that only ever grow. `AccessInv` and `RotationCutsOff` follow.

*Challenge.* `StoreOK` and `CountsOK` are the store and its counts per client and
site, `VisitsOK` what a request knows of its token, `EarnedOK` that a token in the
store has earned nothing yet, and `MissedOK` that attempts counted and about to be
counted never exceed the failures of the token's own client: that is why racing
presentations do not burn it. `ChallengeInv` and `TokenKept` follow.

*WafInspection.* The request's side is `BodyOK`: until the buffer is released nothing
has been forwarded and it holds what was sent, and from then on what was sent has
been forwarded unless the request is refused. The answer's side is `AnswerOK`: what
left, followed by what the two hooks hold, covers what the source gave, where
`Covers` means that at most some leaks became stars. It is transitive and
compatible with concatenation, so it is enough to show what one hook does to one
chunk (`ScanFacts`) and to compose the two (`HooksCompose`); that `mask` covers a
leak rests on the first match being the least of a set of positions.
`ReportedOnce` is kept because every stage only adds to the state the next one
reports (`Later`). `WafGuards` follows, for any rules, limits, profiles, bodies and
ways of cutting them into chunks.

Every inductive invariant was first checked with TLC on the bounds of the run that
checks its property.

Every invariant and action property of the passing runs is stated by a theorem. What
stays with TLC is liveness: `PendingIsSettled`, `CertificateCatchesUp`,
`EventuallySettled`, `FindingsCounted`, `FeedsAreCurrent`, `AlertsAreHeard`,
`ReloadSettles`, `BreakerRecovers` and `RequestsEnd` hold under fairness, and fairness
is defined by `ENABLED`, which the proof system cannot reason about here. For the same
reason nothing is proved about CertRenewal, Feeds, Alerts and CircuitBreaker, whose
run properties are all of that kind. What a recursive definition computes for every
input is out of reach as well; no property of these modules needs it, because lists are
sorted by choosing the list that is sorted and sizes are added up as cardinalities.

## Not modelled

The map covers about a tenth of the implementation's lines. The rest is, in the
order of its size:

- configuration parsing and formatting (`hcl.rs`, `pingap-config/common.rs`,
  TOML), the HTTP shaping of the admin routes, page markup, metrics export,
  logging and tracing: conversions and I/O whose mistakes are about data, one
  call at a time, and which a table of examples tests well;
- pure decisions over one request: the WAF's patterns and scores (their outcome is
  a choice in WafInspection), ACL and bot rules, location paths and regular
  expressions, behavioural scoring, image optimisation, compression;
- code carried from pingap without change that is not on the request's control
  path: service discovery, health checks, load balancing, OpenTelemetry, Sentry,
  pyroscope, webhooks;
- backup and cluster nodes: exports and imports copy files and rows one after
  another for one caller, and no task of this repository runs a schedule, a
  publish or a reap, so there is no second actor (although the comment of
  `create_schedule` says that creating the row is what makes it run; two exports
  in one second share a directory);
- the Limit plugin's windows and the bot plugin's DNS cache, each a bounded map
  of the kind ScopedStore stands for;
- the web UI and the website.

## Plan

What was planned is modelled, checked and, where the proof system reaches, proved.
Worth doing next:

1. A rollup whose read of its own rows takes the newest first would know the latest
   bucket even when the rows exceed the limit: `tick.whole` could go from
   `RecountsOnlyIfCut`, and `CountedOnce` would become provable.
2. The admin plugin's surface, the ACL and bot plugins' caches and the Limit plugin's
   windows, each of which would be one more instance of a module that is there.
