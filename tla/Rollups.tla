------------------------------ MODULE Rollups ------------------------------
(***************************************************************************)
(* The rollup of WAF findings into per-minute metric rows.  Every tick the *)
(* task reads the rows it has, reads the findings, and inserts the rows of  *)
(* the buckets after the newest it saw; findings are stored meanwhile.      *)
(*   src/projection.rs                        rollup_window, WafMetricsTask *)
(*   crates/pingap-controlplane/src/metrics/  rollup, retention             *)
(*   crates/pingap-controlplane/src/store.rs  the four statements           *)
(* Time counts buckets; a finding carries the bucket it was made in and is  *)
(* stored later, by the event writer.                                       *)
(***************************************************************************)
EXTENDS Naturals, FiniteSets

CONSTANTS
    Nodes,          \* node names findings are stamped with
    Findings,       \* findings that may be made
    RollupWindow,   \* ROLLUP_EVENT_WINDOW_SECS, in buckets
    RollupReads,    \* ROLLUP_READ_LIMIT, of rows and of findings
    RowsPerBucket,  \* metrics of a bucket, a row each
    KeepFindings,   \* Retention::waf_events, in buckets
    KeepRows,       \* Retention::performance_metrics, in buckets
    MaxBucket,      \* bound: the clock
    MaxTickFailures \* bound: ticks that fail on the store

ASSUME RollupAssumption ==
    /\ {RollupWindow, RollupReads, RowsPerBucket, KeepFindings, KeepRows, MaxBucket,
        MaxTickFailures} \subseteq Nat
    /\ KeepFindings >= RollupWindow /\ KeepRows >= RollupWindow
    /\ MaxBucket > 0 /\ RowsPerBucket > 0

VARIABLES
    bucket,     \* bucket_start(now)
    finding,    \* the findings made: [node, bucket, at]
    rolled,     \* performance_metrics: the rows, [node, bucket, metric]
    tick,       \* the task: how far it is, its `now`, `latest` and the findings it kept
                \* (and, a ghost, whether it read all its rows)
    tickFails,
    \* ghosts
    counted,    \* how often each finding is in a row; bound: 2 is twice or more
    timely      \* findings stored while their bucket was still open

rollupVars == <<bucket, finding, rolled, tick, tickFails, counted, timely>>

NoTick == [pc |-> "idle", now |-> 0, latest |-> [n \in Nodes |-> 0], kept |-> {},
           whole |-> FALSE]

\* buckets start at 1: 0 is no bucket
RollupInit ==
    /\ bucket = 1
    /\ finding = [f \in {} |-> 0]
    /\ rolled = {}
    /\ tick = NoTick
    /\ tickFails = 0
    /\ counted = [f \in Findings |-> 0]
    /\ timely = {}

-----------------------------------------------------------------------------
Make(f, n) ==
    /\ f \notin DOMAIN finding
    /\ finding' = [g \in DOMAIN finding \cup {f} |->
                     IF g = f THEN [node |-> n, bucket |-> bucket, at |-> "queue"] ELSE finding[g]]
    /\ UNCHANGED <<bucket, rolled, tick, tickFails, counted, timely>>

\* record_waf_events, one transaction of the event writer
StoreFinding(f) ==
    /\ f \in DOMAIN finding /\ finding[f].at = "queue"
    /\ finding' = [finding EXCEPT ![f].at = "table"]
    /\ timely' = IF finding[f].bucket = bucket THEN timely \cup {f} ELSE timely
    /\ UNCHANGED <<bucket, rolled, tick, tickFails, counted>>

BucketCloses ==
    /\ bucket < MaxBucket
    /\ bucket' = bucket + 1
    /\ UNCHANGED <<finding, rolled, tick, tickFails, counted, timely>>

-----------------------------------------------------------------------------
(* WafMetricsTask::execute                                                    *)

MaxOf(S) == IF S = {} THEN 0 ELSE CHOOSE x \in S : \A y \in S : y <= x

\* ORDER BY bucket_start ASC LIMIT: the oldest that fit, in any order within a bucket
Oldest(rows, n) ==
    {R \in SUBSET rows :
       /\ Cardinality(R) <= n
       /\ R = rows \/ Cardinality(R) = n
       /\ \A q \in R, r \in rows \ R : q.bucket <= r.bucket}

\* read_performance_metrics of the last KeepRows buckets: the newest bucket per node
ReadLatest ==
    /\ tick.pc = "idle"
    /\ LET rows == {r \in rolled : r.bucket + KeepRows >= bucket} IN
       \E seen \in Oldest(rows, RollupReads) :
         tick' = [NoTick EXCEPT !.pc = "events", !.now = bucket, !.whole = (seen = rows),
                    !.latest = [n \in Nodes |->
                                  MaxOf({r.bucket : r \in {q \in seen : q.node = n}})]]
    /\ UNCHANGED <<bucket, finding, rolled, tickFails, counted, timely>>

\* Mutant: the window reaches into the bucket that is still open.
InOpenWindow(b, now) == b <= now /\ b + RollupWindow >= now

\* rollup_window: the buckets already closed at `now`, up to a day back
InRollupWindow(b, now) == b <= now - 1 /\ b + RollupWindow >= now

\* the findings a read at `now` is about
Candidates(now) ==
    {f \in DOMAIN finding : finding[f].at = "table" /\ InRollupWindow(finding[f].bucket, now)}

\* ORDER BY created_at DESC LIMIT: the newest that fit, in any order within a bucket
Newest(S, n) ==
    {R \in SUBSET S :
       /\ Cardinality(R) <= n
       /\ R = S \/ Cardinality(R) = n
       /\ \A f \in R, g \in S \ R : finding[f].bucket >= finding[g].bucket}

\* Mutant: the newest bucket itself is taken again.
FromLatest(f) == finding[f].bucket >= tick.latest[finding[f].node]

\* the filter on `latest`
AfterLatest(f) == finding[f].bucket > tick.latest[finding[f].node]

\* read_waf_events
ReadFindings ==
    /\ tick.pc = "events"
    /\ \E read \in Newest(Candidates(tick.now), RollupReads) :
         tick' = [tick EXCEPT !.pc = "record", !.kept = {f \in read : AfterLatest(f)}]
    /\ UNCHANGED <<bucket, finding, rolled, tickFails, counted, timely>>

\* record_performance_metrics: the rows of every node and bucket, in one
\* transaction.  A row that is there already is inserted again; bound: the copies
\* are not told apart.
RecordRows ==
    /\ tick.pc = "record"
    /\ rolled' = rolled \cup {[node |-> finding[f].node, bucket |-> finding[f].bucket,
                               metric |-> m] : f \in tick.kept, m \in 1 .. RowsPerBucket}
    /\ counted' = [f \in Findings |-> IF f \in tick.kept /\ counted[f] < 2
                                      THEN counted[f] + 1 ELSE counted[f]]
    /\ tick' = [NoTick EXCEPT !.pc = "sweep", !.now = tick.now]
    /\ UNCHANGED <<bucket, finding, tickFails, timely>>

\* metrics::sweep: prune_waf_events ...
SweepFindings ==
    /\ tick.pc = "sweep"
    /\ finding' = [f \in DOMAIN finding |->
                     IF finding[f].at = "table" /\ finding[f].bucket + KeepFindings < tick.now
                     THEN [finding[f] EXCEPT !.at = "pruned"] ELSE finding[f]]
    /\ tick' = [tick EXCEPT !.pc = "prune"]
    /\ UNCHANGED <<bucket, rolled, tickFails, counted, timely>>

\* ... then prune_performance_metrics, with no transaction around the two
SweepRows ==
    /\ tick.pc = "prune"
    /\ rolled' = {r \in rolled : r.bucket + KeepRows >= tick.now}
    /\ tick' = NoTick
    /\ UNCHANGED <<bucket, finding, tickFails, counted, timely>>

\* any of the store calls fails and the tick with it
TickFails ==
    /\ tick.pc # "idle" /\ tickFails < MaxTickFailures
    /\ tickFails' = tickFails + 1
    /\ tick' = NoTick
    /\ UNCHANGED <<bucket, finding, rolled, counted, timely>>

RollupTick == ReadLatest \/ ReadFindings \/ RecordRows \/ SweepFindings \/ SweepRows

RollupNext ==
    \/ \E f \in Findings : StoreFinding(f) \/ \E n \in Nodes : Make(f, n)
    \/ BucketCloses \/ RollupTick \/ TickFails

\* Minutes pass, and the service runs the task every tick.
RollupFairness == WF_rollupVars(BucketCloses) /\ WF_rollupVars(RollupTick)

RollupSpec == RollupInit /\ [][RollupNext]_rollupVars /\ RollupFairness

-----------------------------------------------------------------------------
RollupTypeOK ==
    /\ bucket \in 1 .. MaxBucket
    /\ DOMAIN finding \subseteq Findings
    /\ \A f \in DOMAIN finding :
         finding[f] \in [node : Nodes, bucket : 1 .. MaxBucket, at : {"queue", "table", "pruned"}]
    /\ rolled \subseteq [node : Nodes, bucket : 1 .. MaxBucket, metric : 1 .. RowsPerBucket]
    /\ tick.pc \in {"idle", "events", "record", "sweep", "prune"}
    /\ tickFails \in 0 .. MaxTickFailures
    /\ counted \in [Findings -> 0 .. 2] /\ timely \subseteq DOMAIN finding

\* The task keeps no mark of what it has counted: it finds out from its rows, and
\* findings are stored between its two reads.  Whatever ticks fail, whatever was
\* counted twice before and whatever the retention took, a tick that read all its
\* rows records no finding again.
RecountsOnlyIfCut ==
    /\ RollupTypeOK
    /\ tick.pc = "record" /\ tick.whole => \A f \in tick.kept : counted[f] = 0

\* No finding is in two rows of a metric.  Not so once the rows of the retention
\* exceed the limit: the read takes the oldest, and `latest` is an old bucket.
CountedOnce == \A f \in Findings : counted[f] <= 1

\* the window has moved past it, or the clock's bound keeps its bucket open
Missed(f) ==
    /\ f \in DOMAIN finding
    /\ finding[f].bucket + RollupWindow < bucket \/ finding[f].bucket = MaxBucket

\* A finding that was stored while its bucket was open is counted at some tick of
\* its window, however the ticks before failed and whatever rows they read: its
\* bucket is never rolled half full.  (The findings fit the read limit, and the
\* clock leaves the task a tick in the window.)
FindingsCounted ==
    \A f \in Findings : f \in timely ~> counted[f] > 0 \/ Missed(f)
=============================================================================
