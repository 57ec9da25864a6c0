----------------------------- MODULE Baselines -----------------------------
(***************************************************************************)
(* What the adaptive learners learned, kept across restarts.  Requests     *)
(* record samples in a process-global registry; a task restores the stored  *)
(* baselines into it and then writes the learners back, every cycle.        *)
(*   src/projection.rs                     AdaptiveBaselineTask             *)
(*   crates/pingap-adaptive/src/plugin.rs  the registry                     *)
(*   crates/pingap-adaptive/src/learner.rs record, baseline, restore        *)
(* A profile is the window of one hour of the day: the hours do not touch   *)
(* one another.  Samples are numbered in the order they are taken, so that  *)
(* the front of the window is its smallest.  Time is counted in days.       *)
(***************************************************************************)
EXTENDS Naturals, FiniteSets

CONSTANTS
    Labels,         \* domain labels
    MaxLearners,    \* AdaptiveRegistry::max_domains
    Limits,         \* values of AdaptiveConfig::max_samples_per_hour
    MaxAge,         \* AdaptiveConfig::max_baseline_age_days
    LateEnable,     \* whether the feature may be off when the process starts
    MaxSamples,     \* bound: samples ever recorded
    MaxDay,         \* bound: the clock
    MaxRestarts     \* bound: process restarts

ASSUME BaselineAssumption ==
    /\ {MaxLearners, MaxAge, MaxRestarts} \subseteq Nat
    /\ MaxDay \in Nat \ {0} /\ MaxSamples \in Nat \ {0}
    /\ Limits \subseteq Nat \ {0} /\ Limits # {}
    /\ LateEnable \in BOOLEAN

VARIABLES
    enabled,    \* GLOBAL_REGISTRY is set
    learners,   \* ::profiles: [profile, at], at 0: learned_at is None
    rows,       \* adaptive_baselines: [profile, at, form]
    limit,      \* AdaptiveRegistry::config.max_samples_per_hour, fixed in a process
    restored,   \* AdaptiveBaselineTask::restored
    persisted,  \* AdaptiveBaselineTask::persisted
    cycle,      \* the task: how far it is, and the labels left
    day, samples, restarts,
    raced       \* ghost: the feature was switched on during this cycle's sweep

baselineVars == <<enabled, limit, learners, rows, restored, persisted, cycle, day, samples, restarts,
                  raced>>
counters == <<day, samples, restarts>>

Empty == [l \in {} |-> 0]
With(f, l, x) == [k \in DOMAIN f \cup {l} |-> IF k = l THEN x ELSE f[k]]
BetweenCycles == [pc |-> "idle", left |-> Empty]

\* a row that an older version wrote (sample 1): profiles of another number, or
\* a payload that does not parse
OldRow(form) == [profile |-> {1}, at |-> 1, form |-> form]
OldRows == {[l \in {k} |-> OldRow(form)] : k \in Labels, form \in {"shape", "torn"}}

BaselineInit ==
    /\ enabled \in {TRUE, ~LateEnable} /\ limit \in Limits
    /\ rows \in {Empty} \cup OldRows
    /\ learners = Empty /\ persisted = Empty
    /\ restored = {}
    /\ cycle = BetweenCycles
    /\ day = 1 /\ samples = 1 /\ restarts = 0 /\ raced = FALSE

-----------------------------------------------------------------------------
(* The data plane.                                                            *)

\* registry_for: an enabled plugin is built, the registry stays from then on
Enable ==
    /\ ~enabled
    /\ enabled' = TRUE
    /\ raced' = (cycle.pc = "restore")
    /\ UNCHANGED <<limit, learners, rows, restored, persisted, cycle, counters>>

NewLearner == [profile |-> {}, at |-> 0]
HasRoom(l) == l \in DOMAIN learners \/ Cardinality(DOMAIN learners) < MaxLearners
Learner(l) == IF l \in DOMAIN learners THEN learners[l] ELSE NewLearner

\* what is left of a window when its front has been popped down to the limit
Windows(S) ==
    {R \in SUBSET S : /\ Cardinality(R) <= limit
                      /\ R = S \/ Cardinality(R) = limit
                      /\ \A x \in R, y \in S \ R : y < x}

\* handle_request: a normal request is recorded, within the domain capacity
Record(l) ==
    /\ enabled /\ HasRoom(l) /\ samples < MaxSamples
    /\ samples' = samples + 1
    /\ \E window \in Windows(Learner(l).profile \cup {samples + 1}) :
         learners' = With(learners, l, [Learner(l) EXCEPT !.profile = window])
    /\ UNCHANGED <<enabled, limit, rows, restored, persisted, cycle, day, restarts, raced>>

\* handle_request: one that was denied, challenged or a bot's only makes the learner
Observe(l) ==
    /\ enabled /\ HasRoom(l) /\ l \notin DOMAIN learners
    /\ learners' = With(learners, l, NewLearner)
    /\ UNCHANGED <<enabled, limit, rows, restored, persisted, cycle, counters, raced>>

-----------------------------------------------------------------------------
(* AdaptiveBaselineTask::execute: restore_sweep, then write_back.             *)

\* list_adaptive_baselines
ListRows ==
    /\ cycle.pc = "idle"
    /\ cycle' = [pc |-> "restore", left |-> rows]
    /\ UNCHANGED <<enabled, limit, learners, rows, restored, persisted, counters, raced>>

\* AdaptiveLearner::restore takes the row, down to the limit, unless its profiles
\* are of another number or it is too old
Aged(row) == day - row.at > MaxAge
Restore(l, row) ==
    \E window \in Windows(row.profile) :
      learners' = With(learners, l, IF row.form = "shape" \/ Aged(row) THEN Learner(l)
                                    ELSE [profile |-> window, at |-> row.at])

Left(l) == [cycle EXCEPT !.left = [k \in DOMAIN @ \ {l} |-> @[k]]]

\* one row of the sweep: skipped when swept before, marked when it does not parse,
\* and left for a later cycle when the feature is off
RestoreRow(l) ==
    /\ cycle.pc = "restore" /\ l \in DOMAIN cycle.left
    /\ cycle' = Left(l)
    /\ LET row == cycle.left[l]
           offered == l \notin restored /\ row.form # "torn" /\ enabled
       IN
       /\ restored' = IF row.form = "torn" \/ enabled THEN restored \cup {l} ELSE restored
       /\ IF offered /\ HasRoom(l) THEN Restore(l, row) ELSE UNCHANGED learners
    /\ UNCHANGED <<enabled, limit, rows, persisted, counters, raced>>

\* AdaptiveLearner::baseline keeps the time it was learned at, or is new
Baseline(l) ==
    [profile |-> learners[l].profile, form |-> "sound",
     at |-> IF learners[l].at = 0 THEN day ELSE learners[l].at]

\* pingap_adaptive::baselines, read in one piece after the sweep
ListLearners ==
    /\ cycle.pc = "restore" /\ cycle.left = Empty
    /\ cycle' = [pc |-> "write", left |-> [l \in DOMAIN learners |-> Baseline(l)]]
    /\ UNCHANGED <<enabled, limit, learners, rows, restored, persisted, counters, raced>>

\* upsert_adaptive_baseline of one that changed
WriteRow(l) ==
    /\ cycle.pc = "write" /\ l \in DOMAIN cycle.left
    /\ cycle' = Left(l)
    /\ LET new == cycle.left[l] IN
       IF l \in DOMAIN persisted /\ persisted[l] = new
       THEN UNCHANGED <<rows, persisted>>
       ELSE rows' = With(rows, l, new) /\ persisted' = With(persisted, l, new)
    /\ UNCHANGED <<enabled, limit, learners, restored, counters, raced>>

CycleEnds ==
    /\ cycle.pc = "write" /\ cycle.left = Empty
    /\ cycle' = BetweenCycles /\ raced' = FALSE
    /\ UNCHANGED <<enabled, limit, learners, rows, restored, persisted, counters>>

\* Mutant: a sweep that fails is logged and the cycle goes on to write back.
WritesAnyway ==
    /\ cycle.pc = "restore"
    /\ cycle' = [cycle EXCEPT !.left = Empty]
    /\ UNCHANGED <<enabled, limit, learners, rows, restored, persisted, counters, raced>>

\* a store call fails, and the cycle with it: nothing is written after a sweep
\* that did not finish
CycleFails ==
    /\ cycle.pc # "idle"
    /\ cycle' = BetweenCycles /\ raced' = FALSE
    /\ UNCHANGED <<enabled, limit, learners, rows, restored, persisted, counters>>

-----------------------------------------------------------------------------
ProcessRestarts ==
    /\ restarts < MaxRestarts
    /\ restarts' = restarts + 1
    /\ enabled' \in {TRUE, ~LateEnable} /\ limit' \in Limits
    /\ learners' = Empty /\ persisted' = Empty /\ restored' = {} /\ cycle' = BetweenCycles
    /\ raced' = FALSE
    /\ UNCHANGED <<rows, day, samples>>

DayPasses ==
    /\ day < MaxDay
    /\ day' = day + 1
    /\ UNCHANGED <<enabled, limit, learners, rows, restored, persisted, cycle, samples, restarts, raced>>

BaselineNext ==
    \/ Enable \/ ListRows \/ ListLearners \/ CycleEnds \/ CycleFails
    \/ ProcessRestarts \/ DayPasses
    \/ \E l \in Labels : Record(l) \/ Observe(l) \/ RestoreRow(l) \/ WriteRow(l)

BaselineSpec == BaselineInit /\ [][BaselineNext]_baselineVars

-----------------------------------------------------------------------------
BaselineTypeOK ==
    /\ enabled \in BOOLEAN /\ limit \in Limits
    /\ DOMAIN learners \subseteq Labels /\ Cardinality(DOMAIN learners) <= MaxLearners
    /\ DOMAIN rows \subseteq Labels /\ restored \subseteq Labels
    /\ \A l \in DOMAIN rows :
         rows[l] \in [profile : SUBSET (1 .. MaxSamples), at : 1 .. MaxDay,
                      form : {"sound", "shape", "torn"}]
    /\ cycle.pc \in {"idle", "restore", "write"}

\* every sample of `old` is in `new`, or a full window of n newer ones has pushed it out
Covers(old, new, n) == \A x \in old : x \in new \/ Cardinality({y \in new : y > x}) >= n

\* rows that the restore rejects: their samples are given up
Unusable(row) == row.form # "sound" \/ Aged(row)

\* What is stored of a domain is never lost to a restart, a failed cycle or a
\* race with requests, the ones that record nothing included: when its row is
\* replaced, each sample is kept or as many newer ones as a window holds are
\* stored in its place, unless the row was too old or no longer of the right
\* form when this process looked at it.  The exception is a feature switched on
\* while the sweep is running, which StoredAlwaysKept counts.
StoredNeverShrinks ==
    [][/\ BaselineTypeOK
       /\ \A l \in DOMAIN rows :
            /\ l \in DOMAIN rows'
            /\ Covers(rows[l].profile, rows'[l].profile, limit) \/ Unusable(rows[l]) \/ raced]_baselineVars

\* restore_baseline's comment: "Called by the startup restore sweep before any
\* write-back, so a fresh process resumes from what it previously learned instead
\* of overwriting it with empty learners".
StoredAlwaysKept ==
    [][\A l \in DOMAIN rows :
         Covers(rows[l].profile, rows'[l].profile, limit) \/ Unusable(rows[l])]_baselineVars

\* projection.rs: "Restoring runs first and once per domain per process [...]
\* re-restoring a domain that has already taken live samples would throw the
\* newer learning away".  Once a cycle of this process has written a domain, no
\* restore takes samples from it.
LearningKept ==
    [][\A l \in DOMAIN learners \cap DOMAIN learners' :
         l \in DOMAIN persisted => Covers(learners[l].profile, learners'[l].profile, limit)]_baselineVars
=============================================================================
