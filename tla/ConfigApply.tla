----------------------------- MODULE ConfigApply -----------------------------
(***************************************************************************)
(* The config projection: how an operator's edit or rollback becomes a     *)
(* config version, is written to storage, is picked up by the data plane,  *)
(* and is confirmed, failed or rolled back.                                *)
(*                                                                         *)
(*   crates/pingap-controlplane/src/projection/apply.rs   Applier          *)
(*   crates/pingap-controlplane/src/store.rs              config_versions  *)
(*   crates/pingap-admin-api/src/routes/intent_resource.rs  edits          *)
(*   pingap-config/src/manager.rs                         save_all         *)
(*   src/process/auto_restart.rs                          hot reload       *)
(*                                                                         *)
(* An intent maps every entry name to a value or to Absent.  A version id  *)
(* is its index in `versions`: ids are UUIDv7, so within one process their *)
(* order is insertion order.                                               *)
(***************************************************************************)
EXTENDS Integers, Sequences, FiniteSets

CONSTANTS
  Domains,      \* entries projected to a location and to a server's route list
  Policies,     \* entries projected to a plugin
  Values,       \* configs an entry can have
  Absent,       \* the entry is not there
  Requests,     \* API requests that can be in flight together
  Mode,         \* ConfigMode of the config manager
  Window,       \* reload window, in clock ticks
  ReadLimit,    \* DEFAULT_READ_LIMIT of list_config_versions
  Faults,       \* which faults may happen
  MaxFaults,    \* bound on their number
  MaxVersions,  \* bound on the number of version rows
  MaxClock      \* bound on the time at which a request starts

Names == Domains \cup Policies

FaultKinds == {"abort", "crash", "commit", "reload", "hand_edit"}

ASSUME DisjointNames == Domains \cap Policies = {}
ASSUME AbsentIsNoValue == Absent \notin Values
ASSUME ModeAssumption == Mode \in {"single", "by_type", "by_item"}
ASSUME FaultAssumption == Faults \subseteq FaultKinds
ASSUME BoundAssumption == /\ Window \in Nat /\ ReadLimit \in Nat
                          /\ MaxFaults \in Nat /\ MaxVersions \in Nat
                          /\ MaxClock \in Nat

VARIABLES
  versions,   \* the config_versions table
  req,        \* per API request: what it has read so far
  op,         \* the holder of the process-global operation lock
  storage,    \* the config files / etcd keys
  current,    \* ConfigManager::current_config, what the last reload loaded
  running,    \* the plugin, location and server-route providers
  clock,      \* wall clock, whole seconds
  faults,     \* faults so far
  confirmed   \* history: the last version that reached `applied`, 0 if none

vars == <<versions, req, op, storage, current, running, clock, faults, confirmed>>

-----------------------------------------------------------------------------
(* Intents, configs and the version table.                                 *)

Intents == [Names -> Values \cup {Absent}]
DefaultIntent == [n \in Names |-> Absent]

(* A config: the plugin and location entries, and the locations the server  *)
(* routes.                                                                  *)
Configs == [items : Intents, list : SUBSET Domains]

(* The config a regenerated intent stands for. *)
Generate(intent) ==
  [items |-> intent, list |-> {d \in Domains : intent[d] # Absent}]

ConfigStatus == {"pending", "applied", "failed", "superseded"}
Versions == [intent : Intents, status : ConfigStatus, created_at : Nat,
             kind : {"edit", "rollback"}, from : Nat]

Ids == DOMAIN versions
StatusOf(v) == versions[v].status
AppliedIds == {v \in Ids : StatusOf(v) = "applied"}

(* ORDER BY created_at DESC, id DESC *)
Newer(v, w) == \/ versions[v].created_at > versions[w].created_at
               \/ versions[v].created_at = versions[w].created_at /\ v > w
NewestOf(v, S) == v \in S /\ \A w \in S \ {v} : Newer(v, w)

(* latest_config_version is `pending` *)
NewestIsPending == \E v \in Ids : NewestOf(v, Ids) /\ StatusOf(v) = "pending"

(* latest_applied_config_version, 0 when there is none *)
LatestApplied == CHOOSE v \in Ids \cup {0} :
                   IF AppliedIds = {} THEN v = 0 ELSE NewestOf(v, AppliedIds)

IntentOf(v) == IF v = 0 THEN DefaultIntent ELSE versions[v].intent

(* list_config_versions: the newest ReadLimit rows *)
Listed == {v \in Ids : Cardinality({w \in Ids : Newer(w, v)}) < ReadLimit}

SetStatus(v, s) == versions' = [versions EXCEPT ![v].status = s]

-----------------------------------------------------------------------------
(* Requests: what happens before the operation lock is taken.              *)

NoRequest == [pc |-> "idle", kind |-> "edit", intent |-> DefaultIntent,
              from |-> 0, now |-> 0]

(* base_intent_snapshot, first read: an unsettled newest version refuses    *)
(* the edit.                                                                *)
CheckBase(r) ==
  /\ req[r].pc = "idle"
  /\ ~NewestIsPending
  /\ req' = [req EXCEPT ![r].pc = "checked"]
  /\ UNCHANGED <<versions, op, storage, current, running, clock, faults, confirmed>>

(* base_intent_snapshot, second read, then one entry is put or removed; a   *)
(* name that is not there cannot be removed.                                *)
PrepareEdit(r) ==
  /\ req[r].pc = "checked"
  /\ clock <= MaxClock
  /\ \E n \in Names, x \in Values \cup {Absent} :
       /\ x = Absent => IntentOf(LatestApplied)[n] # Absent
       /\ req' = [req EXCEPT ![r] =
            [pc |-> "ready", kind |-> "edit",
             intent |-> [IntentOf(LatestApplied) EXCEPT ![n] = x],
             from |-> LatestApplied, now |-> clock]]
  /\ UNCHANGED <<versions, op, storage, current, running, clock, faults, confirmed>>

(* Mutant of PrepareRollback: any version may be rolled back to. *)
RollbackToAny(r) ==
  /\ req[r].pc = "idle"
  /\ clock <= MaxClock
  /\ \E t \in Ids :
       req' = [req EXCEPT ![r] =
         [pc |-> "ready", kind |-> "rollback", intent |-> versions[t].intent,
          from |-> t, now |-> clock]]
  /\ UNCHANGED <<versions, op, storage, current, running, clock, faults, confirmed>>

(* Applier::rollback reads its target outside the operation lock. *)
PrepareRollback(r) ==
  /\ req[r].pc = "idle"
  /\ clock <= MaxClock
  /\ \E t \in Ids :
       /\ StatusOf(t) \in {"applied", "superseded"}
       /\ req' = [req EXCEPT ![r] =
            [pc |-> "ready", kind |-> "rollback", intent |-> versions[t].intent,
             from |-> t, now |-> clock]]
  /\ UNCHANGED <<versions, op, storage, current, running, clock, faults, confirmed>>

-----------------------------------------------------------------------------
(* Under the operation lock.                                               *)

Free == [pc |-> "free", ver |-> 0, prev |-> 0, todo |-> {}]

(* Mutant of BaseIsCurrent: the base is not compared. *)
BaseMayBeStale(r) == ~NewestIsPending

(* apply_if_current's two checks; `apply`, which rollback uses, has none. *)
BaseIsCurrent(r) == /\ ~NewestIsPending
                    /\ req[r].from = LatestApplied
MayProceed(r) == req[r].kind = "edit" => BaseIsCurrent(r)

Release(r) == req' = [req EXCEPT ![r] = NoRequest]

(* PendingVersion or StaleBase: nothing is recorded. *)
Refuse(r) ==
  /\ op = Free
  /\ req[r].pc = "ready"
  /\ ~MayProceed(r)
  /\ Release(r)
  /\ UNCHANGED <<versions, op, storage, current, running, clock, faults, confirmed>>

NewVersion(r, s) ==
  [intent |-> req[r].intent, status |-> s, created_at |-> req[r].now,
   kind |-> req[r].kind, from |-> req[r].from]

(* apply_locked, validation rejected the config: the row is born failed and *)
(* nothing is written.                                                      *)
RecordRejected(r) ==
  /\ op = Free
  /\ req[r].pc = "ready"
  /\ MayProceed(r)
  /\ Len(versions) < MaxVersions
  /\ versions' = Append(versions, NewVersion(r, "failed"))
  /\ Release(r)
  /\ UNCHANGED <<op, storage, current, running, clock, faults, confirmed>>

(* Mutant of RecordPending: the operation lock is not taken. *)
RecordUnlocked(r) ==
  /\ req[r].pc = "ready"
  /\ MayProceed(r)
  /\ Len(versions) < MaxVersions
  /\ versions' = Append(versions, NewVersion(r, "pending"))
  /\ op' = [pc |-> "commit", ver |-> Len(versions) + 1, prev |-> LatestApplied,
            todo |-> {}]
  /\ Release(r)
  /\ UNCHANGED <<storage, current, running, clock, faults, confirmed>>

(* apply_locked up to the commit: the row is born pending, and the previous *)
(* applied version is read.  An error of the audit write in between is an   *)
(* Abort at `commit`.                                                       *)
RecordPending(r) ==
  /\ op = Free
  /\ req[r].pc = "ready"
  /\ MayProceed(r)
  /\ Len(versions) < MaxVersions
  /\ versions' = Append(versions, NewVersion(r, "pending"))
  /\ op' = [pc |-> "commit", ver |-> Len(versions) + 1, prev |-> LatestApplied,
            todo |-> {}]
  /\ Release(r)
  /\ UNCHANGED <<storage, current, running, clock, faults, confirmed>>

(* save_all.  In the by_item layout it writes one file or key per entry and *)
(* removes none.                                                            *)
Saved(disk, intent) ==
  [items |-> [n \in Names |->
                IF Mode = "by_item" /\ intent[n] = Absent THEN disk.items[n]
                                                          ELSE intent[n]],
   list |-> Generate(intent).list]

(* What a save_all cut short leaves behind: servers are written first, then *)
(* locations, then plugins, a category or an entry at a time.  A single     *)
(* file is written in one call.                                             *)
WrittenFirst ==
  IF Mode = "by_type" THEN {{}, Domains, Names}
  ELSE {S \in SUBSET Names : S \cap Policies # {} => Domains \subseteq S}

PartlySaved(disk, intent) ==
  IF Mode = "single" THEN {disk}
  ELSE {[items |-> [n \in Names |-> IF n \in S THEN Saved(disk, intent).items[n]
                                               ELSE disk.items[n]],
         list |-> Saved(disk, intent).list] : S \in WrittenFirst}
       \cup {disk}

Fault(kind) == /\ kind \in Faults
               /\ faults < MaxFaults
               /\ faults' = faults + 1

(* The next pending version of a sweep, or the end of the operation. *)
Done == op' = IF op.todo = {} THEN Free ELSE [op EXCEPT !.pc = "next"]

(* Mutant of Commit: the previous version is superseded at once. *)
CommitSupersedes ==
  /\ op.pc = "commit"
  /\ storage' = Saved(storage, versions[op.ver].intent)
  /\ IF op.prev = 0 THEN UNCHANGED versions ELSE SetStatus(op.prev, "superseded")
  /\ op' = [op EXCEPT !.pc = "verify"]
  /\ UNCHANGED <<req, current, running, clock, faults, confirmed>>

Commit ==
  /\ op.pc = "commit"
  /\ storage' = Saved(storage, versions[op.ver].intent)
  /\ op' = [op EXCEPT !.pc = "verify"]
  /\ UNCHANGED <<versions, req, current, running, clock, faults, confirmed>>

(* Mutant of CommitError: the row is deleted. *)
CommitErrorDeletes ==
  /\ op.pc = "commit"
  /\ Fault("commit")
  /\ storage' \in PartlySaved(storage, versions[op.ver].intent)
  /\ versions' = SubSeq(versions, 1, Len(versions) - 1)
  /\ op' = Free
  /\ UNCHANGED <<req, current, running, clock, confirmed>>

CommitError ==
  /\ op.pc = "commit"
  /\ Fault("commit")
  /\ storage' \in PartlySaved(storage, versions[op.ver].intent)
  /\ SetStatus(op.ver, "failed")
  /\ op' = Free
  /\ UNCHANGED <<req, current, running, clock, confirmed>>

(* runtime_mismatches: every projected plugin and location must run with    *)
(* its config, and the server must route exactly the projected locations.   *)
(* An entry the projection does not name is not looked at.                  *)
Mismatch(intent) ==
  \/ \E n \in Names : intent[n] # Absent /\ running.items[n] # intent[n]
  \/ running.list # Generate(intent).list

(* Mutant of SettleSupersede: the previous version stays applied. *)
SettleKeepsPrevious ==
  /\ op.pc = "verify"
  /\ ~Mismatch(versions[op.ver].intent)
  /\ op' = [op EXCEPT !.pc = "confirm"]
  /\ UNCHANGED <<versions, req, storage, current, running, clock, faults, confirmed>>

(* settle, no mismatch, first write: the previous version is superseded. *)
SettleSupersede ==
  /\ op.pc = "verify"
  /\ ~Mismatch(versions[op.ver].intent)
  /\ IF op.prev = 0 THEN UNCHANGED versions ELSE SetStatus(op.prev, "superseded")
  /\ op' = [op EXCEPT !.pc = "confirm"]
  /\ UNCHANGED <<req, storage, current, running, clock, faults, confirmed>>

(* settle, second write: the version is applied. *)
SettleApply ==
  /\ op.pc = "confirm"
  /\ SetStatus(op.ver, "applied")
  /\ confirmed' = op.ver
  /\ Done
  /\ UNCHANGED <<req, storage, current, running, clock, faults>>

(* Mutant of SettleFail: the version is not marked. *)
SettleFailForgets ==
  /\ op.pc = "verify"
  /\ Mismatch(versions[op.ver].intent)
  /\ IF op.prev = 0 THEN Done ELSE op' = [op EXCEPT !.pc = "restore"]
  /\ UNCHANGED <<versions, req, storage, current, running, clock, faults, confirmed>>

(* settle, mismatch: the version failed; without a previous one that is all. *)
SettleFail ==
  /\ op.pc = "verify"
  /\ Mismatch(versions[op.ver].intent)
  /\ SetStatus(op.ver, "failed")
  /\ IF op.prev = 0 THEN Done ELSE op' = [op EXCEPT !.pc = "restore"]
  /\ UNCHANGED <<req, storage, current, running, clock, faults, confirmed>>

(* Mutant of Restore: the failed config stays in storage. *)
RestoreNothing ==
  /\ op.pc = "restore"
  /\ op' = [op EXCEPT !.pc = "recheck"]
  /\ UNCHANGED <<versions, req, storage, current, running, clock, faults, confirmed>>

Restore ==
  /\ op.pc = "restore"
  /\ storage' = Saved(storage, versions[op.prev].intent)
  /\ op' = [op EXCEPT !.pc = "recheck"]
  /\ UNCHANGED <<versions, req, current, running, clock, faults, confirmed>>

(* An error ends the operation, and with it the rest of a sweep. *)
RestoreError ==
  /\ op.pc = "restore"
  /\ Fault("commit")
  /\ storage' \in PartlySaved(storage, versions[op.prev].intent)
  /\ op' = Free
  /\ UNCHANGED <<versions, req, current, running, clock, confirmed>>

Recheck ==
  /\ op.pc = "recheck"
  /\ IF Mismatch(versions[op.prev].intent) THEN op' = Free ELSE Done
  /\ UNCHANGED <<versions, req, storage, current, running, clock, faults, confirmed>>

(* Mutant of Stranded: settled rows are swept as well. *)
StrandedAny == {v \in Listed : clock - versions[v].created_at > Window}

(* settle_pending: try_lock, then every listed pending row older than the   *)
(* window, newest first.                                                    *)
Stranded == {v \in Listed : /\ StatusOf(v) = "pending"
                            /\ clock - versions[v].created_at > Window}

SettlePending ==
  /\ op = Free
  /\ Stranded # {}
  /\ op' = [Free EXCEPT !.pc = "next", !.todo = Stranded]
  /\ UNCHANGED <<versions, req, storage, current, running, clock, faults, confirmed>>

SettleNext ==
  /\ op.pc = "next"
  /\ \E v \in op.todo :
       /\ NewestOf(v, op.todo)
       /\ op' = [pc |-> "verify", ver |-> v, prev |-> LatestApplied,
                 todo |-> op.todo \ {v}]
  /\ UNCHANGED <<versions, req, storage, current, running, clock, faults, confirmed>>

-----------------------------------------------------------------------------
(* The data plane.                                                         *)

(* PingapConfig::validate: a server may only name locations that exist. *)
Valid(cfg) == \A d \in cfg.list : cfg.items[d] # Absent

Dirty(S) == \E n \in S : storage.items[n] # current.items[n]

(* diff_and_update_config.  A category whose entries differ from the        *)
(* current config is rebuilt: locations all or none, plugins one by one (a  *)
(* plugin whose constructor fails is left out).  The current config becomes *)
(* the stored one whatever failed, so nothing is retried.                   *)
ReloadWith(badPolicies, locationsFail) ==
  /\ running' =
       [items |-> [n \in Names |->
          IF n \in Policies
            THEN IF ~Dirty(Policies) THEN running.items[n]
                 ELSE IF n \in badPolicies THEN Absent ELSE storage.items[n]
            ELSE IF ~Dirty(Domains) \/ locationsFail THEN running.items[n]
                 ELSE storage.items[n]],
        list |-> IF storage.list # current.list THEN storage.list ELSE running.list]
  /\ current' = storage
  /\ UNCHANGED <<versions, req, op, storage, clock, confirmed>>

Reload ==
  /\ storage # current
  /\ Valid(storage)
  /\ ReloadWith({}, FALSE)
  /\ UNCHANGED faults

ReloadPartly ==
  /\ storage # current
  /\ Valid(storage)
  /\ Fault("reload")
  /\ \E bad \in SUBSET Policies, locationsFail \in BOOLEAN :
       ReloadWith(bad, locationsFail)

(* Somebody edits the stored config past the control plane. *)
HandEdit ==
  /\ Fault("hand_edit")
  /\ \E n \in Policies, x \in Values \cup {Absent} :
       storage' = [storage EXCEPT !.items[n] = x]
  /\ UNCHANGED <<versions, req, op, current, running, clock, confirmed>>

-----------------------------------------------------------------------------
(* Time, cancellation and crashes.                                         *)

Tick ==
  /\ clock <= MaxClock + Window
  /\ clock' = clock + 1
  /\ UNCHANGED <<versions, req, op, storage, current, running, faults, confirmed>>

(* Where an operation that stops leaves the files it was writing. *)
CutShort ==
  CASE op.pc = "commit"  -> PartlySaved(storage, versions[op.ver].intent)
    [] op.pc = "restore" -> PartlySaved(storage, versions[op.prev].intent)
    [] OTHER             -> {storage}

(* A store error or a dropped request ends the operation at an await; the   *)
(* lock guard is dropped with it.                                           *)
Abort ==
  /\ op # Free
  /\ Fault("abort")
  /\ storage' \in CutShort
  /\ op' = Free
  /\ UNCHANGED <<versions, req, current, running, clock, confirmed>>

(* The process dies and boots again from storage.  A config that does not    *)
(* validate ends the boot: the process is down until storage is repaired by *)
(* hand, which is not modelled.                                             *)
Crash ==
  /\ Fault("crash")
  /\ storage' \in CutShort
  /\ Valid(storage')
  /\ op' = Free
  /\ req' = [r \in Requests |-> NoRequest]
  /\ current' = storage'
  /\ running' = storage'
  /\ UNCHANGED <<versions, clock, confirmed>>

-----------------------------------------------------------------------------
Init ==
  /\ versions = << >>
  /\ req = [r \in Requests |-> NoRequest]
  /\ op = Free
  /\ storage = Generate(DefaultIntent)
  /\ current = storage
  /\ running = storage
  /\ clock = 0
  /\ faults = 0
  /\ confirmed = 0

Request(r) == \/ CheckBase(r) \/ PrepareEdit(r) \/ PrepareRollback(r)
              \/ Refuse(r) \/ RecordRejected(r) \/ RecordPending(r)

Operation == \/ Commit \/ CommitError
             \/ SettleSupersede \/ SettleApply \/ SettleFail
             \/ Restore \/ RestoreError \/ Recheck
             \/ SettleNext

Next == \/ \E r \in Requests : Request(r)
        \/ Operation
        \/ SettlePending
        \/ Reload \/ ReloadPartly \/ HandEdit
        \/ Tick \/ Abort \/ Crash

Spec == Init /\ [][Next]_vars

(* The reload service polls, the sweep runs every minute and an operation    *)
(* that holds the lock is driven by the runtime until it ends.               *)
Fairness == /\ WF_vars(Operation)
            /\ WF_vars(SettlePending)
            /\ WF_vars(Reload)
            /\ WF_vars(Tick)

FairSpec == Spec /\ Fairness

-----------------------------------------------------------------------------
(* Properties.                                                              *)

TypeOK ==
  /\ versions \in Seq(Versions)
  /\ req \in [Requests -> [pc : {"idle", "checked", "ready"},
                           kind : {"edit", "rollback"}, intent : Intents,
                           from : Nat, now : Nat]]
  /\ op \in [pc : {"free", "commit", "verify", "confirm", "restore", "recheck", "next"},
             ver : Nat, prev : Nat, todo : SUBSET Nat]
  /\ storage \in Configs /\ current \in Configs /\ running \in Configs
  /\ clock \in Nat /\ faults \in Nat /\ confirmed \in Nat

(* latest_applied_config_version is the edit base, the rollback fallback and *)
(* the drift baseline: whatever is cut short, there are never two of them.   *)
AtMostOneApplied ==
  \A v, w \in Ids : StatusOf(v) = "applied" /\ StatusOf(w) = "applied" => v = w

(* What the holder of the operation lock may rely on between its awaits: the *)
(* version it settles is still pending, the previous version it read is the  *)
(* only applied one (none is, once it has been superseded), and the rows a   *)
(* sweep has yet to settle are still pending.                                *)
LockHolder ==
  /\ op.pc = "free" => op = Free
  /\ \A v \in op.todo : v \in Ids /\ StatusOf(v) = "pending"
  /\ op.pc \in {"commit", "verify", "confirm"} =>
       op.ver \in Ids /\ StatusOf(op.ver) = "pending" /\ op.ver \notin op.todo
  /\ op.pc \in {"commit", "verify", "restore", "recheck"} =>
       /\ op.prev = 0 \/ op.prev \in AppliedIds
       /\ \A v \in AppliedIds : v = op.prev
  /\ op.pc \in {"restore", "recheck"} => op.prev # 0
  /\ op.pc = "confirm" => AppliedIds = {}

(* The table and the lock together; it is inductive. *)
Inv == TypeOK /\ AtMostOneApplied /\ LockHolder

(* Rollback checks its target before it takes the lock.  Every rollback that *)
(* got a row restores a version that was confirmed, and still counts as one. *)
RollbackTargetConfirmed ==
  \A v \in Ids : versions[v].kind = "rollback" =>
    /\ versions[v].from \in Ids
    /\ StatusOf(versions[v].from) \in {"applied", "superseded"}
    /\ versions[v].intent = versions[versions[v].from].intent

(* apply_if_current and settle: two edits prepared from the same version are *)
(* never both confirmed with one change dropped.  An edit changes one entry, *)
(* so what it confirms differs from what was confirmed last in at most one.  *)
NoLostUpdate ==
  [][\A v \in Ids :
       /\ StatusOf(v) = "pending" /\ versions'[v].status = "applied"
       /\ versions[v].kind = "edit"
       => \A m, n \in Names :
            /\ versions[v].intent[m] # IntentOf(confirmed)[m]
            /\ versions[v].intent[n] # IntentOf(confirmed)[n]
            => m = n]_vars

(* docs/config-projection.md: a superseded version "was applied, and a later *)
(* version has since been confirmed".  It may have been an earlier one: after *)
(* an operation that was cut short the sweep settles an older row whose      *)
(* config runs and supersedes a newer one with it.                           *)
ConfirmedInOrder ==
  [][confirmed' < confirmed => IntentOf(confirmed') = IntentOf(confirmed)]_vars

(* settle and settle_pending only move a version pending -> applied ->       *)
(* superseded or pending -> failed, and no row is lost or rewritten.         *)
LifeCycle ==
  [][\A v \in Ids :
       /\ v \in DOMAIN versions'
       /\ versions'[v] = [versions[v] EXCEPT !.status = versions'[v].status]
       /\ StatusOf(v) # versions'[v].status =>
            <<StatusOf(v), versions'[v].status>> \in
              {<<"pending", "applied">>, <<"pending", "failed">>,
               <<"applied", "superseded">>}]_vars

(* intent_resource.rs: an edit is based on the newest confirmed version;     *)
(* "basing it on nothing would silently drop everything an operator had      *)
(* configured".  Once something was confirmed, an edit has a base.           *)
EditBaseKept ==
  \A r \in Requests :
    op = Free /\ req[r].pc = "ready" /\ req[r].kind = "edit" /\ BaseIsCurrent(r)
      => confirmed = 0 \/ req[r].from # 0

(* DriftDetector::check finds nothing while no operation is under way: the   *)
(* stored config is exactly what the applied version's intent generates.     *)
StoredIsApplied ==
  op = Free /\ LatestApplied # 0 =>
    storage = Generate(IntentOf(LatestApplied))

(* The sweep settles every stranded version: no row stays pending forever.   *)
PendingIsSettled ==
  \A v \in 1..MaxVersions :
    (v \in Ids /\ StatusOf(v) = "pending") ~> (v \in Ids /\ StatusOf(v) # "pending")

\* the table, row by row, as its readers see it
Statuses == [v \in Ids |-> StatusOf(v)]
Ledger == INSTANCE VersionLedger WITH ledger <- Statuses

(* The version table is the ledger its readers rely on: what apply, rollback *)
(* and the sweep do to it, cut short anywhere, is what VersionLedger allows. *)
ImplementsLedger == Ledger!Spec
=============================================================================
