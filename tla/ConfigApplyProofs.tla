-------------------------- MODULE ConfigApplyProofs --------------------------
(***************************************************************************)
(* Proofs about ConfigApply, for any number of entries, requests, versions *)
(* and faults.  The inductive invariant is TypeOK, AtMostOneApplied and    *)
(* LockHolder together: that at most one version is applied rests on what  *)
(* the holder of the operation lock knows between two of its steps.        *)
(*                                                                         *)
(* What follows from it for every fault: the life cycle of a version, the  *)
(* refinement of VersionLedger and the targets of rollbacks.  What needs   *)
(* operations to run to their end (Uninterrupted): ConfirmedOK says which  *)
(* version the history variable `confirmed` is while an operation goes     *)
(* through its steps and EditsOK what an edit may differ from its base in. *)
(* If storage is written by nothing else and no write fails (Undisturbed), *)
(* StorageOK says what it holds at each step.                              *)
(***************************************************************************)
EXTENDS ConfigApply, TLAPS

(* Version ids start at 1, so 0 can stand for "no version". *)
LEMMA IdsArePositive ==
  ASSUME TypeOK
  PROVE  /\ Ids = 1..Len(versions) /\ Len(versions) \in Nat
         /\ 0 \notin Ids /\ Ids \subseteq Nat
         /\ \A v \in Ids : versions[v] \in Versions
BY DEF TypeOK, Ids

(* latest_applied_config_version, when there is at most one applied row. *)
LEMMA LatestAppliedIs ==
  ASSUME TypeOK, AtMostOneApplied
  PROVE  /\ LatestApplied \in Nat
         /\ LatestApplied = 0 \/ LatestApplied \in AppliedIds
         /\ \A v \in AppliedIds : v = LatestApplied
<1>1. 0 \notin Ids /\ Ids \subseteq Nat
  BY IdsArePositive
<1>2. CASE AppliedIds = {}
  <2>1. \E v \in Ids \cup {0} :
          IF AppliedIds = {} THEN v = 0 ELSE NewestOf(v, AppliedIds)
    BY <1>2
  <2>2. LatestApplied = 0
    BY <2>1, <1>2 DEF LatestApplied
  <2> QED BY <2>2, <1>2
<1>3. CASE AppliedIds # {}
  <2>1. PICK a : a \in AppliedIds
    BY <1>3
  <2>2. AppliedIds = {a}
    BY <2>1 DEF AtMostOneApplied, AppliedIds
  <2>3. a \in Ids /\ NewestOf(a, AppliedIds)
    BY <2>2 DEF NewestOf, AppliedIds
  <2>4. LatestApplied \in Ids \cup {0} /\ NewestOf(LatestApplied, AppliedIds)
    BY <2>3, <1>3 DEF LatestApplied
  <2>5. LatestApplied \in AppliedIds
    BY <2>4 DEF NewestOf
  <2> QED BY <2>2, <2>5, <1>1 DEF AppliedIds
<1> QED BY <1>2, <1>3

(* set_config_version_status changes one status and nothing else. *)
LEMMA SetStatusKeeps ==
  ASSUME versions \in Seq(Versions), NEW v \in Ids, NEW s \in ConfigStatus,
         SetStatus(v, s)
  PROVE  /\ versions' \in Seq(Versions)
         /\ Ids' = Ids
         /\ versions'[v] = [versions[v] EXCEPT !.status = s]
         /\ versions'[v].status = s
         /\ \A w \in Ids : w # v => versions'[w] = versions[w]
<1> DEFINE x == [versions[v] EXCEPT !.status = s]
<1>1. versions[v] \in Versions /\ v \in 1..Len(versions)
  BY DEF Ids
<1>2. x \in Versions /\ x.status = s
  BY <1>1 DEF Versions
<1>3. versions' = [versions EXCEPT ![v] = x]
  BY DEF SetStatus
<1> HIDE DEF x
<1>4. versions' \in Seq(Versions) /\ Len(versions') = Len(versions)
  BY <1>1, <1>2, <1>3
<1>5. versions'[v] = x /\ \A w \in Ids : w # v => versions'[w] = versions[w]
  BY <1>1, <1>3 DEF Ids
<1>6. Ids' = Ids
  BY <1>3 DEF Ids
<1> QED BY <1>2, <1>4, <1>5, <1>6 DEF x

(* record_config_version appends one row and leaves the others alone. *)
LEMMA AppendKeeps ==
  ASSUME versions \in Seq(Versions), NEW x \in Versions,
         versions' = Append(versions, x)
  PROVE  /\ versions' \in Seq(Versions)
         /\ Ids' = Ids \cup {Len(versions) + 1}
         /\ Len(versions) + 1 \notin Ids
         /\ versions'[Len(versions) + 1] = x
         /\ \A w \in Ids : versions'[w] = versions[w]
BY DEF Ids

LEMMA GeneratedIsConfig ==
  ASSUME NEW intent \in Intents
  PROVE  Generate(intent) \in Configs
BY DEF Generate, Configs

LEMMA DefaultIsIntent == DefaultIntent \in Intents
BY DEF DefaultIntent, Intents

(* save_all, complete or cut short, leaves a config. *)
LEMMA SavedIsConfig ==
  ASSUME NEW disk \in Configs, NEW intent \in Intents
  PROVE  /\ Saved(disk, intent) \in Configs
         /\ PartlySaved(disk, intent) \subseteq Configs
BY DEF Saved, PartlySaved, Generate, Configs, Intents

LEMMA IntentOfIsIntent ==
  ASSUME TypeOK, NEW v \in Ids \cup {0}
  PROVE  IntentOf(v) \in Intents
BY IdsArePositive, DefaultIsIntent DEF IntentOf, Versions

LEMMA NewVersionIsVersion ==
  ASSUME TypeOK, NEW r \in Requests, NEW s \in ConfigStatus
  PROVE  NewVersion(r, s) \in Versions /\ NewVersion(r, s).status = s
BY DEF TypeOK, NewVersion, Versions

LEMMA FreeIsOp ==
  Free \in [pc : {"free", "commit", "verify", "confirm", "restore", "recheck", "next"},
            ver : Nat, prev : Nat, todo : SUBSET Nat]
BY DEF Free

LEMMA NoRequestIsRequest ==
  NoRequest \in [pc : {"idle", "checked", "ready"}, kind : {"edit", "rollback"},
                 intent : Intents, from : Nat, now : Nat]
BY DefaultIsIntent DEF NoRequest

(* Steps of requests, of the data plane and of the clock leave the version   *)
(* table and the lock holder alone.                                          *)
LEMMA TableUntouched ==
  ASSUME Inv, UNCHANGED <<versions, op>>
  PROVE  AtMostOneApplied' /\ LockHolder'
BY DEF Inv, AtMostOneApplied, LockHolder, AppliedIds, StatusOf, Ids, Free

(* An operation that ends without a write leaves the table as it was. *)
LEMMA LockReleased ==
  ASSUME Inv, UNCHANGED versions, op' = Free
  PROVE  AtMostOneApplied' /\ LockHolder'
BY DEF Inv, AtMostOneApplied, LockHolder, AppliedIds, StatusOf, Ids, Free

(* Types: requests. *)
LEMMA TypeOfRequest ==
  ASSUME Inv, NEW r \in Requests, Request(r)
  PROVE  TypeOK'
<1> USE DEF Inv
<1>0. /\ LatestApplied \in Nat /\ LatestApplied \in Ids \cup {0}
      /\ IntentOf(LatestApplied) \in Intents
  BY LatestAppliedIs, IntentOfIsIntent DEF AppliedIds
<1>1. CASE CheckBase(r)
  BY <1>1 DEF CheckBase, TypeOK
<1>2. CASE PrepareEdit(r)
  <2>1. PICK n \in Names, x \in Values \cup {Absent} :
          req' = [req EXCEPT ![r] =
            [pc |-> "ready", kind |-> "edit",
             intent |-> [IntentOf(LatestApplied) EXCEPT ![n] = x],
             from |-> LatestApplied, now |-> clock]]
    BY <1>2 DEF PrepareEdit
  <2>2. [IntentOf(LatestApplied) EXCEPT ![n] = x] \in Intents
    BY <1>0 DEF Intents
  <2> QED BY <1>0, <1>2, <2>1, <2>2 DEF PrepareEdit, TypeOK
<1>3. CASE PrepareRollback(r)
  <2>1. PICK t \in Ids :
          req' = [req EXCEPT ![r] =
            [pc |-> "ready", kind |-> "rollback", intent |-> versions[t].intent,
             from |-> t, now |-> clock]]
    BY <1>3 DEF PrepareRollback
  <2>2. versions[t].intent \in Intents /\ t \in Nat
    BY IdsArePositive DEF Versions
  <2> QED BY <1>3, <2>1, <2>2 DEF PrepareRollback, TypeOK
<1>4. CASE Refuse(r)
  BY <1>4, NoRequestIsRequest DEF Refuse, Release, TypeOK
<1>5. CASE RecordRejected(r)
  <2>1. NewVersion(r, "failed") \in Versions
    BY NewVersionIsVersion DEF ConfigStatus
  <2>2. versions' \in Seq(Versions)
    BY <1>5, <2>1 DEF RecordRejected, TypeOK
  <2> QED BY <1>5, <2>2, NoRequestIsRequest DEF RecordRejected, Release, TypeOK
<1>6. CASE RecordPending(r)
  <2>1. NewVersion(r, "pending") \in Versions
    BY NewVersionIsVersion DEF ConfigStatus
  <2>2. versions' \in Seq(Versions) /\ Len(versions) + 1 \in Nat
    BY <1>6, <2>1 DEF RecordPending, TypeOK
  <2>3. req' \in [Requests -> [pc : {"idle", "checked", "ready"},
                 kind : {"edit", "rollback"}, intent : Intents, from : Nat, now : Nat]]
    BY <1>6, NoRequestIsRequest DEF RecordPending, Release, TypeOK
  <2>4. op' \in [pc : {"free", "commit", "verify", "confirm", "restore", "recheck", "next"},
                 ver : Nat, prev : Nat, todo : SUBSET Nat]
    BY <1>0, <1>6, <2>2 DEF RecordPending
  <2> QED BY <1>6, <2>2, <2>3, <2>4 DEF RecordPending, TypeOK
<1> QED BY <1>1, <1>2, <1>3, <1>4, <1>5, <1>6 DEF Request

(* Types: the steps under the operation lock. *)
LEMMA TypeOfOperation ==
  ASSUME Inv, Operation
  PROVE  TypeOK'
<1> USE DEF Inv
<1>0. /\ \A v \in Ids : versions[v].intent \in Intents
      /\ op.ver \in Nat /\ op.prev \in Nat /\ op.todo \in SUBSET Nat
      /\ AppliedIds \subseteq Ids /\ 0 \notin Ids
  BY IdsArePositive DEF Versions, AppliedIds, TypeOK
<1>1. CASE Commit
  <2>1. storage' \in Configs
    BY <1>0, <1>1, SavedIsConfig DEF Commit, LockHolder, TypeOK
  <2> QED BY <1>1, <2>1 DEF Commit, TypeOK
<1>2. CASE CommitError
  <2>1. storage' \in Configs
    BY <1>0, <1>2, SavedIsConfig DEF CommitError, LockHolder, TypeOK
  <2>2. versions' \in Seq(Versions)
    <3>1. op.ver \in Ids /\ SetStatus(op.ver, "failed")
      BY <1>2 DEF CommitError, LockHolder
    <3> QED BY <3>1, SetStatusKeeps DEF ConfigStatus, TypeOK
  <2> QED BY <1>2, <2>1, <2>2, FreeIsOp DEF CommitError, Fault, TypeOK
<1>3. CASE SettleSupersede
  <2>1. versions' \in Seq(Versions)
    <3>1. CASE op.prev = 0
      BY <1>3, <3>1 DEF SettleSupersede, TypeOK
    <3>2. CASE op.prev # 0
      <4>1. op.prev \in Ids /\ SetStatus(op.prev, "superseded")
        BY <1>0, <1>3, <3>2 DEF SettleSupersede, LockHolder
      <4> QED BY <4>1, SetStatusKeeps DEF ConfigStatus, TypeOK
    <3> QED BY <3>1, <3>2
  <2> QED BY <1>3, <2>1 DEF SettleSupersede, TypeOK
<1>4. CASE SettleApply
  <2>1. versions' \in Seq(Versions)
    <3>1. op.ver \in Ids /\ SetStatus(op.ver, "applied")
      BY <1>4 DEF SettleApply, LockHolder
    <3> QED BY <3>1, SetStatusKeeps DEF ConfigStatus, TypeOK
  <2> QED BY <1>0, <1>4, <2>1, FreeIsOp DEF SettleApply, Done, TypeOK
<1>5. CASE SettleFail
  <2>1. versions' \in Seq(Versions)
    <3>1. op.ver \in Ids /\ SetStatus(op.ver, "failed")
      BY <1>5 DEF SettleFail, LockHolder
    <3> QED BY <3>1, SetStatusKeeps DEF ConfigStatus, TypeOK
  <2> QED BY <1>5, <2>1, FreeIsOp DEF SettleFail, Done, TypeOK
<1>6. CASE Restore
  <2>1. storage' \in Configs
    BY <1>0, <1>6, SavedIsConfig DEF Restore, LockHolder, TypeOK
  <2> QED BY <1>6, <2>1 DEF Restore, TypeOK
<1>7. CASE RestoreError
  <2>1. storage' \in Configs
    BY <1>0, <1>7, SavedIsConfig DEF RestoreError, LockHolder, TypeOK
  <2> QED BY <1>7, <2>1, FreeIsOp DEF RestoreError, Fault, TypeOK
<1>8. CASE Recheck
  BY <1>8, FreeIsOp DEF Recheck, Done, TypeOK
<1>9. CASE SettleNext
  <2>1. LatestApplied \in Nat
    BY LatestAppliedIs
  <2> QED BY <1>0, <1>9, <2>1 DEF SettleNext, TypeOK
<1> QED BY <1>1, <1>2, <1>3, <1>4, <1>5, <1>6, <1>7, <1>8, <1>9 DEF Operation

(* What an operation that stops leaves in storage is a config. *)
LEMMA CutShortIsConfig ==
  ASSUME Inv
  PROVE  CutShort \subseteq Configs
<1>1. \A v \in Ids : versions[v].intent \in Intents
  BY IdsArePositive DEF Versions, Inv
<1>2. CASE op.pc = "commit"
  BY <1>1, <1>2, SavedIsConfig DEF CutShort, LockHolder, TypeOK, Inv
<1>3. CASE op.pc = "restore"
  <2>1. op.prev \in Ids
    BY <1>3 DEF LockHolder, AppliedIds, Inv
  <2> QED BY <1>1, <1>3, <2>1, SavedIsConfig DEF CutShort, TypeOK, Inv
<1>4. CASE op.pc \notin {"commit", "restore"}
  BY <1>4 DEF CutShort, TypeOK, Inv
<1> QED BY <1>2, <1>3, <1>4

(* Types: the sweep's start, the data plane, time and failures. *)
LEMMA TypeOfEnvironment ==
  ASSUME Inv,
         SettlePending \/ Reload \/ ReloadPartly \/ HandEdit \/ Tick \/ Abort \/ Crash
  PROVE  TypeOK'
<1> USE DEF Inv
<1>1. CASE SettlePending
  <2>1. Stranded \subseteq Nat
    BY IdsArePositive DEF Stranded, Listed
  <2>2. op' \in [pc : {"free", "commit", "verify", "confirm", "restore", "recheck", "next"},
                 ver : Nat, prev : Nat, todo : SUBSET Nat]
    BY <1>1, <2>1 DEF SettlePending, Free
  <2> QED BY <1>1, <2>2 DEF SettlePending, TypeOK
<1>2. ASSUME NEW bad \in SUBSET Policies, NEW fail \in BOOLEAN, ReloadWith(bad, fail),
             faults' \in Nat
      PROVE  TypeOK'
  <2>1. running' \in Configs
    BY <1>2 DEF ReloadWith, TypeOK, Configs, Intents
  <2> QED BY <1>2, <2>1 DEF ReloadWith, TypeOK
<1>3. CASE Reload
  BY <1>2, <1>3 DEF Reload, TypeOK
<1>4. CASE ReloadPartly
  <2>1. faults' \in Nat
    BY <1>4 DEF ReloadPartly, Fault, TypeOK
  <2> QED BY <1>2, <1>4, <2>1 DEF ReloadPartly
<1>5. CASE HandEdit
  <2>1. PICK n \in Policies, x \in Values \cup {Absent} :
          storage' = [storage EXCEPT !.items[n] = x]
    BY <1>5 DEF HandEdit
  <2>2. storage' \in Configs
    BY <2>1 DEF TypeOK, Configs, Intents, Names
  <2>3. UNCHANGED <<versions, req, op, current, running, clock, confirmed>>
    BY <1>5 DEF HandEdit
  <2>4. faults' \in Nat
    <3>1. Fault("hand_edit")
      BY <1>5 DEF HandEdit
    <3> QED BY <3>1 DEF Fault, TypeOK
  <2> QED BY <2>2, <2>3, <2>4 DEF TypeOK
<1>6. CASE Tick
  BY <1>6 DEF Tick, TypeOK
<1>7. CASE Abort
  BY <1>7, CutShortIsConfig, FreeIsOp DEF Abort, Fault, TypeOK
<1>8. CASE Crash
  BY <1>8, CutShortIsConfig, FreeIsOp, NoRequestIsRequest DEF Crash, Fault, TypeOK
<1> QED BY <1>1, <1>3, <1>4, <1>5, <1>6, <1>7, <1>8

(* The table and the lock holder: requests. *)
LEMMA TableOfRequest ==
  ASSUME Inv, NEW r \in Requests, Request(r)
  PROVE  AtMostOneApplied' /\ LockHolder'
<1> USE DEF Inv
<1>1. CASE CheckBase(r) \/ PrepareEdit(r) \/ PrepareRollback(r) \/ Refuse(r)
  <2>1. UNCHANGED <<versions, op>>
    BY <1>1 DEF CheckBase, PrepareEdit, PrepareRollback, Refuse
  <2> QED BY <2>1, TableUntouched
<1>2. CASE RecordRejected(r)
  <2>1. versions' = Append(versions, NewVersion(r, "failed")) /\ op = Free /\ op' = Free
    BY <1>2 DEF RecordRejected
  <2>2. /\ Ids' = Ids \cup {Len(versions) + 1}
        /\ versions'[Len(versions) + 1].status = "failed"
        /\ \A w \in Ids : versions'[w] = versions[w]
    BY <2>1, AppendKeeps, NewVersionIsVersion DEF ConfigStatus, TypeOK
  <2>3. AtMostOneApplied'
    BY <2>2 DEF AtMostOneApplied, StatusOf
  <2>4. LockHolder'
    BY <2>1 DEF LockHolder, Free
  <2> QED BY <2>3, <2>4
<1>3. CASE RecordPending(r)
  <2> DEFINE new == Len(versions) + 1
  <2>1. /\ versions' = Append(versions, NewVersion(r, "pending"))
        /\ op' = [pc |-> "commit", ver |-> new, prev |-> LatestApplied, todo |-> {}]
    BY <1>3 DEF RecordPending
  <2>2. /\ Ids' = Ids \cup {new} /\ new \notin Ids
        /\ versions'[new].status = "pending"
        /\ \A w \in Ids : versions'[w] = versions[w]
    BY <2>1, AppendKeeps, NewVersionIsVersion DEF ConfigStatus, TypeOK
  <2> HIDE DEF new
  <2>3. AppliedIds' = AppliedIds
    BY <2>2 DEF AppliedIds, StatusOf
  <2>4. AtMostOneApplied'
    BY <2>2 DEF AtMostOneApplied, StatusOf
  <2>5. LatestApplied = 0 \/ LatestApplied \in AppliedIds
    BY LatestAppliedIs
  <2>6. \A v \in AppliedIds : v = LatestApplied
    BY LatestAppliedIs
  <2>7. LockHolder'
    BY <2>1, <2>2, <2>3, <2>5, <2>6 DEF LockHolder, StatusOf
  <2> QED BY <2>4, <2>7
<1> QED BY <1>1, <1>2, <1>3 DEF Request

(* A pending version that fails leaves the applied ones alone. *)
LEMMA FailKeepsApplied ==
  ASSUME Inv, op.pc \in {"commit", "verify"}, SetStatus(op.ver, "failed")
  PROVE  /\ Ids' = Ids /\ AppliedIds' = AppliedIds /\ AtMostOneApplied'
         /\ \A w \in Ids : w # op.ver => versions'[w] = versions[w]
<1>1. op.ver \in Ids /\ StatusOf(op.ver) = "pending"
  BY DEF Inv, LockHolder
<1>2. /\ Ids' = Ids /\ versions'[op.ver].status = "failed"
      /\ \A w \in Ids : w # op.ver => versions'[w] = versions[w]
  BY <1>1, SetStatusKeeps DEF ConfigStatus, Inv, TypeOK
<1>3. AppliedIds' = AppliedIds
  BY <1>1, <1>2 DEF AppliedIds, StatusOf
<1>4. AtMostOneApplied'
  BY <1>1, <1>2 DEF AtMostOneApplied, StatusOf, Inv
<1> QED BY <1>2, <1>3, <1>4

(* The table and the lock holder: the steps under the lock. *)
LEMMA TableOfOperation ==
  ASSUME Inv, Operation
  PROVE  AtMostOneApplied' /\ LockHolder'
<1> USE DEF Inv
<1>0. op.pc \in {"free", "commit", "verify", "confirm", "restore", "recheck", "next"}
      /\ 0 \notin Ids
  BY IdsArePositive DEF TypeOK
<1>a. op = [pc |-> op.pc, ver |-> op.ver, prev |-> op.prev, todo |-> op.todo]
  BY DEF TypeOK
<1>1. CASE Commit
  <2>1. /\ UNCHANGED versions
        /\ op'.pc = "verify" /\ op'.ver = op.ver /\ op'.prev = op.prev
        /\ op'.todo = op.todo /\ op.pc = "commit"
    BY <1>1, <1>a DEF Commit
  <2> QED BY <2>1 DEF AtMostOneApplied, LockHolder, AppliedIds, StatusOf, Ids
<1>2. CASE CommitError
  <2>1. op' = Free /\ SetStatus(op.ver, "failed") /\ op.pc = "commit"
    BY <1>2 DEF CommitError
  <2>2. LockHolder'
    BY <2>1 DEF LockHolder, Free
  <2> QED BY <2>1, <2>2, FailKeepsApplied
<1>3. CASE SettleSupersede
  <2>1. /\ op.pc = "verify"
        /\ op'.pc = "confirm" /\ op'.ver = op.ver /\ op'.prev = op.prev
        /\ op'.todo = op.todo
        /\ IF op.prev = 0 THEN UNCHANGED versions ELSE SetStatus(op.prev, "superseded")
    BY <1>3, <1>a DEF SettleSupersede
  <2>2. /\ op.ver \in Ids /\ StatusOf(op.ver) = "pending" /\ op.ver \notin op.todo
        /\ \A v \in op.todo : v \in Ids /\ StatusOf(v) = "pending"
        /\ op.prev = 0 \/ op.prev \in AppliedIds
        /\ \A v \in AppliedIds : v = op.prev
    BY <2>1 DEF LockHolder
  <2>3. /\ Ids' = Ids /\ AppliedIds' = {}
        /\ \A v \in Ids : StatusOf(v) = "pending" => versions'[v].status = "pending"
    <3>1. CASE op.prev = 0
      BY <1>0, <2>1, <2>2, <3>1 DEF AppliedIds, StatusOf, Ids
    <3>2. CASE op.prev # 0
      <4>1. op.prev \in Ids /\ StatusOf(op.prev) = "applied"
        BY <2>2, <3>2 DEF AppliedIds
      <4>2. /\ Ids' = Ids /\ versions'[op.prev].status = "superseded"
            /\ \A w \in Ids : w # op.prev => versions'[w] = versions[w]
        BY <2>1, <3>2, <4>1, SetStatusKeeps DEF ConfigStatus, TypeOK
      <4>3. AppliedIds' = {}
        BY <2>2, <4>2 DEF AppliedIds, StatusOf
      <4> QED BY <4>1, <4>2, <4>3 DEF StatusOf
    <3> QED BY <3>1, <3>2
  <2>4. AtMostOneApplied'
    BY <2>3 DEF AtMostOneApplied, AppliedIds, StatusOf
  <2>5. LockHolder'
    BY <2>1, <2>2, <2>3 DEF LockHolder, StatusOf
  <2> QED BY <2>4, <2>5
<1>4. CASE SettleApply
  <2>1. op.pc = "confirm" /\ SetStatus(op.ver, "applied") /\ Done
    BY <1>4 DEF SettleApply
  <2>2. /\ op.ver \in Ids /\ op.ver \notin op.todo /\ AppliedIds = {}
        /\ \A v \in op.todo : v \in Ids /\ StatusOf(v) = "pending"
    BY <2>1 DEF LockHolder
  <2>3. /\ Ids' = Ids /\ \A w \in Ids : w # op.ver => versions'[w] = versions[w]
    BY <2>1, <2>2, SetStatusKeeps DEF ConfigStatus, TypeOK
  <2>4. AtMostOneApplied'
    BY <2>2, <2>3 DEF AtMostOneApplied, AppliedIds, StatusOf
  <2>5. op' = Free \/ (op'.pc = "next" /\ op'.todo = op.todo)
    BY <2>1, <1>a DEF Done
  <2>6. LockHolder'
    BY <2>2, <2>3, <2>5 DEF LockHolder, StatusOf, Free
  <2> QED BY <2>4, <2>6
<1>5. CASE SettleFail
  <2>1. op.pc = "verify" /\ SetStatus(op.ver, "failed")
    BY <1>5 DEF SettleFail
  <2>2. \/ op' = Free
        \/ op'.pc = "next" /\ op'.todo = op.todo
        \/ /\ op'.pc = "restore" /\ op'.prev = op.prev /\ op.prev # 0
           /\ op'.todo = op.todo
    BY <1>5, <1>a DEF SettleFail, Done
  <2>3. /\ Ids' = Ids /\ AppliedIds' = AppliedIds
        /\ \A w \in Ids : w # op.ver => versions'[w] = versions[w]
    BY <2>1, FailKeepsApplied
  <2>4. /\ op.ver \notin op.todo
        /\ \A v \in op.todo : v \in Ids /\ StatusOf(v) = "pending"
        /\ op.prev = 0 \/ op.prev \in AppliedIds
        /\ \A v \in AppliedIds : v = op.prev
    BY <2>1 DEF LockHolder
  <2>5. LockHolder'
    BY <2>2, <2>3, <2>4 DEF LockHolder, StatusOf, Free
  <2> QED BY <2>1, <2>5, FailKeepsApplied
<1>6. CASE Restore
  <2>1. /\ UNCHANGED versions /\ op.pc = "restore"
        /\ op'.pc = "recheck" /\ op'.prev = op.prev /\ op'.todo = op.todo
    BY <1>6, <1>a DEF Restore
  <2> QED BY <2>1 DEF AtMostOneApplied, LockHolder, AppliedIds, StatusOf, Ids
<1>7. CASE RestoreError
  BY <1>7, LockReleased DEF RestoreError
<1>8. CASE Recheck
  <2>1. /\ UNCHANGED versions
        /\ op' = Free \/ (op'.pc = "next" /\ op'.todo = op.todo)
    BY <1>8, <1>a DEF Recheck, Done
  <2>2. AtMostOneApplied'
    BY <2>1 DEF AtMostOneApplied, StatusOf, Ids
  <2>3. LockHolder'
    BY <2>1 DEF LockHolder, StatusOf, Ids, Free
  <2> QED BY <2>2, <2>3
<1>9. CASE SettleNext
  <2>1. UNCHANGED versions
    BY <1>9 DEF SettleNext
  <2>2. PICK v \in op.todo : op' = [pc |-> "verify", ver |-> v,
                                   prev |-> LatestApplied, todo |-> op.todo \ {v}]
    BY <1>9 DEF SettleNext
  <2>3. /\ \A w \in op.todo : w \in Ids /\ StatusOf(w) = "pending"
        /\ LatestApplied = 0 \/ LatestApplied \in AppliedIds
        /\ \A w \in AppliedIds : w = LatestApplied
    BY LatestAppliedIs DEF LockHolder
  <2>4. AtMostOneApplied'
    BY <2>1 DEF AtMostOneApplied, StatusOf, Ids
  <2>5. Ids' = Ids /\ AppliedIds' = AppliedIds /\ \A w \in Ids : StatusOf(w)' = StatusOf(w)
    BY <2>1 DEF StatusOf, Ids, AppliedIds
  <2>6. LockHolder'
    BY <2>1, <2>2, <2>3, <2>5 DEF LockHolder, StatusOf
  <2> QED BY <2>4, <2>6
<1> QED BY <1>1, <1>2, <1>3, <1>4, <1>5, <1>6, <1>7, <1>8, <1>9 DEF Operation

(* Every step keeps the invariant. *)
LEMMA InvIsInductive ==
  ASSUME Inv, [Next]_vars
  PROVE  Inv'
<1>1. ASSUME NEW r \in Requests, Request(r) PROVE Inv'
  BY <1>1, TypeOfRequest, TableOfRequest DEF Inv
<1>2. CASE Operation
  BY <1>2, TypeOfOperation, TableOfOperation DEF Inv
<1>3. CASE SettlePending
  <2>1. UNCHANGED versions /\ op' = [Free EXCEPT !.pc = "next", !.todo = Stranded]
    BY <1>3 DEF SettlePending
  <2>2. \A v \in Stranded : v \in Ids /\ StatusOf(v) = "pending"
    BY DEF Stranded, Listed
  <2>3. op'.pc = "next" /\ op'.todo = Stranded
    BY <2>1 DEF Free
  <2>4. LockHolder'
    BY <2>1, <2>2, <2>3 DEF LockHolder, StatusOf, Ids
  <2>5. AtMostOneApplied'
    BY <2>1 DEF Inv, AtMostOneApplied, StatusOf, Ids
  <2> QED BY <1>3, <2>4, <2>5, TypeOfEnvironment DEF Inv
<1>4. CASE Reload \/ ReloadPartly \/ HandEdit \/ Tick
  <2>1. UNCHANGED <<versions, op>>
    BY <1>4 DEF Reload, ReloadPartly, ReloadWith, HandEdit, Tick
  <2> QED BY <1>4, <2>1, TableUntouched, TypeOfEnvironment DEF Inv
<1>5. CASE Abort \/ Crash
  <2>1. UNCHANGED versions /\ op' = Free
    BY <1>5 DEF Abort, Crash
  <2> QED BY <1>5, <2>1, LockReleased, TypeOfEnvironment DEF Inv
<1>6. CASE UNCHANGED vars
  <2>1. UNCHANGED <<versions, op>>
    BY <1>6 DEF vars
  <2>2. TypeOK'
    BY <1>6 DEF vars, Inv, TypeOK
  <2> QED BY <2>1, <2>2, TableUntouched DEF Inv
<1> QED BY <1>1, <1>2, <1>3, <1>4, <1>5, <1>6 DEF Next

LEMMA InvInitially == Init => Inv
<1> SUFFICES ASSUME Init PROVE Inv
  OBVIOUS
<1>1. TypeOK
  BY DefaultIsIntent, GeneratedIsConfig, NoRequestIsRequest, FreeIsOp DEF Init, TypeOK
<1>2. Ids = {} /\ op = Free
  BY DEF Init, Ids
<1>3. AtMostOneApplied /\ LockHolder
  BY <1>2 DEF AtMostOneApplied, LockHolder, Free
<1> QED BY <1>1, <1>3 DEF Inv

(* The version table and the operation lock, for every number of requests,   *)
(* versions and faults: what Applier reads before an await stays true, and   *)
(* settle never leaves two applied versions.                                 *)
THEOREM InvHolds == Spec => []Inv
BY InvInitially, InvIsInductive, PTL DEF Spec

(* Type correctness of the config projection. *)
THEOREM TypeCorrect == Spec => []TypeOK
BY InvHolds, PTL DEF Inv

(* However many requests, versions and faults there are, and wherever an     *)
(* operation is cut short, never two versions are `applied`: Applier::settle *)
(* supersedes before it confirms, and both writes stay under the lock.       *)
THEOREM OneApplied == Spec => []AtMostOneApplied
BY InvHolds, PTL DEF Inv

(* What Applier reads before an await is still true after it. *)
THEOREM LockHolderIsRight == Spec => []LockHolder
BY InvHolds, PTL DEF Inv

-----------------------------------------------------------------------------
(* What a step does to the version table, and the properties that follow.   *)

Appended == \E r \in Requests, s \in {"pending", "failed"} :
              /\ req[r].pc = "ready"
              /\ versions' = Append(versions, NewVersion(r, s))
Failed == \E v \in Ids : StatusOf(v) = "pending" /\ SetStatus(v, "failed")
Retired == \E v \in Ids : StatusOf(v) = "applied" /\ SetStatus(v, "superseded")
Applied == \E v \in Ids : /\ StatusOf(v) = "pending" /\ AppliedIds = {}
                         /\ SetStatus(v, "applied")

(* The five things a step can do to config_versions. *)
LEMMA TableStep ==
  ASSUME Inv, [Next]_vars
  PROVE  UNCHANGED versions \/ Appended \/ Failed \/ Retired \/ Applied
<1>1. ASSUME NEW r \in Requests, Request(r)
      PROVE  UNCHANGED versions \/ Appended
  BY <1>1 DEF Request, CheckBase, PrepareEdit, PrepareRollback, Refuse,
              RecordRejected, RecordPending, Appended
<1>2. CASE Commit \/ Restore \/ RestoreError \/ Recheck \/ SettleNext
  BY <1>2 DEF Commit, Restore, RestoreError, Recheck, SettleNext
<1>3. CASE CommitError \/ SettleFail
  BY <1>3 DEF CommitError, SettleFail, Failed, Inv, LockHolder
<1>4. CASE SettleSupersede
  BY <1>4 DEF SettleSupersede, Retired, Inv, LockHolder, AppliedIds
<1>5. CASE SettleApply
  BY <1>5 DEF SettleApply, Applied, Inv, LockHolder
<1>6. CASE \/ SettlePending \/ Reload \/ ReloadPartly \/ HandEdit \/ Tick \/ Abort
           \/ Crash \/ UNCHANGED vars
  BY <1>6 DEF SettlePending, Reload, ReloadPartly, ReloadWith, HandEdit, Tick,
              Abort, Crash, vars
<1> QED BY <1>1, <1>2, <1>3, <1>4, <1>5, <1>6 DEF Next, Operation

(* One step of a version's life. *)
Advance(v) ==
  /\ v \in DOMAIN versions'
  /\ versions'[v] = [versions[v] EXCEPT !.status = versions'[v].status]
  /\ StatusOf(v) # versions'[v].status =>
       <<StatusOf(v), versions'[v].status>> \in
         {<<"pending", "applied">>, <<"pending", "failed">>,
          <<"applied", "superseded">>}

LEMMA StepAdvances ==
  ASSUME Inv, [Next]_vars, NEW v \in Ids
  PROVE  Advance(v)
<1>1. versions[v] \in Versions /\ versions \in Seq(Versions)
  BY IdsArePositive DEF Inv, TypeOK
<1>2. versions[v] = [versions[v] EXCEPT !.status = versions[v].status]
  BY <1>1 DEF Versions
<1>3. CASE UNCHANGED versions
  BY <1>2, <1>3 DEF Advance, StatusOf, Ids
<1>4. CASE Appended
  <2>1. PICK r \in Requests, s \in {"pending", "failed"} :
          versions' = Append(versions, NewVersion(r, s))
    BY <1>4 DEF Appended
  <2>2. v \in Ids' /\ versions'[v] = versions[v]
    BY <1>1, <2>1, AppendKeeps, NewVersionIsVersion DEF ConfigStatus, Inv
  <2> QED BY <1>2, <2>2 DEF Advance, StatusOf, Ids
<1>5. ASSUME NEW w \in Ids, NEW s \in ConfigStatus, SetStatus(w, s),
             <<StatusOf(w), s>> \in {<<"pending", "applied">>, <<"pending", "failed">>,
                                    <<"applied", "superseded">>}
      PROVE  Advance(v)
  <2>1. /\ v \in Ids' /\ versions'[w].status = s
        /\ versions'[w] = [versions[w] EXCEPT !.status = s]
        /\ v # w => versions'[v] = versions[v]
    BY <1>1, <1>5, SetStatusKeeps
  <2>2. CASE v = w
    BY <1>5, <2>1, <2>2 DEF Advance, Ids
  <2>3. CASE v # w
    BY <1>2, <2>1, <2>3 DEF Advance, StatusOf, Ids
  <2> QED BY <2>2, <2>3
<1>6. CASE Failed \/ Retired \/ Applied
  BY <1>5, <1>6 DEF Failed, Retired, Applied, ConfigStatus
<1> QED BY <1>3, <1>4, <1>6, TableStep

(* No row is ever lost, rewritten or brought back: versions only advance.    *)
THEOREM VersionsAdvance == Spec => LifeCycle
<1>1. Inv /\ [Next]_vars => [\A v \in Ids : Advance(v)]_vars
  BY StepAdvances
<1>2. Spec => [][\A v \in Ids : Advance(v)]_vars
  BY <1>1, InvHolds, PTL DEF Spec
<1> QED BY <1>2, PTL DEF LifeCycle, Advance

(* A step of the table is a step of the ledger. *)
LEMMA LedgerStep ==
  ASSUME Inv, [Next]_vars
  PROVE  [Ledger!Next]_Statuses
<1>1. /\ versions \in Seq(Versions) /\ Ids = 1..Len(versions) /\ Len(versions) \in Nat
      /\ Statuses \in Seq(ConfigStatus) /\ Len(Statuses) = Len(versions)
      /\ DOMAIN Statuses = Ids /\ \A v \in Ids : Statuses[v] = StatusOf(v)
  <2>1. /\ versions \in Seq(Versions) /\ Ids = 1..Len(versions) /\ Len(versions) \in Nat
    BY IdsArePositive DEF Inv, TypeOK
  <2>2. \A v \in Ids : StatusOf(v) \in ConfigStatus
    BY IdsArePositive DEF StatusOf, Versions, Inv
  <2>3. Statuses = [v \in 1..Len(versions) |-> StatusOf(v)]
    BY <2>1 DEF Statuses
  <2> QED BY <2>1, <2>2, <2>3
<1>2. CASE UNCHANGED versions
  BY <1>2 DEF Statuses, StatusOf, Ids
<1>3. CASE Appended
  <2>1. PICK r \in Requests, s \in {"pending", "failed"} :
          versions' = Append(versions, NewVersion(r, s))
    BY <1>3 DEF Appended
  <2>2. /\ Ids' = Ids \cup {Len(versions) + 1}
        /\ versions'[Len(versions) + 1].status = s
        /\ \A w \in Ids : versions'[w] = versions[w]
    BY <1>1, <2>1, AppendKeeps, NewVersionIsVersion DEF ConfigStatus, Inv
  <2>3. Statuses' = [v \in 1..(Len(versions) + 1) |-> versions'[v].status]
    BY <1>1, <2>2 DEF Statuses, StatusOf
  <2>4. Statuses' = Append(Statuses, s)
    <3>1. /\ Append(Statuses, s) \in Seq(ConfigStatus)
          /\ Len(Append(Statuses, s)) = Len(versions) + 1
      BY <1>1 DEF ConfigStatus
    <3>2. Append(Statuses, s) =
            [v \in 1..(Len(versions) + 1) |-> Append(Statuses, s)[v]]
      <4> DEFINE q == Append(Statuses, s)
      <4>1. q \in Seq(ConfigStatus) /\ Len(q) = Len(versions) + 1
        BY <3>1
      <4> HIDE DEF q
      <4>2. q = [v \in 1..(Len(versions) + 1) |-> q[v]]
        BY <4>1
      <4> QED BY <4>2 DEF q
    <3>3. \A v \in 1..(Len(versions) + 1) : Append(Statuses, s)[v] = versions'[v].status
      BY <1>1, <2>2 DEF StatusOf
    <3> QED BY <2>3, <3>2, <3>3
  <2> QED BY <2>4 DEF Ledger!Next, Ledger!Record
<1>4. ASSUME NEW v \in Ids, NEW s \in ConfigStatus, SetStatus(v, s)
      PROVE  Statuses' = [Statuses EXCEPT ![v] = s]
  <2>1. /\ Ids' = Ids /\ versions'[v].status = s
        /\ \A w \in Ids : w # v => versions'[w] = versions[w]
    BY <1>1, <1>4, SetStatusKeeps
  <2> QED BY <1>1, <2>1 DEF Statuses, StatusOf
<1>5. CASE Failed
  <2>1. PICK v \in Ids : StatusOf(v) = "pending" /\ SetStatus(v, "failed")
    BY <1>5 DEF Failed
  <2>2. Ledger!Fail(v)
    BY <1>1, <1>4, <2>1 DEF Ledger!Fail, ConfigStatus
  <2> QED BY <1>1, <2>2 DEF Ledger!Next
<1>6. CASE Retired
  <2>1. PICK v \in Ids : StatusOf(v) = "applied" /\ SetStatus(v, "superseded")
    BY <1>6 DEF Retired
  <2>2. Ledger!Retire(v)
    BY <1>1, <1>4, <2>1 DEF Ledger!Retire, ConfigStatus
  <2> QED BY <1>1, <2>2 DEF Ledger!Next
<1>7. CASE Applied
  <2>1. PICK v \in Ids : /\ StatusOf(v) = "pending" /\ AppliedIds = {}
                         /\ SetStatus(v, "applied")
    BY <1>7 DEF Applied
  <2>2. Ledger!Confirm(v)
    BY <1>1, <1>4, <2>1 DEF Ledger!Confirm, ConfigStatus, AppliedIds
  <2> QED BY <1>1, <2>2 DEF Ledger!Next
<1> QED BY <1>2, <1>3, <1>5, <1>6, <1>7, TableStep

LEMMA LedgerInitially == Init => Ledger!Init
BY DEF Init, Ledger!Init, Statuses, Ids

(* The config_versions table implements the version ledger its readers rely  *)
(* on: it is append-only and a confirmation waits for the retirement of the  *)
(* version before it.                                                        *)
THEOREM TableImplementsLedger == Spec => ImplementsLedger
<1>1. Inv /\ [Next]_vars => [Ledger!Next]_Statuses
  BY LedgerStep
<1> QED BY <1>1, LedgerInitially, InvHolds, PTL DEF Spec, ImplementsLedger, Ledger!Spec

-----------------------------------------------------------------------------
(* Rollbacks.  What a rollback request read outside the lock stays true      *)
(* until it gets the lock, because a confirmed version stays confirmed.      *)

Confirmed(v) == v \in Ids /\ StatusOf(v) \in {"applied", "superseded"}

RequestTarget ==
  \A r \in Requests : req[r].pc = "ready" /\ req[r].kind = "rollback" =>
    Confirmed(req[r].from) /\ req[r].intent = versions[req[r].from].intent

(* Once confirmed, always confirmed, with the same intent. *)
LEMMA ConfirmedStays ==
  ASSUME Inv, [Next]_vars, NEW v, Confirmed(v)
  PROVE  Confirmed(v)' /\ versions'[v].intent = versions[v].intent
<1>1. v \in Ids /\ Advance(v) /\ versions[v] \in Versions
  BY StepAdvances, IdsArePositive DEF Confirmed, Inv
<1>2. versions'[v].intent = versions[v].intent
  BY <1>1 DEF Advance, Versions
<1>3. Confirmed(v)'
  BY <1>1 DEF Advance, Confirmed, StatusOf, Ids
<1> QED BY <1>2, <1>3

(* A request that is ready was so before, or has just been prepared. *)
LEMMA ReadyRequest ==
  ASSUME Inv, [Next]_vars, NEW r \in Requests,
         req'[r].pc = "ready", req'[r].kind = "rollback"
  PROVE  req'[r] = req[r] \/ PrepareRollback(r)
<1>0. req \in [Requests -> [pc : {"idle", "checked", "ready"},
                           kind : {"edit", "rollback"}, intent : Intents,
                           from : Nat, now : Nat]]
  BY DEF Inv, TypeOK
<1>1. CASE UNCHANGED req
  BY <1>1
<1>2. ASSUME NEW q \in Requests, Request(q)
      PROVE  req'[r] = req[r] \/ PrepareRollback(r)
  <2>1. CASE q # r
    BY <1>0, <1>2, <2>1 DEF Request, CheckBase, PrepareEdit, PrepareRollback, Refuse,
                       RecordRejected, RecordPending, Release
  <2>2. CASE q = r
    <3>1. ~CheckBase(r) /\ ~PrepareEdit(r)
      BY <1>0 DEF CheckBase, PrepareEdit
    <3>2. ~Refuse(r) /\ ~RecordRejected(r) /\ ~RecordPending(r)
      BY <1>0 DEF Refuse, RecordRejected, RecordPending, Release, NoRequest
    <3> QED BY <1>2, <2>2, <3>1, <3>2 DEF Request
  <2> QED BY <2>1, <2>2
<1>3. CASE Crash
  BY <1>3 DEF Crash, NoRequest
<1>4. CASE Operation
  BY <1>1, <1>4 DEF Operation, Commit, CommitError, SettleSupersede, SettleApply,
                    SettleFail, Restore, RestoreError, Recheck, SettleNext
<1>5. CASE \/ SettlePending \/ Reload \/ ReloadPartly \/ HandEdit \/ Tick \/ Abort
           \/ UNCHANGED vars
  BY <1>1, <1>5 DEF SettlePending, Reload, ReloadPartly, ReloadWith, HandEdit, Tick,
                    Abort, vars
<1> QED BY <1>2, <1>3, <1>4, <1>5 DEF Next

LEMMA RequestTargetKept ==
  ASSUME Inv, RequestTarget, [Next]_vars
  PROVE  RequestTarget'
<1> SUFFICES ASSUME NEW r \in Requests, req'[r].pc = "ready", req'[r].kind = "rollback"
             PROVE  /\ req'[r].from \in DOMAIN versions'
                    /\ versions'[req'[r].from].status \in {"applied", "superseded"}
                    /\ req'[r].intent = versions'[req'[r].from].intent
  BY DEF RequestTarget, Confirmed, StatusOf, Ids
<1>1. CASE req'[r] = req[r]
  <2>1. Confirmed(req[r].from) /\ req[r].intent = versions[req[r].from].intent
    BY <1>1 DEF RequestTarget
  <2>2. \A u : Confirmed(u) => /\ u \in DOMAIN versions'
                             /\ versions'[u].status \in {"applied", "superseded"}
                             /\ versions'[u].intent = versions[u].intent
    BY ConfirmedStays DEF Confirmed, StatusOf, Ids
  <2> QED BY <1>1, <2>1, <2>2
<1>2. CASE PrepareRollback(r)
  <2>1. PICK t \in Ids :
          /\ StatusOf(t) \in {"applied", "superseded"}
          /\ req' = [req EXCEPT ![r] =
               [pc |-> "ready", kind |-> "rollback", intent |-> versions[t].intent,
                from |-> t, now |-> clock]]
    BY <1>2 DEF PrepareRollback
  <2>2. req'[r].from = t /\ req'[r].intent = versions[t].intent
    BY <2>1 DEF Inv, TypeOK
  <2>3. UNCHANGED versions
    BY <1>2 DEF PrepareRollback
  <2> QED BY <2>1, <2>2, <2>3 DEF Confirmed, StatusOf, Ids
<1> QED BY <1>1, <1>2, ReadyRequest

LEMMA RollbackTargetKept ==
  ASSUME Inv, RequestTarget, RollbackTargetConfirmed, [Next]_vars
  PROVE  RollbackTargetConfirmed'
<1>0. \A u : Confirmed(u) => /\ u \in DOMAIN versions'
                           /\ versions'[u].status \in {"applied", "superseded"}
                           /\ versions'[u].intent = versions[u].intent
  BY ConfirmedStays DEF Confirmed, StatusOf, Ids
<1> SUFFICES ASSUME NEW v \in Ids', versions'[v].kind = "rollback"
             PROVE  /\ versions'[v].from \in DOMAIN versions'
                    /\ versions'[versions'[v].from].status \in {"applied", "superseded"}
                    /\ versions'[v].intent = versions'[versions'[v].from].intent
  BY DEF RollbackTargetConfirmed, StatusOf, Ids
<1>1. CASE v \in Ids
  <2>1. Advance(v) /\ versions[v] \in Versions
    BY <1>1, StepAdvances, IdsArePositive DEF Inv
  <2>2. /\ versions'[v].kind = versions[v].kind
        /\ versions'[v].from = versions[v].from
        /\ versions'[v].intent = versions[v].intent
    BY <2>1 DEF Advance, Versions
  <2>3. Confirmed(versions[v].from) /\ versions[v].intent = versions[versions[v].from].intent
    BY <1>1, <2>2 DEF RollbackTargetConfirmed, Confirmed
  <2> QED BY <1>0, <2>2, <2>3
<1>2. CASE v \notin Ids
  <2>1. PICK r \in Requests, s \in {"pending", "failed"} :
          req[r].pc = "ready" /\ versions' = Append(versions, NewVersion(r, s))
    <3>1. Appended
      <4>1. ~UNCHANGED versions
        BY <1>2 DEF Ids
      <4>2. ~(Failed \/ Retired \/ Applied)
        BY <1>2, SetStatusKeeps DEF Failed, Retired, Applied, ConfigStatus, Inv, TypeOK
      <4> QED BY <4>1, <4>2, TableStep
    <3> QED BY <3>1 DEF Appended
  <2>2. versions'[v] = NewVersion(r, s)
    BY <1>2, <2>1, AppendKeeps, NewVersionIsVersion DEF ConfigStatus, Inv, TypeOK
  <2>3. /\ versions'[v].kind = req[r].kind /\ versions'[v].from = req[r].from
        /\ versions'[v].intent = req[r].intent
    BY <2>2 DEF NewVersion
  <2>4. Confirmed(req[r].from) /\ req[r].intent = versions[req[r].from].intent
    BY <2>1, <2>3 DEF RequestTarget
  <2> QED BY <1>0, <2>3, <2>4
<1> QED BY <1>1, <1>2

(* A rollback checks its target before it waits for the lock; whatever runs  *)
(* in between, the version it records restores a version that was confirmed. *)
THEOREM RollbacksRestoreConfirmed == Spec => []RollbackTargetConfirmed
<1>1. Init => RequestTarget /\ RollbackTargetConfirmed
  BY DEF Init, RequestTarget, RollbackTargetConfirmed, NoRequest, Ids
<1>2. Inv /\ RequestTarget /\ RollbackTargetConfirmed /\ [Next]_vars
        => (RequestTarget /\ RollbackTargetConfirmed)'
  BY RequestTargetKept, RollbackTargetKept
<1> QED BY <1>1, <1>2, InvHolds, PTL DEF Spec

-----------------------------------------------------------------------------
(* Operations that run to their end.  An operation that is cut short can     *)
(* leave the previous version superseded and nothing applied.  As long as    *)
(* operations are not cut short, whatever saves and reloads fail, `confirmed` *)
(* is the version that latest_applied_config_version reads.                  *)

Uninterrupted == Faults \cap {"abort", "crash"} = {}

(* If moreover no save fails halfway and nobody edits the stored config by   *)
(* hand, storage holds the confirmed version whenever the lock is free.      *)
Undisturbed == Faults \subseteq {"reload"}

Settling == {"commit", "verify", "confirm"}

(* The last version confirmed is the applied one, but for the moment between *)
(* the two writes of settle; it is what the operation goes back to, and what *)
(* the edit it settles is based on.  No row is left pending.                 *)
ConfirmedOK ==
  /\ op.todo = {} /\ op.pc # "next"
  /\ \A v \in Ids : StatusOf(v) = "pending" => op.pc \in Settling /\ v = op.ver
  /\ confirmed \in Ids \cup {0}
  /\ op.pc # "confirm" => AppliedIds = {confirmed} \ {0}
  /\ op.pc # "free" => op.prev = confirmed
  /\ op.pc \in Settling =>
       /\ confirmed < op.ver
       /\ versions[op.ver].kind = "edit" => versions[op.ver].from = confirmed

(* What storage holds at each stage of an operation. *)
StorageOK ==
  /\ op.pc \in {"free", "commit", "recheck"} /\ confirmed # 0
       => storage = Generate(IntentOf(confirmed))
  /\ op.pc \in {"verify", "confirm"} => storage = Generate(versions[op.ver].intent)

(* An edit changes at most one entry of its base. *)
OneChange(i, j) == \A m, n \in Names : i[m] # j[m] /\ i[n] # j[n] => m = n

EditsOK ==
  /\ \A r \in Requests : req[r].pc = "ready" /\ req[r].kind = "edit" =>
       req[r].from \in Ids \cup {0} /\ OneChange(req[r].intent, IntentOf(req[r].from))
  /\ \A v \in Ids : versions[v].kind = "edit" =>
       /\ versions[v].from \in Ids \cup {0}
       /\ OneChange(versions[v].intent, IntentOf(versions[v].from))

(* Rows are neither lost nor rewritten. *)
LEMMA RowStays ==
  ASSUME Inv, [Next]_vars, NEW v \in Ids
  PROVE  /\ v \in Ids' /\ versions'[v].intent = versions[v].intent
         /\ versions'[v].kind = versions[v].kind /\ versions'[v].from = versions[v].from
<1>1. Advance(v) /\ versions[v] \in Versions
  BY StepAdvances, IdsArePositive DEF Inv
<1> QED BY <1>1 DEF Advance, Versions, Ids

LEMMA IntentStays ==
  ASSUME Inv, [Next]_vars, NEW v \in Ids \cup {0}
  PROVE  v \in Ids' \cup {0} /\ IntentOf(v)' = IntentOf(v)
BY RowStays DEF IntentOf

(* A request that is ready to edit was so before, or has just been prepared. *)
LEMMA ReadyEdit ==
  ASSUME Inv, [Next]_vars, NEW r \in Requests,
         req'[r].pc = "ready", req'[r].kind = "edit"
  PROVE  req'[r] = req[r] \/ PrepareEdit(r)
<1>0. req \in [Requests -> [pc : {"idle", "checked", "ready"},
                           kind : {"edit", "rollback"}, intent : Intents,
                           from : Nat, now : Nat]]
  BY DEF Inv, TypeOK
<1>1. CASE UNCHANGED req
  BY <1>1
<1>2. ASSUME NEW q \in Requests, Request(q)
      PROVE  req'[r] = req[r] \/ PrepareEdit(r)
  <2>1. CASE q # r
    BY <1>0, <1>2, <2>1 DEF Request, CheckBase, PrepareEdit, PrepareRollback, Refuse,
                       RecordRejected, RecordPending, Release
  <2>2. CASE q = r
    <3>1. ~CheckBase(r) /\ ~PrepareRollback(r)
      BY <1>0 DEF CheckBase, PrepareRollback
    <3>2. ~Refuse(r) /\ ~RecordRejected(r) /\ ~RecordPending(r)
      BY <1>0 DEF Refuse, RecordRejected, RecordPending, Release, NoRequest
    <3> QED BY <1>2, <2>2, <3>1, <3>2 DEF Request
  <2> QED BY <2>1, <2>2
<1>3. CASE Crash
  BY <1>3 DEF Crash, NoRequest
<1>4. CASE Operation
  BY <1>1, <1>4 DEF Operation, Commit, CommitError, SettleSupersede, SettleApply,
                    SettleFail, Restore, RestoreError, Recheck, SettleNext
<1>5. CASE \/ SettlePending \/ Reload \/ ReloadPartly \/ HandEdit \/ Tick \/ Abort
           \/ UNCHANGED vars
  BY <1>1, <1>5 DEF SettlePending, Reload, ReloadPartly, ReloadWith, HandEdit, Tick,
                    Abort, vars
<1> QED BY <1>2, <1>3, <1>4, <1>5 DEF Next

LEMMA EditsKept ==
  ASSUME Inv, EditsOK, [Next]_vars
  PROVE  EditsOK'
<1>1. ASSUME NEW r \in Requests, req'[r].pc = "ready", req'[r].kind = "edit"
      PROVE  /\ req'[r].from \in Ids' \cup {0}
             /\ \E b \in Ids \cup {0} : b = req'[r].from /\ OneChange(req'[r].intent, IntentOf(b))
  <2>1. CASE req'[r] = req[r]
    BY <1>1, <2>1, IntentStays DEF EditsOK
  <2>2. CASE PrepareEdit(r)
    <3>1. PICK n \in Names, x \in Values \cup {Absent} :
            req' = [req EXCEPT ![r] =
              [pc |-> "ready", kind |-> "edit",
               intent |-> [IntentOf(LatestApplied) EXCEPT ![n] = x],
               from |-> LatestApplied, now |-> clock]]
      BY <2>2 DEF PrepareEdit
    <3> DEFINE b == LatestApplied
               i == IntentOf(b)
    <3>2. b \in Ids \cup {0} /\ i \in Intents
      BY LatestAppliedIs, IntentOfIsIntent DEF Inv, AppliedIds
    <3>3. req'[r].from = b /\ req'[r].intent = [i EXCEPT ![n] = x]
      BY <3>1 DEF Inv, TypeOK
    <3> HIDE DEF i, b
    <3>4. OneChange([i EXCEPT ![n] = x], i)
      BY <3>2 DEF OneChange, Intents
    <3>5. b \in Ids' \cup {0}
      BY <3>2, IntentStays
    <3> QED BY <3>2, <3>3, <3>4, <3>5 DEF i
  <2> QED BY <1>1, <2>1, <2>2, ReadyEdit
<1>2. ASSUME NEW v \in Ids', versions'[v].kind = "edit"
      PROVE  \E b \in Ids \cup {0} :
               b = versions'[v].from /\ OneChange(versions'[v].intent, IntentOf(b))
  <2>1. CASE v \in Ids
    BY <1>2, <2>1, RowStays DEF EditsOK
  <2>2. CASE v \notin Ids
    <3>1. Appended
      <4>1. ~UNCHANGED versions
        BY <1>2, <2>2 DEF Ids
      <4>2. ~(Failed \/ Retired \/ Applied)
        BY <1>2, <2>2, SetStatusKeeps DEF Failed, Retired, Applied, ConfigStatus, Inv, TypeOK
      <4> QED BY <4>1, <4>2, TableStep
    <3>2. PICK r \in Requests, s \in {"pending", "failed"} :
            req[r].pc = "ready" /\ versions' = Append(versions, NewVersion(r, s))
      BY <3>1 DEF Appended
    <3>3. versions'[v] = NewVersion(r, s)
      BY <1>2, <2>2, <3>2, AppendKeeps, NewVersionIsVersion DEF ConfigStatus, Inv, TypeOK
    <3>4. /\ versions'[v].kind = req[r].kind /\ versions'[v].from = req[r].from
          /\ versions'[v].intent = req[r].intent
      BY <3>3 DEF NewVersion
    <3> QED BY <1>2, <3>2, <3>4 DEF EditsOK
  <2> QED BY <2>1, <2>2
<1>3. ASSUME NEW b \in Ids \cup {0}
      PROVE  b \in Ids' \cup {0} /\ (IF b = 0 THEN DefaultIntent ELSE versions'[b].intent) = IntentOf(b)
  BY IntentStays DEF IntentOf
<1> QED BY <1>1, <1>2, <1>3 DEF EditsOK, IntentOf

(* What the faults that are excluded would do does not happen. *)
LEMMA NotCutShort == Uninterrupted => ~Abort /\ ~Crash
<1>1. Uninterrupted => "abort" \notin Faults /\ "crash" \notin Faults
  BY DEF Uninterrupted
<1> QED BY <1>1 DEF Abort, Crash, Fault

LEMMA NotDisturbed ==
  Undisturbed => Uninterrupted /\ ~CommitError /\ ~RestoreError /\ ~HandEdit
<1>1. Undisturbed => "commit" \notin Faults /\ "hand_edit" \notin Faults
  BY DEF Undisturbed
<1>2. Undisturbed => Uninterrupted
  BY DEF Undisturbed, Uninterrupted
<1> QED BY <1>1, <1>2 DEF CommitError, RestoreError, HandEdit, Fault

(* Nothing is stranded, so there is nothing to sweep. *)
LEMMA NothingToSweep ==
  ASSUME Inv, ConfirmedOK
  PROVE  ~SettlePending /\ ~SettleNext
<1>1. op = Free => Stranded = {}
  BY DEF ConfirmedOK, Stranded, Listed, Free, Settling
<1> QED BY <1>1 DEF SettlePending, SettleNext, ConfirmedOK

LEMMA AppliedUnchanged ==
  ASSUME UNCHANGED versions
  PROVE  AppliedIds' = AppliedIds /\ Ids' = Ids /\ \A v \in Ids : versions'[v].status = StatusOf(v)
BY DEF AppliedIds, Ids, StatusOf

(* The table and the lock stay, or the lock moves on to a step before the     *)
(* writes of settle.                                                          *)
LEMMA ConfirmedStill ==
  ASSUME Inv, ConfirmedOK, UNCHANGED <<versions, confirmed>>,
         \/ op' = op
         \/ op.pc = "commit" /\ op' = [op EXCEPT !.pc = "verify"]
         \/ op.pc = "restore" /\ op' = [op EXCEPT !.pc = "recheck"]
         \/ op.pc \in {"restore", "recheck"} /\ op' = Free
  PROVE  ConfirmedOK'
<1>1. AppliedIds' = AppliedIds /\ Ids' = Ids /\ \A v \in Ids : StatusOf(v)' = StatusOf(v)
  BY AppliedUnchanged DEF StatusOf
<1>2. op'.todo = {} /\ op'.pc # "next"
  BY DEF ConfirmedOK, Inv, TypeOK, Free
<1>3. /\ op'.pc # "free" => op'.prev = op.prev /\ op.pc # "free"
      /\ op'.pc \in Settling <=> op.pc \in Settling
      /\ op'.pc = "confirm" <=> op.pc = "confirm"
      /\ op'.pc \in Settling => op'.ver = op.ver
  BY DEF Inv, TypeOK, Free, Settling
<1> QED BY <1>1, <1>2, <1>3 DEF ConfirmedOK

(* What latest_applied_config_version reads, outside settle's two writes. *)
LEMMA LatestIsConfirmed ==
  ASSUME Inv, ConfirmedOK, op.pc # "confirm"
  PROVE  LatestApplied = confirmed
<1>1. LatestApplied = 0 \/ LatestApplied \in AppliedIds
  BY LatestAppliedIs DEF Inv
<1>2. \A v \in AppliedIds : v = LatestApplied
  BY LatestAppliedIs DEF Inv
<1>3. AppliedIds = {confirmed} \ {0}
  BY DEF ConfirmedOK
<1> QED BY <1>1, <1>2, <1>3

(* A version is recorded, by a request that holds the lock. *)
LEMMA ConfirmedRecord ==
  ASSUME Inv, ConfirmedOK, NEW r \in Requests, RecordRejected(r) \/ RecordPending(r)
  PROVE  ConfirmedOK'
<1> DEFINE new == Len(versions) + 1
<1>1. PICK s \in {"pending", "failed"} :
        /\ versions' = Append(versions, NewVersion(r, s))
        /\ s = "failed" => op' = op
        /\ s = "pending" => op' = [pc |-> "commit", ver |-> new, prev |-> LatestApplied,
                                   todo |-> {}]
  BY DEF RecordRejected, RecordPending
<1>2. op = Free /\ op.pc = "free" /\ confirmed' = confirmed /\ MayProceed(r)
  BY DEF RecordRejected, RecordPending, Free
<1>3. /\ Ids' = Ids \cup {new} /\ new \notin Ids /\ versions'[new] = NewVersion(r, s)
      /\ \A w \in Ids : versions'[w] = versions[w]
  BY <1>1, AppendKeeps, NewVersionIsVersion DEF ConfigStatus, Inv, TypeOK
<1>4. /\ versions'[new].status = s /\ versions'[new].kind = req[r].kind
      /\ versions'[new].from = req[r].from
  BY <1>3 DEF NewVersion
<1>5. AppliedIds' = AppliedIds
  BY <1>3, <1>4 DEF AppliedIds, StatusOf
<1>6. LatestApplied = confirmed
  BY <1>2, LatestIsConfirmed
<1>7. confirmed \in Ids \cup {0} /\ confirmed < new
  <2>1. confirmed \in Ids \cup {0} /\ Ids = 1 .. Len(versions) /\ Len(versions) \in Nat
    BY IdsArePositive DEF ConfirmedOK, Inv
  <2> QED BY <2>1
<1>8. \A v \in Ids : StatusOf(v) # "pending"
  BY <1>2 DEF ConfirmedOK, Settling
<1>9. \A v \in Ids' : versions'[v].status = "pending" => v = new /\ s = "pending"
  BY <1>3, <1>4, <1>8 DEF StatusOf
<1>10. req[r].kind = "edit" => req[r].from = confirmed
  BY <1>2, <1>6 DEF MayProceed, BaseIsCurrent
<1> HIDE DEF new
<1>11. CASE s = "failed"
  <2>1. op' = Free /\ op'.pc = "free" /\ op'.todo = {}
    BY <1>1, <1>2, <1>11 DEF Free
  <2>2. \A v \in Ids' : StatusOf(v)' # "pending"
    BY <1>9, <1>11 DEF StatusOf
  <2> QED BY <1>2, <1>3, <1>5, <1>7, <2>1, <2>2 DEF ConfirmedOK, Settling
<1>12. CASE s = "pending"
  <2>1. op'.pc = "commit" /\ op'.ver = new /\ op'.prev = confirmed /\ op'.todo = {}
    BY <1>1, <1>6, <1>12
  <2>2. \A v \in Ids' : StatusOf(v)' = "pending" => v = op'.ver
    BY <1>9, <2>1 DEF StatusOf
  <2>3. versions'[op'.ver].kind = "edit" => versions'[op'.ver].from = confirmed'
    BY <1>2, <1>4, <1>10, <2>1
  <2>4. AppliedIds' = {confirmed'} \ {0} /\ confirmed' \in Ids' \cup {0} /\ confirmed' < op'.ver
    BY <1>2, <1>3, <1>5, <1>7, <2>1 DEF ConfirmedOK
  <2>5. op'.pc \in Settling /\ op'.pc \notin {"next", "confirm", "free"}
    BY <2>1 DEF Settling
  <2>6. op'.prev = confirmed'
    BY <1>2, <2>1
  <2> QED BY <2>1, <2>2, <2>3, <2>4, <2>5, <2>6 DEF ConfirmedOK
<1> QED BY <1>1, <1>11, <1>12

(* The writes of settle. *)
LEMMA ConfirmedSettle ==
  ASSUME Inv, ConfirmedOK, \/ SettleSupersede \/ SettleApply
                           \/ SettleFail \/ CommitError
  PROVE  ConfirmedOK'
<1>1. /\ op.pc \in Settling /\ op.ver \in Ids /\ StatusOf(op.ver) = "pending"
      /\ op.prev = confirmed /\ confirmed < op.ver /\ op.todo = {}
      /\ versions[op.ver].kind = "edit" => versions[op.ver].from = confirmed
      /\ \A v \in Ids : StatusOf(v) = "pending" => v = op.ver
  BY DEF SettleSupersede, SettleApply, SettleFail, CommitError, Inv, LockHolder,
         ConfirmedOK, Settling
<1>2. versions \in Seq(Versions) /\ confirmed \in Ids \cup {0} /\ 0 \notin Ids
      /\ op.ver # 0
  BY <1>1, IdsArePositive DEF ConfirmedOK, Inv, TypeOK
<1>3. CASE SettleSupersede
  <2>1. /\ op'.pc = "confirm" /\ op'.ver = op.ver /\ op'.prev = op.prev /\ op'.todo = {}
        /\ confirmed' = confirmed /\ op.pc = "verify"
    BY <1>1, <1>3 DEF SettleSupersede, Inv, TypeOK
  <2>2. op.ver # op.prev
    <3>1. op.ver \in Nat /\ op.prev \in Nat
      BY DEF Inv, TypeOK
    <3> QED BY <1>1, <3>1
  <2>3. /\ Ids' = Ids /\ versions'[op.ver] = versions[op.ver]
        /\ \A v \in Ids : versions'[v].status = "pending" => StatusOf(v) = "pending"
    <3>1. CASE op.prev = 0
      BY <1>1, <1>3, <3>1 DEF SettleSupersede, Ids, StatusOf
    <3>2. CASE op.prev # 0
      <4>1. op.prev \in Ids /\ SetStatus(op.prev, "superseded")
        BY <1>1, <1>2, <1>3, <3>2 DEF SettleSupersede
      <4>2. /\ Ids' = Ids /\ versions'[op.prev].status = "superseded"
            /\ \A w \in Ids : w # op.prev => versions'[w] = versions[w]
        BY <1>2, <4>1, SetStatusKeeps DEF ConfigStatus
      <4> QED BY <1>1, <2>2, <4>2 DEF StatusOf
    <3> QED BY <3>1, <3>2
  <2> QED BY <1>1, <1>2, <2>1, <2>3 DEF ConfirmedOK, Settling, StatusOf
<1>4. CASE SettleApply
  <2>1. /\ SetStatus(op.ver, "applied") /\ confirmed' = op.ver /\ op' = Free
        /\ op.pc = "confirm"
    BY <1>1, <1>4 DEF SettleApply, Done
  <2>2. /\ Ids' = Ids /\ versions'[op.ver].status = "applied"
        /\ \A w \in Ids : w # op.ver => versions'[w] = versions[w]
    BY <1>1, <1>2, <2>1, SetStatusKeeps DEF ConfigStatus
  <2>3. AppliedIds = {}
    BY <2>1 DEF Inv, LockHolder
  <2>4. AppliedIds' = {op.ver}
    BY <1>1, <2>2, <2>3 DEF AppliedIds, StatusOf
  <2>5. \A v \in Ids : versions'[v].status # "pending"
    BY <1>1, <2>2 DEF StatusOf
  <2>6. op'.pc = "free" /\ op'.todo = {}
    BY <2>1 DEF Free
  <2> QED BY <1>1, <1>2, <2>1, <2>2, <2>4, <2>5, <2>6 DEF ConfirmedOK, Settling, StatusOf
<1>5. CASE SettleFail \/ CommitError
  <2>1. /\ SetStatus(op.ver, "failed") /\ confirmed' = confirmed
        /\ op.pc \in {"commit", "verify"}
        /\ op' = Free \/ op' = [op EXCEPT !.pc = "restore"]
    BY <1>1, <1>5 DEF SettleFail, CommitError, Done
  <2>2. /\ Ids' = Ids /\ versions'[op.ver].status = "failed"
        /\ \A w \in Ids : w # op.ver => versions'[w] = versions[w]
    BY <1>1, <1>2, <2>1, SetStatusKeeps DEF ConfigStatus
  <2>3. AppliedIds' = AppliedIds
    BY <2>1, FailKeepsApplied
  <2>4. \A v \in Ids : versions'[v].status # "pending"
    BY <1>1, <2>2 DEF StatusOf
  <2>5. /\ op'.pc \in {"free", "restore"} /\ op'.todo = {}
        /\ op'.pc = "restore" => op'.prev = confirmed
    BY <1>1, <2>1 DEF Free, Inv, TypeOK
  <2>6. AppliedIds = {confirmed} \ {0}
    BY <2>1 DEF ConfirmedOK
  <2> QED BY <1>2, <2>1, <2>2, <2>3, <2>4, <2>5, <2>6 DEF ConfirmedOK, Settling, StatusOf
<1> QED BY <1>3, <1>4, <1>5

LEMMA ConfirmedKept ==
  ASSUME Uninterrupted, Inv, ConfirmedOK, [Next]_vars
  PROVE  ConfirmedOK'
<1>0. ~Abort /\ ~Crash /\ ~SettlePending /\ ~SettleNext
  BY NotCutShort, NothingToSweep
<1>1. ASSUME NEW r \in Requests, Request(r) PROVE ConfirmedOK'
  <2>1. CASE CheckBase(r) \/ PrepareEdit(r) \/ PrepareRollback(r) \/ Refuse(r)
    BY <2>1, ConfirmedStill DEF CheckBase, PrepareEdit, PrepareRollback, Refuse
  <2>2. CASE RecordRejected(r) \/ RecordPending(r)
    BY <2>2, ConfirmedRecord
  <2> QED BY <1>1, <2>1, <2>2 DEF Request
<1>2. CASE Commit \/ Restore \/ RestoreError
  BY <1>2, ConfirmedStill DEF Commit, Restore, RestoreError
<1>3. CASE Recheck
  BY <1>3, ConfirmedStill DEF Recheck, Done, ConfirmedOK
<1>4. CASE SettleSupersede \/ SettleApply \/ SettleFail \/ CommitError
  BY <1>4, ConfirmedSettle
<1>5. CASE Reload \/ ReloadPartly \/ HandEdit \/ Tick \/ UNCHANGED vars
  <2>1. UNCHANGED <<versions, op, confirmed>>
    BY <1>5 DEF Reload, ReloadPartly, ReloadWith, HandEdit, Tick, vars
  <2> QED BY <2>1, ConfirmedStill
<1> QED BY <1>0, <1>1, <1>2, <1>3, <1>4, <1>5 DEF Next, Operation

LEMMA ConfirmedInitially == Init => ConfirmedOK /\ EditsOK
<1> SUFFICES ASSUME Init PROVE ConfirmedOK /\ EditsOK
  OBVIOUS
<1>1. Ids = {} /\ AppliedIds = {} /\ op.pc = "free" /\ op.todo = {} /\ confirmed = 0
  BY DEF Init, Ids, AppliedIds, Free
<1>2. \A r \in Requests : req[r].pc = "idle"
  BY DEF Init, NoRequest
<1> QED BY <1>1, <1>2 DEF ConfirmedOK, EditsOK, Settling

(* Where save_all replaces whole files, storage is what was saved. *)
LEMMA SavedIsGenerated ==
  ASSUME Mode # "by_item", NEW disk, NEW i \in Intents
  PROVE  Saved(disk, i) = Generate(i)
BY DEF Saved, Generate, Intents

LEMMA StorageKept ==
  ASSUME Undisturbed, Mode # "by_item", Inv, ConfirmedOK, StorageOK, [Next]_vars
  PROVE  StorageOK'
<1>0. /\ ~CommitError /\ ~RestoreError /\ ~Abort /\ ~Crash /\ ~HandEdit
      /\ ~SettlePending /\ ~SettleNext
  BY NotCutShort, NotDisturbed, NothingToSweep
<1>1. \A v \in Ids : versions'[v].intent = versions[v].intent /\ versions[v].intent \in Intents
  BY RowStays, IdsArePositive DEF Inv, Versions
<1>2. confirmed \in Ids \cup {0} /\ (op.pc \in Settling => op.ver \in Ids)
  BY DEF ConfirmedOK, Inv, LockHolder, Settling
<1>3. (confirmed # 0 => confirmed \in Ids) /\ 0 \notin Ids
  BY <1>2, IdsArePositive DEF Inv
<1> DEFINE Held == op.pc \in {"free", "commit", "recheck"} /\ confirmed # 0
                     => storage = Generate(versions[confirmed].intent)
           Made == op.pc \in {"verify", "confirm"}
                     => storage = Generate(versions[op.ver].intent)
<1>4. Held /\ Made
  BY DEF StorageOK, IntentOf
<1> SUFFICES /\ op'.pc \in {"free", "commit", "recheck"} /\ confirmed' # 0
                  => storage' = Generate(versions'[confirmed'].intent)
             /\ op'.pc \in {"verify", "confirm"}
                  => storage' = Generate(versions'[op'.ver].intent)
  BY DEF StorageOK, IntentOf
<1>5. CASE UNCHANGED <<op, storage, confirmed>>
  BY <1>1, <1>2, <1>3, <1>4, <1>5 DEF Settling
<1>6. ASSUME NEW r \in Requests, RecordPending(r)
      PROVE  op.pc = "free" /\ op'.pc = "commit" /\ UNCHANGED <<storage, confirmed>>
  BY <1>6 DEF RecordPending, Free
<1>7. ASSUME NEW r \in Requests, Request(r), ~RecordPending(r)
      PROVE  UNCHANGED <<op, storage, confirmed>>
  BY <1>7 DEF Request, CheckBase, PrepareEdit, PrepareRollback, Refuse, RecordRejected
<1>8. CASE \E r \in Requests : Request(r)
  <2>1. CASE \E r \in Requests : RecordPending(r)
    BY <1>1, <1>3, <1>4, <1>6, <2>1
  <2> QED BY <1>5, <1>7, <1>8, <2>1
<1>9. CASE Commit
  <2>1. op.ver \in Ids /\ op'.pc = "verify" /\ op'.ver = op.ver
    BY <1>2, <1>9 DEF Commit, Settling, Inv, TypeOK
  <2>2. storage' = Generate(versions[op.ver].intent)
    BY <1>1, <1>9, <2>1, SavedIsGenerated DEF Commit
  <2> QED BY <1>1, <2>1, <2>2
<1>10. CASE SettleSupersede
  <2>1. /\ op.pc = "verify" /\ op'.pc = "confirm" /\ op'.ver = op.ver
        /\ UNCHANGED <<storage, confirmed>>
    BY <1>10 DEF SettleSupersede, Inv, TypeOK
  <2> QED BY <1>1, <1>2, <1>4, <2>1 DEF Settling
<1>11. CASE SettleApply
  <2>1. /\ op.pc = "confirm" /\ op'.pc = "free" /\ confirmed' = op.ver
        /\ UNCHANGED storage
    BY <1>11 DEF SettleApply, Done, Free, ConfirmedOK
  <2> QED BY <1>1, <1>2, <1>4, <2>1 DEF Settling
<1>12. CASE SettleFail
  <2>1. /\ op'.pc \in {"free", "restore"} /\ UNCHANGED confirmed
        /\ op'.pc = "free" => op.prev = 0
    BY <1>12 DEF SettleFail, Done, Free, ConfirmedOK, Inv, TypeOK
  <2>2. op.prev = confirmed
    BY <1>12 DEF SettleFail, ConfirmedOK
  <2> QED BY <2>1, <2>2
<1>13. CASE Restore
  <2>1. op.prev = confirmed /\ op'.pc = "recheck" /\ UNCHANGED confirmed
    BY <1>13 DEF Restore, ConfirmedOK, Inv, TypeOK
  <2>2. confirmed # 0 => storage' = Generate(versions[confirmed].intent)
    BY <1>1, <1>3, <1>13, <2>1, SavedIsGenerated DEF Restore
  <2> QED BY <1>1, <1>3, <2>1, <2>2
<1>14. CASE Recheck
  <2>1. op.pc = "recheck" /\ op'.pc = "free" /\ UNCHANGED <<storage, confirmed>>
    BY <1>14 DEF Recheck, Done, Free, ConfirmedOK
  <2> QED BY <1>1, <1>3, <1>4, <2>1
<1>15. CASE Reload \/ ReloadPartly \/ Tick \/ UNCHANGED vars
  BY <1>5, <1>15 DEF Reload, ReloadPartly, ReloadWith, Tick, vars
<1> HIDE DEF Held, Made
<1> QED BY <1>0, <1>8, <1>9, <1>10, <1>11, <1>12, <1>13, <1>14, <1>15 DEF Next, Operation

(* While operations run to their end, the version confirmed last is the one  *)
(* readers of the table find, and every edit has one change.                 *)
THEOREM ConfirmedHolds ==
  ASSUME Uninterrupted
  PROVE  Spec => [](ConfirmedOK /\ EditsOK)
<1>1. Inv /\ ConfirmedOK /\ EditsOK /\ [Next]_vars => (ConfirmedOK /\ EditsOK)'
  BY ConfirmedKept, EditsKept
<1> QED BY <1>1, ConfirmedInitially, InvHolds, PTL DEF Spec

(* apply_if_current compares an edit's base with the newest applied version. *)
(* As long as operations run to their end, whatever saves fail, that is      *)
(* the version confirmed last: an edit that gets past the comparison never   *)
(* starts from the empty intent once something was confirmed.                *)
THEOREM EditsHaveTheirBase ==
  ASSUME Uninterrupted
  PROVE  Spec => []EditBaseKept
<1>1. Inv /\ ConfirmedOK => EditBaseKept
  BY LatestIsConfirmed DEF EditBaseKept, BaseIsCurrent, Free
<1> QED BY <1>1, ConfirmedHolds, InvHolds, PTL

(* With the layouts that replace whole files, storage holds exactly what the *)
(* applied version generates whenever no operation is under way: a config    *)
(* that failed to load was written back before the lock was given up.        *)
THEOREM StorageIsApplied ==
  ASSUME Undisturbed, Mode # "by_item"
  PROVE  Spec => []StoredIsApplied
<1>1. Init => StorageOK
  BY DEF Init, StorageOK, Free
<1>2. Inv /\ ConfirmedOK /\ StorageOK /\ [Next]_vars => StorageOK'
  BY StorageKept
<1>3. Inv /\ ConfirmedOK /\ StorageOK => StoredIsApplied
  BY LatestIsConfirmed DEF StoredIsApplied, StorageOK, Free
<1>4. Uninterrupted
  BY NotDisturbed
<1> QED BY <1>1, <1>2, <1>3, <1>4, ConfirmedHolds, InvHolds, PTL DEF Spec

(* What confirming a version leaves as it was, when the version is an edit. *)
KeepsOthers(v) ==
  /\ StatusOf(v) = "pending" /\ versions'[v].status = "applied"
  /\ versions[v].kind = "edit"
  => \A m, n \in Names :
       /\ versions[v].intent[m] # IntentOf(confirmed)[m]
       /\ versions[v].intent[n] # IntentOf(confirmed)[n]
       => m = n

(* An edit that is confirmed changes at most one entry of what was confirmed *)
(* before it: of two edits prepared from the same version, apply_if_current  *)
(* lets only one through, and what lies between its check and the write of   *)
(* `applied` is covered by the operation lock.                               *)
THEOREM EditsAreNotLost ==
  ASSUME Uninterrupted
  PROVE  Spec => NoLostUpdate
<1>1. Inv /\ ConfirmedOK /\ EditsOK /\ [Next]_vars => [\A v \in Ids : KeepsOthers(v)]_vars
  <2> SUFFICES ASSUME Inv, ConfirmedOK, EditsOK, [Next]_vars, NEW v \in Ids,
                      StatusOf(v) = "pending", versions'[v].status = "applied",
                      versions[v].kind = "edit"
               PROVE  OneChange(versions[v].intent, IntentOf(confirmed))
    BY DEF KeepsOthers, OneChange
  <2>1. op.pc \in Settling /\ v = op.ver
    BY DEF ConfirmedOK
  <2>2. versions[v].from = confirmed
    BY <2>1 DEF ConfirmedOK
  <2> QED BY <2>2 DEF EditsOK
<1>2. Spec => [][\A v \in Ids : KeepsOthers(v)]_vars
  BY <1>1, ConfirmedHolds, InvHolds, PTL DEF Spec
<1> QED BY <1>2, PTL DEF NoLostUpdate, KeepsOthers
=============================================================================
