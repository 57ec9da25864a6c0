---------------------------- MODULE VersionLedger ----------------------------
(***************************************************************************)
(* What the config_versions table promises to everything that reads it     *)
(* (edit base, rollback list, drift check): versions are only appended, a  *)
(* version is confirmed at most once and only from `pending`, and never    *)
(* two versions are `applied` at the same time.  ConfigApply implements    *)
(* this ledger.                                                            *)
(***************************************************************************)
EXTENDS Naturals, Sequences

VARIABLE ledger    \* sequence of ConfigStatus, one per row, in insertion order

ConfigStatus == {"pending", "applied", "failed", "superseded"}

TypeOK == ledger \in Seq(ConfigStatus)

Init == ledger = << >>

(* A row is born `pending`, or `failed` when validation rejected it. *)
Record == \E s \in {"pending", "failed"} : ledger' = Append(ledger, s)

Fail(v) == /\ ledger[v] = "pending"
           /\ ledger' = [ledger EXCEPT ![v] = "failed"]

Retire(v) == /\ ledger[v] = "applied"
             /\ ledger' = [ledger EXCEPT ![v] = "superseded"]

(* Confirmation needs the previous version to have been retired. *)
Confirm(v) == /\ ledger[v] = "pending"
              /\ \A w \in DOMAIN ledger : ledger[w] # "applied"
              /\ ledger' = [ledger EXCEPT ![v] = "applied"]

Next == Record \/ \E v \in DOMAIN ledger : Fail(v) \/ Retire(v) \/ Confirm(v)

Spec == Init /\ [][Next]_ledger
=============================================================================
