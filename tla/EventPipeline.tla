---------------------------- MODULE EventPipeline ----------------------------
(***************************************************************************)
(* Security events from the request path to the store: the bounded         *)
(* EventQueue (crates/pingap-events/src/lib.rs) and EventWriter::flush     *)
(* (crates/pingap-controlplane/src/events/writer.rs), driven by            *)
(* SecurityEventTask (src/projection.rs).                                  *)
(*                                                                         *)
(* An event is its identity and its class.  Of the counters, those that    *)
(* account for lost events are kept.                                       *)
(***************************************************************************)
EXTENDS Integers, Sequences, FiniteSets

CONSTANTS
  Detects,      \* WAF findings that only detect: droppable
  Enforced,     \* WAF findings that blocked or redacted
  Natives,      \* native ban lifecycle records
  Capacity,     \* EventQueue::capacity
  Batch,        \* EventWriter::batch
  MaxFailures   \* bound on failing writes

Wafs == Detects \cup Enforced
Events == Wafs \cup Natives

ASSUME ClassesDisjoint == /\ Detects \cap Enforced = {}
                          /\ Wafs \cap Natives = {}
ASSUME SizeAssumption == /\ Capacity \in Nat \ {0} /\ Batch \in Nat \ {0}
                         /\ MaxFailures \in Nat

VARIABLES
  unsent,    \* events the request path has not offered yet
  queue,     \* EventQueue::queue
  pending,   \* flush: what is not acknowledged yet
  pc,        \* flush: "idle", "writing" or "restoring"
  stored,    \* waf_events and activity rows
  count,     \* dropped_detect, evicted_detect, counted_enforced, dropped_lifecycle
  writeFailures   \* failing writes so far

eventVars == <<unsent, queue, pending, pc, stored, count, writeFailures>>

-----------------------------------------------------------------------------
Elements(q) == {q[k] : k \in DOMAIN q}

(* The position of the first droppable event. *)
Victims(q) == {k \in DOMAIN q : q[k] \in Detects}
IsVictim(k, q) == k \in Victims(q) /\ \A j \in Victims(q) : k <= j
WithoutAt(q, k) == SubSeq(q, 1, k - 1) \o SubSeq(q, k + 1, Len(q))

Count(field) == count' = [count EXCEPT ![field] = @ + 1]

(* Mutant of OfferNotification: no eviction. *)
OfferNoEviction(e) ==
  \/ /\ Len(queue) < Capacity
     /\ queue' = Append(queue, e)
     /\ UNCHANGED count
  \/ /\ Len(queue) >= Capacity
     /\ Count(IF e \in Detects THEN "dropped_detect"
              ELSE IF e \in Enforced THEN "counted_enforced" ELSE "dropped_lifecycle")
     /\ UNCHANGED queue

(* offer_notification: Queued, Dropped, EvictedADetect or Counted *)
OfferNotification(e) ==
  \/ /\ Len(queue) < Capacity
     /\ queue' = Append(queue, e)
     /\ UNCHANGED count
  \/ /\ Len(queue) >= Capacity
     /\ e \in Detects
     /\ Count("dropped_detect")
     /\ UNCHANGED queue
  \/ /\ Len(queue) >= Capacity
     /\ e \notin Detects
     /\ \E k \in DOMAIN queue : /\ IsVictim(k, queue)
                                /\ queue' = Append(WithoutAt(queue, k), e)
     /\ Count("evicted_detect")
  \/ /\ Len(queue) >= Capacity
     /\ e \notin Detects
     /\ Victims(queue) = {}
     /\ Count(IF e \in Enforced THEN "counted_enforced" ELSE "dropped_lifecycle")
     /\ UNCHANGED queue

(* The request path reports a verdict or a ban. *)
Offer(e) ==
  /\ e \in unsent
  /\ unsent' = unsent \ {e}
  /\ OfferNotification(e)
  /\ UNCHANGED <<pending, pc, stored, writeFailures>>

-----------------------------------------------------------------------------
(* EventWriter::flush.                                                      *)

(* Mutant of Drain: a batch must be full. *)
DrainFullOnly ==
  /\ pc = "idle"
  /\ Len(queue) >= Batch
  /\ pending' = SubSeq(queue, 1, Batch)
  /\ queue' = SubSeq(queue, Batch + 1, Len(queue))
  /\ pc' = "writing"
  /\ UNCHANGED <<unsent, stored, count, writeFailures>>

(* drain_notifications *)
Drain ==
  /\ pc = "idle"
  /\ queue # << >>
  /\ LET n == IF Batch < Len(queue) THEN Batch ELSE Len(queue)
     IN /\ pending' = SubSeq(queue, 1, n)
        /\ queue' = SubSeq(queue, n + 1, Len(queue))
  /\ pc' = "writing"
  /\ UNCHANGED <<unsent, stored, count, writeFailures>>

(* What one write acknowledges: the leading run of WAF findings in one       *)
(* transaction, or one native record.                                        *)
IsRun(n) ==
  /\ n \in DOMAIN pending
  /\ IF pending[1] \in Natives THEN n = 1
     ELSE /\ \A k \in 1..n : pending[k] \in Wafs
          /\ n < Len(pending) => pending[n + 1] \notin Wafs

Write ==
  /\ pc = "writing"
  /\ \E n \in 1..Batch :
       /\ IsRun(n)
       /\ stored' = stored \cup Elements(SubSeq(pending, 1, n))
       /\ pending' = SubSeq(pending, n + 1, Len(pending))
       /\ pc' = IF n = Len(pending) THEN "idle" ELSE "writing"
  /\ UNCHANGED <<unsent, queue, count, writeFailures>>

(* Mutant of WriteFails: the batch is dropped. *)
WriteFailsLoses ==
  /\ pc = "writing"
  /\ writeFailures < MaxFailures
  /\ writeFailures' = writeFailures + 1
  /\ pending' = << >>
  /\ pc' = "idle"
  /\ UNCHANGED <<unsent, queue, stored, count>>

WriteFails ==
  /\ pc = "writing"
  /\ writeFailures < MaxFailures
  /\ writeFailures' = writeFailures + 1
  /\ pc' = "restoring"
  /\ UNCHANGED <<unsent, queue, pending, stored, count>>

(* What is not acknowledged is offered again, one lock hold each: the        *)
(* request path keeps offering in between.                                   *)
RestoreOne ==
  /\ pc = "restoring"
  /\ OfferNotification(Head(pending))
  /\ pending' = Tail(pending)
  /\ pc' = IF Len(pending) = 1 THEN "idle" ELSE "restoring"
  /\ UNCHANGED <<unsent, stored, writeFailures>>

-----------------------------------------------------------------------------
EventInit ==
  /\ unsent = Events
  /\ queue = << >>
  /\ pending = << >>
  /\ pc = "idle"
  /\ stored = {}
  /\ count = [dropped_detect |-> 0, evicted_detect |-> 0,
              counted_enforced |-> 0, dropped_lifecycle |-> 0]
  /\ writeFailures = 0

EventNext == (\E e \in Events : Offer(e)) \/ Drain \/ Write \/ WriteFails \/ RestoreOne

EventSpec == EventInit /\ [][EventNext]_eventVars

(* The background service calls flush on a timer and awaits it to its end.   *)
FairEventSpec == EventSpec /\ WF_eventVars(Drain) /\ WF_eventVars(Write) /\ WF_eventVars(RestoreOne)

-----------------------------------------------------------------------------
(* Properties.                                                              *)

EventTypeOK ==
  /\ unsent \subseteq Events
  /\ queue \in Seq(Events) /\ Len(queue) <= Capacity
  /\ pending \in Seq(Events) /\ Len(pending) <= Batch
  /\ pc \in {"idle", "writing", "restoring"}
  /\ pc = "idle" <=> pending = << >>
  /\ stored \subseteq Events
  /\ count \in [{"dropped_detect", "evicted_detect", "counted_enforced",
                 "dropped_lifecycle"} -> Nat]
  /\ writeFailures \in 0..MaxFailures

Distinct(q) == \A j, k \in DOMAIN q : q[j] = q[k] => j = k

(* A retry never duplicates: an event waits in the queue, is in flight or is *)
(* stored, never two of them and never twice, however writes fail halfway    *)
(* through a batch.                                                          *)
OnePlace ==
  /\ Distinct(queue) /\ Distinct(pending)
  /\ Elements(queue) \cap Elements(pending) = {}
  /\ stored \cap (Elements(queue) \cup Elements(pending)) = {}
  /\ unsent \cap (Elements(queue) \cup Elements(pending) \cup stored) = {}

Lost == Events \ (unsent \cup Elements(queue) \cup Elements(pending) \cup stored)

(* writer.rs: "gone silently ... is the exact failure the queue's priority   *)
(* policy exists to prevent".  Every event that is gone, at its first offer  *)
(* or when a failed batch goes back, is in the counter of its class.         *)
LossIsCounted ==
  /\ Cardinality(Lost \cap Detects) = count["dropped_detect"] + count["evicted_detect"]
  /\ Cardinality(Lost \cap Enforced) = count["counted_enforced"]
  /\ Cardinality(Lost \cap Natives) = count["dropped_lifecycle"]

(* Every event is accounted for: in one place, or counted as lost. *)
Accounted == EventTypeOK /\ OnePlace /\ LossIsCounted

(* An event is only ever lost to a full queue, and one that is not droppable *)
(* only when nothing droppable is left in it.                                *)
PriorityKept ==
  [][\A e \in Events : e \notin Lost /\ e \in Lost' =>
       /\ Len(queue') = Capacity
       /\ e \notin Detects => Elements(queue') \cap Detects = {}]_eventVars

(* Once writes stop failing, an offered event is stored or counted as lost.  *)
EventuallySettled ==
  \A e \in Events : e \notin unsent ~> e \in stored \cup Lost
=============================================================================
