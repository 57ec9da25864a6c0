-------------------------- MODULE BackgroundProofs ---------------------------
(*****************************************************************************)
(* Proofs about what runs behind the requests: the writer of security events *)
(* (EventPipeline), the rollups of their counts (Rollups) and the learned    *)
(* baselines (Baselines).  The three share no variable.                      *)
(*****************************************************************************)
EXTENDS EventPipeline, Rollups, Baselines, FiniteSetTheorems, SequenceTheorems,
        WellFoundedInduction, TLAPS

-----------------------------------------------------------------------------
(*****************************************************************************)
(* EventPipeline, for any events, capacity, batch size and number of failing *)
(* writes.                                                                   *)
(*                                                                           *)
(* The invariant says of every event where it is: in exactly one of          *)
(* `unsent`, the queue, the batch in flight, the store and the lost ones,    *)
(* and the counter of the dropped is the number of the lost.  Every step     *)
(* moves one event, or a prefix of the queue, from one place to another; the *)
(* facts about sequences below say what such a move does to the set of a     *)
(* sequence's elements.                                                      *)
(*****************************************************************************)

-----------------------------------------------------------------------------
(* Sequences of events, each at most once.                                   *)

LEMMA AppendFacts ==
  ASSUME NEW q \in Seq(Events), NEW e \in Events, e \notin Elements(q), Distinct(q)
  PROVE  /\ Append(q, e) \in Seq(Events) /\ Len(Append(q, e)) = Len(q) + 1
         /\ Elements(Append(q, e)) = Elements(q) \cup {e}
         /\ Distinct(Append(q, e))
<1> DEFINE p == Append(q, e)
<1>1. /\ p \in Seq(Events) /\ Len(q) \in Nat /\ Len(p) = Len(q) + 1
      /\ DOMAIN p = 1 .. Len(q) + 1 /\ DOMAIN q = 1 .. Len(q)
      /\ \A k \in 1 .. Len(q) : p[k] = q[k]
      /\ p[Len(q) + 1] = e
  OBVIOUS
<1> HIDE DEF p
<1>2. Elements(p) = Elements(q) \cup {e}
  BY <1>1 DEF Elements
<1>3. Distinct(p)
  <2> SUFFICES ASSUME NEW j \in DOMAIN p, NEW k \in DOMAIN p, p[j] = p[k] PROVE j = k
    BY DEF Distinct
  <2>1. CASE j \in DOMAIN q /\ k \in DOMAIN q
    BY <1>1, <2>1 DEF Distinct
  <2>2. \A i \in DOMAIN q : p[i] # e
    BY <1>1 DEF Elements
  <2> QED BY <1>1, <2>1, <2>2
<1> QED BY <1>1, <1>2, <1>3 DEF p

LEMMA CutLength ==
  ASSUME NEW m \in Nat, NEW l \in Nat, m <= l
  PROVE  (IF m + 1 <= l THEN l - (m + 1) + 1 ELSE 0) = l - m
OBVIOUS

LEMMA EmptyLength ==
  ASSUME NEW q \in Seq(Events)
  PROVE  q = << >> <=> Len(q) = 0
OBVIOUS

(* A sequence cut in two. *)
LEMMA CutFacts ==
  ASSUME NEW q \in Seq(Events), NEW n \in 0 .. Len(q), Distinct(q)
  PROVE  LET a == SubSeq(q, 1, n)
             b == SubSeq(q, n + 1, Len(q))
         IN /\ a \in Seq(Events) /\ Len(a) = n
            /\ b \in Seq(Events) /\ Len(b) = Len(q) - n
            /\ Elements(a) \cup Elements(b) = Elements(q)
            /\ Elements(a) \cap Elements(b) = {}
            /\ Distinct(a) /\ Distinct(b)
<1> DEFINE a == SubSeq(q, 1, n)
           b == SubSeq(q, n + 1, Len(q))
<1>1. /\ Len(q) \in Nat /\ n \in Nat /\ n <= Len(q) /\ DOMAIN q = 1 .. Len(q)
  OBVIOUS
<1>2. /\ a \in Seq(Events) /\ Len(a) = n /\ DOMAIN a = 1 .. n
      /\ \A k \in 1 .. n : a[k] = q[k]
  BY <1>1
<1>3. /\ b \in Seq(Events) /\ Len(b) = Len(q) - n /\ DOMAIN b = 1 .. Len(q) - n
      /\ \A k \in 1 .. Len(q) - n : b[k] = q[n + k]
  <2>1. n + 1 \in Int /\ Len(q) \in Int /\ \A i \in n + 1 .. Len(q) : q[i] \in Events
    BY <1>1
  <2>2. /\ b \in Seq(Events)
        /\ Len(b) = IF n + 1 <= Len(q) THEN Len(q) - (n + 1) + 1 ELSE 0
        /\ \A i \in 1 .. Len(q) - (n + 1) + 1 : b[i] = q[(n + 1) + i - 1]
    BY <2>1, SubSeqProperties
  <2> HIDE DEF b
  <2>3. Len(b) = Len(q) - n /\ DOMAIN b = 1 .. Len(b)
    <3>1. DOMAIN b = 1 .. Len(b)
      BY <2>2
    <3>2. Len(b) = Len(q) - n
      BY <1>1, <2>2, CutLength
    <3> QED BY <3>1, <3>2
  <2>4. ASSUME NEW k \in 1 .. Len(q) - n PROVE b[k] = q[n + k]
    <3>1. k \in 1 .. Len(q) - (n + 1) + 1 /\ (n + 1) + k - 1 = n + k
      BY <1>1
    <3> QED BY <2>2, <3>1
  <2> QED BY <2>2, <2>3, <2>4
<1> HIDE DEF a, b
<1>4. Elements(a) \cup Elements(b) = Elements(q)
  <2>1. \A x \in Elements(a) \cup Elements(b) : x \in Elements(q)
    <3>1. \A k \in 1 .. n : k \in DOMAIN q
      BY <1>1
    <3>2. \A k \in 1 .. Len(q) - n : n + k \in DOMAIN q
      BY <1>1
    <3>3. \A k \in DOMAIN a : a[k] \in Elements(q)
      BY <1>2, <3>1 DEF Elements
    <3>4. \A k \in DOMAIN b : b[k] \in Elements(q)
      BY <1>3, <3>2 DEF Elements
    <3> QED BY <3>3, <3>4 DEF Elements
  <2>2. ASSUME NEW k \in DOMAIN q PROVE q[k] \in Elements(a) \cup Elements(b)
    <3>1. CASE k <= n
      BY <1>1, <1>2, <3>1 DEF Elements
    <3>2. CASE k > n
      <4>1. k - n \in 1 .. Len(q) - n /\ n + (k - n) = k
        BY <1>1, <3>2
      <4>2. b[k - n] = q[k]
        BY <1>3, <4>1
      <4> QED BY <1>3, <4>1, <4>2 DEF Elements
    <3> QED BY <1>1, <3>1, <3>2
  <2> QED BY <2>1, <2>2 DEF Elements
<1>5. ASSUME NEW j \in DOMAIN a, NEW k \in DOMAIN b PROVE a[j] # b[k]
  <2>1. j \in DOMAIN q /\ n + k \in DOMAIN q /\ j # n + k
    BY <1>1, <1>2, <1>3
  <2> QED BY <1>2, <1>3, <2>1 DEF Distinct
<1>6. Elements(a) \cap Elements(b) = {}
  BY <1>5 DEF Elements
<1>7. Distinct(a)
  BY <1>1, <1>2 DEF Distinct
<1>8. Distinct(b)
  <2> SUFFICES ASSUME NEW j \in DOMAIN b, NEW k \in DOMAIN b, b[j] = b[k] PROVE j = k
    BY DEF Distinct
  <2>1. n + j \in DOMAIN q /\ n + k \in DOMAIN q /\ q[n + j] = q[n + k]
    BY <1>1, <1>3
  <2>2. n + j = n + k
    BY <2>1 DEF Distinct
  <2> QED BY <1>1, <1>3, <2>2
<1> QED BY <1>2, <1>3, <1>4, <1>6, <1>7, <1>8 DEF a, b

LEMMA WithoutAtFacts ==
  ASSUME NEW q \in Seq(Events), NEW k \in DOMAIN q, Distinct(q)
  PROVE  /\ WithoutAt(q, k) \in Seq(Events) /\ Len(WithoutAt(q, k)) = Len(q) - 1
         /\ Elements(WithoutAt(q, k)) = Elements(q) \ {q[k]}
         /\ Distinct(WithoutAt(q, k))
<1> DEFINE p == WithoutAt(q, k)
<1>1. Len(q) \in Nat /\ k \in 1 .. Len(q) /\ DOMAIN q = 1 .. Len(q)
  OBVIOUS
<1>2. /\ p \in Seq(Events) /\ Len(p) = Len(q) - 1 /\ DOMAIN p = 1 .. Len(q) - 1
      /\ \A j \in 1 .. Len(q) - 1 : p[j] = IF j < k THEN q[j] ELSE q[j + 1]
  <2> DEFINE a == SubSeq(q, 1, k - 1)
             b == SubSeq(q, k + 1, Len(q))
  <2>1. /\ \A i \in 1 .. k - 1 : q[i] \in Events
        /\ \A i \in k + 1 .. Len(q) : q[i] \in Events
        /\ {1, k - 1, k + 1, Len(q)} \subseteq Int
    BY <1>1
  <2>2. /\ a \in Seq(Events)
        /\ Len(a) = IF 1 <= k - 1 THEN k - 1 - 1 + 1 ELSE 0
        /\ \A i \in 1 .. k - 1 - 1 + 1 : a[i] = q[1 + i - 1]
    BY <2>1, SubSeqProperties
  <2>3. /\ b \in Seq(Events)
        /\ Len(b) = IF k + 1 <= Len(q) THEN Len(q) - (k + 1) + 1 ELSE 0
        /\ \A i \in 1 .. Len(q) - (k + 1) + 1 : b[i] = q[k + 1 + i - 1]
    BY <2>1, SubSeqProperties
  <2>4. Len(a) = k - 1 /\ Len(b) = Len(q) - k
    BY <1>1, <2>2, <2>3
  <2>5. p = a \o b
    BY DEF WithoutAt
  <2> HIDE DEF p, a, b
  <2>6. /\ p \in Seq(Events) /\ Len(p) = Len(a) + Len(b)
        /\ \A i \in 1 .. Len(a) + Len(b) :
             p[i] = IF i <= Len(a) THEN a[i] ELSE b[i - Len(a)]
    BY <2>2, <2>3, <2>5, ConcatProperties
  <2>7. Len(p) = Len(q) - 1 /\ DOMAIN p = 1 .. Len(p)
    BY <1>1, <2>4, <2>6
  <2>8. ASSUME NEW j \in 1 .. Len(q) - 1 PROVE p[j] = IF j < k THEN q[j] ELSE q[j + 1]
    <3>1. CASE j < k
      <4>1. j \in 1 .. k - 1 - 1 + 1 /\ 1 + j - 1 = j
            /\ j <= Len(a) /\ j \in 1 .. Len(a) + Len(b)
        BY <1>1, <2>4, <3>1
      <4> QED BY <2>2, <2>6, <3>1, <4>1
    <3>2. CASE ~(j < k)
      <4>1. /\ j - Len(a) \in 1 .. Len(q) - (k + 1) + 1 /\ k + 1 + (j - Len(a)) - 1 = j + 1
            /\ ~(j <= Len(a)) /\ j \in 1 .. Len(a) + Len(b)
        BY <1>1, <2>4, <3>2, SMTT(30)
      <4> QED BY <2>3, <2>6, <3>2, <4>1
    <3> QED BY <3>1, <3>2
  <2> QED BY <2>6, <2>7, <2>8
<1> HIDE DEF p
<1>3. ASSUME NEW j \in DOMAIN p
      PROVE  \E i \in DOMAIN q : i # k /\ p[j] = q[i] /\ i = IF j < k THEN j ELSE j + 1
  BY <1>1, <1>2
<1>4. ASSUME NEW i \in DOMAIN q, i # k PROVE \E j \in DOMAIN p : p[j] = q[i]
  <2>1. CASE i < k
    BY <1>1, <1>2, <2>1
  <2>2. CASE i > k
    <3>1. i - 1 \in 1 .. Len(q) - 1 /\ ~(i - 1 < k) /\ (i - 1) + 1 = i
      BY <1>1, <2>2
    <3> QED BY <1>2, <3>1
  <2> QED BY <1>1, <1>4, <2>1, <2>2
<1>5. Elements(p) = Elements(q) \ {q[k]}
  <2>1. \A x \in Elements(p) : x \in Elements(q) /\ x # q[k]
    BY <1>3 DEF Elements, Distinct
  <2>2. \A x \in Elements(q) : x # q[k] => x \in Elements(p)
    BY <1>4 DEF Elements
  <2> QED BY <2>1, <2>2
<1>6. Distinct(p)
  <2> SUFFICES ASSUME NEW i \in DOMAIN p, NEW j \in DOMAIN p, p[i] = p[j] PROVE i = j
    BY DEF Distinct
  <2>1. PICK i1 \in DOMAIN q : p[i] = q[i1] /\ i1 = IF i < k THEN i ELSE i + 1
    BY <1>3
  <2>2. PICK j1 \in DOMAIN q : p[j] = q[j1] /\ j1 = IF j < k THEN j ELSE j + 1
    BY <1>3
  <2>3. i1 = j1
    BY <2>1, <2>2 DEF Distinct
  <2> QED BY <1>1, <1>2, <2>1, <2>2, <2>3
<1> QED BY <1>2, <1>5, <1>6 DEF p

LEMMA TailFacts ==
  ASSUME NEW q \in Seq(Events), q # << >>, Distinct(q)
  PROVE  /\ Head(q) \in Events /\ Head(q) \in Elements(q)
         /\ Tail(q) \in Seq(Events) /\ Len(Tail(q)) = Len(q) - 1
         /\ Elements(Tail(q)) = Elements(q) \ {Head(q)}
         /\ Distinct(Tail(q))
<1>1. /\ Len(q) \in Nat \ {0} /\ DOMAIN q = 1 .. Len(q) /\ Head(q) = q[1]
      /\ Tail(q) \in Seq(Events) /\ Len(Tail(q)) = Len(q) - 1
      /\ DOMAIN Tail(q) = 1 .. Len(q) - 1
      /\ \A k \in 1 .. Len(q) - 1 : Tail(q)[k] = q[k + 1]
  OBVIOUS
<1>2. Head(q) \in Events /\ Head(q) \in Elements(q)
  BY <1>1 DEF Elements
<1> DEFINE p == Tail(q)
<1> HIDE DEF p
<1>3. \A x \in Elements(p) : x \in Elements(q) /\ x # q[1]
  BY <1>1 DEF Elements, Distinct, p
<1>4. ASSUME NEW k \in DOMAIN q, k # 1 PROVE q[k] \in Elements(p)
  <2>1. k - 1 \in 1 .. Len(q) - 1 /\ (k - 1) + 1 = k
    BY <1>1, <1>4
  <2> QED BY <1>1, <2>1 DEF Elements, p
<1>5. Elements(p) = Elements(q) \ {Head(q)}
  <2>1. \A x \in Elements(q) : x # q[1] => x \in Elements(p)
    <3> SUFFICES ASSUME NEW k \in DOMAIN q, q[k] # q[1] PROVE q[k] \in Elements(p)
      BY DEF Elements
    <3> QED BY <1>4
  <2>2. Head(q) = q[1]
    BY <1>1
  <2> QED BY <1>3, <2>1, <2>2
<1>6. Distinct(p)
  BY <1>1 DEF Distinct, p
<1> QED BY <1>1, <1>2, <1>5, <1>6 DEF p

-----------------------------------------------------------------------------
(* One offer.                                                                *)

(* The event x that is lost by an offer of e, and the counter it goes to. *)
Loses(e, x, field) ==
  /\ x \in Elements(queue) \cup {e}
  /\ Len(queue) = Capacity /\ Len(queue') = Capacity
  /\ Elements(queue') = (Elements(queue) \cup {e}) \ {x}
  /\ Count(field)
  /\ \/ x \in Detects /\ field \in {"dropped_detect", "evicted_detect"}
     \/ x \in Enforced /\ field = "counted_enforced"
     \/ x \in Natives /\ field = "dropped_lifecycle"
  /\ x \notin Detects => Elements(queue') \cap Detects = {}

LEMMA OfferFacts ==
  ASSUME NEW e \in Events, queue \in Seq(Events), Len(queue) <= Capacity, Distinct(queue),
         e \notin Elements(queue), OfferNotification(e)
  PROVE  /\ queue' \in Seq(Events) /\ Len(queue') <= Capacity /\ Distinct(queue')
         /\ \/ Elements(queue') = Elements(queue) \cup {e} /\ UNCHANGED count
            \/ \E x \in Events, field \in {"dropped_detect", "evicted_detect",
                                           "counted_enforced", "dropped_lifecycle"} :
                 Loses(e, x, field)
<1>1. Len(queue) \in Nat /\ Capacity \in Nat \ {0}
  BY SizeAssumption
<1>2. Len(queue) >= Capacity => Len(queue) = Capacity
  BY <1>1
<1>3. Elements(queue) \subseteq Events
  BY DEF Elements
<1>4. CASE /\ Len(queue) < Capacity /\ queue' = Append(queue, e) /\ UNCHANGED count
  BY <1>1, <1>4, AppendFacts
<1>5. CASE /\ Len(queue) >= Capacity /\ e \in Detects /\ Count("dropped_detect")
           /\ UNCHANGED queue
  <2>1. Loses(e, e, "dropped_detect")
    BY <1>2, <1>5 DEF Loses
  <2> QED BY <1>5, <2>1
<1>6. CASE /\ Len(queue) >= Capacity /\ e \notin Detects /\ Count("evicted_detect")
           /\ \E k \in DOMAIN queue : /\ IsVictim(k, queue)
                                      /\ queue' = Append(WithoutAt(queue, k), e)
  <2>1. PICK k \in DOMAIN queue : /\ IsVictim(k, queue)
                                  /\ queue' = Append(WithoutAt(queue, k), e)
    BY <1>6
  <2> DEFINE p == WithoutAt(queue, k)
             x == queue[k]
  <2>2. x \in Detects /\ x \in Elements(queue) /\ x # e
    BY <2>1 DEF IsVictim, Victims, Elements
  <2>3. /\ p \in Seq(Events) /\ Len(p) = Len(queue) - 1
        /\ Elements(p) = Elements(queue) \ {x} /\ Distinct(p)
    BY WithoutAtFacts
  <2> HIDE DEF p, x
  <2>4. /\ queue' \in Seq(Events) /\ Len(queue') = Len(p) + 1
        /\ Elements(queue') = Elements(p) \cup {e} /\ Distinct(queue')
    BY <2>1, <2>3, AppendFacts DEF p
  <2>5. Loses(e, x, "evicted_detect")
    BY <1>1, <1>2, <1>6, <2>2, <2>3, <2>4 DEF Loses
  <2> QED BY <1>1, <1>2, <1>3, <1>6, <2>2, <2>3, <2>4, <2>5
<1>7. CASE /\ Len(queue) >= Capacity /\ e \notin Detects /\ Victims(queue) = {}
           /\ Count(IF e \in Enforced THEN "counted_enforced" ELSE "dropped_lifecycle")
           /\ UNCHANGED queue
  <2>1. Elements(queue) \cap Detects = {}
    BY <1>7 DEF Victims, Elements
  <2>2. CASE e \in Enforced
    <3>1. Loses(e, e, "counted_enforced")
      BY <1>2, <1>7, <2>1, <2>2 DEF Loses
    <3> QED BY <1>7, <3>1
  <2>3. CASE e \notin Enforced
    <3>1. e \in Natives
      BY <1>7, <2>3 DEF Events, Wafs
    <3>2. Loses(e, e, "dropped_lifecycle")
      BY <1>2, <1>7, <2>1, <2>3, <3>1 DEF Loses
    <3> QED BY <1>7, <3>2
  <2> QED BY <2>2, <2>3
<1> QED BY <1>4, <1>5, <1>6, <1>7 DEF OfferNotification

-----------------------------------------------------------------------------
(* The inductive invariant: OnePlace, and the losses, which are finite.      *)

EventsInv == EventTypeOK /\ OnePlace /\ LossIsCounted /\ IsFiniteSet(Lost)

LEMMA InitInv == EventInit => EventsInv
<1> SUFFICES ASSUME EventInit PROVE EventsInv
  OBVIOUS
<1>1. Elements(queue) = {} /\ Elements(pending) = {} /\ Distinct(queue) /\ Distinct(pending)
  BY DEF EventInit, Elements, Distinct
<1>2. Lost = {}
  BY DEF EventInit, Lost
<1>3. EventTypeOK
  BY SizeAssumption DEF EventInit, EventTypeOK
<1>4. OnePlace
  BY <1>1 DEF EventInit, OnePlace
<1>5. LossIsCounted
  BY <1>2, FS_EmptySet DEF EventInit, LossIsCounted
<1> QED BY <1>2, <1>3, <1>4, <1>5, FS_EmptySet DEF EventsInv

(* The losses of a class, when one event is lost. *)
LEMMA OneMoreLost ==
  ASSUME IsFiniteSet(Lost), NEW x \in Events, x \notin Lost, Lost' = Lost \cup {x}, NEW C
  PROVE  /\ Cardinality(Lost \cap C) \in Nat
         /\ Cardinality(Lost' \cap C) = Cardinality(Lost \cap C) + (IF x \in C THEN 1 ELSE 0)
<1>1. IsFiniteSet(Lost \cap C) /\ Cardinality(Lost \cap C) \in Nat
  BY FS_Intersection, FS_CardinalityType
<1>2. CASE x \in C
  <2>1. Lost' \cap C = (Lost \cap C) \cup {x} /\ x \notin Lost \cap C
    BY <1>2
  <2> QED BY <1>1, <1>2, <2>1, FS_AddElement
<1>3. CASE x \notin C
  <2>1. Lost' \cap C = Lost \cap C
    BY <1>3
  <2> QED BY <1>1, <1>3, <2>1
<1> QED BY <1>2, <1>3

(* The loss of x is counted. *)
LEMMA LossCounted ==
  ASSUME EventsInv, NEW e, NEW x \in Events, x \notin Lost, Lost' = Lost \cup {x},
         NEW field \in {"dropped_detect", "evicted_detect", "counted_enforced",
                        "dropped_lifecycle"}, Loses(e, x, field)
  PROVE  /\ LossIsCounted' /\ IsFiniteSet(Lost')
         /\ count' \in [{"dropped_detect", "evicted_detect", "counted_enforced",
                         "dropped_lifecycle"} -> Nat]
<1>1. /\ count \in [{"dropped_detect", "evicted_detect", "counted_enforced",
                     "dropped_lifecycle"} -> Nat]
      /\ count' = [count EXCEPT ![field] = @ + 1] /\ IsFiniteSet(Lost) /\ LossIsCounted
  BY DEF EventsInv, EventTypeOK, Loses, Count
<1>2. /\ Cardinality(Lost' \cap Detects) =
           Cardinality(Lost \cap Detects) + (IF x \in Detects THEN 1 ELSE 0)
      /\ Cardinality(Lost' \cap Enforced) =
           Cardinality(Lost \cap Enforced) + (IF x \in Enforced THEN 1 ELSE 0)
      /\ Cardinality(Lost' \cap Natives) =
           Cardinality(Lost \cap Natives) + (IF x \in Natives THEN 1 ELSE 0)
  BY <1>1, OneMoreLost
<1>3. IsFiniteSet(Lost')
  BY <1>1, FS_AddElement
<1>4. CASE x \in Detects /\ field \in {"dropped_detect", "evicted_detect"}
  <2>1. x \notin Enforced /\ x \notin Natives
    BY <1>4, ClassesDisjoint DEF Wafs
  <2> QED BY <1>1, <1>2, <1>3, <1>4, <2>1 DEF LossIsCounted
<1>5. CASE x \in Enforced /\ field = "counted_enforced"
  <2>1. x \notin Detects /\ x \notin Natives
    BY <1>5, ClassesDisjoint DEF Wafs
  <2> QED BY <1>1, <1>2, <1>3, <1>5, <2>1 DEF LossIsCounted
<1>6. CASE x \in Natives /\ field = "dropped_lifecycle"
  <2>1. x \notin Detects /\ x \notin Enforced
    BY <1>6, ClassesDisjoint DEF Wafs
  <2> QED BY <1>1, <1>2, <1>3, <1>6, <2>1 DEF LossIsCounted
<1> QED BY <1>4, <1>5, <1>6 DEF Loses

LEMMA NothingLost ==
  ASSUME EventsInv, Lost' = Lost, UNCHANGED count
  PROVE  LossIsCounted' /\ IsFiniteSet(Lost')
BY DEF EventsInv, LossIsCounted

(* An event that is nowhere but at its producer or at the head of the batch  *)
(* is offered to the queue, and is gone from where it was.                   *)
LEMMA OfferInv ==
  ASSUME EventsInv, NEW e \in Events, OfferNotification(e), e \notin Elements(queue),
         e \notin stored, stored' = stored, writeFailures' = writeFailures,
         unsent' \subseteq unsent, pending' \in Seq(Events), Len(pending') <= Batch,
         pc' \in {"idle", "writing", "restoring"}, pc' = "idle" <=> pending' = << >>,
         Distinct(pending'), Elements(pending') \subseteq Elements(pending),
         e \notin unsent' \cup Elements(pending'),
         unsent \cup Elements(pending) = unsent' \cup Elements(pending') \cup {e}
  PROVE  EventsInv' /\ \A y \in Events : y \notin Lost /\ y \in Lost' =>
                   /\ Len(queue') = Capacity
                   /\ y \notin Detects => Elements(queue') \cap Detects = {}
<1>1. /\ queue \in Seq(Events) /\ Len(queue) <= Capacity /\ Distinct(queue)
      /\ unsent \subseteq Events /\ stored \subseteq Events /\ writeFailures \in 0..MaxFailures
  BY DEF EventsInv, EventTypeOK, OnePlace
<1>2. /\ queue' \in Seq(Events) /\ Len(queue') <= Capacity /\ Distinct(queue')
      /\ \/ Elements(queue') = Elements(queue) \cup {e} /\ UNCHANGED count
         \/ \E x \in Events, field \in {"dropped_detect", "evicted_detect",
                                        "counted_enforced", "dropped_lifecycle"} :
              Loses(e, x, field)
  BY <1>1, OfferFacts
<1>3. Elements(queue') \subseteq Elements(queue) \cup {e}
  BY <1>2 DEF Loses
<1>4. OnePlace'
  BY <1>2, <1>3 DEF EventsInv, OnePlace
<1>5. /\ count' \in [{"dropped_detect", "evicted_detect", "counted_enforced",
                      "dropped_lifecycle"} -> Nat] => EventTypeOK'
  BY <1>1, <1>2 DEF EventTypeOK
<1>6. CASE Elements(queue') = Elements(queue) \cup {e} /\ UNCHANGED count
  <2>1. Lost' = Lost
    BY <1>6 DEF Lost
  <2>2. EventTypeOK'
    BY <1>5, <1>6 DEF EventsInv, EventTypeOK
  <2> QED BY <1>4, <1>6, <2>1, <2>2, NothingLost DEF EventsInv
<1>7. ASSUME NEW x \in Events,
             NEW field \in {"dropped_detect", "evicted_detect", "counted_enforced",
                            "dropped_lifecycle"}, Loses(e, x, field)
      PROVE  EventsInv' /\ \A y \in Events : y \notin Lost /\ y \in Lost' =>
                       /\ Len(queue') = Capacity
                       /\ y \notin Detects => Elements(queue') \cap Detects = {}
  <2>1. /\ x \in Elements(queue) \cup {e}
        /\ Elements(queue') = (Elements(queue) \cup {e}) \ {x}
        /\ Len(queue') = Capacity
        /\ x \notin Detects => Elements(queue') \cap Detects = {}
    BY <1>7 DEF Loses
  <2>2. x \notin Lost
    BY <2>1 DEF Lost
  <2>3. x \notin unsent' \cup Elements(pending') \cup stored
    BY <2>1 DEF EventsInv, OnePlace
  <2>4. Lost' = Lost \cup {x}
    BY <2>1, <2>3 DEF Lost
  <2>5. /\ LossIsCounted' /\ IsFiniteSet(Lost')
        /\ count' \in [{"dropped_detect", "evicted_detect", "counted_enforced",
                        "dropped_lifecycle"} -> Nat]
    BY <1>7, <2>2, <2>4, LossCounted
  <2> QED BY <1>4, <1>5, <2>1, <2>4, <2>5 DEF EventsInv
<1> QED BY <1>2, <1>6, <1>7

LEMMA OfferStep ==
  ASSUME EventsInv, NEW e \in Events, Offer(e)
  PROVE  EventsInv' /\ \A y \in Events : y \notin Lost /\ y \in Lost' =>
                   /\ Len(queue') = Capacity
                   /\ y \notin Detects => Elements(queue') \cap Detects = {}
<1>1. /\ e \in unsent /\ unsent' = unsent \ {e} /\ OfferNotification(e)
      /\ UNCHANGED <<pending, pc, stored, writeFailures>>
  BY DEF Offer
<1>2. e \notin Elements(queue) /\ e \notin Elements(pending) /\ e \notin stored
  BY <1>1 DEF EventsInv, OnePlace
<1>3. /\ pending' \in Seq(Events) /\ Len(pending') <= Batch
      /\ pc' \in {"idle", "writing", "restoring"} /\ (pc' = "idle" <=> pending' = << >>)
      /\ Distinct(pending') /\ Elements(pending') = Elements(pending)
  BY <1>1 DEF EventsInv, EventTypeOK, OnePlace
<1> QED BY <1>1, <1>2, <1>3, OfferInv

LEMMA RestoreStep ==
  ASSUME EventsInv, RestoreOne
  PROVE  EventsInv' /\ \A y \in Events : y \notin Lost /\ y \in Lost' =>
                   /\ Len(queue') = Capacity
                   /\ y \notin Detects => Elements(queue') \cap Detects = {}
<1> DEFINE e == Head(pending)
<1>1. /\ pc = "restoring" /\ OfferNotification(e) /\ pending' = Tail(pending)
      /\ pc' = IF Len(pending) = 1 THEN "idle" ELSE "restoring"
      /\ UNCHANGED <<unsent, stored, writeFailures>>
  BY DEF RestoreOne
<1>2. pending \in Seq(Events) /\ pending # << >> /\ Distinct(pending) /\ Len(pending) <= Batch
  BY <1>1 DEF EventsInv, EventTypeOK, OnePlace
<1>3. /\ e \in Events /\ e \in Elements(pending)
      /\ pending' \in Seq(Events) /\ Len(pending') = Len(pending) - 1
      /\ Elements(pending') = Elements(pending) \ {e} /\ Distinct(pending')
  BY <1>1, <1>2, TailFacts
<1>4. /\ Len(pending') <= Batch /\ pc' \in {"idle", "writing", "restoring"}
      /\ (pc' = "idle" <=> pending' = << >>)
  <2>1. Len(pending) \in Nat /\ (pending' = << >> <=> Len(pending') = 0)
    BY <1>2, <1>3, EmptyLength
  <2> QED BY <1>1, <1>2, <1>3, <2>1, SizeAssumption
<1>5. e \notin Elements(queue) /\ e \notin unsent /\ e \notin stored
  BY <1>3 DEF EventsInv, OnePlace
<1> HIDE DEF e
<1> QED BY <1>1, <1>3, <1>4, <1>5, OfferInv

LEMMA DrainStep ==
  ASSUME EventsInv, Drain
  PROVE  EventsInv' /\ Lost' = Lost
<1> DEFINE n == IF Batch < Len(queue) THEN Batch ELSE Len(queue)
<1>1. /\ pc = "idle" /\ queue # << >> /\ pc' = "writing"
      /\ pending' = SubSeq(queue, 1, n) /\ queue' = SubSeq(queue, n + 1, Len(queue))
      /\ UNCHANGED <<unsent, stored, count, writeFailures>>
  BY DEF Drain
<1>2. /\ queue \in Seq(Events) /\ Distinct(queue) /\ Len(queue) \in Nat /\ Len(queue) <= Capacity
      /\ pending = << >> /\ Elements(pending) = {}
  BY <1>1 DEF EventsInv, EventTypeOK, OnePlace, Elements
<1>3. n \in 0 .. Len(queue) /\ n \in 1 .. Batch
  BY <1>1, <1>2, SizeAssumption
<1> HIDE DEF n
<1>4. /\ pending' \in Seq(Events) /\ Len(pending') = n
      /\ queue' \in Seq(Events) /\ Len(queue') = Len(queue) - n
      /\ Elements(pending') \cup Elements(queue') = Elements(queue)
      /\ Elements(pending') \cap Elements(queue') = {}
      /\ Distinct(pending') /\ Distinct(queue')
  BY <1>1, <1>2, <1>3, CutFacts
<1>5. Len(queue') <= Capacity /\ Len(pending') <= Batch /\ pending' # << >>
  BY <1>2, <1>3, <1>4, SizeAssumption
<1>6. EventTypeOK'
  BY <1>1, <1>4, <1>5 DEF EventsInv, EventTypeOK
<1>7. OnePlace'
  BY <1>1, <1>2, <1>4 DEF EventsInv, OnePlace
<1>8. Lost' = Lost
  BY <1>1, <1>2, <1>4 DEF Lost
<1> QED BY <1>1, <1>6, <1>7, <1>8, NothingLost DEF EventsInv

LEMMA WriteStep ==
  ASSUME EventsInv, Write
  PROVE  EventsInv' /\ Lost' = Lost
<1>1. PICK n \in 1..Batch :
        /\ IsRun(n)
        /\ stored' = stored \cup Elements(SubSeq(pending, 1, n))
        /\ pending' = SubSeq(pending, n + 1, Len(pending))
        /\ pc' = IF n = Len(pending) THEN "idle" ELSE "writing"
  BY DEF Write
<1> DEFINE a == SubSeq(pending, 1, n)
<1>2. UNCHANGED <<unsent, queue, count, writeFailures>>
  BY DEF Write
<1>3. /\ pending \in Seq(Events) /\ Distinct(pending) /\ Len(pending) \in Nat
      /\ Len(pending) <= Batch
  BY DEF EventsInv, EventTypeOK, OnePlace
<1>4. n \in 0 .. Len(pending) /\ n # 0
  BY <1>1, <1>3 DEF IsRun
<1>5. /\ Elements(a) \cup Elements(pending') = Elements(pending)
      /\ Elements(a) \cap Elements(pending') = {}
      /\ pending' \in Seq(Events) /\ Len(pending') = Len(pending) - n /\ Distinct(pending')
      /\ a \in Seq(Events)
  BY <1>1, <1>3, <1>4, CutFacts
<1>6. stored' = stored \cup Elements(a) /\ Elements(a) \subseteq Events
  BY <1>1, <1>5 DEF Elements
<1> HIDE DEF a
<1>7. /\ Len(pending') <= Batch /\ pc' \in {"idle", "writing", "restoring"}
      /\ pc' = "idle" <=> pending' = << >>
  <2>1. pending' = << >> <=> Len(pending') = 0
    BY <1>5, EmptyLength
  <2> QED BY <1>1, <1>3, <1>4, <1>5, <2>1, SizeAssumption
<1>8. EventTypeOK'
  BY <1>2, <1>5, <1>6, <1>7 DEF EventsInv, EventTypeOK
<1>9. OnePlace'
  BY <1>2, <1>5, <1>6 DEF EventsInv, OnePlace
<1>10. Lost' = Lost
  BY <1>2, <1>5, <1>6 DEF Lost
<1> QED BY <1>2, <1>8, <1>9, <1>10, NothingLost DEF EventsInv

LEMMA OtherSteps ==
  ASSUME EventsInv, WriteFails \/ UNCHANGED eventVars
  PROVE  EventsInv' /\ Lost' = Lost
<1>1. /\ UNCHANGED <<unsent, queue, pending, stored, count>>
      /\ writeFailures' \in 0 .. MaxFailures /\ pc' \in {"idle", "writing", "restoring"}
      /\ pc' = "idle" <=> pc = "idle"
  BY SizeAssumption DEF WriteFails, eventVars, EventsInv, EventTypeOK
<1>2. EventTypeOK' /\ OnePlace' /\ Lost' = Lost
  BY <1>1 DEF EventsInv, EventTypeOK, OnePlace, Lost
<1> QED BY <1>1, <1>2, NothingLost DEF EventsInv

(* Every step keeps the invariant and loses by the queue's priorities. *)
LEMMA EveryStep ==
  ASSUME EventsInv, [EventNext]_eventVars
  PROVE  EventsInv' /\ \A y \in Events : y \notin Lost /\ y \in Lost' =>
                   /\ Len(queue') = Capacity
                   /\ y \notin Detects => Elements(queue') \cap Detects = {}
<1>1. CASE \E e \in Events : Offer(e)
  BY <1>1, OfferStep
<1>2. CASE Drain \/ Write
  BY <1>2, DrainStep, WriteStep
<1>3. CASE WriteFails \/ UNCHANGED eventVars
  BY <1>3, OtherSteps
<1> QED BY <1>1, <1>2, <1>3, RestoreStep DEF EventNext

LEMMA Always == EventSpec => []EventsInv
<1>1. EventsInv /\ [EventNext]_eventVars => EventsInv'
  BY EveryStep
<1> QED BY InitInv, <1>1, PTL DEF EventSpec

(* Every security event is in one place or counted as lost in its class,     *)
(* however the queue fills up and however writes fail half-way.              *)
THEOREM EventsAccounted == EventSpec => []Accounted
<1>1. EventsInv => Accounted
  BY DEF EventsInv, Accounted
<1> QED BY <1>1, Always, PTL

(* An event is lost to a full queue only, and one that is not droppable only *)
(* when nothing droppable is left to evict.                                  *)
THEOREM PriorityIsKept == EventSpec => PriorityKept
<1>1. EventsInv /\ [EventNext]_eventVars =>
        [\A e \in Events : e \notin Lost /\ e \in Lost' =>
           /\ Len(queue') = Capacity
           /\ e \notin Detects => Elements(queue') \cap Detects = {}]_eventVars
  BY EveryStep
<1> QED BY <1>1, Always, PTL DEF EventSpec, PriorityKept

-----------------------------------------------------------------------------
(*****************************************************************************)
(* Rollups, for any nodes, findings, limits, window and retention of rows    *)
(* that outlasts the window.                                                 *)
(*                                                                           *)
(* A finding is counted when the tick that reads it writes its row.  The row *)
(* is there for as long as a later tick could meet the finding (CountedOK),  *)
(* and a tick that reads all rows leaves the finding out (TickOK).           *)
(*****************************************************************************)

FindingType == [node : Nodes, bucket : 1 .. MaxBucket, at : {"queue", "table", "pruned"}]

TickType == [pc : {"idle", "events", "record", "sweep", "prune"}, now : Nat,
             latest : [Nodes -> Nat], kept : SUBSET Findings, whole : BOOLEAN]

RollupTyped ==
  /\ RollupTypeOK
  /\ tick \in TickType
  /\ tick.now <= bucket
  /\ tick.kept \subseteq DOMAIN finding

HasRow(f) == \E r \in rolled : r.node = finding[f].node /\ r.bucket = finding[f].bucket

(* A finding that is counted has a row until the retention takes it. *)
CountedOK ==
  \A f \in Findings : counted[f] # 0 =>
    /\ f \in DOMAIN finding
    /\ HasRow(f) \/ finding[f].bucket + KeepRows < bucket

(* A task that has read all its rows has `latest` past every counted finding *)
(* that it could meet again, and what it is about to record is not counted.  *)
TickOK == tick.whole =>
  /\ tick.pc = "events" =>
       \A f \in Findings : counted[f] # 0 /\ finding[f].bucket + KeepRows >= tick.now =>
         finding[f].bucket <= tick.latest[finding[f].node]
  /\ tick.pc = "record" => \A f \in tick.kept : counted[f] = 0

RollupInv == RollupTyped /\ CountedOK /\ TickOK

-----------------------------------------------------------------------------
(* Reading the rows.                                                         *)

LEMMA MaxOfIs ==
  ASSUME NEW b \in Nat, NEW S \in SUBSET (1 .. b)
  PROVE  MaxOf(S) \in Nat /\ \A x \in S : x <= MaxOf(S)
<1>1. CASE S = {}
  BY <1>1 DEF MaxOf
<1>2. CASE S # {}
  <2> DEFINE R == {ss \in Nat \X Nat : ss[1] < ss[2]}
             D == {b - x : x \in S}
  <2>1. IsWellFoundedOn(R, Nat)
    BY NatLessThanWellFounded DEF OpToRel
  <2>2. D \subseteq Nat /\ D # {}
    <3>1. \A x \in 1 .. b : b - x \in Nat
      OBVIOUS
    <3> QED BY <1>2, <3>1
  <2> HIDE DEF R, D
  <2>3. PICK m \in D : \A n \in D : ~(<<n, m>> \in R)
    BY <2>1, <2>2, WFMin
  <2>4. \A n \in D : ~(n < m)
    BY <2>2, <2>3 DEF R
  <2>5. PICK x \in S : m = b - x
    BY <2>3 DEF D
  <2>6. \A y \in S : b - y \in D
    BY DEF D
  <2>7. \A y \in S : y <= x
    <3> SUFFICES ASSUME NEW y \in S PROVE y <= x
      OBVIOUS
    <3>1. ~(b - y < b - x)
      BY <2>4, <2>5, <2>6
    <3>2. x \in 1 .. b /\ y \in 1 .. b
      OBVIOUS
    <3> QED BY <3>1, <3>2
  <2>8. MaxOf(S) \in S /\ \A y \in S : y <= MaxOf(S)
    BY <1>2, <2>7 DEF MaxOf
  <2>9. \A y \in 1 .. b : y \in Nat
    OBVIOUS
  <2> QED BY <2>8, <2>9
<1> QED BY <1>1, <1>2

LEMMA RollupBounds == /\ RollupWindow \in Nat /\ RollupReads \in Nat /\ KeepFindings \in Nat
                      /\ KeepRows \in Nat /\ MaxBucket \in Nat /\ MaxTickFailures \in Nat
                      /\ KeepRows >= RollupWindow /\ MaxBucket > 0
                      /\ RowsPerBucket \in Nat /\ RowsPerBucket > 0
BY RollupAssumption

-----------------------------------------------------------------------------
LEMMA NoTickIs ==
  /\ NoTick \in TickType
  /\ NoTick.pc = "idle" /\ NoTick.now = 0 /\ NoTick.kept = {} /\ NoTick.latest \in [Nodes -> Nat]
  /\ NoTick.whole = FALSE
BY DEF NoTick, TickType

LEMMA RollupStarts == RollupInit => RollupInv
<1> SUFFICES ASSUME RollupInit PROVE RollupInv
  OBVIOUS
<1>1. DOMAIN finding = {} /\ rolled = {} /\ tick = NoTick /\ timely = {} /\ bucket = 1
  BY DEF RollupInit
<1>3. RollupTypeOK
  BY <1>1, NoTickIs, RollupBounds DEF RollupInit, RollupTypeOK
<1>4. RollupTyped
  <2> HIDE DEF NoTick
  <2> QED BY <1>1, <1>3, NoTickIs DEF RollupTyped
<1>5. CountedOK
  BY DEF RollupInit, CountedOK
<1>6. TickOK
  BY <1>1, NoTickIs DEF TickOK
<1> QED BY <1>4, <1>5, <1>6 DEF RollupInv

(* A step that only moves the clock, or adds to or stores findings. *)
LEMMA FindingsMove ==
  ASSUME RollupInv, UNCHANGED <<rolled, tick, tickFails, counted>>,
         bucket' \in 1 .. MaxBucket, bucket <= bucket',
         DOMAIN finding \subseteq DOMAIN finding', DOMAIN finding' \subseteq Findings,
         \A f \in DOMAIN finding' : finding'[f] \in FindingType,
         \A f \in DOMAIN finding : finding'[f].bucket = finding[f].bucket /\ finding'[f].node = finding[f].node,
         timely' \subseteq DOMAIN finding'
  PROVE  RollupInv'
<1>1. bucket \in Nat /\ bucket' \in Nat /\ tick.now \in Nat /\ KeepRows \in Nat
  BY RollupBounds DEF RollupInv, RollupTyped, RollupTypeOK, TickType
<1>2. RollupTypeOK'
  BY DEF RollupInv, RollupTyped, RollupTypeOK, FindingType
<1>3. RollupTyped'
  BY <1>1, <1>2 DEF RollupInv, RollupTyped
<1>4. \A f \in DOMAIN finding : finding[f].bucket \in Nat
  BY RollupBounds DEF RollupInv, RollupTyped, RollupTypeOK
<1>5. CountedOK'
  <2> SUFFICES ASSUME NEW f \in Findings, counted'[f] # 0
               PROVE  /\ f \in DOMAIN finding'
                      /\ HasRow(f)' \/ finding'[f].bucket + KeepRows < bucket'
    BY DEF CountedOK
  <2>1. f \in DOMAIN finding /\ (HasRow(f) \/ finding[f].bucket + KeepRows < bucket)
    BY DEF RollupInv, CountedOK
  <2>2. HasRow(f) => HasRow(f)'
    BY <2>1 DEF HasRow
  <2> QED BY <1>1, <1>4, <2>1, <2>2
<1>6. TickOK'
  BY DEF RollupInv, TickOK, CountedOK
<1> QED BY <1>3, <1>5, <1>6 DEF RollupInv

LEMMA FindingKeeps ==
  ASSUME RollupInv, NEW f \in Findings, StoreFinding(f) \/ \E n \in Nodes : Make(f, n)
  PROVE  RollupInv'
<1>1. /\ bucket \in 1 .. MaxBucket /\ DOMAIN finding \subseteq Findings /\ timely \subseteq DOMAIN finding
      /\ \A g \in DOMAIN finding : finding[g] \in FindingType
  BY DEF RollupInv, RollupTyped, RollupTypeOK, FindingType
<1>2. CASE StoreFinding(f)
  <2>1. /\ DOMAIN finding' = DOMAIN finding /\ f \in DOMAIN finding
        /\ \A g \in DOMAIN finding : finding'[g] = IF g = f THEN [finding[f] EXCEPT !.at = "table"] ELSE finding[g]
    BY <1>2 DEF StoreFinding
  <2>2. [finding[f] EXCEPT !.at = "table"] \in FindingType
        /\ [finding[f] EXCEPT !.at = "table"].node = finding[f].node
        /\ [finding[f] EXCEPT !.at = "table"].bucket = finding[f].bucket
    BY <1>1, <2>1 DEF FindingType
  <2>3. \A g \in DOMAIN finding' : finding'[g] \in FindingType
    BY <1>1, <2>1, <2>2
  <2>4. \A g \in DOMAIN finding : finding'[g].bucket = finding[g].bucket /\ finding'[g].node = finding[g].node
    BY <2>1, <2>2
  <2>5. UNCHANGED <<rolled, tick, tickFails, counted>> /\ bucket' = bucket /\ timely' \subseteq DOMAIN finding'
    BY <1>1, <1>2, <2>1 DEF StoreFinding
  <2>6. bucket' \in 1 .. MaxBucket /\ bucket <= bucket'
    BY <1>1, <2>5, RollupBounds
  <2> QED BY <1>1, <2>1, <2>3, <2>4, <2>5, <2>6, FindingsMove
<1>3. ASSUME NEW n \in Nodes, Make(f, n) PROVE RollupInv'
  <2>1. /\ f \notin DOMAIN finding
        /\ finding' = [g \in DOMAIN finding \cup {f} |->
             IF g = f THEN [node |-> n, bucket |-> bucket, at |-> "queue"] ELSE finding[g]]
        /\ UNCHANGED <<bucket, rolled, tick, tickFails, counted, timely>>
    BY <1>3 DEF Make
  <2>2. DOMAIN finding' = DOMAIN finding \cup {f}
    BY <2>1
  <2>3. \A g \in DOMAIN finding' : finding'[g] \in FindingType
    BY <1>1, <2>1 DEF FindingType
  <2>4. \A g \in DOMAIN finding : finding'[g] = finding[g]
    BY <2>1
  <2>5. bucket' \in 1 .. MaxBucket /\ bucket <= bucket'
    BY <1>1, <2>1, RollupBounds
  <2> QED BY <1>1, <2>1, <2>2, <2>3, <2>4, <2>5, FindingsMove
<1> QED BY <1>2, <1>3

LEMMA ClockKeeps == ASSUME RollupInv, BucketCloses PROVE RollupInv'
<1>1. bucket' \in 1 .. MaxBucket /\ bucket <= bucket'
  BY RollupBounds DEF BucketCloses, RollupInv, RollupTyped, RollupTypeOK
<1>2. UNCHANGED <<rolled, tick, tickFails, counted, finding, timely>>
  BY DEF BucketCloses
<1>3. \A f \in DOMAIN finding : finding[f] \in FindingType
  BY DEF RollupInv, RollupTyped, RollupTypeOK, FindingType
<1> QED BY <1>1, <1>2, <1>3, FindingsMove DEF RollupInv, RollupTyped, RollupTypeOK

(* A step of the task that leaves findings and counts. *)
LEMMA TickMoves ==
  ASSUME RollupInv, UNCHANGED <<bucket, finding, rolled, counted, timely>>,
         tickFails' \in 0 .. MaxTickFailures,
         tick' \in TickType,
         tick'.now <= bucket, tick'.kept \subseteq DOMAIN finding, TickOK'
  PROVE  RollupInv'
<1>1. RollupTyped'
  BY DEF RollupInv, RollupTyped, RollupTypeOK, TickType
<1>2. CountedOK'
  BY DEF RollupInv, CountedOK, HasRow
<1> QED BY <1>1, <1>2 DEF RollupInv

LEMMA ReadLatestKeeps == ASSUME RollupInv, ReadLatest PROVE RollupInv'
<1> DEFINE all == {r \in rolled : r.bucket + KeepRows >= bucket}
<1>1. PICK seen \in Oldest(all, RollupReads) :
        tick' = [NoTick EXCEPT !.pc = "events", !.now = bucket, !.whole = (seen = all),
                   !.latest = [n \in Nodes |->
                                 MaxOf({r.bucket : r \in {q \in seen : q.node = n}})]]
  BY DEF ReadLatest
<1> DEFINE Rows(n) == {r.bucket : r \in {q \in seen : q.node = n}}
           latest == [n \in Nodes |-> MaxOf(Rows(n))]
<1>2. /\ bucket \in 1 .. MaxBucket /\ tickFails \in 0 .. MaxTickFailures
      /\ \A r \in rolled : r.bucket \in 1 .. MaxBucket /\ r.bucket \in Nat
      /\ UNCHANGED <<bucket, finding, rolled, tickFails, counted, timely>>
  BY RollupBounds DEF RollupInv, RollupTyped, RollupTypeOK, ReadLatest
<1>3. seen \subseteq rolled
  BY DEF Oldest
<1>4. \A n \in Nodes : Rows(n) \in SUBSET (1 .. MaxBucket)
  BY <1>2, <1>3
<1>5. \A n \in Nodes : MaxOf(Rows(n)) \in Nat /\ \A x \in Rows(n) : x <= MaxOf(Rows(n))
  <2> HIDE DEF Rows
  <2> QED BY <1>4, MaxOfIs, RollupBounds
<1>6. \A r \in seen : r.bucket \in Rows(r.node)
  <2> SUFFICES ASSUME NEW r \in seen PROVE r.bucket \in {x.bucket : x \in {q \in seen : q.node = r.node}}
    OBVIOUS
  <2> QED OBVIOUS
<1>7. tick' = [NoTick EXCEPT !.pc = "events", !.now = bucket, !.whole = (seen = all), !.latest = latest]
  BY <1>1
<1> HIDE DEF all, Rows
<1>8. latest \in [Nodes -> Nat] /\ \A n \in Nodes : latest[n] = MaxOf(Rows(n))
  BY <1>5
<1> HIDE DEF latest
<1>9. /\ tick' \in TickType
      /\ tick'.pc = "events" /\ tick'.now = bucket /\ tick'.latest = latest /\ tick'.kept = {}
      /\ tick'.whole => seen = all
  <2>1. tick' = [pc |-> "events", now |-> bucket, latest |-> latest, kept |-> {}, whole |-> (seen = all)]
    BY <1>7 DEF NoTick
  <2>2. bucket \in Nat
    BY <1>2, RollupBounds
  <2>3. (seen = all) \in BOOLEAN
    OBVIOUS
  <2> QED BY <1>8, <2>1, <2>2, <2>3 DEF TickType
<1>10. TickOK'
  <2> SUFFICES ASSUME tick'.whole, NEW f \in Findings, counted[f] # 0, finding[f].bucket + KeepRows >= bucket
               PROVE  finding[f].bucket <= latest[finding[f].node]
    BY <1>2, <1>9 DEF TickOK
  <2>1. f \in DOMAIN finding /\ finding[f].node \in Nodes /\ finding[f].bucket \in Nat /\ bucket \in Nat
    BY RollupBounds DEF RollupInv, CountedOK, RollupTyped, RollupTypeOK
  <2>2. HasRow(f)
    BY <2>1, RollupBounds DEF RollupInv, CountedOK
  <2>3. PICK r \in rolled : r.node = finding[f].node /\ r.bucket = finding[f].bucket
    BY <2>2 DEF HasRow
  <2>4. r \in seen
    BY <1>9, <2>3 DEF all
  <2>5. r.bucket \in Rows(r.node)
    BY <1>6, <2>4
  <2> QED BY <1>5, <1>8, <2>1, <2>3, <2>5
<1>11. tick'.now <= bucket
  BY <1>2, <1>9, RollupBounds
<1>12. tickFails' \in 0 .. MaxTickFailures /\ tick'.kept \subseteq DOMAIN finding
  BY <1>2, <1>9
<1> QED BY <1>2, <1>9, <1>10, <1>11, <1>12, TickMoves

LEMMA ReadFindingsKeeps == ASSUME RollupInv, ReadFindings PROVE RollupInv'
<1>1. PICK read \in Newest(Candidates(tick.now), RollupReads) :
        tick' = [tick EXCEPT !.pc = "record", !.kept = {f \in read : AfterLatest(f)}]
  BY DEF ReadFindings
<1> DEFINE K == {f \in read : AfterLatest(f)}
<1>2. /\ UNCHANGED <<bucket, finding, rolled, tickFails, counted, timely>> /\ tick.pc = "events"
  BY DEF ReadFindings
<1>3. /\ tick \in TickType
      /\ tickFails \in 0 .. MaxTickFailures /\ DOMAIN finding \subseteq Findings
      /\ tick.now <= bucket
      /\ \A f \in DOMAIN finding : finding[f].node \in Nodes /\ finding[f].bucket \in Nat
  BY RollupBounds DEF RollupInv, RollupTyped, RollupTypeOK
<1>4. \A f \in K : /\ f \in DOMAIN finding /\ InRollupWindow(finding[f].bucket, tick.now)
                   /\ AfterLatest(f)
  BY DEF Newest, Candidates
<1>5. tick' = [tick EXCEPT !.pc = "record", !.kept = K]
  BY <1>1
<1> HIDE DEF K
<1>6. /\ tick' \in TickType
      /\ tick'.pc = "record" /\ tick'.now = tick.now /\ tick'.kept = K /\ tick'.whole = tick.whole
  <2>1. K \in SUBSET Findings
    BY <1>3, <1>4
  <2> QED BY <1>3, <1>5, <2>1 DEF TickType
<1>7. tick.whole => \A f \in K : counted[f] = 0
  <2> SUFFICES ASSUME tick.whole, NEW f \in K, counted[f] # 0 PROVE FALSE
    OBVIOUS
  <2>1. f \in Findings /\ finding[f].bucket \in Nat /\ finding[f].node \in Nodes
        /\ tick.latest[finding[f].node] \in Nat /\ tick.now \in Nat
    BY <1>3, <1>4 DEF TickType
  <2>2. finding[f].bucket + KeepRows >= tick.now
    BY <1>4, <2>1, RollupBounds DEF InRollupWindow
  <2>3. finding[f].bucket <= tick.latest[finding[f].node]
    BY <1>2, <2>1, <2>2 DEF RollupInv, TickOK
  <2>4. finding[f].bucket > tick.latest[finding[f].node]
    BY <1>4 DEF AfterLatest
  <2> QED BY <2>1, <2>3, <2>4
<1>8. TickOK'
  BY <1>2, <1>6, <1>7 DEF TickOK
<1>9. tickFails' \in 0 .. MaxTickFailures /\ tick'.kept \subseteq DOMAIN finding /\ tick'.now <= bucket
  BY <1>2, <1>3, <1>4, <1>6
<1> QED BY <1>2, <1>6, <1>8, <1>9, TickMoves

LEMMA RecordRowsKeeps == ASSUME RollupInv, RecordRows PROVE RollupInv'
<1> DEFINE RowType == [node : Nodes, bucket : 1 .. MaxBucket, metric : 1 .. RowsPerBucket]
           Row(f, m) == [node |-> finding[f].node, bucket |-> finding[f].bucket, metric |-> m]
           new == {Row(f, m) : f \in tick.kept, m \in 1 .. RowsPerBucket}
<1>1. /\ rolled' = rolled \cup new
      /\ counted' = [f \in Findings |-> IF f \in tick.kept /\ counted[f] < 2
                                       THEN counted[f] + 1 ELSE counted[f]]
      /\ tick' = [NoTick EXCEPT !.pc = "sweep", !.now = tick.now]
      /\ UNCHANGED <<bucket, finding, tickFails, timely>> /\ tick.pc = "record"
  BY DEF RecordRows
<1>2. /\ tick \in TickType
      /\ tick.kept \subseteq DOMAIN finding /\ tick.now <= bucket
      /\ rolled \subseteq RowType
      /\ counted \in [Findings -> 0 .. 2]
      /\ \A f \in DOMAIN finding : finding[f].node \in Nodes /\ finding[f].bucket \in 1 .. MaxBucket
  BY DEF RollupInv, RollupTyped, RollupTypeOK
<1>3. \A f \in tick.kept, m \in 1 .. RowsPerBucket :
        Row(f, m) \in RowType /\ Row(f, m).node = finding[f].node /\ Row(f, m).bucket = finding[f].bucket
  BY <1>2
<1> HIDE DEF Row
<1>4. new \subseteq RowType
  BY <1>3
<1>5. \A f \in tick.kept : Row(f, 1) \in new
  <2>1. 1 \in 1 .. RowsPerBucket
    BY RollupBounds
  <2> QED BY <2>1
<1> HIDE DEF new
<1>6. rolled' \subseteq RowType
  BY <1>1, <1>2, <1>4
<1>7. /\ counted' \in [Findings -> 0 .. 2]
      /\ \A f \in Findings : f \notin tick.kept => counted'[f] = counted[f]
  <2>1. ASSUME NEW f \in Findings
        PROVE  (IF f \in tick.kept /\ counted[f] < 2 THEN counted[f] + 1 ELSE counted[f]) \in 0 .. 2
    BY <1>2
  <2> QED BY <1>1, <1>2, <2>1
<1>8. tick' \in TickType /\ tick'.pc = "sweep" /\ tick'.now = tick.now /\ tick'.kept = {}
      /\ tick'.whole = FALSE
  <2>1. tick.now \in Nat
    BY <1>2 DEF TickType
  <2> HIDE DEF NoTick
  <2> QED BY <1>1, <2>1, NoTickIs DEF TickType
<1>9. RollupTyped'
  BY <1>1, <1>2, <1>6, <1>7, <1>8 DEF RollupInv, RollupTyped, RollupTypeOK
<1>10. CountedOK'
  <2> SUFFICES ASSUME NEW f \in Findings, counted'[f] # 0
               PROVE  /\ f \in DOMAIN finding'
                      /\ HasRow(f)' \/ finding'[f].bucket + KeepRows < bucket'
    BY DEF CountedOK
  <2>1. CASE f \in tick.kept
    <3>1. 1 \in 1 .. RowsPerBucket
      BY RollupBounds
    <3>2. Row(f, 1) \in rolled' /\ Row(f, 1).node = finding'[f].node /\ Row(f, 1).bucket = finding'[f].bucket
      BY <1>1, <1>3, <1>5, <2>1, <3>1
    <3> QED BY <1>1, <1>2, <2>1, <3>2 DEF HasRow
  <2>2. CASE f \notin tick.kept
    <3>1. f \in DOMAIN finding /\ (HasRow(f) \/ finding[f].bucket + KeepRows < bucket)
      BY <1>7, <2>2 DEF RollupInv, CountedOK
    <3>2. HasRow(f) => HasRow(f)'
      BY <1>1 DEF HasRow
    <3> QED BY <1>1, <3>1, <3>2
  <2> QED BY <2>1, <2>2
<1>11. TickOK'
  BY <1>8 DEF TickOK
<1> QED BY <1>9, <1>10, <1>11 DEF RollupInv

LEMMA SweepFindingsKeeps == ASSUME RollupInv, SweepFindings PROVE RollupInv'
<1>1. /\ finding' = [f \in DOMAIN finding |->
                       IF finding[f].at = "table" /\ finding[f].bucket + KeepFindings < tick.now
                       THEN [finding[f] EXCEPT !.at = "pruned"] ELSE finding[f]]
      /\ tick' = [tick EXCEPT !.pc = "prune"]
      /\ UNCHANGED <<bucket, rolled, tickFails, counted, timely>>
  BY DEF SweepFindings
<1>2. tick \in TickType /\ \A f \in DOMAIN finding : finding[f] \in FindingType
  BY DEF RollupInv, RollupTyped, RollupTypeOK, FindingType
<1>3. DOMAIN finding' = DOMAIN finding
  BY <1>1
<1>4. ASSUME NEW f \in DOMAIN finding
      PROVE  /\ finding'[f] \in FindingType
             /\ finding'[f].bucket = finding[f].bucket /\ finding'[f].node = finding[f].node
  <2>1. finding'[f] = finding[f] \/ finding'[f] = [finding[f] EXCEPT !.at = "pruned"]
    BY <1>1
  <2>2. finding[f] \in FindingType
    BY <1>2
  <2> QED BY <2>1, <2>2 DEF FindingType
<1>5. tick' \in TickType /\ tick'.pc = "prune" /\ tick'.now = tick.now /\ tick'.kept = tick.kept
  BY <1>1, <1>2 DEF TickType
<1>6. RollupTypeOK'
  BY <1>1, <1>3, <1>4, <1>5 DEF RollupInv, RollupTyped, RollupTypeOK, FindingType
<1>7. RollupTyped'
  BY <1>1, <1>3, <1>5, <1>6 DEF RollupInv, RollupTyped
<1>8. CountedOK'
  BY <1>1, <1>3, <1>4 DEF RollupInv, CountedOK, HasRow
<1>9. TickOK'
  BY <1>5 DEF TickOK
<1> QED BY <1>7, <1>8, <1>9 DEF RollupInv

LEMMA SweepRowsKeeps == ASSUME RollupInv, SweepRows PROVE RollupInv'
<1>1. /\ rolled' = {r \in rolled : r.bucket + KeepRows >= tick.now}
      /\ tick' = NoTick
      /\ UNCHANGED <<bucket, finding, tickFails, counted, timely>>
  BY DEF SweepRows
<1>2. /\ tick.now \in Nat /\ tick.now <= bucket /\ bucket \in Nat
      /\ \A r \in rolled : r.bucket \in Nat
  BY RollupBounds DEF RollupInv, RollupTyped, RollupTypeOK, TickType
<1>3. tick'.pc = "idle" /\ tick'.now = 0 /\ tick'.kept = {} /\ tick' \in TickType
  BY <1>1, NoTickIs
<1>4. RollupTyped'
  BY <1>1, <1>2, <1>3 DEF RollupInv, RollupTyped, RollupTypeOK
<1>5. CountedOK'
  <2> SUFFICES ASSUME NEW f \in Findings, counted[f] # 0
               PROVE  /\ f \in DOMAIN finding
                      /\ HasRow(f)' \/ finding[f].bucket + KeepRows < bucket
    BY <1>1 DEF CountedOK
  <2>1. f \in DOMAIN finding /\ (HasRow(f) \/ finding[f].bucket + KeepRows < bucket)
    BY DEF RollupInv, CountedOK
  <2>2. ASSUME HasRow(f) PROVE HasRow(f)' \/ finding[f].bucket + KeepRows < bucket
    <3>1. PICK r \in rolled : r.node = finding[f].node /\ r.bucket = finding[f].bucket
      BY <2>2 DEF HasRow
    <3>2. CASE r.bucket + KeepRows >= tick.now
      BY <1>1, <3>1, <3>2 DEF HasRow
    <3>3. CASE ~(r.bucket + KeepRows >= tick.now)
      BY <1>2, <3>1, <3>3, RollupBounds
    <3> QED BY <3>2, <3>3
  <2> QED BY <2>1, <2>2
<1>6. TickOK'
  BY <1>3 DEF TickOK
<1> QED BY <1>4, <1>5, <1>6 DEF RollupInv

LEMMA TickFailsKeeps == ASSUME RollupInv, TickFails PROVE RollupInv'
<1>1. tick' = NoTick /\ UNCHANGED <<bucket, finding, rolled, counted, timely>>
  BY DEF TickFails
<1>2. tickFails' \in 0 .. MaxTickFailures
  BY RollupBounds DEF TickFails, RollupInv, RollupTyped, RollupTypeOK
<1>3. tick'.pc = "idle" /\ tick'.now = 0 /\ tick'.kept = {}
      /\ tick' \in TickType
  BY <1>1, NoTickIs
<1>4. TickOK'
  BY <1>3 DEF TickOK
<1>5. tick'.now <= bucket
  BY <1>3 DEF RollupInv, RollupTyped, RollupTypeOK
<1> QED BY <1>1, <1>2, <1>3, <1>4, <1>5, TickMoves

LEMMA RollupStep == RollupInv /\ [RollupNext]_rollupVars => RollupInv'
<1> SUFFICES ASSUME RollupInv, [RollupNext]_rollupVars PROVE RollupInv'
  OBVIOUS
<1>1. CASE UNCHANGED rollupVars
  BY <1>1 DEF rollupVars, RollupInv, RollupTyped, RollupTypeOK, CountedOK, HasRow, TickOK
<1>2. CASE RollupNext
  BY <1>2, FindingKeeps, ClockKeeps, ReadLatestKeeps, ReadFindingsKeeps, RecordRowsKeeps,
     SweepFindingsKeeps, SweepRowsKeeps, TickFailsKeeps DEF RollupNext, RollupTick
<1> QED BY <1>1, <1>2

(* A tick records a finding again only if its read of its own rows was cut   *)
(* short by the limit, which takes the oldest rows first: for any limits and *)
(* rows per bucket, whatever fails, whatever the retention took and whenever *)
(* findings are stored (WafMetricsTask::execute).                            *)
THEOREM FindingsRecountOnlyIfCut == RollupSpec => []RecountsOnlyIfCut
<1>1. RollupSpec => []RollupInv
  BY RollupStarts, RollupStep, PTL DEF RollupSpec
<1>2. RollupInv => RecountsOnlyIfCut
  BY DEF RollupInv, RollupTyped, TickOK, RecountsOnlyIfCut
<1> QED BY <1>1, <1>2, PTL

-----------------------------------------------------------------------------
(*****************************************************************************)
(* Baselines, for any number of labels, learners, samples and days.          *)
(*                                                                           *)
(* A stored row loses samples to newer ones only, because every learner that *)
(* is written back has been through the sweep that restores it (SweptOK,     *)
(* RestoreOK), and because what a cycle has yet to write was taken from such *)
(* a learner (WriteOK).  What a window pushes out stays covered by it        *)
(* (CoversTrans), whatever further samples push out in turn.                 *)
(*****************************************************************************)

Learned == [profile : SUBSET (1 .. MaxSamples), at : 0 .. MaxDay]
Stored == [profile : SUBSET (1 .. MaxSamples), at : 1 .. MaxDay, form : {"sound", "shape", "torn"}]

BaselineTyped ==
  /\ enabled \in BOOLEAN /\ raced \in BOOLEAN /\ limit \in Limits
  /\ day \in 1 .. MaxDay /\ samples \in 0 .. MaxSamples
  /\ IsFiniteSet(DOMAIN learners) /\ Cardinality(DOMAIN learners) <= MaxLearners
  /\ DOMAIN learners \subseteq Labels /\ DOMAIN rows \subseteq Labels /\ restored \subseteq Labels
  /\ \A l \in DOMAIN learners : learners[l] \in Learned
  /\ \A l \in DOMAIN rows : rows[l] \in Stored
  /\ cycle.pc \in {"idle", "restore", "write"}
  /\ cycle = [pc |-> cycle.pc, left |-> cycle.left]
  /\ \A l \in DOMAIN cycle.left : cycle.left[l] \in Stored

(* What is stored of l has been taken over, or could not be. *)
Kept(l) == Covers(rows[l].profile, learners[l].profile, limit) \/ Unusable(rows[l])

(* A label that was swept has a learner with what was stored, or its row does *)
(* not parse, or there was no room for a learner; none is made later, as no  *)
(* learner ever goes.                                                        *)
SweptOK ==
  /\ ~enabled => DOMAIN learners = {}
  /\ raced => enabled
  /\ \A l \in restored : \/ l \in DOMAIN learners \/ Cardinality(DOMAIN learners) >= MaxLearners
                         \/ l \in DOMAIN rows /\ rows[l].form = "torn"
  /\ \A l \in restored \cap DOMAIN rows \cap DOMAIN learners : Kept(l)

(* During the sweep the rows are the ones it listed, and those it has done are *)
(* swept, unless the feature was off; when it was switched on meanwhile, raced *)
(* says so.                                                                  *)
RestoreOK ==
  cycle.pc = "restore" =>
    /\ \A l \in DOMAIN cycle.left : l \in DOMAIN rows /\ cycle.left[l] = rows[l]
    /\ \A l \in DOMAIN rows \ DOMAIN cycle.left : l \in restored \/ ~enabled \/ raced

(* What is about to be written has what is stored, and the learner has it. *)
WriteOK ==
  cycle.pc = "write" =>
    \A l \in DOMAIN cycle.left :
      /\ l \in DOMAIN learners /\ Covers(cycle.left[l].profile, learners[l].profile, limit)
      /\ l \in DOMAIN rows => \/ Covers(rows[l].profile, cycle.left[l].profile, limit)
                              \/ Unusable(rows[l]) \/ raced

BaselineInv == BaselineTyped /\ SweptOK /\ RestoreOK /\ WriteOK

(* The samples above x. *)
LEMMA AboveFacts ==
  ASSUME NEW C \in SUBSET (1 .. MaxSamples), NEW x \in Nat, NEW D \in SUBSET {z \in C : z > x}
  PROVE  /\ Cardinality({z \in C : z > x}) \in Nat /\ Cardinality(D) \in Nat
         /\ Cardinality(D) <= Cardinality({z \in C : z > x})
<1> DEFINE E == {z \in C : z > x}
           top == MaxSamples
<1>1. top \in Nat
  BY BaselineAssumption
<1> HIDE DEF top
<1>2. IsFiniteSet(1 .. top)
  BY <1>1, FS_Interval
<1>3. E \subseteq 1 .. top
  BY DEF top
<1> HIDE DEF E
<1>4. IsFiniteSet(E)
  BY <1>2, <1>3, FS_Subset
<1>5. D \subseteq E
  BY DEF E
<1>6. IsFiniteSet(D) /\ Cardinality(D) <= Cardinality(E)
  BY <1>4, <1>5, FS_Subset
<1>7. Cardinality(D) \in Nat /\ Cardinality(E) \in Nat
  BY <1>4, <1>6, FS_CardinalityType
<1> QED BY <1>6, <1>7 DEF E

LEMMA CoversUp == ASSUME NEW A, NEW B, A \subseteq B, NEW n PROVE Covers(A, B, n)
BY DEF Covers

LEMMA CoversTrans ==
  ASSUME NEW A \in SUBSET (1 .. MaxSamples), NEW B \in SUBSET (1 .. MaxSamples),
         NEW C \in SUBSET (1 .. MaxSamples), NEW n \in Nat, Covers(A, B, n), Covers(B, C, n)
  PROVE  Covers(A, C, n)
<1> SUFFICES ASSUME NEW x \in A, x \notin C PROVE Cardinality({z \in C : z > x}) >= n
  BY DEF Covers
<1>1. x \in Nat /\ \A y \in B : y \in Nat
  BY BaselineAssumption
<1>2. CASE x \in B
  BY <1>2 DEF Covers
<1>3. CASE x \notin B /\ \A y \in B : y > x => y \in C
  <2> DEFINE D == {y \in B : y > x}
  <2>1. Cardinality(D) >= n
    BY <1>3 DEF Covers
  <2>2. D \in SUBSET {z \in C : z > x}
    BY <1>3
  <2> HIDE DEF D
  <2>3. /\ Cardinality({z \in C : z > x}) \in Nat /\ Cardinality(D) \in Nat
        /\ Cardinality(D) <= Cardinality({z \in C : z > x})
    BY <1>1, <2>2, AboveFacts
  <2> QED BY <2>1, <2>3
<1>4. CASE x \notin B /\ \E y \in B : y > x /\ y \notin C
  <2>1. PICK y \in B : y > x /\ y \notin C
    BY <1>4
  <2> DEFINE D == {z \in C : z > y}
  <2>2. Cardinality(D) >= n
    BY <2>1 DEF Covers
  <2>3. \A z \in C : z \in Nat
    BY BaselineAssumption
  <2>4. D \in SUBSET {z \in C : z > x}
    <3>1. x \in Nat /\ y \in Nat /\ y > x
      BY <1>1, <2>1
    <3>2. ASSUME NEW z \in C, z > y PROVE z > x
      BY <2>3, <3>1, <3>2
    <3> QED BY <3>2
  <2> HIDE DEF D
  <2>5. /\ Cardinality({z \in C : z > x}) \in Nat /\ Cardinality(D) \in Nat
        /\ Cardinality(D) <= Cardinality({z \in C : z > x})
    BY <1>1, <2>4, AboveFacts
  <2> QED BY <2>2, <2>5
<1> QED BY <1>2, <1>3, <1>4

LEMMA WindowCovers ==
  ASSUME NEW S \in SUBSET (1 .. MaxSamples), NEW R \in Windows(S), limit \in Nat
  PROVE  R \in SUBSET (1 .. MaxSamples) /\ Covers(S, R, limit)
<1>1. R \subseteq S /\ (R = S \/ Cardinality(R) = limit) /\ \A x \in R, y \in S \ R : y < x
  BY DEF Windows
<1>2. ASSUME NEW x \in S, x \notin R PROVE Cardinality({y \in R : y > x}) >= limit
  <2>1. Cardinality(R) = limit
    BY <1>1, <1>2
  <2>2. \A y \in S : y \in Nat
    BY BaselineAssumption
  <2>3. {y \in R : y > x} = R
    BY <1>1, <1>2, <2>2
  <2> QED BY <2>1, <2>3
<1> QED BY <1>1, <1>2 DEF Covers

LEMMA BaselineInitInv == BaselineInit => BaselineInv
<1> SUFFICES ASSUME BaselineInit PROVE BaselineInv
  OBVIOUS
<1>1. DOMAIN Empty = {}
  BY DEF Empty
<1>2. BaselineTyped
  <2>1. cycle = [pc |-> "idle", left |-> Empty] /\ learners = Empty /\ restored = {}
        /\ limit \in Limits
    BY DEF BaselineInit, BetweenCycles
  <2>2. IsFiniteSet({}) /\ Cardinality({}) = 0
    BY FS_EmptySet
  <2>3. /\ enabled \in BOOLEAN /\ raced \in BOOLEAN
        /\ day \in 1 .. MaxDay /\ samples \in 0 .. MaxSamples /\ 0 <= MaxLearners
    <3>1. enabled \in BOOLEAN /\ raced \in BOOLEAN
      <4>1. enabled \in {TRUE, ~LateEnable} /\ raced = FALSE
        BY DEF BaselineInit
      <4> QED BY <4>1, Zenon
    <3>2. day = 1 /\ samples = 1
      BY DEF BaselineInit
    <3>3. MaxDay \in Nat \ {0} /\ MaxSamples \in Nat \ {0} /\ MaxLearners \in Nat
      BY BaselineAssumption
    <3> QED BY <3>1, <3>2, <3>3
  <2>4. cycle.pc = "idle" /\ cycle.left = Empty
    BY <2>1
  <2>5. cycle = [pc |-> cycle.pc, left |-> cycle.left]
    BY <2>1, <2>4
  <2>6. DOMAIN learners = {} /\ DOMAIN cycle.left = {}
    BY <1>1, <2>1, <2>4
  <2>7. DOMAIN rows \subseteq Labels /\ \A l \in DOMAIN rows : rows[l] \in Stored
    <3>1. CASE rows = Empty
      BY <1>1, <3>1
    <3>2. ASSUME NEW k \in Labels, NEW form \in {"shape", "torn"}, rows = [l \in {k} |-> OldRow(form)]
          PROVE  DOMAIN rows \subseteq Labels /\ \A l \in DOMAIN rows : rows[l] \in Stored
      <4>1. 1 \in 1 .. MaxSamples /\ 1 \in 1 .. MaxDay
        BY BaselineAssumption
      <4>2. OldRow(form) \in Stored
        BY <4>1 DEF OldRow, Stored
      <4> HIDE DEF OldRow
      <4> QED BY <3>2, <4>2
    <3>3. rows = Empty \/ rows \in OldRows
      BY DEF BaselineInit
    <3>4. rows = Empty \/ \E k \in Labels, form \in {"shape", "torn"} : rows = [l \in {k} |-> OldRow(form)]
      BY <3>3 DEF OldRows
    <3> QED BY <3>1, <3>2, <3>4
  <2> HIDE DEF Empty
  <2> QED BY <2>1, <2>2, <2>3, <2>4, <2>5, <2>6, <2>7 DEF BaselineTyped
<1>3. SweptOK /\ RestoreOK /\ WriteOK
  BY <1>1 DEF BaselineInit, SweptOK, RestoreOK, WriteOK, BetweenCycles
<1> QED BY <1>2, <1>3 DEF BaselineInv

(* No learner goes, and one comes only where there is room. *)
LEMMA RoomFacts ==
  ASSUME BaselineTyped, NEW l \in Labels, HasRoom(l)
  PROVE  /\ IsFiniteSet(DOMAIN learners \cup {l})
         /\ Cardinality(DOMAIN learners \cup {l}) \in Nat
         /\ Cardinality(DOMAIN learners \cup {l}) <= MaxLearners
         /\ Cardinality(DOMAIN learners) >= MaxLearners => DOMAIN learners \cup {l} = DOMAIN learners
<1>1. IsFiniteSet(DOMAIN learners) /\ Cardinality(DOMAIN learners) \in Nat /\ MaxLearners \in Nat
  BY FS_CardinalityType, BaselineAssumption DEF BaselineTyped
<1>2. CASE l \in DOMAIN learners
  <2>1. DOMAIN learners \cup {l} = DOMAIN learners
    BY <1>2
  <2> QED BY <1>1, <2>1 DEF BaselineTyped
<1>3. CASE l \notin DOMAIN learners
  <2>1. Cardinality(DOMAIN learners) < MaxLearners
    BY <1>3 DEF HasRoom
  <2>2. IsFiniteSet(DOMAIN learners \cup {l})
        /\ Cardinality(DOMAIN learners \cup {l}) = Cardinality(DOMAIN learners) + 1
    BY <1>1, <1>3, FS_AddElement
  <2> QED BY <1>1, <2>1, <2>2
<1> QED BY <1>2, <1>3

LEMMA LeftFacts ==
  ASSUME BaselineTyped, NEW l, cycle' \in {cycle, Left(l)}
  PROVE  /\ cycle'.pc = cycle.pc /\ DOMAIN cycle'.left \subseteq DOMAIN cycle.left
         /\ \A k \in DOMAIN cycle'.left : cycle'.left[k] = cycle.left[k]
         /\ cycle' = [pc |-> cycle'.pc, left |-> cycle'.left]
         /\ \A k \in DOMAIN cycle.left : k # l => k \in DOMAIN cycle'.left
         /\ cycle' = Left(l) => l \notin DOMAIN cycle'.left
<1> DEFINE p == cycle.pc
           f == cycle.left
           g == [k \in DOMAIN f \ {l} |-> f[k]]
<1>1. cycle = [pc |-> p, left |-> f]
  BY DEF BaselineTyped
<1>2. Left(l) = [cycle EXCEPT !.left = g]
  BY DEF Left
<1> HIDE DEF p, f
<1>3. Left(l) = [pc |-> p, left |-> g]
  BY <1>1, <1>2
<1>4. DOMAIN g = DOMAIN f \ {l} /\ \A k \in DOMAIN g : g[k] = f[k]
  OBVIOUS
<1> HIDE DEF g
<1>5. Left(l).pc = p /\ Left(l).left = g
  BY <1>3
<1>6. CASE cycle' = Left(l)
  BY <1>3, <1>4, <1>5, <1>6 DEF p, f
<1>7. CASE cycle' = cycle /\ cycle # Left(l)
  BY <1>1, <1>7 DEF p, f
<1> QED BY <1>6, <1>7

LEMMA LearnerIs == ASSUME BaselineTyped, NEW l PROVE Learner(l) \in Learned
BY BaselineAssumption DEF Learner, NewLearner, Learned, BaselineTyped

(* A learner is made or replaced. *)
LEMMA LearnKeeps ==
  ASSUME BaselineInv, enabled, NEW l \in Labels, HasRoom(l), NEW x \in Learned,
         learners' = With(learners, l, x), samples' \in 0 .. MaxSamples,
         restored' \in {restored, restored \cup {l}},
         UNCHANGED <<enabled, limit, rows, day, raced>>,
         \/ /\ l \in DOMAIN learners => Covers(learners[l].profile, x.profile, limit)
            /\ UNCHANGED <<cycle, restored>>
         \/ /\ cycle.pc = "restore" /\ l \in DOMAIN cycle.left /\ cycle' = Left(l)
            /\ restored' = restored \cup {l}
            /\ Covers(rows[l].profile, x.profile, limit) \/ Unusable(rows[l])
  PROVE  BaselineInv'
<1>1. /\ DOMAIN learners' = DOMAIN learners \cup {l} /\ learners'[l] = x
      /\ \A k \in DOMAIN learners : k # l => learners'[k] = learners[k]
  BY DEF With
<1>2. /\ IsFiniteSet(DOMAIN learners') /\ Cardinality(DOMAIN learners') <= MaxLearners
      /\ Cardinality(DOMAIN learners) >= MaxLearners =>
           DOMAIN learners' = DOMAIN learners
  BY <1>1, RoomFacts DEF BaselineInv
<1>3. /\ cycle'.pc = cycle.pc /\ DOMAIN cycle'.left \subseteq DOMAIN cycle.left
      /\ \A k \in DOMAIN cycle'.left : cycle'.left[k] = cycle.left[k]
      /\ cycle' = [pc |-> cycle'.pc, left |-> cycle'.left]
      /\ \A k \in DOMAIN cycle.left : k # l => k \in DOMAIN cycle'.left
  BY LeftFacts DEF BaselineInv
<1>4. BaselineTyped'
  BY <1>1, <1>2, <1>3 DEF BaselineInv, BaselineTyped
<1>5. /\ \A k \in DOMAIN rows : Unusable(rows[k])' <=> Unusable(rows[k])
      /\ \A k \in DOMAIN rows : rows[k].profile \in SUBSET (1 .. MaxSamples)
      /\ \A k \in DOMAIN learners : learners[k].profile \in SUBSET (1 .. MaxSamples)
      /\ \A k \in DOMAIN cycle.left : cycle.left[k].profile \in SUBSET (1 .. MaxSamples)
      /\ x.profile \in SUBSET (1 .. MaxSamples) /\ limit \in Nat
  BY BaselineAssumption DEF BaselineInv, BaselineTyped, Stored, Learned, Unusable, Aged
<1>6. SweptOK'
  <2>1. ASSUME NEW k \in restored'
        PROVE  \/ k \in DOMAIN learners' \/ Cardinality(DOMAIN learners') >= MaxLearners
               \/ k \in DOMAIN rows' /\ rows'[k].form = "torn"
    BY <1>1, <1>2, <2>1 DEF BaselineInv, SweptOK
  <2>2. ASSUME NEW k \in restored' \cap DOMAIN rows' \cap DOMAIN learners' PROVE Kept(k)'
    <3> USE DEF Kept
    <3>1. CASE k # l
      <4>1. k \in restored /\ k \in DOMAIN rows /\ k \in DOMAIN learners
        BY <1>1, <2>2, <3>1
      <4>2. Kept(k)
        BY <4>1 DEF BaselineInv, SweptOK
      <4> QED BY <1>1, <1>5, <3>1, <4>1, <4>2
    <3>2. CASE k = l /\ k \in restored /\ k \in DOMAIN learners /\ UNCHANGED <<cycle, restored>>
      <4>1. Kept(l) /\ l \in DOMAIN rows
        BY <2>2, <3>2 DEF BaselineInv, SweptOK
      <4>2. \/ Covers(learners[l].profile, x.profile, limit)
            \/ Covers(rows[l].profile, x.profile, limit) \/ Unusable(rows[l])
        BY <3>2
      <4>3. Covers(rows[l].profile, x.profile, limit) \/ Unusable(rows[l])
        BY <1>5, <3>2, <4>1, <4>2, CoversTrans
      <4> QED BY <1>1, <1>5, <3>2, <4>1, <4>3
    <3>3. CASE k = l /\ k \in restored /\ k \notin DOMAIN learners /\ UNCHANGED <<cycle, restored>>
      <4>1. Cardinality(DOMAIN learners) >= MaxLearners \/ rows[l].form = "torn"
        BY <3>3 DEF BaselineInv, SweptOK
      <4>2. DOMAIN learners' # DOMAIN learners
        BY <1>1, <3>3
      <4>3. Unusable(rows[l])
        BY <1>2, <4>1, <4>2 DEF Unusable
      <4> QED BY <1>1, <1>5, <2>2, <3>3, <4>3
    <3>4. CASE k = l /\ (k \notin restored \/ ~UNCHANGED <<cycle, restored>>)
      <4>1. Covers(rows[l].profile, x.profile, limit) \/ Unusable(rows[l])
        BY <2>2, <3>4
      <4> QED BY <1>1, <1>5, <2>2, <3>4, <4>1
    <3> QED BY <3>1, <3>2, <3>3, <3>4
  <2> QED BY <2>1, <2>2 DEF BaselineInv, SweptOK
<1>7. RestoreOK'
  BY <1>3 DEF BaselineInv, RestoreOK
<1>8. WriteOK'
  <2> SUFFICES ASSUME cycle.pc = "write", NEW k \in DOMAIN cycle'.left
               PROVE  /\ k \in DOMAIN learners' /\ Covers(cycle'.left[k].profile, learners'[k].profile, limit)
                      /\ k \in DOMAIN rows => \/ Covers(rows[k].profile, cycle'.left[k].profile, limit)
                                              \/ Unusable(rows[k]) \/ raced
    BY <1>3, <1>5 DEF WriteOK
  <2>1. /\ k \in DOMAIN cycle.left /\ cycle'.left[k] = cycle.left[k] /\ k \in DOMAIN learners
        /\ Covers(cycle.left[k].profile, learners[k].profile, limit)
        /\ k \in DOMAIN rows => \/ Covers(rows[k].profile, cycle.left[k].profile, limit)
                                \/ Unusable(rows[k]) \/ raced
    BY <1>3 DEF BaselineInv, WriteOK
  <2>2. CASE k # l
    BY <1>1, <2>1, <2>2
  <2>3. CASE k = l
    <3>1. Covers(learners[l].profile, x.profile, limit)
      BY <2>1, <2>3
    <3>2. Covers(cycle.left[l].profile, x.profile, limit)
      BY <1>5, <2>1, <2>3, <3>1, CoversTrans
    <3> QED BY <1>1, <2>1, <2>3, <3>2
  <2> QED BY <2>2, <2>3
<1> QED BY <1>4, <1>6, <1>7, <1>8 DEF BaselineInv

(* The steps that leave the learners and the rows alone. *)
LEMMA CycleKeeps ==
  ASSUME BaselineInv, Enable \/ ListRows \/ ListLearners \/ CycleEnds \/ CycleFails \/ DayPasses
  PROVE  BaselineInv'
<1> USE DEF BaselineInv
<1>1. CASE Enable
  <2>1. /\ enabled' = TRUE /\ raced' = (cycle.pc = "restore") /\ ~enabled
        /\ UNCHANGED <<limit, learners, rows, restored, cycle, day, samples>>
    BY <1>1 DEF Enable, counters
  <2>2. DOMAIN learners = {}
    BY <2>1 DEF SweptOK
  <2>3. BaselineTyped'
    BY <2>1 DEF BaselineTyped
  <2> QED BY <2>1, <2>2, <2>3 DEF SweptOK, RestoreOK, WriteOK, Unusable, Aged
<1>2. CASE ListRows
  <2>1. /\ cycle' = [pc |-> "restore", left |-> rows]
        /\ UNCHANGED <<enabled, limit, learners, rows, restored, day, samples, raced>>
    BY <1>2 DEF ListRows, counters
  <2>2. cycle'.pc = "restore" /\ cycle'.left = rows /\ cycle' = [pc |-> cycle'.pc, left |-> cycle'.left]
    BY <2>1
  <2>3. BaselineTyped'
    BY <2>1, <2>2 DEF BaselineTyped
  <2>4. SweptOK'
    BY <2>1 DEF SweptOK, Kept, Unusable, Aged
  <2> QED BY <2>1, <2>2, <2>3, <2>4 DEF RestoreOK, WriteOK
<1>3. CASE ListLearners
  <2> DEFINE g == [l \in DOMAIN learners |-> Baseline(l)]
  <2>1. /\ cycle' = [pc |-> "write", left |-> g] /\ cycle.pc = "restore" /\ cycle.left = Empty
        /\ UNCHANGED <<enabled, limit, learners, rows, restored, day, samples, raced>>
    BY <1>3 DEF ListLearners, counters
  <2>2. DOMAIN cycle.left = {}
    BY <2>1 DEF Empty
  <2>3. \A l \in DOMAIN learners : g[l] \in Stored /\ g[l].profile = learners[l].profile
    BY DEF Baseline, BaselineTyped, Learned, Stored
  <2>4. DOMAIN g = DOMAIN learners
    OBVIOUS
  <2> HIDE DEF g
  <2>5. cycle'.pc = "write" /\ cycle'.left = g /\ cycle' = [pc |-> cycle'.pc, left |-> cycle'.left]
    BY <2>1
  <2>6. BaselineTyped'
    BY <2>1, <2>3, <2>4, <2>5 DEF BaselineTyped
  <2>7. SweptOK'
    BY <2>1 DEF SweptOK, Kept, Unusable, Aged
  <2>8. WriteOK'
    <3> SUFFICES ASSUME NEW l \in DOMAIN learners, l \in DOMAIN rows
                 PROVE  Covers(rows[l].profile, learners[l].profile, limit) \/ Unusable(rows[l]) \/ raced
      BY <2>1, <2>3, <2>4, <2>5, CoversUp DEF WriteOK, Unusable, Aged
    <3>1. l \in restored \/ ~enabled \/ raced
      BY <2>1, <2>2 DEF RestoreOK
    <3>2. enabled
      BY DEF SweptOK
    <3> QED BY <3>1, <3>2 DEF SweptOK, Kept
  <2> QED BY <2>5, <2>6, <2>7, <2>8 DEF RestoreOK
<1>4. CASE CycleEnds \/ CycleFails
  <2>1. /\ cycle' = BetweenCycles /\ raced' = FALSE
        /\ UNCHANGED <<enabled, limit, learners, rows, restored, day, samples>>
    BY <1>4 DEF CycleEnds, CycleFails, counters
  <2>2. cycle'.pc = "idle" /\ DOMAIN cycle'.left = {} /\ cycle' = [pc |-> cycle'.pc, left |-> cycle'.left]
    BY <2>1 DEF BetweenCycles, Empty
  <2>3. BaselineTyped'
    BY <2>1, <2>2 DEF BaselineTyped
  <2>4. SweptOK'
    BY <2>1 DEF SweptOK, Kept, Unusable, Aged
  <2> QED BY <2>2, <2>3, <2>4 DEF RestoreOK, WriteOK
<1>5. CASE DayPasses
  <2>1. /\ day < MaxDay /\ day' = day + 1
        /\ UNCHANGED <<enabled, limit, learners, rows, restored, cycle, samples, raced>>
    BY <1>5 DEF DayPasses
  <2>2. \A l \in DOMAIN rows : Unusable(rows[l]) => Unusable(rows[l])'
    BY <2>1, BaselineAssumption DEF Unusable, Aged, BaselineTyped, Stored
  <2>3. BaselineTyped'
    BY <2>1, BaselineAssumption DEF BaselineTyped
  <2>4. SweptOK'
    BY <2>1, <2>2 DEF SweptOK, Kept
  <2>5. RestoreOK'
    BY <2>1 DEF RestoreOK
  <2>6. WriteOK'
    BY <2>1, <2>2 DEF WriteOK
  <2> QED BY <2>3, <2>4, <2>5, <2>6
<1> QED BY <1>1, <1>2, <1>3, <1>4, <1>5

LEMMA RecordKeeps == ASSUME BaselineInv, NEW l \in Labels, Record(l) PROVE BaselineInv'
<1> DEFINE old == Learner(l).profile
           S == old \cup {samples + 1}
<1>1. Learner(l) \in Learned /\ samples + 1 \in 1 .. MaxSamples /\ samples' \in 0 .. MaxSamples
      /\ limit \in Nat
  BY LearnerIs, BaselineAssumption DEF BaselineInv, BaselineTyped, Record
<1>2. PICK window \in Windows(S) : learners' = With(learners, l, [Learner(l) EXCEPT !.profile = window])
  BY DEF Record
<1> DEFINE x == [Learner(l) EXCEPT !.profile = window]
<1>3. old \in SUBSET (1 .. MaxSamples) /\ S \in SUBSET (1 .. MaxSamples) /\ old \subseteq S
  BY <1>1 DEF Learned
<1> HIDE DEF old, S
<1>4. window \in SUBSET (1 .. MaxSamples) /\ Covers(S, window, limit)
  BY <1>1, <1>3, WindowCovers
<1>5. Covers(old, window, limit)
  BY <1>1, <1>3, <1>4, CoversUp, CoversTrans
<1>6. x \in Learned /\ x.profile = window
  BY <1>1, <1>4 DEF Learned
<1>7. l \in DOMAIN learners => Covers(learners[l].profile, x.profile, limit)
  BY <1>5, <1>6 DEF Learner, old
<1>8. /\ enabled /\ HasRoom(l)
      /\ UNCHANGED <<enabled, limit, rows, day, raced, cycle, restored>>
  BY DEF Record
<1>9. learners' = With(learners, l, x)
  BY <1>2
<1> HIDE DEF x
<1> QED BY <1>1, <1>6, <1>7, <1>8, <1>9, LearnKeeps

LEMMA ObserveKeeps == ASSUME BaselineInv, NEW l \in Labels, Observe(l) PROVE BaselineInv'
<1>1. /\ enabled /\ HasRoom(l) /\ l \notin DOMAIN learners
      /\ learners' = With(learners, l, NewLearner)
      /\ UNCHANGED <<enabled, limit, rows, day, samples, raced, cycle, restored>>
  BY DEF Observe, counters
<1>2. NewLearner \in Learned /\ samples' \in 0 .. MaxSamples
  BY <1>1, BaselineAssumption DEF NewLearner, Learned, BaselineInv, BaselineTyped
<1> QED BY <1>1, <1>2, LearnKeeps

LEMMA RestoreRowKeeps == ASSUME BaselineInv, NEW l \in Labels, RestoreRow(l) PROVE BaselineInv'
<1>1. /\ cycle.pc = "restore" /\ l \in DOMAIN cycle.left /\ cycle' = Left(l)
      /\ UNCHANGED <<enabled, limit, rows, day, samples, raced>>
  BY DEF RestoreRow, counters
<1>2. l \in DOMAIN rows /\ cycle.left[l] = rows[l] /\ rows[l] \in Stored
  BY <1>1 DEF BaselineInv, RestoreOK, BaselineTyped
<1>3. CASE l \notin restored /\ rows[l].form # "torn" /\ enabled /\ HasRoom(l)
  <2>1. restored' = restored \cup {l} /\ Restore(l, rows[l])
    BY <1>2, <1>3 DEF RestoreRow
  <2>2. PICK window \in Windows(rows[l].profile) :
          learners' = With(learners, l, IF rows[l].form = "shape" \/ Aged(rows[l]) THEN Learner(l)
                                        ELSE [profile |-> window, at |-> rows[l].at])
    BY <2>1 DEF Restore
  <2> DEFINE x == IF rows[l].form = "shape" \/ Aged(rows[l]) THEN Learner(l)
                  ELSE [profile |-> window, at |-> rows[l].at]
  <2>3. limit \in Nat /\ rows[l].profile \in SUBSET (1 .. MaxSamples)
    BY <1>2, BaselineAssumption DEF BaselineInv, BaselineTyped, Stored
  <2>4. window \in SUBSET (1 .. MaxSamples) /\ Covers(rows[l].profile, window, limit)
    BY <2>3, WindowCovers
  <2>5. x \in Learned
    <3>1. Learner(l) \in Learned
      BY LearnerIs DEF BaselineInv
    <3>2. rows[l].at \in 0 .. MaxDay
      BY <1>2 DEF Stored
    <3> QED BY <2>4, <3>1, <3>2 DEF Learned
  <2>6. Covers(rows[l].profile, x.profile, limit) \/ Unusable(rows[l])
    <3>1. CASE rows[l].form = "shape" \/ Aged(rows[l])
      BY <3>1 DEF Unusable
    <3>2. CASE ~(rows[l].form = "shape" \/ Aged(rows[l]))
      <4>1. x.profile = window
        BY <3>2
      <4> QED BY <2>4, <4>1
    <3> QED BY <3>1, <3>2
  <2>7. samples' \in 0 .. MaxSamples
    BY <1>1 DEF BaselineInv, BaselineTyped
  <2>8. learners' = With(learners, l, x)
    BY <2>2
  <2> HIDE DEF x
  <2> QED BY <1>1, <1>3, <2>1, <2>5, <2>6, <2>7, <2>8, LearnKeeps
<1>4. CASE ~(l \notin restored /\ rows[l].form # "torn" /\ enabled /\ HasRoom(l))
  <2>1. /\ UNCHANGED learners /\ restored' \subseteq restored \cup {l} /\ restored \subseteq restored'
        /\ l \in restored' => l \in restored \/ rows[l].form = "torn" \/ ~HasRoom(l)
        /\ l \in restored' \/ ~enabled
    BY <1>2, <1>4 DEF RestoreRow
  <2>2. /\ cycle'.pc = cycle.pc /\ DOMAIN cycle'.left \subseteq DOMAIN cycle.left
        /\ \A k \in DOMAIN cycle'.left : cycle'.left[k] = cycle.left[k]
        /\ cycle' = [pc |-> cycle'.pc, left |-> cycle'.left]
        /\ \A k \in DOMAIN cycle.left : k # l => k \in DOMAIN cycle'.left
    BY <1>1, LeftFacts DEF BaselineInv
  <2>3. BaselineTyped'
    BY <1>1, <2>1, <2>2 DEF BaselineInv, BaselineTyped
  <2>4. ~HasRoom(l) => l \notin DOMAIN learners /\ Cardinality(DOMAIN learners) >= MaxLearners
    <3>1. Cardinality(DOMAIN learners) \in Nat /\ MaxLearners \in Nat
      BY FS_CardinalityType, BaselineAssumption DEF BaselineInv, BaselineTyped
    <3> QED BY <3>1 DEF HasRoom
  <2>5. SweptOK'
    <3>1. ASSUME NEW k \in restored' \cap DOMAIN rows' \cap DOMAIN learners' PROVE Kept(k)'
      <4>1. Kept(k)
        BY <1>1, <2>1, <2>4, <3>1 DEF BaselineInv, SweptOK, Kept, Unusable
      <4> QED BY <1>1, <2>1, <4>1 DEF Kept, Unusable, Aged
    <3>2. ASSUME NEW k \in restored'
          PROVE  \/ k \in DOMAIN learners' \/ Cardinality(DOMAIN learners') >= MaxLearners
                 \/ k \in DOMAIN rows' /\ rows'[k].form = "torn"
      BY <1>1, <1>2, <2>1, <2>4, <3>2 DEF BaselineInv, SweptOK
    <3> QED BY <1>1, <2>1, <3>1, <3>2 DEF BaselineInv, SweptOK
  <2>6. RestoreOK'
    BY <1>1, <2>1, <2>2 DEF BaselineInv, RestoreOK
  <2>7. WriteOK'
    BY <1>1, <2>2 DEF WriteOK
  <2> QED BY <2>3, <2>5, <2>6, <2>7 DEF BaselineInv
<1> QED BY <1>3, <1>4

LEMMA WriteRowKeeps == ASSUME BaselineInv, NEW l \in Labels, WriteRow(l) PROVE BaselineInv'
<1> DEFINE new == cycle.left[l]
<1>1. /\ cycle.pc = "write" /\ l \in DOMAIN cycle.left /\ cycle' = Left(l)
      /\ rows' = rows \/ rows' = With(rows, l, new)
      /\ UNCHANGED <<enabled, limit, learners, restored, day, samples, raced>>
  BY DEF WriteRow, counters
<1>2. /\ cycle'.pc = cycle.pc /\ DOMAIN cycle'.left \subseteq DOMAIN cycle.left
      /\ \A k \in DOMAIN cycle'.left : cycle'.left[k] = cycle.left[k]
      /\ cycle' = [pc |-> cycle'.pc, left |-> cycle'.left]
      /\ l \notin DOMAIN cycle'.left
  BY <1>1, LeftFacts DEF BaselineInv
<1>3. /\ new \in Stored /\ l \in DOMAIN learners /\ Covers(new.profile, learners[l].profile, limit)
  BY <1>1 DEF BaselineInv, WriteOK, BaselineTyped
<1> HIDE DEF new
<1>4. /\ DOMAIN rows' \subseteq DOMAIN rows \cup {l}
      /\ \A k \in DOMAIN rows' : k # l => k \in DOMAIN rows /\ rows'[k] = rows[k]
      /\ l \in DOMAIN rows' => rows'[l] = new \/ (l \in DOMAIN rows /\ rows'[l] = rows[l])
  BY <1>1 DEF With
<1>5. BaselineTyped'
  BY <1>1, <1>2, <1>3, <1>4 DEF BaselineInv, BaselineTyped
<1>6. SweptOK'
  <2>1. ASSUME NEW k \in restored' \cap DOMAIN rows' \cap DOMAIN learners' PROVE Kept(k)'
    <3>1. CASE k # l
      BY <1>1, <1>4, <2>1, <3>1 DEF BaselineInv, SweptOK, Kept, Unusable, Aged
    <3>2. CASE k = l
      BY <1>1, <1>3, <1>4, <2>1, <3>2 DEF BaselineInv, SweptOK, Kept, Unusable, Aged
    <3> QED BY <3>1, <3>2
  <2>2. ASSUME NEW k \in restored'
        PROVE  \/ k \in DOMAIN learners' \/ Cardinality(DOMAIN learners') >= MaxLearners
               \/ k \in DOMAIN rows' /\ rows'[k].form = "torn"
    <3>1. k = l \/ (k \in DOMAIN rows => k \in DOMAIN rows' /\ rows'[k] = rows[k])
      BY <1>1 DEF With
    <3> QED BY <1>1, <1>3, <2>2, <3>1 DEF BaselineInv, SweptOK
  <2> QED BY <1>1, <2>1, <2>2 DEF BaselineInv, SweptOK
<1>7. RestoreOK'
  BY <1>1, <1>2 DEF RestoreOK
<1>8. WriteOK'
  BY <1>1, <1>2, <1>4 DEF BaselineInv, WriteOK, Unusable, Aged
<1> QED BY <1>5, <1>6, <1>7, <1>8 DEF BaselineInv

LEMMA ProcessRestartsKeeps == ASSUME BaselineInv, ProcessRestarts PROVE BaselineInv'
<1>1. /\ enabled' \in BOOLEAN /\ limit' \in Limits /\ learners' = Empty /\ restored' = {} /\ cycle' = BetweenCycles
      /\ raced' = FALSE /\ UNCHANGED <<rows, day, samples>>
  BY BaselineAssumption DEF ProcessRestarts
<1>2. DOMAIN Empty = {}
  BY DEF Empty
<1>3. cycle'.pc = "idle" /\ DOMAIN cycle'.left = {} /\ cycle' = [pc |-> cycle'.pc, left |-> cycle'.left]
  BY <1>1, <1>2 DEF BetweenCycles
<1>4. IsFiniteSet({}) /\ Cardinality({}) = 0 /\ 0 <= MaxLearners
  BY FS_EmptySet, BaselineAssumption
<1>5. DOMAIN learners' = {}
  BY <1>1, <1>2
<1>6. BaselineTyped'
  BY <1>1, <1>3, <1>4, <1>5 DEF BaselineInv, BaselineTyped
<1> QED BY <1>1, <1>3, <1>5, <1>6 DEF BaselineInv, SweptOK, RestoreOK, WriteOK

LEMMA BaselineStep == BaselineInv /\ [BaselineNext]_baselineVars => BaselineInv'
<1> SUFFICES ASSUME BaselineInv, [BaselineNext]_baselineVars PROVE BaselineInv'
  OBVIOUS
<1>1. CASE UNCHANGED baselineVars
  <2>1. UNCHANGED <<enabled, limit, learners, rows, restored, cycle, day, samples, raced>>
    BY <1>1 DEF baselineVars
  <2>2. BaselineTyped'
    BY <2>1 DEF BaselineInv, BaselineTyped
  <2>3. SweptOK' /\ RestoreOK' /\ WriteOK'
    BY <2>1 DEF BaselineInv, SweptOK, RestoreOK, WriteOK, Kept, Unusable, Aged
  <2> QED BY <2>2, <2>3 DEF BaselineInv
<1>2. CASE BaselineNext
  BY <1>2, CycleKeeps, RecordKeeps, ObserveKeeps, RestoreRowKeeps, WriteRowKeeps, ProcessRestartsKeeps
     DEF BaselineNext
<1> QED BY <1>1, <1>2

(* The rows change in one step only, and there WriteOK says what was stored. *)
LEMMA RowsKept ==
  ASSUME BaselineInv, [BaselineNext]_baselineVars, NEW l \in DOMAIN rows
  PROVE  /\ l \in DOMAIN rows'
         /\ Covers(rows[l].profile, rows'[l].profile, limit) \/ Unusable(rows[l]) \/ raced
<1>1. CASE UNCHANGED rows
  BY <1>1, CoversUp
<1>2. CASE \E k \in Labels : WriteRow(k)
  <2>1. PICK k \in Labels : WriteRow(k)
    BY <1>2
  <2>2. cycle.pc = "write" /\ k \in DOMAIN cycle.left
        /\ (rows' = rows \/ rows' = With(rows, k, cycle.left[k]))
    BY <2>1 DEF WriteRow
  <2>3. \/ rows' = rows
        \/ /\ DOMAIN rows' = DOMAIN rows \cup {k} /\ rows'[k] = cycle.left[k]
           /\ l # k => rows'[l] = rows[l]
    BY <2>2 DEF With
  <2> QED BY <2>2, <2>3, CoversUp DEF BaselineInv, WriteOK
<1>3. UNCHANGED rows \/ \E k \in Labels : WriteRow(k)
  BY DEF BaselineNext, baselineVars, Enable, ListRows, ListLearners, CycleEnds, CycleFails,
         ProcessRestarts, DayPasses, Record, Observe, RestoreRow
<1> QED BY <1>1, <1>2, <1>3

(* What is stored of a domain is replaced only by what has its samples or a  *)
(* full window of newer ones, for any limits on the windows, across restarts *)
(* with other limits, failed cycles and requests between the steps of a      *)
(* cycle, unless the row was too old or of the wrong form to be taken over   *)
(* or the feature was switched on during the sweep.                          *)
THEOREM BaselinesAreKept == BaselineSpec => StoredNeverShrinks
<1>1. BaselineSpec => []BaselineInv
  BY BaselineInitInv, BaselineStep, PTL DEF BaselineSpec
<1>2. BaselineInv => BaselineTypeOK
  BY DEF BaselineInv, BaselineTyped, BaselineTypeOK, Stored
<1>3. BaselineInv /\ [BaselineNext]_baselineVars =>
        [/\ BaselineTypeOK
         /\ \A l \in DOMAIN rows :
              /\ l \in DOMAIN rows'
              /\ Covers(rows[l].profile, rows'[l].profile, limit) \/ Unusable(rows[l]) \/ raced]_baselineVars
  BY <1>2, RowsKept
<1> QED BY <1>1, <1>3, PTL DEF BaselineSpec, StoredNeverShrinks
=============================================================================
