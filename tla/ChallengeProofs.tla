--------------------------- MODULE ChallengeProofs ---------------------------
(***************************************************************************)
(* Proofs about Challenge, for any number of clients, domains, requests,   *)
(* tokens and pages, any ladder and any caps.                              *)
(*                                                                         *)
(* The token store, the escalator and the loop detector have a lock each,  *)
(* so a request holds what it read while others change it.  A stored token *)
(* is in the store, or held by one request that took it, or spent: never   *)
(* two of these (EarnedOK), and once out of the store it does not return,  *)
(* because tokens are numbered by page.  That only its own client's        *)
(* failures burn a token rests on MissedOK: the attempts counted and the   *)
(* requests about to count one are together no more than the failed        *)
(* presentations by the client it was issued to.                           *)
(***************************************************************************)
EXTENDS Challenge, FiniteSetTheorems, WellFoundedInduction, TLAPS

Phases == {"idle", "loop", "issue", "count", "drop", "take", "solved", "ease"}

VisitState == [pc : Phases, token : 0 .. MaxPages, kind : Kinds, level : Nat,
               stored : BOOLEAN, client : Clients]
Record == [attempts : Nat, expires : Nat]
Tier == [failures : Nat, level : Nat, last : Nat]
Page == [client : Clients, kind : Kinds, stored : BOOLEAN, expires : Nat]

(* The token store. *)
StoreOK ==
  /\ time \in 1 .. MaxTime
  /\ pages \in Seq(Page) /\ Len(pages) <= MaxPages
  /\ tokens \in [DOMAIN tokens -> Record] /\ DOMAIN tokens \subseteq DOMAIN pages
  /\ Cardinality(DOMAIN tokens) <= MaxTokens
  /\ sites \subseteq Sites /\ IsFiniteSet(sites) /\ Cardinality(sites) <= MaxSites
  /\ SitesOf(DOMAIN tokens) \subseteq sites

(* A capped map. *)
Capped(keys, K) == keys \subseteq K /\ IsFiniteSet(keys) /\ Cardinality(keys) <= MaxTokens

(* The escalator and the loop detector. *)
CountsOK ==
  /\ tiers \in [DOMAIN tiers -> Tier]
  /\ Capped(DOMAIN tiers, Clients)
  /\ Capped(DOMAIN unsolved, Clients \X Kinds)

(* A request with locals x, given the pages, the tokens stored and the failures. *)
VisitOK(x, ps, keys, ms) ==
  /\ x.pc \in {"count", "drop", "take"} => x.token \in DOMAIN ps /\ ps[x.token].client = x.client
  /\ x.pc \in {"solved", "ease"} /\ x.stored => x.token \in DOMAIN ps
  /\ x.pc = "drop" => x.token \notin keys \/ ms[x.token] >= MaxAttempts

VisitsOK ==
  /\ visit \in [Visits -> VisitState]
  /\ \A v \in Visits : VisitOK(visit[v], pages, DOMAIN tokens, missed)

(* The request with locals x has taken the stored token t, and not yet used it. *)
Holds(x, t) == x.pc \in {"solved", "ease"} /\ x.stored /\ x.token = t

(* A token that is in the store, or not yet handed out, is unused. *)
Unused(t) == t \in DOMAIN tokens \/ t \notin DOMAIN pages

EarnedOK ==
  /\ earned \in [Tokens -> Nat]
  /\ \A t \in Tokens :
       /\ earned[t] <= 1
       /\ Unused(t) => earned[t] = 0 /\ \A v \in Visits : ~Holds(visit[v], t)
       /\ \A v \in Visits : Holds(visit[v], t) =>
            earned[t] = 0 /\ \A w \in Visits : Holds(visit[w], t) => w = v

(* The requests that are about to count a failed attempt against t. *)
Counting(t) == {v \in Visits : visit[v].pc = "count" /\ visit[v].token = t}

MissedOK ==
  /\ missed \in [Tokens -> Nat]
  /\ \A t \in Tokens : IsFiniteSet(Counting(t))
  /\ \A t \in DOMAIN tokens :
       missed[t] >= MaxAttempts \/ missed[t] >= tokens[t].attempts + Cardinality(Counting(t))

Inv == StoreOK /\ CountsOK /\ VisitsOK /\ EarnedOK /\ MissedOK

-----------------------------------------------------------------------------
(* The operators.                                                            *)

LEMMA PutFacts ==
  ASSUME NEW f, NEW k, NEW x
  PROVE  /\ DOMAIN Bound(f, k, x) = DOMAIN f \cup {k}
         /\ Bound(f, k, x)[k] = x
         /\ \A i \in DOMAIN f : i # k => Bound(f, k, x)[i] = f[i]
BY DEF Bound

LEMMA PutType ==
  ASSUME NEW R, NEW f, f \in [DOMAIN f -> R], NEW k, NEW x \in R
  PROVE  Bound(f, k, x) \in [DOMAIN Bound(f, k, x) -> R]
BY DEF Bound

LEMMA DropFacts ==
  ASSUME NEW f, NEW ks
  PROVE  /\ DOMAIN Drop(f, ks) = DOMAIN f \ ks
         /\ \A i \in DOMAIN f \ ks : Drop(f, ks)[i] = f[i]
BY DEF Drop

LEMMA DropType ==
  ASSUME NEW R, NEW f, f \in [DOMAIN f -> R], NEW ks
  PROVE  Drop(f, ks) \in [DOMAIN Drop(f, ks) -> R]
BY DEF Drop

(* A non-empty finite set of naturals has a highest element. *)
LEMMA Highest ==
  ASSUME NEW S \in SUBSET Nat, IsFiniteSet(S), S # {}
  PROVE  \E i \in S : \A j \in S : j <= i
<1> DEFINE Above(k) == {j \in S : j > k}
           T == {Above(k) : k \in S}
<1>1. ASSUME NEW k \in S PROVE Above(k) \in FiniteSubsetsOf(S)
  <2>1. Above(k) \subseteq S
    OBVIOUS
  <2> QED BY <2>1, FS_Subset DEF FiniteSubsetsOf
<1>2. T \subseteq FiniteSubsetsOf(S) /\ T # {}
  BY <1>1
<1>3. \E X \in T : \A Y \in T : ~(<<Y, X>> \in StrictSubsetOrdering(S))
  <2> HIDE DEF T
  <2> QED BY <1>2, WFMin, FS_StrictSubsetOrderingWellFounded
<1>4. PICK i \in S : \A Y \in T : ~(<<Y, Above(i)>> \in StrictSubsetOrdering(S))
  BY <1>3
<1>5. ASSUME NEW j \in S, j > i PROVE FALSE
  <2>1. j \in Nat /\ i \in Nat
    OBVIOUS
  <2>2. j \in Above(i) /\ j \notin Above(j)
    BY <1>5, <2>1
  <2>3. ASSUME NEW s \in Above(j) PROVE s \in Above(i)
    <3>1. s \in Nat /\ s > j
      OBVIOUS
    <3> QED BY <1>5, <2>1, <3>1
  <2>4. <<Above(j), Above(i)>> \in StrictSubsetOrdering(S)
    BY <2>2, <2>3 DEF StrictSubsetOrdering
  <2> QED BY <1>4, <2>4
<1>6. \A j \in S : j <= i
  BY <1>5
<1> QED BY <1>6

LEMMA RungType ==
  ASSUME NEW n \in Nat
  PROVE  Rung(n) \in Nat
<1> DEFINE met == {i \in 1 .. Len(Ladder) : n >= Ladder[i]}
<1>1. CASE met = {}
  BY <1>1 DEF Rung
<1>2. CASE met # {}
  <2>1. Len(Ladder) \in Nat /\ met \subseteq 1 .. Len(Ladder)
    BY ChallengeAssumption
  <2>2. met \in SUBSET Nat /\ IsFiniteSet(met)
    <3>1. IsFiniteSet(1 .. Len(Ladder))
      BY <2>1, FS_Interval
    <3> QED BY <2>1, <3>1, FS_Subset
  <2>3. \E i \in met : \A j \in met : j <= i
    <3> HIDE DEF met
    <3> QED BY <1>2, <2>2, Highest
  <2> DEFINE top == CHOOSE i \in met : \A j \in met : j <= i
  <2>4. top \in met
    BY <2>3
  <2>5. Rung(n) = top - 1
    BY <1>2 DEF Rung
  <2> HIDE DEF top
  <2> QED BY <2>1, <2>4, <2>5
<1> QED BY <1>1, <1>2

LEMMA DecayedType ==
  ASSUME NEW s \in Tier
  PROVE  Decayed(s) \in Tier
BY DEF Decayed, Tier

(* A key joins a capped map: it was there already, or there is room. *)
LEMMA CappedAdd ==
  ASSUME NEW keys, NEW K, NEW k \in K, Capped(keys, K),
         k \in keys \/ Cardinality(keys) < MaxTokens
  PROVE  Capped(keys \cup {k}, K)
<1>1. CASE k \in keys
  <2>1. keys \cup {k} = keys
    BY <1>1
  <2> QED BY <2>1
<1>2. CASE k \notin keys
  <2>1. IsFiniteSet(keys \cup {k}) /\ Cardinality(keys \cup {k}) = Cardinality(keys) + 1
    BY <1>2, FS_AddElement DEF Capped
  <2>2. Cardinality(keys) \in Nat /\ MaxTokens \in Nat
    BY FS_CardinalityType, ChallengeAssumption DEF Capped
  <2> QED BY <1>2, <2>1, <2>2 DEF Capped
<1> QED BY <1>1, <1>2

LEMMA CappedDrop ==
  ASSUME NEW keys, NEW K, NEW ks, Capped(keys, K)
  PROVE  Capped(keys \ ks, K)
<1>1. IsFiniteSet(keys \ ks) /\ Cardinality(keys \ ks) <= Cardinality(keys)
  BY FS_Subset DEF Capped
<1>2. Cardinality(keys) \in Nat /\ Cardinality(keys \ ks) \in Nat /\ MaxTokens \in Nat
  BY <1>1, FS_CardinalityType, ChallengeAssumption DEF Capped
<1> QED BY <1>1, <1>2 DEF Capped

-----------------------------------------------------------------------------
(* What no step takes back: pages stay, a token that left does not return,   *)
(* failures are not forgotten.                                               *)

Onward ==
  /\ DOMAIN pages \subseteq DOMAIN pages'
  /\ \A t \in DOMAIN pages : pages'[t] = pages[t] /\ (t \in DOMAIN tokens' => t \in DOMAIN tokens)
  /\ missed' \in [Tokens -> Nat] /\ \A t \in Tokens : missed[t] <= missed'[t]

LEMMA PagesAreTokens ==
  ASSUME StoreOK
  PROVE  DOMAIN pages = 1 .. Len(pages) /\ Len(pages) \in Nat /\ DOMAIN pages \subseteq Tokens
<1>1. DOMAIN pages = 1 .. Len(pages) /\ Len(pages) \in Nat /\ Len(pages) <= MaxPages
  BY DEF StoreOK
<1> QED BY <1>1, ChallengeAssumption DEF Tokens

LEMMA VisitKept ==
  ASSUME Inv, Onward, NEW v \in Visits
  PROVE  VisitOK(visit[v], pages', DOMAIN tokens', missed')
<1> DEFINE x == visit[v]
<1>1. VisitOK(x, pages, DOMAIN tokens, missed)
  BY DEF Inv, VisitsOK
<1>2. DOMAIN pages \subseteq Tokens
  BY PagesAreTokens DEF Inv
<1> HIDE DEF x
<1>3. x.pc = "drop" => x.token \notin DOMAIN tokens' \/ missed'[x.token] >= MaxAttempts
  <2> SUFFICES ASSUME x.pc = "drop" PROVE x.token \notin DOMAIN tokens' \/ missed'[x.token] >= MaxAttempts
    OBVIOUS
  <2>1. x.token \in DOMAIN pages /\ (x.token \notin DOMAIN tokens \/ missed[x.token] >= MaxAttempts)
    BY <1>1 DEF VisitOK
  <2>2. x.token \in Tokens /\ MaxAttempts \in Nat
    BY <1>2, <2>1, ChallengeAssumption
  <2>3. missed[x.token] \in Nat /\ missed'[x.token] \in Nat /\ missed[x.token] <= missed'[x.token]
    BY <2>2 DEF Inv, MissedOK, Onward
  <2> QED BY <2>1, <2>2, <2>3 DEF Onward
<1>4. VisitOK(x, pages', DOMAIN tokens', missed')
  BY <1>1, <1>3 DEF VisitOK, Onward
<1> QED BY <1>4 DEF x

LEMMA VisitMoves ==
  ASSUME Inv, Onward, NEW v \in Visits, NEW x \in VisitState,
         visit' = [visit EXCEPT ![v] = x],
         VisitOK(x, pages', DOMAIN tokens', missed')
  PROVE  VisitsOK'
<1>1. visit' \in [Visits -> VisitState]
  BY DEF Inv, VisitsOK
<1>2. ASSUME NEW w \in Visits PROVE VisitOK(visit'[w], pages', DOMAIN tokens', missed')
  <2>1. CASE w = v
    BY <2>1 DEF Inv, VisitsOK
  <2>2. CASE w # v
    <3>1. visit'[w] = visit[w]
      BY <2>2 DEF Inv, VisitsOK
    <3> QED BY <3>1, VisitKept
  <2> QED BY <2>1, <2>2
<1> QED BY <1>1, <1>2 DEF VisitsOK

(* A request that takes no token and uses none. *)
LEMMA EarnedKept ==
  ASSUME Inv, NEW v \in Visits, NEW x,
         visit' = [visit EXCEPT ![v] = x], earned' = earned,
         \A t \in Tokens : Unused(t)' => Unused(t),
         \A t \in Tokens : Holds(x, t) => Holds(visit[v], t)
  PROVE  EarnedOK'
<1>1. ASSUME NEW w \in Visits, NEW t \in Tokens, Holds(visit'[w], t) PROVE Holds(visit[w], t)
  <2>1. visit'[w] = IF w = v THEN x ELSE visit[w]
    BY DEF Inv, VisitsOK
  <2> QED BY <1>1, <2>1
<1>2. earned' \in [Tokens -> Nat]
  BY DEF Inv, EarnedOK
<1>3. ASSUME NEW t \in Tokens
      PROVE  /\ earned'[t] <= 1
             /\ Unused(t)' => earned'[t] = 0 /\ \A w \in Visits : ~Holds(visit'[w], t)
             /\ \A w \in Visits : Holds(visit'[w], t) =>
                  earned'[t] = 0 /\ \A u \in Visits : Holds(visit'[u], t) => u = w
  <2>1. /\ earned[t] <= 1
        /\ Unused(t) => earned[t] = 0 /\ \A w \in Visits : ~Holds(visit[w], t)
        /\ \A w \in Visits : Holds(visit[w], t) =>
             earned[t] = 0 /\ \A u \in Visits : Holds(visit[u], t) => u = w
    BY DEF Inv, EarnedOK
  <2>2. Unused(t)' => Unused(t)
    OBVIOUS
  <2> QED BY <1>1, <2>1, <2>2
<1> QED BY <1>2, <1>3 DEF EarnedOK

(* A request that counts no attempt and is not about to. *)
LEMMA MissedKept ==
  ASSUME Inv, Onward, NEW v \in Visits, NEW x,
         visit' = [visit EXCEPT ![v] = x], x.pc # "count",
         \A t \in DOMAIN tokens' :
            \/ t \in DOMAIN tokens /\ tokens'[t].attempts = tokens[t].attempts
            \/ t \notin DOMAIN pages /\ tokens'[t].attempts = 0,
         DOMAIN tokens' \subseteq Tokens
  PROVE  MissedOK'
<1>1. ASSUME NEW t PROVE Counting(t)' \subseteq Counting(t)
  BY DEF Inv, VisitsOK, Counting
<1>2. ASSUME NEW t \in Tokens
      PROVE  /\ IsFiniteSet(Counting(t)) /\ IsFiniteSet(Counting(t)')
             /\ Cardinality(Counting(t)) \in Nat /\ Cardinality(Counting(t)') \in Nat
             /\ Cardinality(Counting(t)') <= Cardinality(Counting(t))
  <2>1. IsFiniteSet(Counting(t))
    BY DEF Inv, MissedOK
  <2> QED BY <1>1, <2>1, FS_Subset, FS_CardinalityType
<1>3. ASSUME NEW t \in DOMAIN tokens'
      PROVE  \/ missed'[t] >= MaxAttempts
             \/ missed'[t] >= tokens'[t].attempts + Cardinality(Counting(t)')
  <2>0. t \in Tokens /\ MaxAttempts \in Nat
    BY ChallengeAssumption
  <2>1. missed[t] \in Nat /\ missed'[t] \in Nat /\ missed[t] <= missed'[t]
    BY <2>0 DEF Inv, MissedOK, Onward
  <2>2. CASE t \in DOMAIN tokens /\ tokens'[t].attempts = tokens[t].attempts
    <3>1. tokens[t].attempts \in Nat
      BY <2>2 DEF Inv, StoreOK, Record
    <3>2. missed[t] >= MaxAttempts \/ missed[t] >= tokens[t].attempts + Cardinality(Counting(t))
      BY <2>2 DEF Inv, MissedOK
    <3>3. /\ Cardinality(Counting(t)) \in Nat /\ Cardinality(Counting(t)') \in Nat
          /\ Cardinality(Counting(t)') <= Cardinality(Counting(t))
      BY <1>2, <2>0
    <3> QED BY <2>0, <2>1, <2>2, <3>1, <3>2, <3>3
  <2>3. CASE t \notin DOMAIN pages /\ tokens'[t].attempts = 0
    <3>1. Counting(t) = {}
      <4>1. ASSUME NEW w \in Visits, visit[w].pc = "count", visit[w].token = t PROVE FALSE
        BY <2>3, <4>1 DEF Inv, VisitsOK, VisitOK
      <4> QED BY <4>1 DEF Counting
    <3>2. Cardinality(Counting(t)') = 0
      BY <1>1, <3>1, FS_EmptySet
    <3> QED BY <2>1, <2>3, <3>2
  <2> QED BY <2>2, <2>3
<1>4. \A t \in Tokens : IsFiniteSet(Counting(t)')
  BY <1>2
<1> QED BY <1>3, <1>4 DEF MissedOK, Onward

LEMMA NoVisitOK ==
  /\ NoVisit \in VisitState /\ NoVisit.pc = "idle"
  /\ \A t : ~Holds(NoVisit, t)
  /\ \A ps, keys, ms : VisitOK(NoVisit, ps, keys, ms)
<1> DEFINE k == CHOOSE c \in Clients : TRUE
<1>1. k \in Clients
  BY ChallengeAssumption
<1>2. NoVisit = [pc |-> "idle", token |-> 0, kind |-> "pow", level |-> 0, stored |-> FALSE, client |-> k]
  BY DEF NoVisit
<1> HIDE DEF k
<1>3. NoVisit \in VisitState /\ NoVisit.pc = "idle"
  <2>1. 0 \in 0 .. MaxPages
    BY ChallengeAssumption
  <2> QED BY <1>1, <1>2, <2>1 DEF VisitState, Phases, Kinds
<1> QED BY <1>3 DEF Holds, VisitOK

LEMMA InitInv == ChallengeInit => Inv
<1> SUFFICES ASSUME ChallengeInit PROVE Inv
  OBVIOUS
<1>1. /\ DOMAIN tokens = {} /\ DOMAIN tiers = {} /\ DOMAIN unsolved = {} /\ sites = {}
      /\ pages = <<>> /\ DOMAIN pages = {} /\ time = 1
      /\ visit = [v \in Visits |-> NoVisit]
      /\ earned = [t \in Tokens |-> 0] /\ missed = [t \in Tokens |-> 0]
  BY DEF ChallengeInit
<1>2. /\ tokens \in [DOMAIN tokens -> Record] /\ tiers \in [DOMAIN tiers -> Tier]
  BY DEF ChallengeInit
<1>3. IsFiniteSet({}) /\ Cardinality({}) = 0
  BY FS_EmptySet
<1>4. {MaxTokens, MaxSites, MaxTime} \subseteq Nat \ {0} /\ MaxPages \in Nat
  BY ChallengeAssumption
<1>5. StoreOK
  <2>1. pages \in Seq(Page) /\ Len(pages) = 0
    BY <1>1
  <2>2. 1 \in 1 .. MaxTime /\ 0 <= MaxPages /\ 0 <= MaxTokens /\ 0 <= MaxSites
    BY <1>4
  <2>3. SitesOf(DOMAIN tokens) = {}
    BY <1>1 DEF SitesOf
  <2> QED BY <1>1, <1>2, <1>3, <2>1, <2>2, <2>3 DEF StoreOK
<1>6. CountsOK
  BY <1>1, <1>2, <1>3, <1>4 DEF CountsOK, Capped
<1>7. VisitsOK
  BY <1>1, NoVisitOK DEF VisitsOK
<1>8. EarnedOK
  BY <1>1, NoVisitOK DEF EarnedOK
<1>9. MissedOK
  <2>1. \A t : Counting(t) = {}
    BY <1>1, NoVisitOK DEF Counting
  <2> QED BY <1>1, <1>3, <2>1 DEF MissedOK
<1> QED BY <1>5, <1>6, <1>7, <1>8, <1>9 DEF Inv

-----------------------------------------------------------------------------
(* Requests that leave the token store alone.                                *)

LEMMA StoreStill ==
  ASSUME Inv, NEW v \in Visits, NEW x \in VisitState,
         visit' = [visit EXCEPT ![v] = x], UNCHANGED <<time, tokens, sites, pages, missed>>,
         VisitOK(x, pages, DOMAIN tokens, missed), x.pc # "count"
  PROVE  /\ StoreOK' /\ VisitsOK' /\ MissedOK'
         /\ earned' = earned /\ (\A t \in Tokens : Holds(x, t) => Holds(visit[v], t)) => EarnedOK'
<1>1. Onward
  BY DEF Inv, MissedOK, Onward
<1>2. StoreOK'
  BY DEF Inv, StoreOK, SitesOf
<1>3. VisitsOK'
  BY <1>1, VisitMoves
<1>4. DOMAIN tokens' \subseteq Tokens
  BY PagesAreTokens DEF Inv, StoreOK
<1>5. MissedOK'
  BY <1>1, <1>4, MissedKept
<1>6. ASSUME earned' = earned, \A t \in Tokens : Holds(x, t) => Holds(visit[v], t)
      PROVE  EarnedOK'
  <2>1. \A t \in Tokens : Unused(t)' => Unused(t)
    BY DEF Unused
  <2> QED BY <1>6, <2>1, EarnedKept
<1> QED BY <1>2, <1>3, <1>5, <1>6

(* Escalator::failure keeps the escalator within its cap. *)
LEMMA FailureOK ==
  ASSUME Inv, NEW c \in Clients
  PROVE  /\ Failure(c) \in [DOMAIN Failure(c) -> Tier]
         /\ Capped(DOMAIN Failure(c), Clients)
<1>1. CASE c \notin DOMAIN tiers /\ Cardinality(DOMAIN tiers) >= MaxTokens
  BY <1>1 DEF Failure, Inv, CountsOK
<1>2. CASE c \in DOMAIN tiers \/ ~(Cardinality(DOMAIN tiers) >= MaxTokens)
  <2> DEFINE old == IF c \in DOMAIN tiers THEN Decayed(tiers[c])
                    ELSE [failures |-> 0, level |-> 0, last |-> 0]
             n == IF old.failures < Ladder[Len(Ladder)] THEN old.failures + 1 ELSE old.failures
             new == [failures |-> n, level |-> Rung(n), last |-> time]
  <2>1. Failure(c) = Bound(tiers, c, new)
    BY <1>2 DEF Failure
  <2>2. old \in Tier
    <3>1. c \in DOMAIN tiers => tiers[c] \in Tier
      BY DEF Inv, CountsOK
    <3>2. [failures |-> 0, level |-> 0, last |-> 0] \in Tier
      BY DEF Tier
    <3> QED BY <3>1, <3>2, DecayedType
  <2> HIDE DEF old
  <2>3. n \in Nat
    BY <2>2 DEF Tier
  <2> HIDE DEF n
  <2>4. new \in Tier
    BY <2>3, RungType DEF Tier, Inv, StoreOK
  <2> HIDE DEF new
  <2>5. Failure(c) \in [DOMAIN Failure(c) -> Tier] /\ DOMAIN Failure(c) = DOMAIN tiers \cup {c}
    <3>1. tiers \in [DOMAIN tiers -> Tier]
      BY DEF Inv, CountsOK
    <3>2. Bound(tiers, c, new) \in [DOMAIN Bound(tiers, c, new) -> Tier]
      BY <2>4, <3>1, PutType
    <3>3. DOMAIN Bound(tiers, c, new) = DOMAIN tiers \cup {c}
      BY PutFacts
    <3> QED BY <2>1, <3>2, <3>3
  <2>6. Cardinality(DOMAIN tiers) \in Nat /\ MaxTokens \in Nat
    BY FS_CardinalityType, ChallengeAssumption DEF Inv, CountsOK, Capped
  <2>7. c \in DOMAIN tiers \/ Cardinality(DOMAIN tiers) < MaxTokens
    BY <1>2, <2>6
  <2> QED BY <2>5, <2>7, CappedAdd DEF Inv, CountsOK
<1> QED BY <1>1, <1>2

LEMMA EscalateInv ==
  ASSUME Inv, NEW v \in Visits, NEW c \in Clients, NEW level \in MarkerLevels,
         Escalate(v, c, level)
  PROVE  Inv'
<1> DEFINE asked == IF c \in DOMAIN tiers' THEN tiers'[c].level ELSE 0
           l == IF asked > level THEN asked ELSE level
           x == [NoVisit EXCEPT !.pc = "loop", !.client = c, !.level = l]
<1>1. /\ tiers' = Failure(c) /\ visit' = [visit EXCEPT ![v] = x]
      /\ UNCHANGED <<time, tokens, sites, unsolved, pages, ghosts>>
  BY DEF Escalate
<1>2. tiers' \in [DOMAIN tiers' -> Tier] /\ Capped(DOMAIN tiers', Clients)
  BY <1>1, FailureOK
<1>3. l \in Nat
  BY <1>2, ChallengeAssumption DEF Tier
<1> HIDE DEF l
<1>4. x \in VisitState /\ x.pc = "loop"
  BY <1>3, NoVisitOK DEF VisitState, Phases
<1>5. VisitOK(x, pages, DOMAIN tokens, missed) /\ \A t : ~Holds(x, t)
  BY <1>4 DEF VisitOK, Holds
<1> HIDE DEF x
<1>7. StoreOK' /\ VisitsOK' /\ MissedOK' /\ EarnedOK'
  BY <1>1, <1>4, <1>5, StoreStill DEF ghosts
<1>8. CountsOK'
  BY <1>1, <1>2 DEF Inv, CountsOK
<1> QED BY <1>7, <1>8 DEF Inv

LEMMA CountLoopInv ==
  ASSUME Inv, NEW v \in Visits, CountLoop(v)
  PROVE  Inv'
<1> DEFINE c == visit[v].client
           kind == KindOf(visit[v].level)
           n == Issued(c, kind)
           m == IF n > LoopThreshold THEN LoopThreshold ELSE n
<1>1. /\ \/ unsolved' = unsolved
         \/ /\ <<c, kind>> \in DOMAIN unsolved \/ Cardinality(DOMAIN unsolved) < MaxTokens
            /\ unsolved' = Bound(unsolved, <<c, kind>>, m)
      /\ \/ visit' = [visit EXCEPT ![v] = NoVisit]
         \/ visit' = [visit EXCEPT ![v].pc = "issue", ![v].kind = kind, ![v].level = 0]
      /\ UNCHANGED <<time, tokens, sites, tiers, pages, ghosts>>
  BY DEF CountLoop, Answer
<1>2. kind \in Kinds /\ visit[v] \in VisitState
  BY ChallengeAssumption DEF KindOf, Kinds, Inv, VisitsOK
<1> HIDE DEF kind, m
<1>3. CountsOK'
  <2>1. c \in Clients
    BY <1>2 DEF VisitState
  <2>2. <<c, kind>> \in Clients \X Kinds
    BY <1>2, <2>1
  <2>3. CASE unsolved' = unsolved
    BY <1>1, <2>3 DEF Inv, CountsOK
  <2>4. CASE /\ <<c, kind>> \in DOMAIN unsolved \/ Cardinality(DOMAIN unsolved) < MaxTokens
             /\ unsolved' = Bound(unsolved, <<c, kind>>, m)
    <3> HIDE DEF c
    <3>1. DOMAIN unsolved' = DOMAIN unsolved \cup {<<c, kind>>}
      BY <2>4, PutFacts
    <3>2. Capped(DOMAIN unsolved', Clients \X Kinds)
      BY <2>2, <2>4, <3>1, CappedAdd DEF Inv, CountsOK
    <3> QED BY <1>1, <3>2 DEF Inv, CountsOK
  <2> QED BY <1>1, <2>3, <2>4
<1>5. CASE visit' = [visit EXCEPT ![v] = NoVisit]
  BY <1>1, <1>3, <1>5, NoVisitOK, StoreStill DEF Inv, ghosts
<1>6. CASE visit' = [visit EXCEPT ![v].pc = "issue", ![v].kind = kind, ![v].level = 0]
  <2> DEFINE x == [visit[v] EXCEPT !.pc = "issue", !.kind = kind, !.level = 0]
  <2>1. visit' = [visit EXCEPT ![v] = x]
    BY <1>6 DEF Inv, VisitsOK
  <2>2. x \in VisitState /\ x.pc = "issue"
    BY <1>2 DEF VisitState, Phases
  <2>3. VisitOK(x, pages, DOMAIN tokens, missed) /\ \A t : ~Holds(x, t)
    BY <2>2 DEF VisitOK, Holds
  <2> HIDE DEF x
  <2>4. StoreOK' /\ VisitsOK' /\ MissedOK' /\ EarnedOK'
    BY <1>1, <2>1, <2>2, <2>3, StoreStill DEF ghosts
  <2> QED BY <1>3, <2>4 DEF Inv
<1> QED BY <1>1, <1>5, <1>6

LEMMA SolveLoopInv ==
  ASSUME Inv, NEW v \in Visits, SolveLoop(v)
  PROVE  Inv'
<1> DEFINE x == [visit[v] EXCEPT !.pc = "ease"]
<1>1. /\ unsolved' = Drop(unsolved, {<<visit[v].client, visit[v].kind>>})
      /\ visit' = [visit EXCEPT ![v] = x] /\ visit[v].pc = "solved"
      /\ UNCHANGED <<time, tokens, sites, tiers, pages, ghosts>>
  BY DEF SolveLoop, Proceed, Waits
<1>2. visit[v] \in VisitState /\ VisitOK(visit[v], pages, DOMAIN tokens, missed)
  BY DEF Inv, VisitsOK
<1>3. /\ x \in VisitState /\ x.pc = "ease"
      /\ x.stored = visit[v].stored /\ x.token = visit[v].token
  BY <1>2 DEF VisitState, Phases
<1> HIDE DEF x
<1>4. VisitOK(x, pages, DOMAIN tokens, missed)
  BY <1>1, <1>2, <1>3 DEF VisitOK
<1>5. \A t \in Tokens : Holds(x, t) => Holds(visit[v], t)
  BY <1>1, <1>3 DEF Holds
<1>7. StoreOK' /\ VisitsOK' /\ MissedOK' /\ EarnedOK'
  BY <1>1, <1>3, <1>4, <1>5, StoreStill DEF ghosts
<1>8. CountsOK'
  <2> DEFINE ks == {<<visit[v].client, visit[v].kind>>}
             K == Clients \X Kinds
  <2>1. unsolved' = Drop(unsolved, ks) /\ Capped(DOMAIN unsolved, K)
    BY <1>1 DEF Inv, CountsOK
  <2> HIDE DEF ks
  <2>2. Capped(DOMAIN unsolved', K)
    <3> HIDE DEF K
    <3>1. DOMAIN unsolved' = DOMAIN unsolved \ ks
      BY <2>1, DropFacts
    <3>2. Capped(DOMAIN unsolved \ ks, K)
      BY <2>1, CappedDrop
    <3> QED BY <3>1, <3>2
  <2> QED BY <1>1, <2>2 DEF Inv, CountsOK
<1> QED BY <1>7, <1>8 DEF Inv

(* Escalator::success keeps the clients it knows. *)
LEMMA SuccessOK ==
  ASSUME Inv, NEW c
  PROVE  Success(c) \in [DOMAIN tiers -> Tier]
<1>1. tiers \in [DOMAIN tiers -> Tier] /\ time \in Nat
  BY ChallengeAssumption DEF Inv, CountsOK, StoreOK
<1>2. CASE c \notin DOMAIN tiers
  BY <1>1, <1>2 DEF Success
<1>3. CASE c \in DOMAIN tiers
  <2> DEFINE s == Decayed(tiers[c])
             l == IF s.level = 0 THEN 0 ELSE s.level - 1
             x == [s EXCEPT !.level = l, !.last = time]
  <2>1. s \in Tier
    BY <1>1, <1>3, DecayedType
  <2> HIDE DEF s
  <2>2. l \in Nat
    BY <2>1 DEF Tier
  <2> HIDE DEF l
  <2>3. x \in Tier
    BY <1>1, <2>1, <2>2 DEF Tier
  <2>4. Success(c) = [tiers EXCEPT ![c] = x]
    BY <1>3 DEF Success, s, l
  <2> HIDE DEF x
  <2> QED BY <1>1, <2>3, <2>4
<1> QED BY <1>2, <1>3

LEMMA EaseInv ==
  ASSUME Inv, NEW v \in Visits, Ease(v)
  PROVE  Inv'
<1> DEFINE c == visit[v].client
           k == visit[v].token
<1>1. /\ visit[v].pc = "ease" /\ tiers' = Success(c)
      /\ earned' = IF visit[v].stored THEN [earned EXCEPT ![k] = @ + 1] ELSE earned
      /\ visit' = [visit EXCEPT ![v] = NoVisit]
      /\ UNCHANGED <<time, tokens, sites, unsolved, pages, missed>>
  BY DEF Ease, Waits, Answer
<1>2. visit[v] \in VisitState /\ VisitOK(visit[v], pages, DOMAIN tokens, missed)
  BY DEF Inv, VisitsOK
<1>4. /\ StoreOK' /\ VisitsOK' /\ MissedOK'
      /\ earned' = earned /\ (\A t \in Tokens : Holds(NoVisit, t) => Holds(visit[v], t)) => EarnedOK'
  BY <1>1, NoVisitOK, StoreStill
<1>5. CountsOK'
  <2>1. tiers' \in [DOMAIN tiers -> Tier]
    BY <1>1, SuccessOK
  <2> QED BY <1>1, <2>1 DEF Inv, CountsOK
<1>6. EarnedOK'
  <2>1. CASE ~visit[v].stored
    BY <1>1, <1>4, <2>1, NoVisitOK
  <2>2. CASE visit[v].stored
    <3>1. Holds(visit[v], k)
      BY <1>1, <2>2 DEF Holds
    <3>2. k \in DOMAIN pages /\ k \in Tokens
      BY <1>1, <1>2, <2>2, PagesAreTokens DEF VisitOK, Inv
    <3>3. /\ earned[k] = 0 /\ ~Unused(k)
          /\ \A w \in Visits : Holds(visit[w], k) => w = v
      BY <3>1, <3>2 DEF Inv, EarnedOK
    <3>4. earned' = [earned EXCEPT ![k] = 1] /\ earned \in [Tokens -> Nat]
      BY <1>1, <2>2, <3>2, <3>3 DEF Inv, EarnedOK
    <3> HIDE DEF k
    <3>5. ASSUME NEW w \in Visits, NEW t, Holds(visit'[w], t) PROVE w # v /\ Holds(visit[w], t)
      <4>1. visit'[w] = IF w = v THEN NoVisit ELSE visit[w]
        BY <1>1 DEF Inv, VisitsOK
      <4> QED BY <3>5, <4>1, NoVisitOK
    <3>6. ASSUME NEW t \in Tokens
          PROVE  /\ earned'[t] <= 1
                 /\ Unused(t)' => earned'[t] = 0 /\ \A w \in Visits : ~Holds(visit'[w], t)
                 /\ \A w \in Visits : Holds(visit'[w], t) =>
                      earned'[t] = 0 /\ \A u \in Visits : Holds(visit'[u], t) => u = w
      <4>1. Unused(t)' => Unused(t)
        BY <1>1 DEF Unused
      <4>2. CASE t = k
        <5>1. ASSUME NEW w \in Visits, Holds(visit'[w], t) PROVE FALSE
          BY <3>3, <3>5, <4>2, <5>1
        <5>2. earned'[t] = 1
          BY <3>4, <4>2
        <5> QED BY <3>3, <4>1, <4>2, <5>1, <5>2
      <4>3. CASE t # k
        <5>1. /\ earned[t] <= 1
              /\ Unused(t) => earned[t] = 0 /\ \A w \in Visits : ~Holds(visit[w], t)
              /\ \A w \in Visits : Holds(visit[w], t) =>
                   earned[t] = 0 /\ \A u \in Visits : Holds(visit[u], t) => u = w
          BY DEF Inv, EarnedOK
        <5>2. earned'[t] = earned[t]
          BY <3>4, <4>3
        <5> QED BY <3>5, <4>1, <5>1, <5>2
      <4> QED BY <4>2, <4>3
    <3>7. earned' \in [Tokens -> Nat]
      BY <3>4
    <3> QED BY <3>6, <3>7 DEF EarnedOK
  <2> QED BY <2>1, <2>2
<1> QED BY <1>4, <1>5, <1>6 DEF Inv

LEMMA TimePassesInv ==
  ASSUME Inv, TimePasses \/ UNCHANGED challengeVars
  PROVE  Inv'
<1>1. UNCHANGED <<tokens, sites, tiers, unsolved, pages, visit, earned, missed>>
  BY DEF TimePasses, ghosts, challengeVars
<1>2. time' \in 1 .. MaxTime
  <2>1. time \in 1 .. MaxTime /\ MaxTime \in Nat
    BY ChallengeAssumption DEF Inv, StoreOK
  <2>2. time' = time \/ (time < MaxTime /\ time' = time + 1)
    BY DEF TimePasses, challengeVars
  <2> QED BY <2>1, <2>2
<1>3. StoreOK'
  BY <1>1, <1>2 DEF Inv, StoreOK, SitesOf
<1>4. CountsOK' /\ VisitsOK' /\ EarnedOK'
  BY <1>1 DEF Inv, CountsOK, VisitsOK, EarnedOK, Unused
<1>5. MissedOK'
  <2>1. \A t : Counting(t)' = Counting(t)
    BY <1>1 DEF Counting
  <2> QED BY <1>1, <2>1 DEF Inv, MissedOK
<1> QED BY <1>3, <1>4, <1>5 DEF Inv

-----------------------------------------------------------------------------
(* Requests that present a token.                                            *)

(* A token leaves the store; of its domain nothing is assumed but that it is *)
(* still counted while another token of it is stored.                        *)
LEMMA TokenLeaves ==
  ASSUME Inv, NEW t, tokens' = Drop(tokens, {t}), UNCHANGED <<time, pages, missed>>,
         sites' \subseteq sites, SitesOf(DOMAIN tokens \ {t}) \subseteq sites'
  PROVE  /\ StoreOK' /\ Onward
         /\ DOMAIN tokens' = DOMAIN tokens \ {t} /\ DOMAIN tokens' \subseteq Tokens
         /\ \A u \in DOMAIN tokens' : tokens'[u] = tokens[u]
         /\ \A u \in Tokens : Unused(u)' => Unused(u)
<1>1. /\ DOMAIN tokens' = DOMAIN tokens \ {t} /\ \A u \in DOMAIN tokens' : tokens'[u] = tokens[u]
  <2>1. /\ DOMAIN Drop(tokens, {t}) = DOMAIN tokens \ {t}
        /\ \A u \in DOMAIN tokens \ {t} : Drop(tokens, {t})[u] = tokens[u]
    BY DropFacts
  <2> QED BY <2>1
<1>2. /\ tokens \in [DOMAIN tokens -> Record] /\ DOMAIN tokens \subseteq DOMAIN pages
      /\ Cardinality(DOMAIN tokens) <= MaxTokens
      /\ sites \subseteq Sites /\ IsFiniteSet(sites) /\ Cardinality(sites) <= MaxSites
  BY DEF Inv, StoreOK
<1>3. tokens' \in [DOMAIN tokens' -> Record]
  BY <1>2, DropType
<1>4. IsFiniteSet(DOMAIN tokens)
  <2>1. IsFiniteSet(DOMAIN pages)
    BY PagesAreTokens, FS_Interval DEF Inv
  <2> QED BY <1>2, <2>1, FS_Subset
<1>5. Cardinality(DOMAIN tokens') <= MaxTokens
  <2>1. /\ IsFiniteSet(DOMAIN tokens') /\ Cardinality(DOMAIN tokens') <= Cardinality(DOMAIN tokens)
    BY <1>1, <1>4, FS_Subset
  <2>2. /\ Cardinality(DOMAIN tokens') \in Nat /\ Cardinality(DOMAIN tokens) \in Nat
        /\ MaxTokens \in Nat
    BY <1>4, <2>1, FS_CardinalityType, ChallengeAssumption
  <2> QED BY <1>2, <2>1, <2>2
<1>6. sites' \subseteq Sites /\ IsFiniteSet(sites') /\ Cardinality(sites') <= MaxSites
  <2>1. IsFiniteSet(sites') /\ Cardinality(sites') <= Cardinality(sites)
    BY <1>2, FS_Subset
  <2>2. Cardinality(sites') \in Nat /\ Cardinality(sites) \in Nat /\ MaxSites \in Nat
    BY <1>2, <2>1, FS_CardinalityType, ChallengeAssumption
  <2> QED BY <1>2, <2>1, <2>2
<1>7. (SitesOf(DOMAIN tokens))' \subseteq sites'
  BY <1>1 DEF SitesOf
<1>8. StoreOK'
  BY <1>1, <1>2, <1>3, <1>5, <1>6, <1>7 DEF Inv, StoreOK
<1>9. DOMAIN tokens' \subseteq Tokens
  BY <1>1, <1>2, PagesAreTokens DEF Inv
<1>10. Onward
  BY <1>1 DEF Onward, Inv, MissedOK
<1>11. \A u \in Tokens : Unused(u)' => Unused(u)
  BY <1>1 DEF Unused
<1> QED BY <1>1, <1>8, <1>9, <1>10, <1>11

LEMMA RemoveLeaves ==
  ASSUME Inv, NEW t, RemoveToken(t), UNCHANGED pages
  PROVE  sites' \subseteq sites /\ SitesOf(DOMAIN tokens \ {t}) \subseteq sites'
<1>1. SitesOf(DOMAIN tokens) \subseteq sites
  BY DEF Inv, StoreOK
<1>2. SitesOf(DOMAIN tokens \ {t}) \subseteq SitesOf(DOMAIN tokens)
  BY DEF SitesOf
<1> QED BY <1>1, <1>2 DEF RemoveToken

(* A token leaves with the request that carried it. *)
LEMMA LeavesInv ==
  ASSUME Inv, NEW v \in Visits, NEW t, tokens' = Drop(tokens, {t}),
         visit' = [visit EXCEPT ![v] = NoVisit],
         sites' \subseteq sites, SitesOf(DOMAIN tokens \ {t}) \subseteq sites',
         UNCHANGED <<time, tiers, unsolved, pages, ghosts>>
  PROVE  Inv'
<1>1. /\ StoreOK' /\ Onward
      /\ DOMAIN tokens' = DOMAIN tokens \ {t} /\ DOMAIN tokens' \subseteq Tokens
      /\ \A u \in DOMAIN tokens' : tokens'[u] = tokens[u]
      /\ \A u \in Tokens : Unused(u)' => Unused(u)
  BY TokenLeaves DEF ghosts
<1>2. VisitsOK'
  BY <1>1, NoVisitOK, VisitMoves
<1>3. EarnedOK'
  BY <1>1, NoVisitOK, EarnedKept DEF ghosts
<1>4. MissedOK'
  BY <1>1, NoVisitOK, MissedKept
<1>5. CountsOK'
  BY DEF Inv, CountsOK
<1> QED BY <1>1, <1>2, <1>3, <1>4, <1>5 DEF Inv

LEMMA DropTokenInv ==
  ASSUME Inv, NEW v \in Visits, DropToken(v)
  PROVE  Inv'
<1> DEFINE t == visit[v].token
<1>1. /\ RemoveToken(t) /\ visit' = [visit EXCEPT ![v] = NoVisit]
      /\ UNCHANGED <<time, tiers, unsolved, pages, ghosts>>
  BY DEF DropToken, Answer
<1> HIDE DEF t
<1>2. /\ tokens' = Drop(tokens, {t}) /\ sites' \subseteq sites
      /\ SitesOf(DOMAIN tokens \ {t}) \subseteq sites'
  BY <1>1, RemoveLeaves DEF RemoveToken
<1> QED BY <1>1, <1>2, LeavesInv

LEMMA TakeInv ==
  ASSUME Inv, NEW v \in Visits, Take(v)
  PROVE  Inv'
<1> DEFINE t == visit[v].token
           x == [visit[v] EXCEPT !.pc = "solved"]
<1>1. visit[v].pc = "take" /\ UNCHANGED <<time, tiers, unsolved, pages, ghosts>>
  BY DEF Take, Waits
<1>2. visit[v] \in VisitState /\ VisitOK(visit[v], pages, DOMAIN tokens, missed)
  BY DEF Inv, VisitsOK
<1>3. CASE ~Get(t, visit[v].client)
  <2>1. tokens' = Drop(tokens, {t}) /\ visit' = [visit EXCEPT ![v] = NoVisit] /\ sites' = sites
    BY <1>3 DEF Take, Answer
  <2>2. SitesOf(DOMAIN tokens \ {t}) \subseteq sites'
    BY <2>1 DEF Inv, StoreOK, SitesOf
  <2> HIDE DEF t
  <2> QED BY <1>1, <2>1, <2>2, LeavesInv
<1>4. CASE Get(t, visit[v].client)
  <2>1. RemoveToken(t) /\ visit' = [visit EXCEPT ![v] = x] /\ t \in DOMAIN tokens
    BY <1>4 DEF Take, Proceed, Get
  <2>2. /\ x \in VisitState /\ x.pc = "solved" /\ x.token = t
    BY <1>2 DEF VisitState, Phases
  <2>3. t \in DOMAIN pages
    BY <2>1 DEF Inv, StoreOK
  <2> HIDE DEF t, x
  <2>4. /\ tokens' = Drop(tokens, {t}) /\ sites' \subseteq sites
        /\ SitesOf(DOMAIN tokens \ {t}) \subseteq sites'
    BY <1>1, <2>1, RemoveLeaves DEF RemoveToken
  <2>5. /\ StoreOK' /\ Onward
        /\ DOMAIN tokens' = DOMAIN tokens \ {t} /\ DOMAIN tokens' \subseteq Tokens
        /\ \A u \in DOMAIN tokens' : tokens'[u] = tokens[u]
        /\ \A u \in Tokens : Unused(u)' => Unused(u)
    BY <1>1, <2>4, TokenLeaves DEF ghosts
  <2>6. VisitOK(x, pages', DOMAIN tokens', missed')
    BY <1>1, <2>2, <2>3 DEF VisitOK
  <2>7. VisitsOK'
    BY <2>1, <2>2, <2>5, <2>6, VisitMoves
  <2>8. MissedOK'
    BY <2>1, <2>2, <2>5, MissedKept
  <2>9. CountsOK'
    BY <1>1 DEF Inv, CountsOK
  <2>10. EarnedOK'
    <3>1. earned' = earned /\ earned \in [Tokens -> Nat]
      BY <1>1 DEF ghosts, Inv, EarnedOK
    <3>2. Unused(t) /\ \A u : Unused(u)' => u # t
      BY <1>1, <2>1, <2>3, <2>5 DEF Unused
    <3>3. ASSUME NEW w \in Visits, NEW u, Holds(visit'[w], u)
          PROVE  Holds(visit[w], u) \/ (w = v /\ u = t)
      <4>1. visit'[w] = IF w = v THEN x ELSE visit[w]
        BY <2>1 DEF Inv, VisitsOK
      <4> QED BY <2>2, <3>3, <4>1 DEF Holds
    <3>4. ASSUME NEW u \in Tokens
          PROVE  /\ earned[u] <= 1
                 /\ Unused(u)' => earned[u] = 0 /\ \A w \in Visits : ~Holds(visit'[w], u)
                 /\ \A w \in Visits : Holds(visit'[w], u) =>
                      earned[u] = 0 /\ \A y \in Visits : Holds(visit'[y], u) => y = w
      <4>1. /\ earned[u] <= 1
            /\ Unused(u) => earned[u] = 0 /\ \A w \in Visits : ~Holds(visit[w], u)
            /\ \A w \in Visits : Holds(visit[w], u) =>
                 earned[u] = 0 /\ \A y \in Visits : Holds(visit[y], u) => y = w
        BY DEF Inv, EarnedOK
      <4>2. Unused(u)' => Unused(u)
        BY <2>5
      <4>3. CASE u = t
        BY <3>2, <3>3, <4>1, <4>3
      <4>4. CASE u # t
        BY <3>3, <4>1, <4>2, <4>4
      <4> QED BY <4>3, <4>4
    <3> QED BY <3>1, <3>4 DEF EarnedOK
  <2> QED BY <2>5, <2>7, <2>8, <2>9, <2>10 DEF Inv
<1> QED BY <1>3, <1>4

LEMMA CountAttemptInv ==
  ASSUME Inv, NEW v \in Visits, CountAttempt(v)
  PROVE  Inv'
<1>1. PICK t \in DOMAIN pages : visit[v].token = t /\ pages[t].client = visit[v].client
  BY DEF CountAttempt, Waits, Inv, VisitsOK, VisitOK
<1>2. /\ visit[v].pc = "count" /\ t \in Tokens
      /\ UNCHANGED <<time, sites, tiers, unsolved, pages, ghosts>>
  BY PagesAreTokens DEF CountAttempt, Waits, Inv
<1>3. visit[v] \in VisitState
  BY DEF Inv, VisitsOK
<1> DEFINE x == [visit[v] EXCEPT !.pc = "drop"]
<1>4. /\ x \in VisitState /\ x.pc = "drop" /\ x.token = t /\ x.client = pages[t].client
  BY <1>1, <1>3 DEF VisitState, Phases
<1>5. visit' = [visit EXCEPT ![v] = x] \/ visit' = [visit EXCEPT ![v] = NoVisit]
  BY DEF CountAttempt, Proceed, Answer
<1>6. CountsOK'
  BY <1>2 DEF Inv, CountsOK
<1>7. CASE t \notin DOMAIN tokens
  <2>1. tokens' = tokens /\ visit' = [visit EXCEPT ![v] = x]
    BY <1>1, <1>7 DEF CountAttempt, Proceed
  <2>2. VisitOK(x, pages, DOMAIN tokens, missed) /\ \A u : ~Holds(x, u)
    BY <1>4, <1>7 DEF VisitOK, Holds
  <2> HIDE DEF x
  <2>4. StoreOK' /\ VisitsOK' /\ MissedOK' /\ EarnedOK'
    BY <1>2, <1>4, <2>1, <2>2, StoreStill DEF ghosts
  <2> QED BY <1>6, <2>4 DEF Inv
<1>8. CASE t \in DOMAIN tokens
  <2> DEFINE a == tokens[t].attempts
  <2>1. tokens \in [DOMAIN tokens -> Record] /\ a \in Nat
    BY <1>8 DEF Inv, StoreOK, Record
  <2>2. tokens' = [tokens EXCEPT ![t].attempts = a + 1]
    BY <1>1, <1>8 DEF CountAttempt
  <2>3. /\ tokens' \in [DOMAIN tokens -> Record] /\ DOMAIN tokens' = DOMAIN tokens
        /\ tokens'[t].attempts = a + 1
        /\ \A u \in DOMAIN tokens : u # t => tokens'[u] = tokens[u]
    <3>1. a + 1 \in Nat
      BY <2>1
    <3> HIDE DEF a
    <3> QED BY <1>8, <2>1, <2>2, <3>1 DEF Record
  <2>4. StoreOK'
    BY <1>2, <2>3 DEF Inv, StoreOK, SitesOf
  <2>5. Onward
    BY <1>2, <2>3 DEF Onward, Inv, MissedOK, ghosts
  <2>6. /\ IsFiniteSet(Counting(t)) /\ Cardinality(Counting(t)) \in Nat /\ v \in Counting(t)
        /\ Cardinality(Counting(t)) >= 1
    <3>1. IsFiniteSet(Counting(t)) /\ v \in Counting(t)
      BY <1>1, <1>2 DEF Inv, MissedOK, Counting
    <3>2. /\ IsFiniteSet(Counting(t) \ {v}) /\ Cardinality(Counting(t)) \in Nat
          /\ Cardinality(Counting(t) \ {v}) = Cardinality(Counting(t)) - 1
      BY <3>1, FS_RemoveElement, FS_CardinalityType
    <3>3. Cardinality(Counting(t) \ {v}) \in Nat
      BY <3>2, FS_CardinalityType
    <3> QED BY <3>1, <3>2, <3>3
  <2>7. missed[t] \in Nat /\ MaxAttempts \in Nat /\ missed' = missed
        /\ (missed[t] >= MaxAttempts \/ missed[t] >= a + Cardinality(Counting(t)))
    BY <1>2, <1>8, ChallengeAssumption DEF Inv, MissedOK, ghosts
  <2>8. ASSUME NEW y \in VisitState, visit' = [visit EXCEPT ![v] = y], y.pc # "count",
               VisitOK(y, pages', DOMAIN tokens', missed'), \A u : ~Holds(y, u)
        PROVE  Inv'
    <3>1. VisitsOK'
      BY <2>5, <2>8, VisitMoves
    <3>2. EarnedOK'
      <4>1. \A u \in Tokens : Unused(u)' => Unused(u)
        BY <1>2, <2>3 DEF Unused
      <4> QED BY <1>2, <2>8, <4>1, EarnedKept DEF ghosts
    <3>3. MissedOK'
      <4>1. ASSUME NEW u \in Tokens
            PROVE  Counting(u)' = IF u = t THEN Counting(u) \ {v} ELSE Counting(u)
        BY <1>1, <2>8 DEF Counting, Inv, VisitsOK
      <4>2. ASSUME NEW u \in Tokens PROVE IsFiniteSet(Counting(u)')
        <5>1. IsFiniteSet(Counting(u)) /\ IsFiniteSet(Counting(t) \ {v})
          BY <2>6, FS_RemoveElement DEF Inv, MissedOK
        <5> QED BY <4>1, <5>1
      <4>3. ASSUME NEW u \in DOMAIN tokens
            PROVE  \/ missed'[u] >= MaxAttempts
                   \/ missed'[u] >= tokens'[u].attempts + Cardinality(Counting(u)')
        <5>0. u \in Tokens
          BY PagesAreTokens DEF Inv, StoreOK
        <5>1. CASE u = t
          <6>1. Counting(u)' = Counting(t) \ {v}
            BY <4>1, <5>0, <5>1
          <6>2. Cardinality(Counting(u)') = Cardinality(Counting(t)) - 1
            BY <2>6, <6>1, FS_RemoveElement
          <6> HIDE DEF a
          <6> QED BY <2>1, <2>3, <2>6, <2>7, <5>1, <6>2
        <5>2. CASE u # t
          BY <2>3, <2>7, <4>1, <5>0, <5>2 DEF Inv, MissedOK
        <5> QED BY <5>1, <5>2
      <4>4. missed' \in [Tokens -> Nat]
        BY <2>7 DEF Inv, MissedOK
      <4> QED BY <2>3, <4>2, <4>3, <4>4 DEF MissedOK
    <3> QED BY <1>6, <2>4, <3>1, <3>2, <3>3 DEF Inv
  <2>9. CASE visit' = [visit EXCEPT ![v] = NoVisit]
    BY <2>8, <2>9, NoVisitOK
  <2>10. CASE visit' # [visit EXCEPT ![v] = NoVisit]
    <3>1. visit' = [visit EXCEPT ![v] = x] /\ a + 1 >= MaxAttempts
      BY <1>1, <1>5, <1>8, <2>10 DEF CountAttempt, Answer
    <3>2. missed'[t] >= MaxAttempts
      <4> HIDE DEF a
      <4> QED BY <2>1, <2>6, <2>7, <3>1
    <3>3. VisitOK(x, pages', DOMAIN tokens', missed') /\ \A u : ~Holds(x, u)
      BY <1>2, <1>4, <3>2 DEF VisitOK, Holds
    <3> HIDE DEF x
    <3> QED BY <1>4, <2>8, <3>1, <3>3
  <2> QED BY <2>9, <2>10
<1> QED BY <1>7, <1>8

LEMMA PresentInv ==
  ASSUME Inv, NEW v \in Visits, NEW c \in Clients, NEW t \in Tokens, NEW proof \in Kinds,
         Present(v, c, t, proof)
  PROVE  Inv'
<1> DEFINE kind == CheckedKind(t)
           st == pages[t].stored
           seen == [NoVisit EXCEPT !.client = c, !.token = t, !.kind = kind, !.stored = st]
           solved == [seen EXCEPT !.pc = IF seen.stored THEN "take" ELSE "solved"]
           failed == [seen EXCEPT !.pc = "count"]
           counts == proof # kind /\ kind = "pow" /\ st
<1>1. visit[v].pc = "idle" /\ t \in DOMAIN pages
      /\ UNCHANGED <<time, tokens, sites, tiers, unsolved, pages>>
  BY DEF Present, Waits
<1>2. pages[t] \in Page /\ kind \in Kinds /\ st \in BOOLEAN
  <2>1. pages[t] \in Page
    BY <1>1 DEF Inv, StoreOK
  <2> QED BY <2>1 DEF Page, CheckedKind, Kinds
<1>3. CountsOK'
  BY <1>1 DEF Inv, CountsOK
<1>4. CASE ~Get(t, c) /\ ~ParseStateless(t, c)
  <2>1. visit' = [visit EXCEPT ![v] = NoVisit] /\ UNCHANGED ghosts
    BY <1>4 DEF Present, Answer
  <2> QED BY <1>1, <1>3, <2>1, NoVisitOK, StoreStill DEF Inv, ghosts
<1>5. CASE Get(t, c) \/ ParseStateless(t, c)
  <2> HIDE DEF kind
  <2>1. pages[t].client = c
    BY <1>5 DEF Get, ParseStateless
  <2>2. /\ seen \in VisitState /\ seen.client = c /\ seen.token = t /\ seen.stored = st
        /\ seen.pc = "idle"
    <3>1. t \in 0 .. MaxPages
      BY ChallengeAssumption DEF Tokens
    <3> HIDE DEF st
    <3> QED BY <1>2, <3>1, NoVisitOK DEF VisitState, Phases
  <2>3. /\ visit' = [visit EXCEPT ![v] = IF proof = kind THEN solved
                                         ELSE IF kind = "pow" /\ seen.stored THEN failed ELSE NoVisit]
        /\ missed' = [missed EXCEPT ![t] = IF proof # kind /\ kind = "pow" /\ seen.stored
                                              /\ c = pages[t].client /\ @ < MaxAttempts
                                           THEN @ + 1 ELSE @]
        /\ earned' = earned
    BY <1>5 DEF Present, kind
  <2> HIDE DEF seen, st
  <2>4. /\ solved \in VisitState /\ solved.token = t /\ solved.client = c /\ solved.stored = st
        /\ solved.pc = (IF st THEN "take" ELSE "solved")
        /\ failed \in VisitState /\ failed.token = t /\ failed.client = c /\ failed.pc = "count"
    BY <1>2, <2>2 DEF VisitState, Phases
  <2>5. missed \in [Tokens -> Nat] /\ MaxAttempts \in Nat
    BY ChallengeAssumption DEF Inv, MissedOK
  <2>6. CASE ~counts
    <3>1. missed' = missed
      BY <2>2, <2>3, <2>5, <2>6
    <3>2. PICK y \in {solved, NoVisit} : visit' = [visit EXCEPT ![v] = y]
      BY <2>2, <2>3, <2>6
    <3>3. VisitOK(solved, pages, DOMAIN tokens, missed) /\ \A u : ~Holds(solved, u)
      BY <1>1, <1>2, <2>1, <2>4 DEF VisitOK, Holds
    <3>4. /\ y \in VisitState /\ y.pc # "count"
          /\ VisitOK(y, pages, DOMAIN tokens, missed) /\ \A u : ~Holds(y, u)
      <4>1. solved \in VisitState /\ solved.pc # "count"
        BY <1>2, <2>4
      <4> HIDE DEF solved
      <4>2. CASE y = solved
        BY <3>3, <4>1, <4>2
      <4>3. CASE y = NoVisit
        BY <4>3, NoVisitOK
      <4> QED BY <3>2, <4>2, <4>3
    <3>5. StoreOK' /\ VisitsOK' /\ MissedOK' /\ EarnedOK'
      BY <1>1, <1>3, <2>3, <3>1, <3>2, <3>4, StoreStill
    <3> QED BY <1>3, <3>5 DEF Inv
  <2>7. CASE counts
    <3>1. visit' = [visit EXCEPT ![v] = failed]
      BY <2>2, <2>3, <2>7
    <3>2. missed' = [missed EXCEPT ![t] = IF missed[t] < MaxAttempts THEN missed[t] + 1 ELSE missed[t]]
      BY <2>1, <2>2, <2>3, <2>5, <2>7
    <3> HIDE DEF failed, solved
    <3>3. Onward
      <4>1. missed' \in [Tokens -> Nat] /\ \A u \in Tokens : missed[u] <= missed'[u]
        BY <2>5, <3>2
      <4> QED BY <1>1, <4>1 DEF Onward
    <3>4. VisitsOK'
      <4>1. VisitOK(failed, pages', DOMAIN tokens', missed')
        BY <1>1, <2>1, <2>4 DEF VisitOK
      <4> QED BY <2>4, <3>1, <3>3, <4>1, VisitMoves
    <3>5. StoreOK'
      BY <1>1 DEF Inv, StoreOK, SitesOf
    <3>6. EarnedOK'
      <4>1. \A u \in Tokens : Unused(u)' => Unused(u)
        BY <1>1 DEF Unused
      <4>2. \A u : ~Holds(failed, u)
        BY <2>4 DEF Holds
      <4> QED BY <2>3, <3>1, <4>1, <4>2, EarnedKept
    <3>7. MissedOK'
      <4>1. ASSUME NEW u \in Tokens
            PROVE  Counting(u)' = IF u = t THEN Counting(u) \cup {v} ELSE Counting(u)
        BY <1>1, <2>4, <3>1 DEF Counting, Inv, VisitsOK
      <4>2. v \notin Counting(t) /\ \A u \in Tokens : IsFiniteSet(Counting(u))
        BY <1>1 DEF Counting, Inv, MissedOK
      <4>3. /\ IsFiniteSet(Counting(t) \cup {v}) /\ Cardinality(Counting(t)) \in Nat
            /\ Cardinality(Counting(t) \cup {v}) = Cardinality(Counting(t)) + 1
        BY <4>2, FS_AddElement, FS_CardinalityType
      <4>4. \A u \in Tokens : IsFiniteSet(Counting(u)')
        BY <4>1, <4>2, <4>3
      <4>5. ASSUME NEW u \in DOMAIN tokens
            PROVE  \/ missed'[u] >= MaxAttempts
                   \/ missed'[u] >= tokens[u].attempts + Cardinality(Counting(u)')
        <5>0. u \in Tokens /\ tokens[u].attempts \in Nat
          BY PagesAreTokens DEF Inv, StoreOK, Record
        <5>1. missed[u] >= MaxAttempts \/ missed[u] >= tokens[u].attempts + Cardinality(Counting(u))
          BY DEF Inv, MissedOK
        <5>2. CASE u = t
          <6>1. Cardinality(Counting(u)') = Cardinality(Counting(u)) + 1
            BY <4>1, <4>3, <5>0, <5>2
          <6>2. missed'[u] = IF missed[u] < MaxAttempts THEN missed[u] + 1 ELSE missed[u]
            BY <2>5, <3>2, <5>2
          <6>3. Cardinality(Counting(u)) \in Nat /\ missed[u] \in Nat
            BY <2>5, <4>3, <5>0, <5>2
          <6> QED BY <2>5, <5>0, <5>1, <6>1, <6>2, <6>3
        <5>3. CASE u # t
          BY <2>5, <3>2, <4>1, <5>0, <5>1, <5>3
        <5> QED BY <5>2, <5>3
      <4> QED BY <1>1, <3>3, <4>4, <4>5 DEF MissedOK, Onward
    <3> QED BY <1>3, <3>4, <3>5, <3>6, <3>7 DEF Inv
  <2> QED BY <2>6, <2>7
<1> QED BY <1>4, <1>5

-----------------------------------------------------------------------------
(* TokenStore::issue.                                                        *)

LEMMA PageAdded ==
  ASSUME NEW ps \in Seq(Page), NEW p \in Page
  PROVE  /\ Append(ps, p) \in Seq(Page) /\ Len(Append(ps, p)) = Len(ps) + 1
         /\ DOMAIN Append(ps, p) = DOMAIN ps \cup {Len(ps) + 1} /\ Len(ps) + 1 \notin DOMAIN ps
         /\ \A t \in DOMAIN ps : Append(ps, p)[t] = ps[t]
         /\ Append(ps, p)[Len(ps) + 1] = p
<1>1. Len(ps) \in Nat /\ DOMAIN ps = 1 .. Len(ps)
  OBVIOUS
<1>2. Append(ps, p) \in Seq(Page) /\ Len(Append(ps, p)) = Len(ps) + 1
  OBVIOUS
<1>3. DOMAIN Append(ps, p) = 1 .. Len(ps) + 1
  BY <1>2
<1>4. 1 .. Len(ps) + 1 = (1 .. Len(ps)) \cup {Len(ps) + 1}
  BY <1>1
<1>5. Append(ps, p)[Len(ps) + 1] = p /\ \A t \in 1 .. Len(ps) : Append(ps, p)[t] = ps[t]
  BY <1>1
<1> QED BY <1>1, <1>2, <1>3, <1>4, <1>5

LEMMA IssueInv ==
  ASSUME Inv, NEW v \in Visits, Issue(v)
  PROVE  Inv'
<1> DEFINE c == visit[v].client
           live == {t \in DOMAIN tokens : tokens[t].expires > time}
           kept == sites \cap SitesOf(live)
           new == Len(pages) + 1
           page == [client |-> c, kind |-> visit[v].kind, stored |-> Cardinality(live) < MaxTokens,
                    expires |-> time + TokenTtl]
           rest == Drop(tokens, DOMAIN tokens \ live)
           rec == [attempts |-> 0, expires |-> page.expires]
           Refused == tokens' = rest /\ sites' = kept /\ pages' = pages
           Stateless == tokens' = rest /\ sites' = kept /\ pages' = Append(pages, page)
           Stored == /\ Cardinality(live) < MaxTokens
                     /\ SiteOf[c] \in kept \/ Cardinality(kept) < MaxSites
                     /\ tokens' = Bound(rest, new, rec)
                     /\ sites' = kept \cup {SiteOf[c]} /\ pages' = Append(pages, page)
<1>1. /\ Refused \/ Stateless \/ Stored
      /\ Len(pages) < MaxPages /\ visit' = [visit EXCEPT ![v] = NoVisit]
      /\ UNCHANGED <<time, tiers, unsolved, ghosts>>
  BY DEF Issue, Answer
<1>2. /\ pages \in Seq(Page) /\ Len(pages) \in Nat /\ DOMAIN pages = 1 .. Len(pages)
      /\ tokens \in [DOMAIN tokens -> Record] /\ DOMAIN tokens \subseteq DOMAIN pages
      /\ Cardinality(DOMAIN tokens) <= MaxTokens
      /\ sites \subseteq Sites /\ IsFiniteSet(sites) /\ Cardinality(sites) <= MaxSites
      /\ SitesOf(DOMAIN tokens) \subseteq sites
  BY DEF Inv, StoreOK
<1>3. {MaxTokens, MaxSites, MaxPages, TokenTtl} \subseteq Nat /\ time \in Nat
  BY ChallengeAssumption DEF Inv, StoreOK
<1>4. c \in Clients /\ visit[v].kind \in Kinds /\ SiteOf[c] \in Sites
  BY ChallengeAssumption DEF Inv, VisitsOK, VisitState
<1>5. page \in Page /\ page.client = c
  <2>1. time + TokenTtl \in Nat /\ (Cardinality(live) < MaxTokens) \in BOOLEAN
    BY <1>3
  <2> QED BY <1>4, <2>1 DEF Page
<1>6. rec \in Record /\ rec.attempts = 0
  BY <1>5 DEF Page, Record
<1>7. live \subseteq DOMAIN tokens /\ DOMAIN tokens \ (DOMAIN tokens \ live) = live
  OBVIOUS
<1>8. /\ DOMAIN rest = live /\ rest \in [live -> Record]
      /\ \A t \in live : rest[t] = tokens[t]
  <2> DEFINE gone == DOMAIN tokens \ live
  <2>1. DOMAIN tokens \ gone = live
    BY <1>7
  <2> HIDE DEF live, gone
  <2>2. /\ DOMAIN Drop(tokens, gone) = DOMAIN tokens \ gone
        /\ \A t \in DOMAIN tokens \ gone : Drop(tokens, gone)[t] = tokens[t]
    BY DropFacts
  <2>3. Drop(tokens, gone) \in [DOMAIN Drop(tokens, gone) -> Record]
    BY <1>2, DropType
  <2> QED BY <2>1, <2>2, <2>3 DEF gone
<1> HIDE DEF c, live, page, rest, rec
<1>9. /\ IsFiniteSet(live) /\ Cardinality(live) \in Nat /\ Cardinality(live) <= MaxTokens
  <2>1. IsFiniteSet(DOMAIN tokens)
    <3>1. IsFiniteSet(DOMAIN pages)
      BY PagesAreTokens, FS_Interval DEF Inv
    <3> QED BY <1>2, <3>1, FS_Subset
  <2>2. IsFiniteSet(live) /\ Cardinality(live) <= Cardinality(DOMAIN tokens)
    BY <1>7, <2>1, FS_Subset
  <2>3. Cardinality(live) \in Nat /\ Cardinality(DOMAIN tokens) \in Nat
    BY <2>1, <2>2, FS_CardinalityType
  <2> QED BY <1>2, <1>3, <2>2, <2>3
<1>10. SitesOf(live) \subseteq kept /\ kept \subseteq sites
  BY <1>2, <1>7 DEF SitesOf
<1>11. IsFiniteSet(kept) /\ Cardinality(kept) \in Nat /\ Cardinality(kept) <= MaxSites
  <2> HIDE DEF kept
  <2>1. IsFiniteSet(kept) /\ Cardinality(kept) <= Cardinality(sites)
    BY <1>2, <1>10, FS_Subset
  <2>2. Cardinality(kept) \in Nat /\ Cardinality(sites) \in Nat
    BY <1>2, <2>1, FS_CardinalityType
  <2> QED BY <1>2, <1>3, <2>1, <2>2
<1> HIDE DEF kept
<1>12. new \notin DOMAIN pages /\ new \notin live /\ new \in Nat /\ new \in Tokens
  BY <1>1, <1>2, <1>3, <1>7 DEF Tokens
<1>13. CountsOK'
  BY <1>1 DEF Inv, CountsOK
<1>14. /\ pages' \in Seq(Page) /\ Len(pages') <= MaxPages /\ DOMAIN pages \subseteq DOMAIN pages'
       /\ \A t \in DOMAIN pages : pages'[t] = pages[t]
       /\ pages' = Append(pages, page) => new \in DOMAIN pages' /\ pages'[new] = page
       /\ pages' = pages \/ DOMAIN pages' = DOMAIN pages \cup {new}
  <2>1. CASE pages' = pages
    <3>1. pages' # Append(pages, page)
      BY <1>2, <1>5, <2>1, PageAdded
    <3>2. Len(pages) <= MaxPages
      BY <1>1, <1>2, <1>3
    <3> QED BY <1>2, <2>1, <3>1, <3>2
  <2>2. CASE pages' = Append(pages, page)
    <3>1. /\ pages' \in Seq(Page) /\ Len(pages') = new
          /\ DOMAIN pages' = DOMAIN pages \cup {new}
          /\ \A t \in DOMAIN pages : pages'[t] = pages[t]
          /\ pages'[new] = page
      BY <1>2, <1>5, <2>2, PageAdded
    <3> QED BY <1>1, <1>2, <1>3, <3>1
  <2> QED BY <1>1, <2>1, <2>2
<1> HIDE DEF new
<1>15. /\ DOMAIN tokens' \subseteq live \cup {new}
       /\ \A t \in DOMAIN tokens' : \/ t \in live /\ tokens'[t] = tokens[t]
                                    \/ t = new /\ tokens'[t] = rec
       /\ tokens' \in [DOMAIN tokens' -> Record]
       /\ DOMAIN tokens' \subseteq DOMAIN pages'
       /\ Cardinality(DOMAIN tokens') <= MaxTokens
       /\ sites' \subseteq Sites /\ IsFiniteSet(sites') /\ Cardinality(sites') <= MaxSites
       /\ (SitesOf(DOMAIN tokens))' \subseteq sites'
  <2>1. CASE tokens' = rest /\ sites' = kept
    <3>1. (SitesOf(DOMAIN tokens))' \subseteq SitesOf(live)
      BY <1>2, <1>7, <1>8, <1>14, <2>1 DEF SitesOf
    <3> QED BY <1>2, <1>7, <1>8, <1>9, <1>10, <1>11, <1>14, <2>1, <3>1
  <2>2. CASE Stored
    <3>1. DOMAIN tokens' = live \cup {new} /\ tokens'[new] = rec
          /\ \A t \in live : t # new => tokens'[t] = rest[t]
      <4>1. /\ DOMAIN Bound(rest, new, rec) = DOMAIN rest \cup {new}
            /\ Bound(rest, new, rec)[new] = rec
            /\ \A i \in DOMAIN rest : i # new => Bound(rest, new, rec)[i] = rest[i]
        BY DEF Bound
      <4> QED BY <1>8, <2>2, <4>1
    <3>2. tokens' \in [DOMAIN tokens' -> Record]
      BY <1>6, <1>8, <2>2, PutType
    <3>3. Cardinality(DOMAIN tokens') <= MaxTokens
      <4>1. Cardinality(live \cup {new}) = Cardinality(live) + 1
        BY <1>9, <1>12, FS_AddElement
      <4> QED BY <1>3, <1>9, <2>2, <3>1, <4>1
    <3>4. sites' \subseteq Sites /\ IsFiniteSet(sites') /\ Cardinality(sites') <= MaxSites
      <4>1. CASE SiteOf[c] \in kept
        <5>1. sites' = kept
          BY <2>2, <4>1
        <5> QED BY <1>2, <1>10, <1>11, <5>1
      <4>2. CASE SiteOf[c] \notin kept
        <5>1. IsFiniteSet(sites') /\ Cardinality(sites') = Cardinality(kept) + 1
          BY <1>11, <2>2, <4>2, FS_AddElement
        <5> QED BY <1>2, <1>3, <1>4, <1>10, <1>11, <2>2, <4>2, <5>1
      <4> QED BY <4>1, <4>2
    <3>5. new \in DOMAIN pages' /\ pages'[new] = page
      BY <1>14, <2>2
    <3>6. (SitesOf(DOMAIN tokens))' \subseteq sites'
      <4>1. ASSUME NEW t \in live \cup {new} PROVE SiteOf[pages'[t].client] \in sites'
        <5>1. CASE t = new
          BY <1>5, <2>2, <3>5, <5>1
        <5>2. CASE t \in live
          <6>1. pages'[t] = pages[t] /\ SiteOf[pages[t].client] \in SitesOf(live)
            BY <1>2, <1>7, <1>14, <5>2 DEF SitesOf
          <6> QED BY <1>10, <2>2, <6>1
        <5> QED BY <5>1, <5>2
      <4> QED BY <3>1, <4>1 DEF SitesOf
    <3> QED BY <1>2, <1>7, <1>8, <1>12, <1>14, <3>1, <3>2, <3>3, <3>4, <3>5, <3>6
  <2> QED BY <1>1, <2>1, <2>2
<1>16. StoreOK'
  BY <1>1, <1>14, <1>15 DEF Inv, StoreOK
<1>17. Onward
  BY <1>1, <1>7, <1>12, <1>14, <1>15 DEF Onward, Inv, MissedOK, ghosts
<1>18. VisitsOK'
  BY <1>1, <1>17, NoVisitOK, VisitMoves
<1>19. EarnedOK'
  <2>1. ASSUME NEW t \in Tokens, Unused(t)' PROVE Unused(t)
    BY <1>7, <1>12, <1>14, <1>15, <2>1 DEF Unused
  <2> QED BY <1>1, <2>1, NoVisitOK, EarnedKept DEF ghosts
<1>20. MissedOK'
  <2>1. DOMAIN tokens' \subseteq Tokens
    BY <1>2, <1>7, <1>12, <1>15, PagesAreTokens DEF Inv
  <2>2. \A t \in DOMAIN tokens' :
          \/ t \in DOMAIN tokens /\ tokens'[t].attempts = tokens[t].attempts
          \/ t \notin DOMAIN pages /\ tokens'[t].attempts = 0
    BY <1>6, <1>7, <1>12, <1>15
  <2> QED BY <1>1, <1>17, <2>1, <2>2, NoVisitOK, MissedKept
<1> QED BY <1>13, <1>16, <1>18, <1>19, <1>20 DEF Inv

LEMMA NextInv == Inv /\ [ChallengeNext]_challengeVars => Inv'
<1> SUFFICES ASSUME Inv, [ChallengeNext]_challengeVars PROVE Inv'
  OBVIOUS
<1>1. CASE TimePasses \/ UNCHANGED challengeVars
  BY <1>1, TimePassesInv
<1>2. ASSUME NEW v \in Visits, NEW c \in Clients, NEW level \in MarkerLevels, Escalate(v, c, level)
      PROVE  Inv'
  BY <1>2, EscalateInv
<1>3. ASSUME NEW v \in Visits, CountLoop(v) \/ SolveLoop(v) \/ Ease(v) PROVE Inv'
  BY <1>3, CountLoopInv, SolveLoopInv, EaseInv
<1>4. ASSUME NEW v \in Visits, NEW c \in Clients, NEW t \in Tokens, NEW proof \in Kinds,
             Present(v, c, t, proof)
      PROVE  Inv'
  BY <1>4, PresentInv
<1>5. ASSUME NEW v \in Visits, CountAttempt(v) \/ DropToken(v) \/ Take(v) PROVE Inv'
  BY <1>5, CountAttemptInv, DropTokenInv, TakeInv
<1>6. ASSUME NEW v \in Visits, Issue(v) PROVE Inv'
  BY <1>6, IssueInv
<1> QED BY <1>1, <1>2, <1>3, <1>4, <1>5, <1>6 DEF ChallengeNext

LEMMA Safety == ChallengeSpec => []Inv
<1> QED BY InitInv, NextInv, PTL DEF ChallengeSpec

(* The three shared structures of plugin.rs stay within their caps, the       *)
(* domains counted cover the tokens stored, and a stored token earns at most  *)
(* one pass, whatever requests do at once and whatever expires in between.    *)
THEOREM ChallengeIsSafe == ChallengeSpec => []ChallengeInv
<1>1. Inv => ChallengeInv
  <2> SUFFICES ASSUME Inv PROVE ChallengeInv
    OBVIOUS
  <2>1. ChallengeTypeOK
    <3>1. \A v \in Visits : visit[v].pc \in Phases
      BY DEF Inv, VisitsOK, VisitState
    <3> QED BY <3>1 DEF Inv, StoreOK, CountsOK, Capped, ChallengeTypeOK, Phases, Page
  <2>2. StoreBounded
    BY DEF Inv, StoreOK, CountsOK, Capped, StoreBounded
  <2>3. EarnedOnce
    BY DEF Inv, EarnedOK, EarnedOnce
  <2> QED BY <2>1, <2>2, <2>3 DEF ChallengeInv
<1> QED BY <1>1, Safety, PTL

(* How a token leaves the store, step by step. *)
LEMMA TokenGoes ==
  ASSUME Inv, [ChallengeNext]_challengeVars, NEW t \in DOMAIN tokens \ DOMAIN tokens'
  PROVE  \/ tokens[t].expires <= time
         \/ missed[t] >= MaxAttempts
         \/ \E v \in Visits : visit'[v].pc = "solved" /\ visit'[v].token = t
<1>1. tokens' # tokens
  OBVIOUS
<1>2. PICK v \in Visits : Issue(v) \/ CountAttempt(v) \/ DropToken(v) \/ Take(v)
  <2>1. ~TimePasses /\ ~UNCHANGED challengeVars
    BY <1>1 DEF TimePasses, challengeVars
  <2>2. \A v \in Visits, c \in Clients, level \in MarkerLevels : ~Escalate(v, c, level)
    BY <1>1 DEF Escalate
  <2>3. \A v \in Visits, c \in Clients, u \in Tokens, proof \in Kinds : ~Present(v, c, u, proof)
    BY <1>1 DEF Present
  <2>4. \A v \in Visits : ~CountLoop(v) /\ ~SolveLoop(v) /\ ~Ease(v)
    BY <1>1 DEF CountLoop, SolveLoop, Ease
  <2> QED BY <2>1, <2>2, <2>3, <2>4 DEF ChallengeNext
<1>3. /\ tokens[t].expires \in Nat /\ time \in Nat
      /\ visit[v] \in VisitState /\ VisitOK(visit[v], pages, DOMAIN tokens, missed)
  BY ChallengeAssumption, SMTT(30) DEF Inv, StoreOK, Record, VisitsOK
<1>4. CASE Issue(v)
  <2> DEFINE live == {u \in DOMAIN tokens : tokens[u].expires > time}
             rest == Drop(tokens, DOMAIN tokens \ live)
  <2>1. \/ tokens' = rest
        \/ \E n, x : tokens' = Bound(rest, n, x)
    BY <1>4 DEF Issue
  <2>2. DOMAIN rest = live
    BY DEF Drop
  <2> HIDE DEF rest
  <2>3. live \subseteq DOMAIN tokens'
    <3>1. CASE tokens' = rest
      BY <2>2, <3>1
    <3>2. ASSUME NEW n, NEW x, tokens' = Bound(rest, n, x) PROVE live \subseteq DOMAIN tokens'
      <4>1. DOMAIN Bound(rest, n, x) = DOMAIN rest \cup {n}
        BY PutFacts
      <4> QED BY <2>2, <3>2, <4>1
    <3> QED BY <2>1, <3>1, <3>2
  <2> QED BY <1>3, <2>3
<1>5. CASE CountAttempt(v)
  BY <1>5 DEF CountAttempt
<1>6. CASE DropToken(v)
  <2>1. tokens' = Drop(tokens, {visit[v].token}) /\ visit[v].pc = "drop"
    BY <1>6 DEF DropToken, RemoveToken, Waits
  <2>2. t = visit[v].token
    BY <2>1 DEF Drop
  <2> QED BY <1>3, <2>1, <2>2 DEF VisitOK
<1>7. CASE Take(v)
  <2> DEFINE k == visit[v].token
  <2>1. tokens' = Drop(tokens, {k}) /\ visit[v].pc = "take"
    BY <1>7 DEF Take, RemoveToken, Waits
  <2>2. t = k
    BY <2>1 DEF Drop
  <2>3. CASE Get(k, visit[v].client)
    <3>1. visit' = [visit EXCEPT ![v].pc = "solved"]
      BY <1>7, <2>3 DEF Take, Proceed
    <3>2. visit'[v].pc = "solved" /\ visit'[v].token = k
      BY <1>3, <3>1 DEF VisitState, Inv, VisitsOK
    <3> QED BY <2>2, <3>2
  <2>4. CASE ~Get(k, visit[v].client)
    <3>1. pages[k].client = visit[v].client
      BY <1>3, <2>1 DEF VisitOK
    <3> QED BY <1>3, <2>2, <2>4, <3>1 DEF Get
  <2> QED BY <2>3, <2>4
<1> QED BY <1>2, <1>4, <1>5, <1>6, <1>7

(* A stored token stays good for the client it was issued to: it leaves the   *)
(* store expired, with the request that earns a pass by it, or after          *)
(* max_attempts failures of that client, never through anybody else's         *)
(* requests nor through failures that race each other.                        *)
THEOREM TokensAreKept == ChallengeSpec => TokenKept
<1>1. Inv /\ [ChallengeNext]_challengeVars
        => [\A t \in DOMAIN tokens \ DOMAIN tokens' :
              \/ tokens[t].expires <= time
              \/ missed[t] >= MaxAttempts
              \/ \E v \in Visits : visit'[v].pc = "solved" /\ visit'[v].token = t]_challengeVars
  BY TokenGoes
<1> QED BY <1>1, Safety, PTL DEF ChallengeSpec, TokenKept
=============================================================================
