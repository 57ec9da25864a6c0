----------------------------- MODULE Challenge -----------------------------
(***************************************************************************)
(* Challenges issued to and solved by concurrent requests.  The process    *)
(* keeps one token store, one escalator and one loop detector, each behind *)
(* its own lock, so a request is a sequence of steps.                       *)
(*   crates/pingap-challenge/src/plugin.rs      issue, verify               *)
(*   .../token.rs, escalation.rs, loopdetect.rs the shared state            *)
(* A client is a domain and an identity together.  A token is the number of *)
(* the page it was sent with; one that did not fit in the store is          *)
(* stateless: what it says is in the client's hands, signed.                *)
(***************************************************************************)
EXTENDS Naturals, Sequences, FiniteSets

CONSTANTS
    Clients, Sites,     \* clients and their domains
    SiteOf,             \* the domain of each client
    Visits,             \* requests in progress at the same time
    MarkerLevels,       \* levels the policies that challenge ask for
    BaseKind,           \* ChallengeConfig::kind
    Ladder,             \* ::ladder
    LoopThreshold,      \* ::loop_threshold
    BypassOnLoop,       \* ::bypass_on_loop
    MaxAttempts,        \* ::max_attempts
    MaxTokens,          \* ::max_entries, of all three structures
    MaxSites,           \* ::max_domains
    TokenTtl, Decay,
    MaxPages,           \* bound: pages ever sent
    MaxTime             \* bound: the clock

ASSUME ChallengeAssumption ==
    /\ SiteOf \in [Clients -> Sites] /\ Clients # {}
    /\ BaseKind \in {"pow", "silent"} /\ BypassOnLoop \in {"Refuse", "Allow"}
    /\ Ladder \in Seq(Nat) \ {<<>>} /\ MarkerLevels \subseteq Nat
    /\ {LoopThreshold, MaxAttempts, MaxTokens, MaxSites, TokenTtl, Decay,
        MaxTime} \subseteq Nat \ {0}
    /\ MaxPages \in Nat

VARIABLES
    time,       \* SystemTime::now and Instant::now
    tokens,     \* TokenStore::inner: [attempts, expires], by token
    sites,      \* TokenStore::domains
    tiers,      \* Escalator::inner: [failures, level, last], by client
    unsolved,   \* LoopDetector::counts, by client and kind
    pages,      \* the pages sent: [client, kind, stored, expires]
    visit,      \* the requests' local state
    \* ghosts
    earned,     \* passes earned with each stored token
    missed      \* failed presentations of each token by the client it is for

challengeVars == <<time, tokens, sites, tiers, unsolved, pages, visit, earned, missed>>
ghosts == <<earned, missed>>

Kinds == {"pow", "silent"}
Tokens == 1 .. MaxPages
NoVisit == [pc |-> "idle", token |-> 0, kind |-> "pow", level |-> 0, stored |-> FALSE,
            client |-> CHOOSE c \in Clients : TRUE]

ChallengeInit ==
    /\ time = 1
    /\ tokens = [t \in {} |-> 0]
    /\ sites = {}
    /\ tiers = [c \in {} |-> 0]
    /\ unsolved = [k \in {} |-> 0]
    /\ pages = <<>>
    /\ visit = [v \in Visits |-> NoVisit]
    /\ earned = [t \in Tokens |-> 0]
    /\ missed = [t \in Tokens |-> 0]

Waits(v, pc) == visit[v].pc = pc
Proceed(v, pc) == visit' = [visit EXCEPT ![v].pc = pc]
Answer(v) == visit' = [visit EXCEPT ![v] = NoVisit]

Bound(f, k, x) == [i \in DOMAIN f \cup {k} |-> IF i = k THEN x ELSE f[i]]
Drop(f, ks) == [i \in DOMAIN f \ ks |-> f[i]]

-----------------------------------------------------------------------------
(* A request that an earlier policy marked to be challenged.                  *)

\* decay_state_at
Decayed(s) ==
    IF s.last > 0 /\ time - s.last >= Decay THEN [s EXCEPT !.failures = 0, !.level = 0] ELSE s

\* the highest rung whose threshold is met, from 0
Rung(n) ==
    LET met == {i \in 1 .. Len(Ladder) : n >= Ladder[i]} IN
    IF met = {} THEN 0 ELSE (CHOOSE i \in met : \A j \in met : j <= i) - 1

\* Escalator::failure: counts a challenge issued, and says nothing when it is full
Failure(c) ==
    IF c \notin DOMAIN tiers /\ Cardinality(DOMAIN tiers) >= MaxTokens
    THEN tiers
    ELSE LET old == IF c \in DOMAIN tiers THEN Decayed(tiers[c])
                    ELSE [failures |-> 0, level |-> 0, last |-> 0]
             n == IF old.failures < Ladder[Len(Ladder)] THEN old.failures + 1 ELSE old.failures
         IN Bound(tiers, c, [failures |-> n, level |-> Rung(n), last |-> time])

\* handle_request: no valid pass cookie, and the client is not exempt; `level` is
\* what the marker asks for.  A client that has earned a pass need not send it.
Escalate(v, c, level) ==
    /\ Waits(v, "idle")
    /\ tiers' = Failure(c)
    /\ LET asked == IF c \in DOMAIN tiers' THEN tiers'[c].level ELSE 0 IN
       visit' = [visit EXCEPT ![v] = [NoVisit EXCEPT !.pc = "loop", !.client = c,
                                        !.level = IF asked > level THEN asked ELSE level]]
    /\ UNCHANGED <<time, tokens, sites, unsolved, pages, ghosts>>

\* issue: an odd level asks for the silent kind
KindOf(level) == IF level % 2 = 1 THEN "silent" ELSE BaseKind

\* LoopDetector::issued, and what it is once this challenge is counted
Issued(c, kind) ==
    IF <<c, kind>> \in DOMAIN unsolved THEN unsolved[<<c, kind>>] + 1
    ELSE IF Cardinality(DOMAIN unsolved) >= MaxTokens THEN LoopThreshold ELSE 1

CountLoop(v) ==
    /\ Waits(v, "loop")
    /\ LET c == visit[v].client
           kind == KindOf(visit[v].level)
           n == Issued(c, kind)
       IN /\ unsolved' = IF <<c, kind>> \in DOMAIN unsolved \/ Cardinality(DOMAIN unsolved) < MaxTokens
                         THEN Bound(unsolved, <<c, kind>>, IF n > LoopThreshold THEN LoopThreshold ELSE n)
                         ELSE unsolved
          /\ IF n >= LoopThreshold /\ BypassOnLoop = "Refuse"
             THEN Answer(v)                                   \* 403
             ELSE visit' = [visit EXCEPT ![v].pc = "issue", ![v].kind = kind, ![v].level = 0]
    /\ UNCHANGED <<time, tokens, sites, tiers, pages, ghosts>>

SitesOf(ts) == {SiteOf[pages[t].client] : t \in ts}

\* TokenStore::issue: sweeps what expired, then the domains nothing is left of;
\* a full store sends a stateless token, too many domains none at all
Issue(v) ==
    /\ Waits(v, "issue")
    /\ Len(pages) < MaxPages
    /\ LET c == visit[v].client
           live == {t \in DOMAIN tokens : tokens[t].expires > time}
           kept == sites \cap SitesOf(live)
           new == Len(pages) + 1
           page == [client |-> c, kind |-> visit[v].kind, stored |-> Cardinality(live) < MaxTokens,
                    expires |-> time + TokenTtl]
       IN \/ /\ SiteOf[c] \notin kept /\ Cardinality(kept) >= MaxSites
             /\ tokens' = Drop(tokens, DOMAIN tokens \ live)
             /\ sites' = kept
             /\ UNCHANGED pages                               \* 503
          \/ /\ SiteOf[c] \in kept \/ Cardinality(kept) < MaxSites
             /\ pages' = Append(pages, page)
             /\ IF page.stored
                THEN /\ sites' = kept \cup {SiteOf[c]}
                     /\ tokens' = Bound(Drop(tokens, DOMAIN tokens \ live), new,
                                      [attempts |-> 0, expires |-> page.expires])
                ELSE sites' = kept /\ tokens' = Drop(tokens, DOMAIN tokens \ live)
    /\ Answer(v)
    /\ UNCHANGED <<time, tiers, unsolved, ghosts>>

-----------------------------------------------------------------------------
(* A request that presents a token.                                           *)

\* Mutant: whoever presents it, the record is found.
GetAnyones(t, c) == t \in DOMAIN tokens /\ tokens[t].expires > time

\* TokenStore::get: the record, for the client it was issued to
Get(t, c) == t \in DOMAIN tokens /\ tokens[t].expires > time /\ pages[t].client = c

\* parse_stateless: signed for this client, and not expired
ParseStateless(t, c) == ~pages[t].stored /\ pages[t].client = c /\ pages[t].expires > time

\* a stateless token is always taken for one of the proof-of-work kind
CheckedKind(t) == IF pages[t].stored THEN pages[t].kind ELSE "pow"

\* verify up to the proof: a page is answered with a nonce or a fingerprint
Present(v, c, t, proof) ==
    /\ Waits(v, "idle")
    /\ t \in DOMAIN pages
    /\ LET kind == CheckedKind(t)
           seen == [NoVisit EXCEPT !.client = c, !.token = t, !.kind = kind,
                                   !.stored = pages[t].stored]
       IN IF ~Get(t, c) /\ ~ParseStateless(t, c)
          THEN Answer(v) /\ UNCHANGED ghosts
          ELSE /\ visit' = [visit EXCEPT ![v] =
                      IF proof = kind
                      THEN [seen EXCEPT !.pc = IF seen.stored THEN "take" ELSE "solved"]
                      ELSE IF kind = "pow" /\ seen.stored THEN [seen EXCEPT !.pc = "count"]
                      ELSE NoVisit]
               /\ missed' = [missed EXCEPT ![t] = IF proof # kind /\ kind = "pow" /\ seen.stored
                                                     /\ c = pages[t].client /\ @ < MaxAttempts
                                                  THEN @ + 1 ELSE @]
               /\ UNCHANGED earned
    /\ UNCHANGED <<time, tokens, sites, tiers, unsolved, pages>>

\* increment_attempts, of a token that may be gone by now
CountAttempt(v) ==
    /\ Waits(v, "count")
    /\ LET t == visit[v].token IN
       IF t \notin DOMAIN tokens
       THEN Proceed(v, "drop") /\ UNCHANGED tokens
       ELSE /\ tokens' = [tokens EXCEPT ![t].attempts = @ + 1]
            /\ IF tokens[t].attempts + 1 >= MaxAttempts THEN Proceed(v, "drop") ELSE Answer(v)
    /\ UNCHANGED <<time, sites, tiers, unsolved, pages, ghosts>>

\* A token leaves the store, and its domain with its last one
RemoveToken(t) ==
    /\ tokens' = Drop(tokens, {t})
    /\ sites' = IF t \in DOMAIN tokens
                THEN sites \ (SitesOf({t}) \ SitesOf(DOMAIN tokens \ {t}))
                ELSE sites

\* remove
DropToken(v) ==
    /\ Waits(v, "drop")
    /\ RemoveToken(visit[v].token)
    /\ Answer(v)
    /\ UNCHANGED <<time, tiers, unsolved, pages, ghosts>>

\* Mutant: verify trusts its first read and only removes.
TakeUnchecked(v) ==
    /\ Waits(v, "take")
    /\ RemoveToken(visit[v].token)
    /\ Proceed(v, "solved")
    /\ UNCHANGED <<time, tiers, unsolved, pages, ghosts>>

\* take: the same test again, and of two presentations one finds the token.
\* One that expired in hand is dropped, its domain left to the next sweep.
Take(v) ==
    /\ Waits(v, "take")
    /\ LET t == visit[v].token IN
       IF Get(t, visit[v].client)
       THEN RemoveToken(t) /\ Proceed(v, "solved")
       ELSE tokens' = Drop(tokens, {t}) /\ Answer(v) /\ UNCHANGED sites
    /\ UNCHANGED <<time, tiers, unsolved, pages, ghosts>>

\* LoopDetector::solved
SolveLoop(v) ==
    /\ Waits(v, "solved")
    /\ unsolved' = Drop(unsolved, {<<visit[v].client, visit[v].kind>>})
    /\ Proceed(v, "ease")
    /\ UNCHANGED <<time, tokens, sites, tiers, pages, ghosts>>

\* Escalator::success lowers the level and keeps the failures
Success(c) ==
    IF c \notin DOMAIN tiers THEN tiers
    ELSE LET s == Decayed(tiers[c]) IN
         [tiers EXCEPT ![c] = [s EXCEPT !.level = IF @ = 0 THEN 0 ELSE @ - 1, !.last = time]]

\* ... and the pass cookie is signed, for the client to send
Ease(v) ==
    /\ Waits(v, "ease")
    /\ tiers' = Success(visit[v].client)
    /\ earned' = IF visit[v].stored THEN [earned EXCEPT ![visit[v].token] = @ + 1] ELSE earned
    /\ Answer(v)
    /\ UNCHANGED <<time, tokens, sites, unsolved, pages, missed>>

TimePasses ==
    /\ time < MaxTime
    /\ time' = time + 1
    /\ UNCHANGED <<tokens, sites, tiers, unsolved, pages, visit, ghosts>>

ChallengeNext ==
    \/ TimePasses
    \/ \E v \in Visits :
         \/ \E c \in Clients : \E level \in MarkerLevels : Escalate(v, c, level)
         \/ CountLoop(v) \/ Issue(v)
         \/ \E c \in Clients, t \in Tokens, proof \in Kinds : Present(v, c, t, proof)
         \/ CountAttempt(v) \/ DropToken(v) \/ Take(v) \/ SolveLoop(v) \/ Ease(v)

ChallengeSpec == ChallengeInit /\ [][ChallengeNext]_challengeVars

-----------------------------------------------------------------------------
ChallengeTypeOK ==
    /\ time \in 1 .. MaxTime
    /\ DOMAIN tokens \subseteq DOMAIN pages
    /\ sites \subseteq Sites
    /\ DOMAIN tiers \subseteq Clients
    /\ DOMAIN unsolved \subseteq Clients \X Kinds
    /\ pages \in Seq([client : Clients, kind : Kinds, stored : BOOLEAN, expires : Nat])
    /\ \A v \in Visits : visit[v].pc \in {"idle", "loop", "issue", "count", "drop", "take",
                                          "solved", "ease"}

\* Every structure is within its cap and the domains with a token in the store
\* are the ones counted: `domains` is maintained by four operations, two of
\* which drop tokens without looking at it.
StoreBounded ==
    /\ Cardinality(DOMAIN tokens) <= MaxTokens
    /\ Cardinality(DOMAIN tiers) <= MaxTokens
    /\ Cardinality(DOMAIN unsolved) <= MaxTokens
    /\ Cardinality(sites) <= MaxSites
    /\ SitesOf(DOMAIN tokens) \subseteq sites

\* token.rs, take: "A concurrent second presentation sees `None`".  A token the
\* store kept earns at most one pass, however many requests present it at once
\* and whatever expires between the read and the take.
EarnedOnce == \A t \in Tokens : earned[t] <= 1

\* What plugin.rs relies on in its three shared structures, while requests present,
\* expire and refuse tokens at once: the caps hold and a token earns once.
ChallengeInv == ChallengeTypeOK /\ StoreBounded /\ EarnedOnce

\* A stored token stays good for its client: it leaves the store once expired,
\* with a pass earned by it, or after max_attempts failures of its own client.
\* Presentations by others, and failures racing each other, never burn it.
TokenKept ==
    [][\A t \in DOMAIN tokens \ DOMAIN tokens' :
         \/ tokens[t].expires <= time
         \/ missed[t] >= MaxAttempts
         \/ \E v \in Visits : visit'[v].pc = "solved" /\ visit'[v].token = t]_challengeVars

\* challenge-plugin.md: "the fallback token carries the same binding and the same
\* proof, solves through the same path".  What a stateless token is checked for
\* is the proof its page asks the client for.
StatelessHonoured ==
    \A t \in DOMAIN pages : ~pages[t].stored => CheckedKind(t) = pages[t].kind
=============================================================================
