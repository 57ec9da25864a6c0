--------------------------- MODULE WafInspection ---------------------------
(***************************************************************************)
(* One request through the WAF plugin and its rule engine, and its response *)
(* through the two hooks on either side of the cache.                       *)
(*   the hooks and WafState: crates/pingap-waf/src/plugin.rs                 *)
(*   the engine, its gates and its scores: .../engine.rs                     *)
(*   the time budget: .../budget.rs; the body buffer and mask: .../inspect.rs *)
(* A body is a sequence of units: 0 is plain, a rule's number is something   *)
(* that rule matches, Leak is what the response rule matches, Star is masked, *)
(* Bad is a byte that is not UTF-8, where the text the engine reads ends.     *)
(* A rule that matches nothing may run or be skipped by the prefilter; that  *)
(* is the same to everything but the budget, which is nondeterministic.      *)
(***************************************************************************)
EXTENDS Naturals, Sequences, FiniteSets

CONSTANTS
    Score,          \* of the request rules, in the order they run
    Threshold,      \* anomaly_threshold
    Profiles,       \* the plugin configurations a request may meet
    BodyLimit,      \* body_inspect_limit
    PrefixLimit,    \* response_prefix_limit
    Units,          \* bound: what a request's body may carry
    AnswerUnits,    \* bound: what an origin's answer may carry
    MaxBody,        \* bound: units of a request's body
    MaxAnswer,      \* bound: units of an answer
    MaxChunk,       \* bound: units of a chunk
    MaxServed       \* bound: requests in a behaviour

Rules == DOMAIN Score
Leak == 100
Star == 101
Bad == 102
LeakScore == Threshold
Gates == {"Skip", "Detect", "Enforce", "Challenge"}

ASSUME WafAssumption ==
    /\ Score \in Seq(Nat \ {0})
    /\ {Threshold, BodyLimit, PrefixLimit, MaxChunk} \subseteq Nat \ {0}
    /\ {MaxBody, MaxAnswer, MaxServed} \subseteq Nat
    /\ Units \subseteq Rules \cup {0, Bad}
    /\ AnswerUnits \subseteq {0, Leak, Bad}
    /\ Profiles \subseteq [gates : [Rules -> Gates], response : Gates \ {"Challenge"},
                           over_cap : {"InspectPrefix", "Reject"},
                           on_exhausted : {"Allow", "Block"}]

VARIABLES
    at,             \* where the request is
    profile,        \* the plugin it resolved
    waf,            \* WafState
    sent,           \* the request body as the client sent it
    body,           \* RequestBody
    forwarded,      \* what reached the upstream
    origin,         \* the response as its source gave it
    upstream,       \* UpstreamBody
    downstream,     \* DownstreamBody
    admitted,       \* the cache entry being written
    served,         \* what left for the client
    cache,          \* the stored entry and who admitted it, or Uncached
    events,         \* the verdicts of the events offered for this request
    offered,        \* how many of the offered events name a hit
    count           \* bound: requests so far

wafVars == <<at, profile, waf, sent, body, forwarded, origin, upstream, downstream,
             admitted, served, cache, events, offered, count>>
answer == <<origin, upstream, downstream, admitted, served, cache>>

NewState == [hits |-> 0, emitted |-> 0, terminal |-> FALSE, blocked |-> FALSE,
             challenged |-> FALSE, truncated |-> FALSE, exhausted |-> FALSE,
             redacted |-> FALSE, shown |-> FALSE]
NewBuffer == [buf |-> <<>>, released |-> FALSE, truncated |-> FALSE]
Uncached == [bytes |-> <<>>, by |-> "nobody"]

WafInit ==
    /\ at = "idle"
    /\ profile \in Profiles
    /\ waf = NewState
    /\ body = NewBuffer /\ upstream = NewBuffer /\ downstream = NewBuffer
    /\ sent = <<>> /\ forwarded = <<>> /\ origin = <<>> /\ admitted = <<>> /\ served = <<>>
    /\ cache = Uncached
    /\ events = {} /\ offered = 0
    /\ count = 0

-----------------------------------------------------------------------------
(* The engine.                                                                *)

ScoreOf(hits) ==
    LET Total[S \in SUBSET hits] ==
          IF S = {} THEN 0
          ELSE LET i == CHOOSE j \in S : TRUE IN Score[i] + Total[S \ {i}]
    IN Total[hits]

\* evaluate_request over the marks some field carries: rules run in order until
\* the budget is found spent before rule `stop`; a skipped rule never looks
Stops == {i \in Rules : profile.gates[i] # "Skip"} \cup {Len(Score) + 1}
Hits(marks, stop) == {i \in Rules : i < stop /\ i \in marks /\ profile.gates[i] # "Skip"}
Exhausts(stop) == stop \in Rules
Enforcing(hits) == {i \in hits : profile.gates[i] \in {"Enforce", "Challenge"}}

\* finish_request
Verdict(hits, stop) ==
    LET forced == Exhausts(stop) /\ profile.on_exhausted = "Block" IN
    IF forced \/ ScoreOf(Enforcing(hits)) >= Threshold
    THEN IF ~forced /\ \A i \in hits : profile.gates[i] # "Enforce" THEN "Challenge" ELSE "Block"
    ELSE IF hits = {} THEN "Allow" ELSE "Detected"

\* text_prefix: the units before the first that is not UTF-8
Text(bytes) ==
    SubSeq(bytes, 1, Cardinality({k \in DOMAIN bytes : \A j \in 1 .. k : bytes[j] # Bad}))

Marks(bytes) == {bytes[k] : k \in DOMAIN bytes} \cap Rules

-----------------------------------------------------------------------------
(* BodyBuffer.                                                                *)

\* Mutant: a chunk that crosses the limit is not flagged.
FeedQuietly(b, chunk, eos, limit, over) ==
    LET all == b.buf \o chunk IN
    IF b.released THEN [kind |-> "PassThrough", buffer |-> b]
    ELSE IF eos \/ Len(all) > limit
         THEN [kind |-> "Release", buffer |-> [b EXCEPT !.buf = all, !.released = TRUE]]
         ELSE [kind |-> "Hold", buffer |-> [b EXCEPT !.buf = all]]

Feed(b, chunk, eos, limit, over) ==
    LET all == b.buf \o chunk IN
    IF b.released THEN [kind |-> "PassThrough", buffer |-> b]
    ELSE IF Len(all) > limit
         THEN IF over = "Reject" THEN [kind |-> "Reject", buffer |-> [b EXCEPT !.buf = all]]
              ELSE [kind |-> "Release",
                    buffer |-> [buf |-> all, released |-> TRUE, truncated |-> TRUE]]
    ELSE IF eos THEN [kind |-> "Release", buffer |-> [b EXCEPT !.buf = all, !.released = TRUE]]
         ELSE [kind |-> "Hold", buffer |-> [b EXCEPT !.buf = all]]

Inspected(bytes, limit) == SubSeq(bytes, 1, IF Len(bytes) < limit THEN Len(bytes) ELSE limit)

\* take
Taken(b) == [b EXCEPT !.buf = <<>>]

Chunks(units) == UNION {[1 .. n -> units] : n \in 0 .. MaxChunk}

-----------------------------------------------------------------------------
(* Recording: absorb, emit_verdict and offer_new_events.                      *)

EventVerdict(w) == IF w.blocked THEN "Block" ELSE IF w.redacted THEN "Redact" ELSE "Detect"

\* what offer_new_events leaves behind: every hit offered, or one event for the
\* request when there was none to offer
Offered(w) == [w EXCEPT !.emitted = w.hits, !.terminal = @ \/ w.emitted = w.hits,
                        !.shown = w.truncated]
Offers(w) == IF w.emitted < w.hits \/ ~w.terminal THEN {EventVerdict(w)} ELSE {}

Report(w) ==
    /\ waf' = Offered(w)
    /\ events' = events \cup Offers(w)
    /\ offered' = offered + (w.hits - w.emitted)

-----------------------------------------------------------------------------
(* The hooks.                                                                 *)

Arrive ==
    /\ at = "idle" /\ count < MaxServed
    /\ at' = "request"
    /\ profile' \in Profiles
    /\ count' = count + 1
    /\ UNCHANGED <<waf, sent, body, forwarded, answer, events, offered>>

\* the address lists and the feeds come before the engine
RefuseAddress ==
    /\ at = "request"
    /\ at' = "log"
    /\ Report([waf EXCEPT !.blocked = TRUE])
    /\ UNCHANGED <<profile, sent, body, forwarded, answer, count>>

\* handle_request; a challenge leaves a marker and continues
HandleRequest(marks, stop) ==
    LET hits == Hits(marks, stop)
        verdict == Verdict(hits, stop) IN
    /\ at = "request"
    /\ at' = IF verdict = "Block" THEN "log" ELSE "lookup"
    /\ Report([waf EXCEPT !.hits = @ + Cardinality(hits),
                          !.exhausted = @ \/ Exhausts(stop),
                          !.challenged = verdict = "Challenge",
                          !.blocked = verdict = "Block"])
    /\ UNCHANGED <<profile, sent, body, forwarded, answer, count>>

\* the cache lookup, and the origin behind it (external)
Lookup ==
    /\ at = "lookup"
    /\ \/ at' = "body"
       \/ cache # Uncached /\ at' = "hit"
    /\ UNCHANGED <<profile, waf, sent, body, forwarded, answer, events, offered, count>>

AfterBody == IF at = "body" THEN "answer" ELSE "late"

\* handle_request_body for a chunk of the client's, which may come while the
\* origin is answering and after it has answered ("drain")
HandleRequestBody(chunk, eos, stop) ==
    LET f == Feed(body, chunk, eos, BodyLimit, profile.over_cap)
        held == f.buffer
        hits == Hits(Marks(Text(Inspected(held.buf, BodyLimit))), stop)
        verdict == Verdict(hits, stop)
        judged == [waf EXCEPT !.hits = @ + Cardinality(hits),
                              !.truncated = @ \/ held.truncated,
                              !.exhausted = @ \/ Exhausts(stop)] IN
    /\ at \in {"body", "drain"}
    /\ chunk = <<>> => eos
    /\ Len(sent) + Len(chunk) <= MaxBody
    /\ sent' = sent \o chunk
    /\ \/ /\ f.kind = "PassThrough"
          /\ forwarded' = forwarded \o chunk
          /\ at' = IF eos THEN AfterBody ELSE at
          /\ UNCHANGED <<waf, body, events, offered>>
       \/ /\ f.kind = "Hold"
          /\ body' = held
          /\ UNCHANGED <<at, waf, events, offered, forwarded>>
       \/ /\ f.kind = "Reject"
          /\ body' = held
          /\ at' = "log"
          /\ Report([waf EXCEPT !.blocked = TRUE])
          /\ UNCHANGED forwarded
       \/ /\ f.kind = "Release" /\ verdict \in {"Block", "Challenge"}
          /\ body' = Taken(held)
          /\ at' = "log"
          /\ Report([judged EXCEPT !.blocked = TRUE])
          /\ UNCHANGED forwarded
       \/ /\ f.kind = "Release" /\ verdict \notin {"Block", "Challenge"}
          /\ body' = Taken(held)
          /\ forwarded' = forwarded \o held.buf
          /\ at' = IF eos THEN AfterBody ELSE at
          /\ IF eos THEN Report(judged) ELSE waf' = judged /\ UNCHANGED <<events, offered>>
    /\ UNCHANGED <<profile, answer, count>>

\* the first match of the rule, or 0
FirstLeak(bytes) ==
    IF \E k \in DOMAIN bytes : bytes[k] = Leak
    THEN CHOOSE k \in DOMAIN bytes : bytes[k] = Leak /\ \A j \in 1 .. k - 1 : bytes[j] # Leak
    ELSE 0

\* evaluate_response and mask; `ran` says that the budget reached the rule
Leaks(bytes, ran) ==
    ran /\ profile.response # "Skip" /\ FirstLeak(Text(Inspected(bytes, PrefixLimit))) # 0
Redacts(bytes, ran) == Leaks(bytes, ran) /\ profile.response = "Enforce" /\ LeakScore >= Threshold
Mask(bytes, ran) ==
    IF Redacts(bytes, ran) THEN [bytes EXCEPT ![FirstLeak(bytes)] = Star] ELSE bytes

\* scan_response: what the hook lets through, its buffer, and what it recorded
Scan(b, chunk, eos, ran, w) ==
    LET f == Feed(b, chunk, eos, PrefixLimit, "InspectPrefix") IN
    IF f.kind = "PassThrough" THEN [out |-> chunk, buffer |-> b, waf |-> w]
    ELSE IF f.kind = "Hold" THEN [out |-> <<>>, buffer |-> f.buffer, waf |-> w]
    ELSE [out |-> Mask(f.buffer.buf, ran), buffer |-> Taken(f.buffer),
          waf |-> [w EXCEPT !.hits = @ + (IF Leaks(f.buffer.buf, ran) THEN 1 ELSE 0),
                            !.truncated = @ \/ f.buffer.truncated,
                            !.exhausted = @ \/ ~ran,
                            !.redacted = @ \/ Redacts(f.buffer.buf, ran)]]

\* at the end of the stream each hook reports; the second finds what is left
ReportTwice(w1, w2) ==
    LET second == [w2 EXCEPT !.emitted = Offered(w1).emitted, !.terminal = Offered(w1).terminal] IN
    /\ waf' = Offered(second)
    /\ events' = events \cup Offers(w1) \cup Offers(second)
    /\ offered' = offered + (second.hits - waf.emitted)

\* a chunk from the origin, which may answer before the request's body has ended:
\* handle_upstream_response_body, the cache write, handle_response_body
OriginChunk(chunk, eos, ranUp, ranDown) ==
    LET up == Scan(upstream, chunk, eos, ranUp, waf)
        down == Scan(downstream, up.out, eos, ranDown, up.waf) IN
    /\ at \in {"body", "answer"}
    /\ chunk = <<>> => eos
    /\ Len(origin) + Len(chunk) <= MaxAnswer
    /\ origin' = origin \o chunk
    /\ upstream' = up.buffer /\ downstream' = down.buffer
    /\ admitted' = admitted \o up.out
    /\ served' = served \o down.out
    /\ IF eos
       THEN /\ ReportTwice(up.waf, down.waf)
            /\ \/ at' = "log"
               \/ at = "body" /\ at' = "drain"
            /\ \/ UNCHANGED cache
               \/ cache' = [bytes |-> admitted',
                            by |-> IF profile.response = "Enforce" /\ ~down.waf.exhausted
                                   THEN "redacting" ELSE "other"]
       ELSE waf' = down.waf /\ UNCHANGED <<at, events, offered, cache>>
    /\ UNCHANGED <<profile, sent, body, forwarded, count>>

\* a chunk of a cache hit: handle_response_body alone
CachedChunk(n, ran) ==
    LET chunk == SubSeq(cache.bytes, Len(origin) + 1, Len(origin) + n)
        eos == Len(origin) + n = Len(cache.bytes)
        down == Scan(downstream, chunk, eos, ran, waf) IN
    /\ at = "hit"
    /\ n <= Len(cache.bytes) - Len(origin)
    /\ n = 0 => eos
    /\ origin' = origin \o chunk
    /\ downstream' = down.buffer
    /\ served' = served \o down.out
    /\ IF eos THEN Report(down.waf) /\ at' = "log"
       ELSE waf' = down.waf /\ UNCHANGED <<at, events, offered>>
    /\ UNCHANGED <<profile, sent, body, forwarded, upstream, admitted, cache, count>>

\* the connection to the upstream or to the client ends
Fails ==
    /\ at \in {"body", "answer", "drain", "hit"}
    /\ at' = "cut"
    /\ UNCHANGED <<profile, waf, sent, body, forwarded, answer, events, offered, count>>

Logged ==
    /\ at \in {"log", "late", "cut"}
    /\ at' = "idle"
    /\ waf' = NewState
    /\ body' = NewBuffer /\ upstream' = NewBuffer /\ downstream' = NewBuffer
    /\ sent' = <<>> /\ forwarded' = <<>> /\ origin' = <<>> /\ admitted' = <<>> /\ served' = <<>>
    /\ events' = {} /\ offered' = 0
    /\ UNCHANGED <<profile, cache, count>>

WafNext ==
    \/ Arrive \/ RefuseAddress \/ Lookup \/ Fails \/ Logged
    \/ \E stop \in Stops :
         \/ \E marks \in SUBSET Rules : HandleRequest(marks, stop)
         \/ \E chunk \in Chunks(Units), eos \in BOOLEAN :
              HandleRequestBody(chunk, eos, stop)
    \/ \E chunk \in Chunks(AnswerUnits), eos, ranUp, ranDown \in BOOLEAN :
         OriginChunk(chunk, eos, ranUp, ranDown)
    \/ \E n \in 0 .. MaxChunk, ran \in BOOLEAN : CachedChunk(n, ran)

WafSpec == WafInit /\ [][WafNext]_wafVars

-----------------------------------------------------------------------------
Buffers == [buf : Seq(Rules \cup {0, Leak, Star, Bad}), released : BOOLEAN, truncated : BOOLEAN]

WafTypeOK ==
    /\ at \in {"idle", "request", "lookup", "body", "answer", "drain", "late",
           "hit", "log", "cut"}
    /\ profile \in Profiles
    /\ {body, upstream, downstream} \subseteq Buffers
    /\ count \in 0 .. MaxServed

Starts(short, long) == Len(short) <= Len(long) /\ short = SubSeq(long, 1, Len(short))

\* inspect.rs: "A rejected request forwards nothing, and an allowed one forwards
\* exactly what the client sent".
Withheld ==
    /\ Starts(forwarded, sent)
    /\ waf.blocked => forwarded = <<>>
    /\ at \in {"answer", "late"} => forwarded = sent

\* What the rules would have said of a body, had the budget sufficed.
Refusable(bytes) ==
    ScoreOf(Enforcing(Hits(Marks(Text(Inspected(bytes, BodyLimit))), Len(Score) + 1))) >= Threshold

\* engine.rs promises to inspect the body's text up to the limit: no body reaches
\* the upstream whose text there would refuse it, whatever the chunks, unless the
\* budget ran out; and the state owns up to a tail past the limit.
ForwardedIsJudged ==
    /\ forwarded # <<>> /\ Refusable(forwarded) => waf.exhausted
    /\ Len(forwarded) > BodyLimit => waf.truncated

\* The two response hooks drop and add nothing, whatever the chunks and however
\* the origin's answer and the request's body interleave: what left, with what is
\* still held, is the answer with at most some leaks masked.
SameLength ==
    LET out == served \o downstream.buf IN
    /\ Len(out) + Len(upstream.buf) = Len(origin)
    /\ \A k \in DOMAIN out : out[k] = origin[k] \/ (out[k] = Star /\ origin[k] = Leak)

\* Each hit is offered as an event once: three stages append to one list of hits
\* and each offers what the others left.  A request that ends with its answer, or
\* with a refusal, has offered them all.
ReportedOnce ==
    /\ waf.emitted <= waf.hits
    /\ offered = waf.emitted
    /\ at = "log" => offered = waf.hits /\ waf.shown = waf.truncated

\* What the WAF owes the origin, the client and the operator: a refused body is
\* withheld whole and an allowed one forwarded as it came and on a verdict about
\* its text, a tail past the limit is admitted to, the answer keeps its framing,
\* and every hit is offered once.
WafGuards == WafTypeOK /\ Withheld /\ ForwardedIsJudged /\ SameLength /\ ReportedOnce

\* plugin.rs: "redacting here is what keeps an unredacted body out of the cache
\* entry".  A rule reports its first match and mask covers that one.
CacheIsRedacted ==
    cache.by = "redacting" =>
      \A k \in DOMAIN Inspected(cache.bytes, PrefixLimit) : cache.bytes[k] # Leak

\* A request that ends has published the caveats of its verdict.
CaveatPublished == at \in {"log", "late", "cut"} => waf.shown = waf.truncated

\* engine.rs: `truncated` is "True when some input bytes were never inspected".
\* What follows a byte that is not UTF-8 never is, and sets nothing.
UnreadIsAdmitted == Len(Text(forwarded)) < Len(forwarded) => waf.truncated

\* A request whose answer ended before its body has offered its hits too.
LateHitsOffered == at = "late" => offered = waf.hits

\* A refused request has an event that says so.
EnforcementReported == waf.blocked => "Block" \in events
=============================================================================
