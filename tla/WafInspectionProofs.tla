------------------------- MODULE WafInspectionProofs -------------------------
(***************************************************************************)
(* Proofs about WafInspection, for any rules, limits, profiles, bodies and *)
(* chunks.                                                                  *)
(*                                                                         *)
(* The request's side: until the buffer is released nothing has been        *)
(* forwarded and the buffer holds what was sent; from then on what was sent *)
(* has been forwarded, unless the request is refused (BodyOK).  The answer's *)
(* side: what left, followed by what the two hooks hold, covers what the    *)
(* source gave (AnswerOK); Covers is transitive and a congruence of         *)
(* concatenation, so it is enough to show what one hook does to one chunk.  *)
(***************************************************************************)
EXTENDS WafInspection, FiniteSetTheorems, SequenceTheorems, WellFoundedInduction, TLAPS

Bytes == Seq(Rules \cup {0, Leak, Star, Bad})
WafStates == [hits : Nat, emitted : Nat, terminal : BOOLEAN, blocked : BOOLEAN,
              challenged : BOOLEAN, truncated : BOOLEAN, exhausted : BOOLEAN,
              redacted : BOOLEAN, shown : BOOLEAN]

Typed ==
  /\ WafTypeOK
  /\ waf \in WafStates
  /\ {sent, forwarded, origin, admitted, served} \subseteq Bytes
  /\ cache.bytes \in Bytes
  /\ offered \in Nat

(* A buffer that was released is empty. *)
Emptied(b) == b.released => b.buf = <<>>

BodyOK ==
  /\ ~body.released => forwarded = <<>> /\ body.buf = sent
  /\ body.released => Emptied(body) /\ (forwarded = sent \/ waf.blocked)
  /\ waf.blocked => forwarded = <<>> /\ at = "log"
  /\ at \in {"idle", "request", "lookup"} => ~body.released
  /\ at \in {"answer", "late"} => body.released
  /\ at \in {"body", "drain"} /\ body.released => waf.truncated /\ Len(forwarded) > BodyLimit
  /\ Len(forwarded) > BodyLimit => waf.truncated

(* What was forwarded was allowed on its text, or the budget ran out. *)
Judged == forwarded # <<>> /\ Refusable(forwarded) => waf.exhausted

(* t is u with some leaks masked. *)
Covers(t, u) ==
  /\ Len(t) = Len(u)
  /\ \A k \in 1 .. Len(u) : t[k] = u[k] \/ (t[k] = Star /\ u[k] = Leak)

AnswerOK ==
  /\ Covers(served \o (downstream.buf \o upstream.buf), origin)
  /\ Emptied(upstream) /\ Emptied(downstream)
  /\ at \in {"idle", "request", "lookup", "hit"} => upstream.buf = <<>>

Inv == Typed /\ BodyOK /\ Judged /\ AnswerOK /\ ReportedOnce

-----------------------------------------------------------------------------
(* Sequences of units, and what covers what.                                  *)

LEMMA ChunkIsBytes ==
  ASSUME NEW units \in SUBSET (Rules \cup {0, Leak, Star, Bad}), NEW chunk \in Chunks(units)
  PROVE  chunk \in Bytes
<1>1. PICK n \in 0 .. MaxChunk : chunk \in [1 .. n -> units]
  BY DEF Chunks
<1>2. n \in Nat
  BY <1>1, WafAssumption
<1> QED BY <1>1, <1>2, SeqDef DEF Bytes

LEMMA ConcatBytes ==
  ASSUME NEW s \in Bytes, NEW t \in Bytes
  PROVE  /\ s \o t \in Bytes /\ Len(s \o t) = Len(s) + Len(t)
         /\ Len(s) \in Nat /\ Len(t) \in Nat
         /\ \A i \in 1 .. Len(s) + Len(t) :
              (s \o t)[i] = IF i <= Len(s) THEN s[i] ELSE t[i - Len(s)]
BY ConcatProperties DEF Bytes

LEMMA CoversItself == ASSUME NEW t \in Bytes PROVE Covers(t, t)
BY DEF Covers, Bytes

LEMMA CoversTransitive ==
  ASSUME NEW s \in Bytes, NEW t \in Bytes, NEW u \in Bytes, Covers(s, t), Covers(t, u)
  PROVE  Covers(s, u)
<1>1. Leak # Star
  BY DEF Leak, Star
<1> QED BY <1>1 DEF Covers

LEMMA CoversConcat ==
  ASSUME NEW s \in Bytes, NEW t \in Bytes, NEW u \in Bytes, NEW v \in Bytes,
         Covers(s, u), Covers(t, v)
  PROVE  Covers(s \o t, u \o v)
<1>1. Len(s \o t) = Len(u) + Len(v) /\ Len(u \o v) = Len(u) + Len(v)
      /\ Len(u) \in Nat /\ Len(v) \in Nat /\ Len(s) = Len(u)
  <2>1. Len(s) = Len(u) /\ Len(t) = Len(v)
    BY DEF Covers
  <2>2. Len(s \o t) = Len(s) + Len(t) /\ Len(u \o v) = Len(u) + Len(v)
        /\ Len(u) \in Nat /\ Len(v) \in Nat
    BY ConcatBytes
  <2> QED BY <2>1, <2>2
<1>2. ASSUME NEW k \in 1 .. Len(u) + Len(v)
      PROVE  LET x == (s \o t)[k] y == (u \o v)[k] IN x = y \/ (x = Star /\ y = Leak)
  <2>1. CASE k <= Len(u)
    <3>1. k \in 1 .. Len(u) /\ (s \o t)[k] = s[k] /\ (u \o v)[k] = u[k]
      BY <1>1, <1>2, <2>1, ConcatBytes
    <3> QED BY <3>1 DEF Covers
  <2>2. CASE ~(k <= Len(u))
    <3>1. k - Len(u) \in 1 .. Len(v)
      BY <1>1, <1>2, <2>2
    <3>2. (s \o t)[k] = t[k - Len(u)] /\ (u \o v)[k] = v[k - Len(u)]
      <4>1. Len(s) = Len(u) /\ Len(t) = Len(v)
        BY DEF Covers
      <4>2. \A i \in 1 .. Len(s) + Len(t) :
              (s \o t)[i] = IF i <= Len(s) THEN s[i] ELSE t[i - Len(s)]
        BY ConcatBytes
      <4>3. \A i \in 1 .. Len(u) + Len(v) :
              (u \o v)[i] = IF i <= Len(u) THEN u[i] ELSE v[i - Len(u)]
        BY ConcatBytes
      <4>4. /\ \A i \in 1 .. Len(u) + Len(v) : ~(i <= Len(u)) => (s \o t)[i] = t[i - Len(u)]
            /\ \A i \in 1 .. Len(u) + Len(v) : ~(i <= Len(u)) => (u \o v)[i] = v[i - Len(u)]
        BY <4>1, <4>2, <4>3
      <4> QED BY <1>2, <2>2, <4>4
    <3> QED BY <3>1, <3>2 DEF Covers
  <2> QED BY <2>1, <2>2
<1> QED BY <1>1, <1>2 DEF Covers

-----------------------------------------------------------------------------
(* The least of a set of naturals, for the first match of a rule.             *)
LEMMA Least ==
  ASSUME NEW S \in SUBSET Nat, S # {}
  PROVE  \E m \in S : \A n \in S : ~(n < m)
<1> DEFINE R == {ss \in Nat \X Nat : ss[1] < ss[2]}
<1>1. IsWellFoundedOn(R, Nat)
  BY NatLessThanWellFounded DEF OpToRel
<1> HIDE DEF R
<1>2. PICK m \in S : \A n \in S : ~(<<n, m>> \in R)
  BY <1>1, WFMin
<1> QED BY <1>2 DEF R

(* mask covers the unit it found, which is a leak. *)
LEMMA FirstLeakIs ==
  ASSUME NEW bytes \in Bytes, NEW k \in DOMAIN bytes, bytes[k] = Leak
  PROVE  FirstLeak(bytes) \in DOMAIN bytes /\ bytes[FirstLeak(bytes)] = Leak
<1> DEFINE S == {i \in DOMAIN bytes : bytes[i] = Leak}
<1>1. DOMAIN bytes = 1 .. Len(bytes) /\ Len(bytes) \in Nat /\ S \in SUBSET Nat /\ S # {}
  BY LenProperties DEF Bytes
<1>2. PICK m \in S : \A n \in S : ~(n < m)
  BY <1>1, Least
<1>3. \A j \in 1 .. m - 1 : bytes[j] # Leak
  <2> SUFFICES ASSUME NEW j \in 1 .. m - 1, bytes[j] = Leak PROVE FALSE
    OBVIOUS
  <2>1. m \in 1 .. Len(bytes)
    BY <1>1
  <2>2. j \in 1 .. Len(bytes) /\ j < m
    BY <1>1, <2>1
  <2> QED BY <1>1, <1>2, <2>2
<1>4. m \in DOMAIN bytes /\ bytes[m] = Leak
  OBVIOUS
<1> QED BY <1>3, <1>4 DEF FirstLeak

(* What is inspected, and its text, are prefixes. *)
Prefixes(s, t) == DOMAIN s \subseteq DOMAIN t /\ \A i \in DOMAIN s : s[i] = t[i]

LEMMA SubSeqIsPrefix ==
  ASSUME NEW bytes \in Bytes, NEW n \in Nat, n <= Len(bytes)
  PROVE  /\ SubSeq(bytes, 1, n) \in Bytes /\ Prefixes(SubSeq(bytes, 1, n), bytes)
         /\ DOMAIN SubSeq(bytes, 1, n) = 1 .. n
<1>1. DOMAIN bytes = 1 .. Len(bytes) /\ Len(bytes) \in Nat
      /\ \A i \in 1 .. Len(bytes) : bytes[i] \in Rules \cup {0, Leak, Star, Bad}
  BY LenProperties DEF Bytes
<1>2. \A i \in 1 .. n : i \in 1 .. Len(bytes) /\ bytes[i] \in Rules \cup {0, Leak, Star, Bad}
  BY <1>1
<1>3. SubSeq(bytes, 1, n) = [i \in 1 .. n |-> bytes[i]]
  BY <1>1
<1> DEFINE t == [i \in 1 .. n |-> bytes[i]]
<1>4. t \in Bytes
  <2>1. t \in [1 .. n -> Rules \cup {0, Leak, Star, Bad}]
    BY <1>2
  <2> QED BY <2>1, SeqDef DEF Bytes
<1>5. Prefixes(t, bytes) /\ DOMAIN t = 1 .. n
  BY <1>1, <1>2 DEF Prefixes
<1> QED BY <1>3, <1>4, <1>5

LEMMA InspectedIsPrefix ==
  ASSUME NEW bytes \in Bytes, NEW limit \in Nat
  PROVE  Inspected(bytes, limit) \in Bytes /\ Prefixes(Inspected(bytes, limit), bytes)
<1> DEFINE n == IF Len(bytes) < limit THEN Len(bytes) ELSE limit
<1>1. n \in Nat /\ n <= Len(bytes)
  BY LenProperties DEF Bytes
<1>2. Inspected(bytes, limit) = SubSeq(bytes, 1, n)
  BY DEF Inspected
<1> HIDE DEF n
<1> QED BY <1>1, <1>2, SubSeqIsPrefix

LEMMA TextIsPrefix ==
  ASSUME NEW bytes \in Bytes
  PROVE  Text(bytes) \in Bytes /\ Prefixes(Text(bytes), bytes)
<1> DEFINE S == {k \in DOMAIN bytes : \A j \in 1 .. k : bytes[j] # Bad}
           n == Cardinality(S)
<1>1. DOMAIN bytes = 1 .. Len(bytes) /\ Len(bytes) \in Nat
  BY LenProperties DEF Bytes
<1>2. IsFiniteSet(1 .. Len(bytes)) /\ Cardinality(1 .. Len(bytes)) = Len(bytes)
  <2> DEFINE m == Len(bytes)
  <2>1. m \in Nat
    BY <1>1
  <2> HIDE DEF m
  <2>2. IsFiniteSet(1 .. m) /\ Cardinality(1 .. m) = IF 1 > m THEN 0 ELSE m - 1 + 1
    BY <2>1, FS_Interval
  <2>3. Cardinality(1 .. m) = m
    BY <2>1, <2>2
  <2> QED BY <2>2, <2>3 DEF m
<1>3. n \in Nat /\ n <= Len(bytes)
  <2>1. S \subseteq 1 .. Len(bytes)
    BY <1>1
  <2> HIDE DEF S
  <2> QED BY <1>2, <2>1, FS_Subset, FS_CardinalityType
<1>4. Text(bytes) = SubSeq(bytes, 1, n)
  BY DEF Text
<1> HIDE DEF n
<1> QED BY <1>3, <1>4, SubSeqIsPrefix

(* More of a body that was cut at the limit changes nothing of what was judged. *)
LEMMA InspectedStays ==
  ASSUME NEW s \in Bytes, NEW t \in Bytes, NEW limit \in Nat, Len(s) > limit
  PROVE  Inspected(s \o t, limit) = Inspected(s, limit)
<1>1. /\ s \o t \in Bytes /\ Len(s \o t) = Len(s) + Len(t) /\ Len(s) \in Nat /\ Len(t) \in Nat
      /\ \A i \in 1 .. Len(s) + Len(t) :
           (s \o t)[i] = IF i <= Len(s) THEN s[i] ELSE t[i - Len(s)]
  BY ConcatBytes
<1> DEFINE u == s \o t
<1> HIDE DEF u
<1>2. /\ Inspected(s, limit) = SubSeq(s, 1, limit)
      /\ Inspected(u, limit) = SubSeq(u, 1, limit)
  BY <1>1 DEF Inspected, u
<1>3. \A i \in 1 .. limit : u[i] = s[i]
  BY <1>1 DEF u
<1>4. /\ SubSeq(s, 1, limit) = [i \in 1 .. limit |-> s[i]]
      /\ SubSeq(u, 1, limit) = [i \in 1 .. limit |-> u[i]]
  BY <1>1 DEF u
<1> QED BY <1>2, <1>3, <1>4 DEF u

LEMMA MaskCovers ==
  ASSUME NEW bytes \in Bytes, NEW ran \in BOOLEAN
  PROVE  Mask(bytes, ran) \in Bytes /\ Covers(Mask(bytes, ran), bytes)
<1>1. CASE ~Redacts(bytes, ran)
  BY <1>1, CoversItself DEF Mask
<1>2. CASE Redacts(bytes, ran)
  <2>1. DOMAIN bytes = 1 .. Len(bytes) /\ Len(bytes) \in Nat
    BY LenProperties DEF Bytes
  <2>2. PICK k \in DOMAIN bytes : bytes[k] = Leak
    <3> DEFINE cut == Inspected(bytes, PrefixLimit)
               text == Text(cut)
    <3>1. PrefixLimit \in Nat
      BY WafAssumption
    <3>2. cut \in Bytes /\ Prefixes(cut, bytes)
      BY <3>1, InspectedIsPrefix
    <3> HIDE DEF cut
    <3>3. text \in Bytes /\ Prefixes(text, cut)
      BY <3>2, TextIsPrefix
    <3>4. \E i \in DOMAIN text : text[i] = Leak
      BY <1>2 DEF Redacts, Leaks, FirstLeak, cut
    <3> HIDE DEF text
    <3> QED BY <3>2, <3>3, <3>4 DEF Prefixes
  <2>3. FirstLeak(bytes) \in 1 .. Len(bytes) /\ bytes[FirstLeak(bytes)] = Leak
    BY <2>1, <2>2, FirstLeakIs
  <2>4. Mask(bytes, ran) = [bytes EXCEPT ![FirstLeak(bytes)] = Star]
    BY <1>2 DEF Mask
  <2> DEFINE f == FirstLeak(bytes)
             masked == [bytes EXCEPT ![f] = Star]
  <2> HIDE DEF f
  <2>5. /\ masked \in Bytes /\ Len(masked) = Len(bytes)
        /\ \A j \in 1 .. Len(bytes) : masked[j] = IF j = f THEN Star ELSE bytes[j]
    BY <2>3, ExceptSeq DEF Bytes, f
  <2> HIDE DEF masked
  <2>6. Covers(masked, bytes)
    BY <2>3, <2>5 DEF Covers, f
  <2> QED BY <2>4, <2>5, <2>6 DEF masked, f
<1> QED BY <1>1, <1>2

-----------------------------------------------------------------------------
(* One hook and one chunk.                                                    *)

LEMMA EmptyBytes ==
  /\ <<>> \in Bytes /\ Len(<<>>) = 0
  /\ \A s \in Bytes : s \o <<>> = s /\ <<>> \o s = s
BY ConcatEmptySeq, EmptySeq DEF Bytes

BufferType == [buf : Bytes, released : BOOLEAN, truncated : BOOLEAN]

(* BodyBuffer::feed: nothing is dropped, and a chunk is released at the end, *)
(* or early with a caveat.                                                   *)
Fed(f, b, chunk, eos, limit, over) ==
  /\ f.kind \in {"PassThrough", "Reject", "Release", "Hold"}
  /\ f.kind = "PassThrough" <=> b.released
  /\ f.kind = "PassThrough" => f.buffer = b
  /\ f.kind # "PassThrough" => f.buffer.buf = b.buf \o chunk
  /\ f.kind \in {"Reject", "Hold"} => ~f.buffer.released
  /\ f.kind = "Hold" => ~eos
  /\ f.kind = "Reject" => over = "Reject"
  /\ f.kind = "Release" => /\ f.buffer.released
                           /\ ~eos => f.buffer.truncated /\ Len(b.buf \o chunk) > limit
                           /\ Len(b.buf \o chunk) > limit => f.buffer.truncated
  /\ f.buffer \in BufferType

LEMMA FeedFacts ==
  ASSUME NEW b \in BufferType, NEW chunk \in Bytes, NEW eos \in BOOLEAN,
         NEW limit \in Nat, NEW over \in {"InspectPrefix", "Reject"}
  PROVE  Fed(Feed(b, chunk, eos, limit, over), b, chunk, eos, limit, over)
<1> DEFINE all == b.buf \o chunk
<1>1. all \in Bytes /\ Len(all) \in Nat
  BY ConcatBytes DEF BufferType
<1> HIDE DEF all
<1> QED BY <1>1 DEF Fed, Feed, BufferType, all

(* A stage adds hits and caveats to the state; what was offered stays, and so *)
(* does a refusal.                                                            *)
Later(w, v) ==
  /\ v \in WafStates /\ v.hits >= w.hits /\ v.emitted = w.emitted
  /\ v.blocked = w.blocked /\ (w.truncated => v.truncated) /\ (w.exhausted => v.exhausted)

LEMMA LaterTransitive ==
  ASSUME NEW u \in WafStates, NEW v, NEW w, Later(u, v), Later(v, w)
  PROVE  Later(u, w)
BY DEF Later, WafStates

(* scan_response: the chunk goes on, is held, or is released with what was   *)
(* held before, with at most a leak masked.                                  *)
LEMMA ScanFacts ==
  ASSUME NEW b \in BufferType, Emptied(b), NEW chunk \in Bytes, NEW eos \in BOOLEAN,
         NEW ran \in BOOLEAN, NEW w \in WafStates
  PROVE  LET s == Scan(b, chunk, eos, ran, w) IN
         /\ s.out \in Bytes /\ s.buffer \in BufferType /\ Emptied(s.buffer)
         /\ Covers(s.out \o s.buffer.buf, b.buf \o chunk)
         /\ Later(w, s.waf)
<1> DEFINE f == Feed(b, chunk, eos, PrefixLimit, "InspectPrefix")
<1>1. /\ f.kind \in {"PassThrough", "Release", "Hold"} /\ f.buffer \in BufferType
      /\ f.kind = "PassThrough" => b.released /\ f.buffer = b
      /\ f.kind # "PassThrough" => f.buffer.buf = b.buf \o chunk
      /\ f.kind = "Hold" => ~f.buffer.released
      /\ f.kind = "Release" => f.buffer.released
  <2>1. PrefixLimit \in Nat /\ "InspectPrefix" \in {"InspectPrefix", "Reject"}
    BY WafAssumption
  <2>2. Fed(f, b, chunk, eos, PrefixLimit, "InspectPrefix")
    BY <2>1, FeedFacts
  <2> HIDE DEF f
  <2> QED BY <2>2 DEF Fed
<1>2. Later(w, w)
  BY DEF Later, WafStates
<1>3. b.buf \in Bytes /\ b.buf \o chunk \in Bytes
  BY ConcatBytes DEF BufferType
<1> HIDE DEF f
<1>4. CASE f.kind = "PassThrough"
  <2>1. Scan(b, chunk, eos, ran, w) = [out |-> chunk, buffer |-> b, waf |-> w]
    BY <1>4 DEF Scan, f
  <2>2. b.buf = <<>> /\ chunk \o b.buf = chunk /\ b.buf \o chunk = chunk
    BY <1>1, <1>4, EmptyBytes DEF Emptied
  <2>3. Covers(chunk \o b.buf, b.buf \o chunk)
    BY <2>2, CoversItself
  <2> QED BY <1>2, <2>1, <2>3
<1>5. CASE f.kind = "Hold"
  <2>1. Scan(b, chunk, eos, ran, w) = [out |-> <<>>, buffer |-> f.buffer, waf |-> w]
    BY <1>1, <1>5 DEF Scan, f
  <2>2. <<>> \o f.buffer.buf = b.buf \o chunk /\ Emptied(f.buffer) /\ <<>> \in Bytes
    BY <1>1, <1>3, <1>5, EmptyBytes DEF Emptied
  <2>3. Covers(<<>> \o f.buffer.buf, b.buf \o chunk)
    BY <1>3, <2>2, CoversItself
  <2> QED BY <1>1, <1>2, <2>1, <2>2, <2>3
<1>6. CASE f.kind = "Release"
  <2> DEFINE all == f.buffer.buf
             h == w.hits + (IF Leaks(all, ran) THEN 1 ELSE 0)
             t == w.truncated \/ f.buffer.truncated
             x == w.exhausted \/ ~ran
             r == w.redacted \/ Redacts(all, ran)
             v == [w EXCEPT !.hits = h, !.truncated = t, !.exhausted = x, !.redacted = r]
  <2>1. Scan(b, chunk, eos, ran, w) = [out |-> Mask(all, ran), buffer |-> Taken(f.buffer),
                                       waf |-> v]
    BY <1>1, <1>6 DEF Scan, f
  <2>2. h \in Nat /\ h >= w.hits /\ t \in BOOLEAN /\ (w.truncated => t) /\ x \in BOOLEAN
        /\ (w.exhausted => x)
    BY <1>1 DEF WafStates, BufferType
  <2>3. r \in BOOLEAN
    BY DEF Redacts, WafStates
  <2>4. Later(w, v)
    <3> HIDE DEF h, t, x, r
    <3> QED BY <2>2, <2>3 DEF Later, WafStates
  <2>5. Mask(all, ran) \in Bytes /\ Covers(Mask(all, ran), all)
    BY <1>1, <1>3, <1>6, MaskCovers
  <2>6. /\ Taken(f.buffer) \in BufferType /\ Emptied(Taken(f.buffer))
        /\ Taken(f.buffer).buf = <<>>
    BY <1>1, EmptyBytes DEF Taken, BufferType, Emptied
  <2>7. Mask(all, ran) \o <<>> = Mask(all, ran) /\ all = b.buf \o chunk
    BY <1>1, <1>6, <2>5, EmptyBytes
  <2> HIDE DEF v, all
  <2>8. Covers(Mask(all, ran) \o Taken(f.buffer).buf, b.buf \o chunk)
    BY <2>5, <2>6, <2>7
  <2> DEFINE s == Scan(b, chunk, eos, ran, w)
  <2>9. s.out = Mask(all, ran) /\ s.buffer = Taken(f.buffer) /\ s.waf = v
    BY <2>1
  <2> QED BY <2>4, <2>5, <2>6, <2>8, <2>9
<1> QED BY <1>1, <1>4, <1>5, <1>6

-----------------------------------------------------------------------------
(* Recording.                                                                 *)

LEMMA ReportFacts ==
  ASSUME NEW w \in WafStates, w.hits >= w.emitted, offered = w.emitted, Report(w)
  PROVE  /\ waf' \in WafStates /\ waf'.hits = w.hits /\ waf'.emitted = w.hits
         /\ offered' = w.hits /\ waf'.shown = waf'.truncated
         /\ waf'.truncated = w.truncated /\ waf'.blocked = w.blocked
         /\ waf'.exhausted = w.exhausted
<1>1. offered' = w.hits
  BY DEF Report, WafStates
<1> DEFINE n == w.terminal \/ w.emitted = w.hits
<1>2. waf' = [w EXCEPT !.emitted = w.hits, !.terminal = n, !.shown = w.truncated]
  BY DEF Report, Offered
<1>3. n \in BOOLEAN
  BY DEF WafStates
<1> HIDE DEF n
<1> QED BY <1>1, <1>2, <1>3 DEF WafStates

LEMMA ReportTwiceFacts ==
  ASSUME NEW w1 \in WafStates, NEW w2 \in WafStates, offered = waf.emitted,
         waf \in WafStates, ReportTwice(w1, w2)
  PROVE  /\ waf' \in WafStates /\ waf'.hits = w2.hits /\ waf'.emitted = w2.hits
         /\ offered' = w2.hits /\ waf'.shown = waf'.truncated
         /\ waf'.truncated = w2.truncated /\ waf'.blocked = w2.blocked
         /\ waf'.exhausted = w2.exhausted
<1> DEFINE n == w1.terminal \/ w1.emitted = w1.hits
           second == [w2 EXCEPT !.emitted = w1.hits, !.terminal = n]
           m == second.terminal \/ second.emitted = second.hits
<1>1. n \in BOOLEAN
  BY DEF WafStates
<1>2. Offered(w1).emitted = w1.hits /\ Offered(w1).terminal = n
  BY DEF Offered, WafStates
<1>3. /\ waf' = Offered(second)
      /\ offered' = offered + (second.hits - waf.emitted)
  BY <1>2 DEF ReportTwice
<1> HIDE DEF n
<1>4. /\ second \in WafStates /\ second.hits = w2.hits /\ second.truncated = w2.truncated
      /\ second.blocked = w2.blocked /\ second.exhausted = w2.exhausted
  BY <1>1 DEF WafStates
<1> HIDE DEF second
<1>5. offered' = w2.hits
  BY <1>3, <1>4 DEF WafStates
<1>6. waf' = [second EXCEPT !.emitted = second.hits, !.terminal = m, !.shown = second.truncated]
  BY <1>3 DEF Offered
<1>7. m \in BOOLEAN
  BY <1>4 DEF WafStates
<1> HIDE DEF m
<1> QED BY <1>4, <1>5, <1>6, <1>7 DEF WafStates

LEMMA HitsAreCounted ==
  ASSUME NEW marks, NEW stop
  PROVE  Cardinality(Hits(marks, stop)) \in Nat
<1>1. Hits(marks, stop) \subseteq 1 .. Len(Score) /\ Len(Score) \in Nat
  BY WafAssumption DEF Hits, Rules
<1>2. IsFiniteSet(Hits(marks, stop))
  <2>1. IsFiniteSet(1 .. Len(Score))
    BY <1>1, FS_Interval
  <2> QED BY <1>1, <2>1, FS_Subset
<1> QED BY <1>2, FS_CardinalityType

-----------------------------------------------------------------------------
(* Every step keeps the invariant.                                            *)

LEMMA BuffersAre == Buffers = BufferType
BY DEF Buffers, BufferType, Bytes

LEMMA NewBufferFacts ==
  NewBuffer \in BufferType /\ NewBuffer.buf = <<>> /\ ~NewBuffer.released /\ Emptied(NewBuffer)
BY EmptyBytes DEF NewBuffer, BufferType, Emptied

LEMMA NewStateFacts ==
  /\ NewState \in WafStates /\ NewState.hits = 0 /\ NewState.emitted = 0
  /\ ~NewState.blocked
BY DEF NewState, WafStates

(* Before its first chunk, a request has nothing on either side. *)
LEMMA Fresh ==
  ASSUME sent = <<>>, forwarded = <<>>, origin = <<>>, served = <<>>,
         body = NewBuffer, upstream = NewBuffer, downstream = NewBuffer,
         waf = NewState, at = "idle", offered = 0
  PROVE  BodyOK /\ Judged /\ AnswerOK /\ ReportedOnce
<1>1. ~(Len(<<>>) > BodyLimit)
  BY EmptyBytes, WafAssumption
<1>2. BodyOK
  BY <1>1, NewBufferFacts, NewStateFacts DEF BodyOK
<1>3. <<>> \o (<<>> \o <<>>) = <<>> /\ Covers(<<>>, <<>>)
  BY EmptyBytes, CoversItself
<1>4. AnswerOK
  BY <1>3, NewBufferFacts DEF AnswerOK
<1> QED BY <1>2, <1>4, NewStateFacts DEF ReportedOnce, Judged

LEMMA InitInv == WafInit => Inv
<1> SUFFICES ASSUME WafInit PROVE Inv
  OBVIOUS
<1>1. BodyOK /\ Judged /\ AnswerOK /\ ReportedOnce
  BY Fresh DEF WafInit
<1>2. WafTypeOK
  BY BuffersAre, NewBufferFacts, WafAssumption DEF WafInit, WafTypeOK
<1>3. Typed
  BY <1>2, EmptyBytes, NewStateFacts DEF Typed, WafInit, Uncached
<1> QED BY <1>1, <1>3 DEF Inv

LEMMA LoggedKeeps == ASSUME Inv, Logged PROVE Inv'
<1>1. (BodyOK /\ Judged /\ AnswerOK /\ ReportedOnce)'
  <2>1. /\ sent' = <<>> /\ forwarded' = <<>> /\ origin' = <<>> /\ served' = <<>>
        /\ body' = NewBuffer /\ upstream' = NewBuffer /\ downstream' = NewBuffer
        /\ waf' = NewState /\ at' = "idle" /\ offered' = 0
    BY DEF Logged
  <2>2. ~(Len(<<>>) > BodyLimit)
    BY EmptyBytes, WafAssumption
  <2>3. BodyOK'
    BY <2>1, <2>2, NewBufferFacts, NewStateFacts DEF BodyOK
  <2>4. <<>> \o (<<>> \o <<>>) = <<>> /\ Covers(<<>>, <<>>)
    BY EmptyBytes, CoversItself
  <2>5. AnswerOK'
    BY <2>1, <2>4, NewBufferFacts DEF AnswerOK
  <2> QED BY <2>1, <2>3, <2>5, NewStateFacts DEF ReportedOnce, Judged
<1>2. Typed'
  BY BuffersAre, NewBufferFacts, EmptyBytes, NewStateFacts
     DEF Logged, Inv, Typed, WafTypeOK
<1> QED BY <1>1, <1>2 DEF Inv

LEMMA JudgedStays ==
  ASSUME Judged, UNCHANGED <<profile, forwarded>>, waf.exhausted => waf'.exhausted
  PROVE  Judged'
BY DEF Judged, Refusable, Hits, Enforcing

LEMMA NothingJudged == ASSUME forwarded' = <<>> PROVE Judged'
BY DEF Judged

(* The steps that only move the request on. *)
LEMMA MovesKeep ==
  ASSUME Inv, Arrive \/ Lookup \/ Fails
  PROVE  Inv'
<1>1. /\ UNCHANGED <<waf, sent, body, forwarded, answer, offered>>
      /\ <<at, at'>> \in {<<"idle", "request">>, <<"lookup", "body">>, <<"lookup", "hit">>,
                          <<"body", "cut">>, <<"answer", "cut">>, <<"drain", "cut">>,
                          <<"hit", "cut">>}
      /\ profile' = profile \/ at = "idle"
      /\ profile' \in Profiles /\ count' \in 0 .. MaxServed
  <2>1. profile \in Profiles /\ count \in 0 .. MaxServed /\ MaxServed \in Nat
    BY WafAssumption DEF Inv, Typed, WafTypeOK
  <2>2. CASE Arrive
    BY <2>1, <2>2 DEF Arrive
  <2>3. CASE Lookup \/ Fails
    BY <2>1, <2>3 DEF Lookup, Fails
  <2> QED BY <2>2, <2>3
<1>2. Typed'
  BY <1>1 DEF Inv, Typed, WafTypeOK, answer
<1>3. BodyOK'
  BY <1>1 DEF Inv, BodyOK
<1>4. AnswerOK'
  BY <1>1 DEF Inv, AnswerOK, answer
<1>5. ReportedOnce'
  BY <1>1 DEF Inv, ReportedOnce
<1>6. Judged'
  <2>1. CASE profile' = profile
    BY <1>1, <2>1, JudgedStays DEF Inv
  <2>2. CASE at = "idle"
    BY <1>1, <2>2, NothingJudged DEF Inv, BodyOK
  <2> QED BY <1>1, <2>1, <2>2
<1> QED BY <1>2, <1>3, <1>4, <1>5, <1>6 DEF Inv

(* A refusal before the body. *)
LEMMA RequestKeeps ==
  ASSUME Inv, NEW w \in WafStates, at = "request", at' \in {"log", "lookup"},
         Report(w), w.hits >= waf.hits, w.emitted = waf.emitted, w.truncated = waf.truncated,
         w.blocked => at' = "log",
         UNCHANGED <<profile, sent, body, forwarded, answer, count>>
  PROVE  Inv'
<1>1. w.hits >= w.emitted /\ offered = w.emitted
  BY DEF Inv, Typed, ReportedOnce, WafStates
<1>2. /\ waf' \in WafStates /\ waf'.hits = w.hits /\ waf'.emitted = w.hits
      /\ offered' = w.hits /\ waf'.shown = waf'.truncated
      /\ waf'.truncated = w.truncated /\ waf'.blocked = w.blocked
  BY <1>1, ReportFacts
<1>3. Typed'
  BY <1>2 DEF Inv, Typed, WafTypeOK, answer, WafStates
<1>4. BodyOK'
  BY <1>2 DEF Inv, BodyOK
<1>5. AnswerOK'
  BY DEF Inv, AnswerOK, answer
<1>6. ReportedOnce'
  BY <1>2 DEF ReportedOnce, WafStates
<1>7. Judged'
  BY NothingJudged DEF Inv, BodyOK
<1> QED BY <1>3, <1>4, <1>5, <1>6, <1>7 DEF Inv

LEMMA RefuseAddressKeeps == ASSUME Inv, RefuseAddress PROVE Inv'
<1> DEFINE w == [waf EXCEPT !.blocked = TRUE]
<1>1. waf \in WafStates
  BY DEF Inv, Typed
<1>2. w \in WafStates /\ w.hits = waf.hits /\ w.emitted = waf.emitted /\ w.truncated = waf.truncated
  BY <1>1 DEF WafStates
<1>3. /\ at = "request" /\ at' = "log" /\ Report(w)
      /\ UNCHANGED <<profile, sent, body, forwarded, answer, count>>
  BY DEF RefuseAddress
<1>4. waf.hits >= waf.hits
  BY <1>1 DEF WafStates
<1> HIDE DEF w
<1> QED BY <1>2, <1>3, <1>4, RequestKeeps

LEMMA HandleRequestKeeps ==
  ASSUME Inv, NEW marks, NEW stop, HandleRequest(marks, stop) PROVE Inv'
<1> DEFINE hits == Hits(marks, stop)
           verdict == Verdict(hits, stop)
           h == waf.hits + Cardinality(hits)
           x == waf.exhausted \/ Exhausts(stop)
           c == verdict = "Challenge"
           b == verdict = "Block"
           w == [waf EXCEPT !.hits = h, !.exhausted = x, !.challenged = c, !.blocked = b]
<1>1. waf \in WafStates
  BY DEF Inv, Typed
<1>2. /\ at = "request" /\ at' = (IF b THEN "log" ELSE "lookup") /\ Report(w)
      /\ UNCHANGED <<profile, sent, body, forwarded, answer, count>>
  BY DEF HandleRequest
<1>3. h \in Nat /\ h >= waf.hits /\ c \in BOOLEAN /\ b \in BOOLEAN
  BY <1>1, HitsAreCounted DEF WafStates
<1>4. x \in BOOLEAN
  BY <1>1 DEF WafStates, Exhausts
<1> HIDE DEF h, x, c, b
<1>5. /\ w \in WafStates /\ w.hits >= waf.hits /\ w.emitted = waf.emitted
      /\ w.truncated = waf.truncated /\ w.blocked = b
  BY <1>1, <1>3, <1>4 DEF WafStates
<1> HIDE DEF w
<1> QED BY <1>2, <1>5, RequestKeeps

(* A chunk of the request's body: it passes, is held, or is judged with what  *)
(* was held before it.                                                        *)
LEMMA HandleRequestBodyKeeps ==
  ASSUME Inv, NEW chunk \in Chunks(Units), NEW eos \in BOOLEAN, NEW stop \in Stops,
         HandleRequestBody(chunk, eos, stop)
  PROVE  Inv'
<1> DEFINE f == Feed(body, chunk, eos, BodyLimit, profile.over_cap)
           held == f.buffer
           hits == Hits(Marks(Text(Inspected(held.buf, BodyLimit))), stop)
           verdict == Verdict(hits, stop)
           h == waf.hits + Cardinality(hits)
           t == waf.truncated \/ held.truncated
           x == waf.exhausted \/ Exhausts(stop)
           judged == [waf EXCEPT !.hits = h, !.truncated = t, !.exhausted = x]
<1>1. /\ at \in {"body", "drain"} /\ sent' = sent \o chunk
      /\ UNCHANGED <<profile, answer, count>>
      /\ \/ /\ f.kind = "PassThrough" /\ forwarded' = forwarded \o chunk
            /\ at' = (IF eos THEN AfterBody ELSE at) /\ UNCHANGED <<waf, body, events, offered>>
         \/ /\ f.kind = "Hold" /\ body' = held
            /\ UNCHANGED <<at, waf, events, offered, forwarded>>
         \/ /\ f.kind = "Reject" /\ body' = held /\ at' = "log"
            /\ Report([waf EXCEPT !.blocked = TRUE]) /\ UNCHANGED forwarded
         \/ /\ f.kind = "Release" /\ body' = Taken(held) /\ at' = "log"
            /\ Report([judged EXCEPT !.blocked = TRUE]) /\ UNCHANGED forwarded
         \/ /\ f.kind = "Release" /\ verdict \notin {"Block", "Challenge"} /\ body' = Taken(held)
            /\ forwarded' = forwarded \o held.buf
            /\ at' = (IF eos THEN AfterBody ELSE at)
            /\ IF eos THEN Report(judged) ELSE waf' = judged /\ UNCHANGED <<events, offered>>
  BY DEF HandleRequestBody
<1>2. /\ chunk \in Bytes /\ body \in BufferType /\ waf \in WafStates
      /\ sent \in Bytes /\ forwarded \in Bytes
      /\ BodyLimit \in Nat /\ profile.over_cap \in {"InspectPrefix", "Reject"}
  <2>1. Units \subseteq Rules \cup {0, Leak, Star, Bad}
    BY WafAssumption
  <2> QED BY <2>1, ChunkIsBytes, BuffersAre, WafAssumption DEF Inv, Typed, WafTypeOK
<1>3. /\ f.kind = "PassThrough" <=> body.released
      /\ f.kind # "PassThrough" => held.buf = body.buf \o chunk
      /\ f.kind \in {"Reject", "Hold"} => ~held.released
      /\ f.kind = "Hold" => ~eos
      /\ f.kind = "Release" => /\ held.released
                               /\ ~eos => held.truncated /\ Len(body.buf \o chunk) > BodyLimit
                               /\ Len(body.buf \o chunk) > BodyLimit => held.truncated
      /\ held \in BufferType
  <2>1. Fed(f, body, chunk, eos, BodyLimit, profile.over_cap)
    BY <1>2, FeedFacts
  <2> HIDE DEF f
  <2> QED BY <2>1 DEF Fed
<1> HIDE DEF f, held
<1>4. ~waf.blocked /\ offered = waf.emitted /\ waf.emitted <= waf.hits
  BY <1>1 DEF Inv, BodyOK, ReportedOnce
<1>5. h \in Nat /\ h >= waf.hits
  BY <1>2, HitsAreCounted DEF WafStates
<1>6. t \in BOOLEAN /\ x \in BOOLEAN /\ (waf.truncated => t) /\ (waf.exhausted => x)
  BY <1>2, <1>3 DEF WafStates, BufferType, Exhausts
<1> HIDE DEF h, x, t
<1>7. Later(waf, judged) /\ judged.truncated = t /\ judged.exhausted = x
  BY <1>2, <1>5, <1>6 DEF Later, WafStates
<1> HIDE DEF judged
<1>8. sent \o chunk \in Bytes /\ (~body.released => body.buf = sent /\ forwarded = <<>>)
  BY <1>2, ConcatBytes DEF Inv, BodyOK
<1>9. AnswerOK' <=> (at' \in {"idle", "request", "lookup", "hit"} => upstream.buf = <<>>)
  BY <1>1 DEF Inv, AnswerOK, answer
<1>10. ASSUME forwarded' \in Bytes, body' \in BufferType, waf' \in WafStates, offered' \in Nat,
              at' \in {"body", "answer", "drain", "late", "log"}
       PROVE  Typed' /\ AnswerOK'
  <2>1. AnswerOK'
    BY <1>9, <1>10
  <2>2. Typed'
    BY <1>1, <1>8, <1>10, BuffersAre DEF Inv, Typed, WafTypeOK, answer
  <2> QED BY <2>1, <2>2
<1>11. Taken(held) \in BufferType /\ Emptied(Taken(held)) /\ Taken(held).released = held.released
  BY <1>3, EmptyBytes DEF Taken, BufferType, Emptied
<1>12. CASE f.kind = "PassThrough"
  <2>1. /\ forwarded' = forwarded \o chunk /\ at' = (IF eos THEN AfterBody ELSE at)
        /\ UNCHANGED <<waf, body, offered>>
    BY <1>1, <1>12
  <2>2. /\ forwarded = sent /\ forwarded' = sent' /\ forwarded' \in Bytes /\ waf.truncated
        /\ Len(forwarded) > BodyLimit
    BY <1>1, <1>3, <1>4, <1>8, <1>12, <2>1 DEF Inv, BodyOK
  <2>6. Len(forwarded') > BodyLimit
    <3>1. Len(forwarded \o chunk) = Len(forwarded) + Len(chunk)
          /\ Len(forwarded) \in Nat /\ Len(chunk) \in Nat
      BY <1>2, ConcatBytes
    <3> QED BY <1>2, <2>1, <2>2, <3>1
  <2>7. at' \in {"body", "answer", "drain", "late"}
    BY <1>1, <2>1 DEF AfterBody
  <2>3. BodyOK'
    BY <1>1, <1>3, <1>4, <1>12, <2>1, <2>2, <2>6, <2>7 DEF Inv, BodyOK
  <2>8. Judged'
    <3>1. Inspected(forwarded', BodyLimit) = Inspected(forwarded, BodyLimit)
      BY <1>2, <2>1, <2>2, InspectedStays
    <3>2. forwarded # <<>>
      BY <1>2, <2>2, EmptyBytes
    <3>3. Refusable(forwarded)' <=> Refusable(forwarded)
      BY <1>1, <3>1 DEF Refusable, Hits, Enforcing
    <3> QED BY <2>1, <3>2, <3>3 DEF Inv, Judged
  <2>4. ReportedOnce'
    BY <1>1, <2>1, <2>7 DEF Inv, ReportedOnce
  <2>5. Typed' /\ AnswerOK'
    BY <1>1, <1>2, <1>10, <2>1, <2>2, <2>7 DEF Inv, Typed
  <2> QED BY <2>3, <2>4, <2>5, <2>8 DEF Inv
<1>13. CASE f.kind = "Hold"
  <2>1. body' = held /\ UNCHANGED <<at, waf, offered, forwarded>>
    BY <1>1, <1>13
  <2>2. held.buf = sent' /\ ~held.released /\ forwarded' = <<>>
    BY <1>1, <1>3, <1>8, <1>13, <2>1
  <2>3. BodyOK'
    BY <1>1, <1>4, <2>1, <2>2 DEF Inv, BodyOK
  <2>4. ReportedOnce'
    BY <1>1, <2>1 DEF Inv, ReportedOnce
  <2>5. Typed' /\ AnswerOK'
    BY <1>1, <1>2, <1>3, <1>10, <2>1 DEF Inv, Typed
  <2>6. Judged'
    BY <2>2, NothingJudged
  <2> QED BY <2>3, <2>4, <2>5, <2>6 DEF Inv
<1>14. ASSUME NEW w \in WafStates, w.blocked, w.hits >= waf.hits, w.emitted = waf.emitted,
              Report(w), at' = "log", UNCHANGED forwarded, ~body.released,
              \/ body' = held /\ ~held.released /\ held.buf = sent \o chunk
              \/ body' = Taken(held) /\ held.released
       PROVE  Inv'
  <2>1. w.hits >= w.emitted /\ offered = w.emitted
    BY <1>2, <1>4, <1>14 DEF WafStates
  <2>2. /\ waf' \in WafStates /\ waf'.hits = w.hits /\ waf'.emitted = w.hits
        /\ offered' = w.hits /\ waf'.shown = waf'.truncated
        /\ waf'.blocked = w.blocked
    BY <1>14, <2>1, ReportFacts
  <2>3. forwarded' = <<>> /\ ~(Len(<<>>) > BodyLimit)
    BY <1>8, <1>14, EmptyBytes, WafAssumption
  <2>4. BodyOK'
    BY <1>1, <1>11, <1>14, <2>2, <2>3 DEF BodyOK
  <2>5. ReportedOnce'
    BY <2>2, <1>14 DEF ReportedOnce, WafStates
  <2>6. Typed' /\ AnswerOK'
    BY <1>2, <1>3, <1>10, <1>11, <1>14, <2>2 DEF WafStates
  <2>7. Judged'
    BY <2>3, NothingJudged
  <2> QED BY <2>4, <2>5, <2>6, <2>7 DEF Inv
<1>15. CASE f.kind = "Reject"
  <2> DEFINE w == [waf EXCEPT !.blocked = TRUE]
  <2>1. Report(w) /\ at' = "log" /\ UNCHANGED forwarded /\ body' = held
    BY <1>1, <1>15
  <2>2. w \in WafStates /\ w.blocked /\ w.hits = waf.hits /\ w.emitted = waf.emitted
    BY <1>2 DEF WafStates
  <2>4. waf.hits >= waf.hits
    BY <1>2 DEF WafStates
  <2> HIDE DEF w
  <2>3. ~body.released /\ ~held.released /\ held.buf = sent \o chunk
    BY <1>3, <1>8, <1>15
  <2> QED BY <1>14, <2>1, <2>2, <2>3, <2>4
<1>16. CASE /\ f.kind = "Release" /\ body' = Taken(held) /\ at' = "log"
            /\ Report([judged EXCEPT !.blocked = TRUE]) /\ UNCHANGED forwarded
  <2> DEFINE w == [judged EXCEPT !.blocked = TRUE]
  <2>1. w \in WafStates /\ w.blocked /\ w.hits >= waf.hits /\ w.emitted = waf.emitted
    BY <1>7 DEF WafStates, Later
  <2> HIDE DEF w
  <2>2. ~body.released /\ held.released /\ Report(w)
    BY <1>3, <1>16 DEF w
  <2> QED BY <1>14, <1>16, <2>1, <2>2
<1>17. CASE /\ f.kind = "Release" /\ verdict \notin {"Block", "Challenge"} /\ body' = Taken(held)
            /\ forwarded' = forwarded \o held.buf
            /\ at' = (IF eos THEN AfterBody ELSE at)
            /\ IF eos THEN Report(judged) ELSE waf' = judged /\ UNCHANGED <<events, offered>>
  <2>1. ~body.released /\ held.buf = sent \o chunk /\ held.released
    BY <1>3, <1>8, <1>17
  <2>2. forwarded' = sent' /\ forwarded' \in Bytes
    BY <1>1, <1>8, <1>17, <2>1, EmptyBytes
  <2>3. /\ ~eos => held.truncated /\ t /\ Len(forwarded') > BodyLimit
        /\ Len(forwarded') > BodyLimit => held.truncated /\ t
    BY <1>1, <1>3, <1>6, <1>8, <1>17, <2>1, <2>2 DEF t
  <2>4. /\ waf' \in WafStates /\ offered' \in Nat /\ offered' = waf'.emitted
        /\ waf'.emitted <= waf'.hits /\ waf'.truncated = t /\ ~waf'.blocked
        /\ waf'.exhausted = x
    <3>1. CASE eos
      <4>1. judged \in WafStates /\ judged.hits >= judged.emitted /\ offered = judged.emitted
        BY <1>2, <1>4, <1>7 DEF Later, WafStates
      <4>2. /\ waf' \in WafStates /\ waf'.hits = judged.hits /\ waf'.emitted = judged.hits
            /\ offered' = judged.hits
            /\ waf'.truncated = judged.truncated /\ waf'.blocked = judged.blocked
            /\ waf'.exhausted = judged.exhausted
        BY <1>17, <3>1, <4>1, ReportFacts
      <4> QED BY <1>4, <1>7, <4>2 DEF Later, WafStates
    <3>2. CASE ~eos
      BY <1>2, <1>4, <1>7, <1>17, <3>2 DEF Later, WafStates
    <3> QED BY <3>1, <3>2
  <2>5. /\ at' \in {"body", "answer", "drain", "late"}
        /\ at' \in {"body", "drain"} => ~eos
    BY <1>1, <1>17 DEF AfterBody
  <2>6. BodyOK'
    BY <1>11, <1>17, <2>1, <2>2, <2>3, <2>4, <2>5 DEF BodyOK
  <2>7. ReportedOnce'
    BY <2>4, <2>5 DEF ReportedOnce
  <2>8. Typed' /\ AnswerOK'
    BY <1>10, <1>11, <1>17, <2>2, <2>4, <2>5
  <2>9. Judged'
    <3>1. CASE stop \in Rules
      BY <2>4, <3>1 DEF Judged, x, Exhausts
    <3>2. CASE stop = Len(Score) + 1
      <4>1. forwarded' = held.buf
        BY <1>1, <1>3, <2>1, <2>2
      <4>2. ~(ScoreOf(Enforcing(hits)) >= Threshold)
        <5> HIDE DEF hits
        <5> QED BY <1>17 DEF Verdict
      <4>3. ~Refusable(held.buf)
        BY <3>2, <4>2 DEF Refusable
      <4>4. ~Refusable(forwarded)'
        BY <1>1, <4>1, <4>3 DEF Refusable, Hits, Enforcing
      <4> QED BY <4>4 DEF Judged
    <3> QED BY <3>1, <3>2 DEF Stops
  <2> QED BY <2>6, <2>7, <2>8, <2>9 DEF Inv
<1> QED BY <1>1, <1>12, <1>13, <1>15, <1>16, <1>17

-----------------------------------------------------------------------------
(* A chunk of the answer.                                                     *)

(* Concatenation under a name of its own, for its laws to be used as they stand. *)
Cat(s, t) == s \o t

LEMMA CatBytes == ASSUME NEW s \in Bytes, NEW t \in Bytes PROVE Cat(s, t) \in Bytes
BY ConcatBytes DEF Cat

LEMMA CatAssociates ==
  ASSUME NEW s \in Bytes, NEW t \in Bytes, NEW u \in Bytes
  PROVE  Cat(Cat(s, t), u) = Cat(s, Cat(t, u))
<1> DEFINE S == Rules \cup {0, Leak, Star, Bad}
<1>1. s \in Seq(S) /\ t \in Seq(S) /\ u \in Seq(S)
  BY DEF Bytes
<1> HIDE DEF S
<1> QED BY <1>1 DEF Cat

LEMMA CoversCat ==
  ASSUME NEW s \in Bytes, NEW t \in Bytes, NEW u \in Bytes, NEW v \in Bytes,
         Covers(s, u), Covers(t, v)
  PROVE  Covers(Cat(s, t), Cat(u, v))
BY CoversConcat DEF Cat

(* Two hooks in a row: each one covers what it took in, so together they do. *)
LEMMA HooksCompose ==
  ASSUME NEW left \in Bytes, NEW down \in Bytes, NEW up \in Bytes, NEW given \in Bytes,
         NEW chunk \in Bytes, NEW mid \in Bytes, NEW out \in Bytes,
         NEW down2 \in Bytes, NEW up2 \in Bytes,
         Covers(Cat(left, Cat(down, up)), given),
         Covers(Cat(mid, up2), Cat(up, chunk)), Covers(Cat(out, down2), Cat(down, mid))
  PROVE  Covers(Cat(Cat(left, out), Cat(down2, up2)), Cat(given, chunk))
<1> DEFINE a == Cat(left, Cat(Cat(out, down2), up2))
           b == Cat(left, Cat(Cat(down, mid), up2))
           c == Cat(Cat(left, down), Cat(up, chunk))
           d == Cat(given, chunk)
<1>1. /\ Cat(out, down2) \in Bytes /\ Cat(down, mid) \in Bytes /\ Cat(left, down) \in Bytes
      /\ Cat(mid, up2) \in Bytes /\ Cat(up, chunk) \in Bytes /\ Cat(down, up) \in Bytes
      /\ Cat(down2, up2) \in Bytes
  BY CatBytes
<1>2. /\ Cat(Cat(out, down2), up2) \in Bytes /\ Cat(Cat(down, mid), up2) \in Bytes
      /\ Cat(left, Cat(down, up)) \in Bytes
  BY <1>1, CatBytes
<1>3. a \in Bytes /\ b \in Bytes /\ c \in Bytes /\ d \in Bytes
  BY <1>1, <1>2, CatBytes
<1>4. Covers(left, left) /\ Covers(up2, up2) /\ Covers(chunk, chunk)
      /\ Covers(Cat(left, down), Cat(left, down))
  BY <1>1, CoversItself
<1>5. Covers(a, b)
  <2>1. Covers(Cat(Cat(out, down2), up2), Cat(Cat(down, mid), up2))
    BY <1>1, <1>4, CoversCat
  <2> QED BY <1>2, <1>4, <2>1, CoversCat
<1>6. Covers(b, c)
  <2>1. Covers(Cat(Cat(left, down), Cat(mid, up2)), c)
    BY <1>1, <1>4, CoversCat
  <2>2. Cat(Cat(down, mid), up2) = Cat(down, Cat(mid, up2))
    BY CatAssociates
  <2>3. Cat(left, Cat(down, Cat(mid, up2))) = Cat(Cat(left, down), Cat(mid, up2))
    BY <1>1, CatAssociates
  <2> QED BY <2>1, <2>2, <2>3
<1>7. Covers(c, d)
  <2>1. Covers(Cat(Cat(left, Cat(down, up)), chunk), d)
    BY <1>2, <1>4, CoversCat
  <2>2. c = Cat(Cat(Cat(left, down), up), chunk)
    BY <1>1, CatAssociates
  <2>3. Cat(Cat(left, down), up) = Cat(left, Cat(down, up))
    BY CatAssociates
  <2> QED BY <2>1, <2>2, <2>3
<1>8. Cat(Cat(left, out), Cat(down2, up2)) = a
  <2>1. Cat(Cat(left, out), Cat(down2, up2)) = Cat(left, Cat(out, Cat(down2, up2)))
    BY <1>1, CatAssociates
  <2>2. Cat(out, Cat(down2, up2)) = Cat(Cat(out, down2), up2)
    BY CatAssociates
  <2> QED BY <2>1, <2>2
<1> HIDE DEF a, b, c, d
<1>9. Covers(a, d)
  <2>1. Covers(b, d)
    BY <1>3, <1>6, <1>7, CoversTransitive
  <2> QED BY <1>3, <1>5, <2>1, CoversTransitive
<1> QED BY <1>8, <1>9 DEF d

LEMMA HookAlone ==
  ASSUME NEW left \in Bytes, NEW down \in Bytes, NEW given \in Bytes, NEW chunk \in Bytes,
         NEW out \in Bytes, NEW down2 \in Bytes,
         Covers(Cat(left, down), given), Covers(Cat(out, down2), Cat(down, chunk))
  PROVE  Covers(Cat(Cat(left, out), down2), Cat(given, chunk))
<1>1. /\ Cat(out, down2) \in Bytes /\ Cat(down, chunk) \in Bytes /\ Cat(left, down) \in Bytes
      /\ Cat(given, chunk) \in Bytes
  BY CatBytes
<1>2. /\ Cat(left, Cat(out, down2)) \in Bytes /\ Cat(Cat(left, down), chunk) \in Bytes
  BY <1>1, CatBytes
<1>3. Covers(left, left) /\ Covers(chunk, chunk)
  BY CoversItself
<1>4. Covers(Cat(left, Cat(out, down2)), Cat(left, Cat(down, chunk)))
  BY <1>1, <1>3, CoversCat
<1>5. Covers(Cat(Cat(left, down), chunk), Cat(given, chunk))
  BY <1>1, <1>3, CoversCat
<1>6. /\ Cat(left, Cat(down, chunk)) = Cat(Cat(left, down), chunk)
      /\ Cat(Cat(left, out), down2) = Cat(left, Cat(out, down2))
  BY CatAssociates
<1> QED BY <1>1, <1>2, <1>4, <1>5, <1>6, CoversTransitive

(* An answer's chunk leaves the request's side alone. *)
LEMMA AnswerKeeps ==
  ASSUME Inv, at \in {"body", "answer", "hit"},
         at' \in {at, "log"} \/ (at = "body" /\ at' = "drain"),
         UNCHANGED <<profile, sent, body, forwarded, count>>,
         waf' \in WafStates, offered' \in Nat, waf'.blocked = waf.blocked,
         waf.truncated => waf'.truncated, waf.exhausted => waf'.exhausted,
         origin' \in Bytes, admitted' \in Bytes, served' \in Bytes, cache'.bytes \in Bytes,
         upstream' \in BufferType, downstream' \in BufferType,
         AnswerOK', ReportedOnce'
  PROVE  Inv'
<1>1. Typed'
  BY BuffersAre DEF Inv, Typed, WafTypeOK
<1>2. BodyOK'
  BY DEF Inv, BodyOK
<1>3. Judged'
  BY JudgedStays DEF Inv
<1> QED BY <1>1, <1>2, <1>3 DEF Inv

(* What a hook leaves behind, with the request going on or reported. *)
Scanned(s, b, chunk, w) ==
  /\ s.out \in Bytes /\ s.buffer \in BufferType /\ Emptied(s.buffer)
  /\ Covers(s.out \o s.buffer.buf, b.buf \o chunk)
  /\ Later(w, s.waf)

LEMMA ScanIsScanned ==
  ASSUME NEW b \in BufferType, Emptied(b), NEW chunk \in Bytes, NEW eos \in BOOLEAN,
         NEW ran \in BOOLEAN, NEW w \in WafStates
  PROVE  Scanned(Scan(b, chunk, eos, ran, w), b, chunk, w)
BY ScanFacts DEF Scanned

LEMMA OriginChunkKeeps ==
  ASSUME Inv, NEW chunk \in Chunks(AnswerUnits), NEW eos \in BOOLEAN,
         NEW ranUp \in BOOLEAN, NEW ranDown \in BOOLEAN,
         OriginChunk(chunk, eos, ranUp, ranDown)
  PROVE  Inv'
<1> DEFINE up == Scan(upstream, chunk, eos, ranUp, waf)
           down == Scan(downstream, up.out, eos, ranDown, up.waf)
<1>1. /\ at \in {"body", "answer"} /\ origin' = origin \o chunk
      /\ upstream' = up.buffer /\ downstream' = down.buffer
      /\ admitted' = admitted \o up.out /\ served' = served \o down.out
      /\ eos => /\ ReportTwice(up.waf, down.waf)
                /\ at' = "log" \/ (at = "body" /\ at' = "drain")
                /\ cache' = cache \/ cache'.bytes = admitted'
      /\ ~eos => waf' = down.waf /\ UNCHANGED <<at, events, offered, cache>>
      /\ UNCHANGED <<profile, sent, body, forwarded, count>>
  BY DEF OriginChunk
<1>2. /\ chunk \in Bytes /\ waf \in WafStates
      /\ upstream \in BufferType /\ downstream \in BufferType
      /\ Emptied(upstream) /\ Emptied(downstream)
      /\ origin \in Bytes /\ admitted \in Bytes /\ served \in Bytes /\ cache.bytes \in Bytes
      /\ upstream.buf \in Bytes /\ downstream.buf \in Bytes
      /\ offered = waf.emitted /\ waf.emitted <= waf.hits
  <2>1. chunk \in Bytes
    <3>1. AnswerUnits \subseteq Rules \cup {0, Leak, Star, Bad}
      BY WafAssumption
    <3> QED BY <3>1, ChunkIsBytes
  <2>2. upstream \in BufferType /\ downstream \in BufferType
    BY BuffersAre DEF Inv, Typed, WafTypeOK
  <2> QED BY <2>1, <2>2 DEF Inv, Typed, AnswerOK, ReportedOnce, BufferType
<1>3. Scanned(up, upstream, chunk, waf)
  BY <1>2, ScanIsScanned
<1>4. up.out \in Bytes /\ up.waf \in WafStates
  <2> HIDE DEF up
  <2> QED BY <1>3 DEF Scanned, Later
<1>5. Scanned(down, downstream, up.out, up.waf)
  <2> HIDE DEF up
  <2> QED BY <1>2, <1>4, ScanIsScanned
<1> HIDE DEF up, down
<1>6. /\ up.buffer \in BufferType /\ Emptied(up.buffer)
      /\ Covers(up.out \o up.buffer.buf, upstream.buf \o chunk)
      /\ down.out \in Bytes /\ down.buffer \in BufferType /\ Emptied(down.buffer)
      /\ Covers(down.out \o down.buffer.buf, downstream.buf \o up.out)
      /\ up.buffer.buf \in Bytes /\ down.buffer.buf \in Bytes
  BY <1>3, <1>5 DEF Scanned, BufferType
<1>7. Later(waf, down.waf)
  <2>1. Later(waf, up.waf) /\ Later(up.waf, down.waf)
    BY <1>3, <1>5 DEF Scanned
  <2> QED BY <1>2, <2>1, LaterTransitive
<1>8. Covers(served' \o (downstream'.buf \o upstream'.buf), origin')
  <2>1. Covers(Cat(served, Cat(downstream.buf, upstream.buf)), origin)
    BY DEF Inv, AnswerOK, Cat
  <2>2. /\ Covers(Cat(up.out, up.buffer.buf), Cat(upstream.buf, chunk))
        /\ Covers(Cat(down.out, down.buffer.buf), Cat(downstream.buf, up.out))
    BY <1>6 DEF Cat
  <2>3. Covers(Cat(Cat(served, down.out), Cat(down.buffer.buf, up.buffer.buf)),
               Cat(origin, chunk))
    BY <1>2, <1>4, <1>6, <2>1, <2>2, HooksCompose
  <2> QED BY <1>1, <2>3 DEF Cat
<1>9. AnswerOK'
  <2>1. at' \in {"body", "answer", "drain", "log"}
    BY <1>1
  <2> QED BY <1>1, <1>6, <1>8, <2>1 DEF AnswerOK
<1>10. origin' \in Bytes /\ admitted' \in Bytes /\ served' \in Bytes
  BY <1>1, <1>2, <1>4, <1>6, ConcatBytes
<1>11. cache'.bytes \in Bytes
  BY <1>1, <1>2, <1>10
<1>12. /\ waf' \in WafStates /\ offered' \in Nat /\ waf'.blocked = waf.blocked
       /\ waf.truncated => waf'.truncated
       /\ waf.exhausted => waf'.exhausted
       /\ ReportedOnce'
  <2>1. CASE eos
    <3>1. /\ waf' \in WafStates /\ waf'.hits = down.waf.hits /\ waf'.emitted = down.waf.hits
          /\ offered' = down.waf.hits /\ waf'.shown = waf'.truncated
          /\ waf'.truncated = down.waf.truncated /\ waf'.blocked = down.waf.blocked
          /\ waf'.exhausted = down.waf.exhausted
      <4>1. down.waf \in WafStates /\ ReportTwice(up.waf, down.waf)
        BY <1>1, <1>7, <2>1 DEF Later
      <4> QED BY <1>2, <1>4, <4>1, ReportTwiceFacts
    <3>2. ReportedOnce'
      BY <3>1 DEF ReportedOnce, WafStates
    <3> QED BY <1>7, <3>1, <3>2 DEF Later, WafStates
  <2>2. CASE ~eos
    <3>1. waf' = down.waf /\ offered' = offered /\ at' # "log"
      BY <1>1, <2>2
    <3>2. ReportedOnce'
      BY <1>2, <1>7, <3>1 DEF Later, ReportedOnce, WafStates
    <3> QED BY <1>2, <1>7, <3>1, <3>2 DEF Later, WafStates
  <2> QED BY <2>1, <2>2
<1>13. /\ at \in {"body", "answer", "hit"}
       /\ at' \in {at, "log"} \/ (at = "body" /\ at' = "drain")
  BY <1>1
<1>14. upstream' \in BufferType /\ downstream' \in BufferType
  BY <1>1, <1>6
<1> QED BY <1>1, <1>9, <1>10, <1>11, <1>12, <1>13, <1>14, AnswerKeeps

LEMMA CachedChunkKeeps ==
  ASSUME Inv, NEW n \in Nat, NEW ran \in BOOLEAN, CachedChunk(n, ran)
  PROVE  Inv'
<1> DEFINE chunk == SubSeq(cache.bytes, Len(origin) + 1, Len(origin) + n)
           eos == Len(origin) + n = Len(cache.bytes)
           down == Scan(downstream, chunk, eos, ran, waf)
<1>1. /\ at = "hit" /\ origin' = origin \o chunk /\ downstream' = down.buffer
      /\ served' = served \o down.out
      /\ eos => Report(down.waf) /\ at' = "log"
      /\ ~eos => waf' = down.waf /\ UNCHANGED <<at, events, offered>>
      /\ UNCHANGED <<profile, sent, body, forwarded, upstream, admitted, cache, count>>
  BY DEF CachedChunk
<1>2. /\ waf \in WafStates /\ upstream \in BufferType /\ downstream \in BufferType
      /\ Emptied(upstream) /\ Emptied(downstream)
      /\ origin \in Bytes /\ admitted \in Bytes /\ served \in Bytes /\ cache.bytes \in Bytes
      /\ downstream.buf \in Bytes /\ upstream.buf = <<>>
      /\ offered = waf.emitted /\ waf.emitted <= waf.hits
  <2>1. upstream \in BufferType /\ downstream \in BufferType
    BY BuffersAre DEF Inv, Typed, WafTypeOK
  <2> QED BY <1>1, <2>1 DEF Inv, Typed, AnswerOK, ReportedOnce, BufferType
<1>3. chunk \in Bytes
  <2>1. Len(origin) \in Nat /\ Len(cache.bytes) \in Nat
    BY <1>2, ConcatBytes
  <2>2. Len(origin) + n <= Len(cache.bytes)
    BY <2>1 DEF CachedChunk
  <2>3. \A i \in Len(origin) + 1 .. Len(origin) + n : i \in 1 .. Len(cache.bytes)
    BY <2>1, <2>2
  <2>4. \A i \in 1 .. Len(cache.bytes) : cache.bytes[i] \in Rules \cup {0, Leak, Star, Bad}
    BY <1>2 DEF Bytes
  <2>5. \A i \in Len(origin) + 1 .. Len(origin) + n :
          cache.bytes[i] \in Rules \cup {0, Leak, Star, Bad}
    BY <2>3, <2>4
  <2>6. Len(origin) + 1 \in Int /\ Len(origin) + n \in Int
    BY <2>1
  <2> QED BY <2>5, <2>6, SubSeqProperties DEF Bytes
<1>4. eos \in BOOLEAN
  OBVIOUS
<1> HIDE DEF chunk, eos
<1>5. Scanned(down, downstream, chunk, waf)
  BY <1>2, <1>3, <1>4, ScanIsScanned
<1> HIDE DEF down
<1>6. /\ down.out \in Bytes /\ down.buffer \in BufferType /\ Emptied(down.buffer)
      /\ Covers(down.out \o down.buffer.buf, downstream.buf \o chunk)
      /\ down.buffer.buf \in Bytes /\ Later(waf, down.waf)
  BY <1>5 DEF Scanned, BufferType
<1>7. Covers(served' \o (downstream'.buf \o upstream'.buf), origin')
  <2>1. Covers(Cat(down.out, down.buffer.buf), Cat(downstream.buf, chunk))
    BY <1>6 DEF Cat
  <2>2. Covers(Cat(served, downstream.buf), origin)
    <3>1. downstream.buf \o upstream.buf = downstream.buf
      BY <1>2, EmptyBytes
    <3> QED BY <3>1 DEF Inv, AnswerOK, Cat
  <2>3. Covers(Cat(Cat(served, down.out), down.buffer.buf), Cat(origin, chunk))
    BY <1>2, <1>3, <1>6, <2>1, <2>2, HookAlone
  <2>4. down.buffer.buf \o upstream.buf = down.buffer.buf
    BY <1>2, <1>6, EmptyBytes
  <2> QED BY <1>1, <2>3, <2>4 DEF Cat
<1>8. AnswerOK'
  BY <1>1, <1>2, <1>6, <1>7 DEF AnswerOK
<1>9. origin' \in Bytes /\ admitted' \in Bytes /\ served' \in Bytes /\ cache'.bytes \in Bytes
  BY <1>1, <1>2, <1>3, <1>6, ConcatBytes
<1>10. /\ waf' \in WafStates /\ offered' \in Nat /\ waf'.blocked = waf.blocked
       /\ waf.truncated => waf'.truncated
       /\ waf.exhausted => waf'.exhausted
       /\ ReportedOnce'
  <2>1. CASE eos
    <3>1. down.waf \in WafStates /\ down.waf.hits >= down.waf.emitted /\ offered = down.waf.emitted
      BY <1>2, <1>6 DEF Later, WafStates
    <3>2. /\ waf' \in WafStates /\ waf'.hits = down.waf.hits /\ waf'.emitted = down.waf.hits
          /\ offered' = down.waf.hits /\ waf'.shown = waf'.truncated
          /\ waf'.truncated = down.waf.truncated /\ waf'.blocked = down.waf.blocked
          /\ waf'.exhausted = down.waf.exhausted
      BY <1>1, <2>1, <3>1, ReportFacts
    <3>3. ReportedOnce'
      BY <3>2 DEF ReportedOnce, WafStates
    <3> QED BY <1>6, <3>2, <3>3 DEF Later, WafStates
  <2>2. CASE ~eos
    <3>1. waf' = down.waf /\ offered' = offered /\ at' # "log"
      BY <1>1, <2>2
    <3>2. ReportedOnce'
      BY <1>2, <1>6, <3>1 DEF Later, ReportedOnce, WafStates
    <3> QED BY <1>2, <1>6, <3>1, <3>2 DEF Later, WafStates
  <2> QED BY <2>1, <2>2
<1>11. at \in {"body", "answer", "hit"} /\ at' \in {at, "log"}
  BY <1>1
<1>12. upstream' \in BufferType /\ downstream' \in BufferType
  BY <1>1, <1>2, <1>6
<1> QED BY <1>1, <1>8, <1>9, <1>10, <1>11, <1>12, AnswerKeeps

-----------------------------------------------------------------------------
LEMMA StepKeeps == Inv /\ [WafNext]_wafVars => Inv'
<1> SUFFICES ASSUME Inv, [WafNext]_wafVars PROVE Inv'
  OBVIOUS
<1>1. CASE UNCHANGED wafVars
  <2>1. UNCHANGED <<at, profile, waf, sent, body, forwarded, origin, upstream, downstream,
                    admitted, served, cache, offered, count>>
    BY <1>1 DEF wafVars
  <2>2. Typed'
    BY <2>1 DEF Inv, Typed, WafTypeOK
  <2>3. BodyOK'
    BY <2>1 DEF Inv, BodyOK
  <2>4. AnswerOK'
    BY <2>1 DEF Inv, AnswerOK
  <2>5. ReportedOnce'
    BY <2>1 DEF Inv, ReportedOnce
  <2>6. Judged'
    BY <2>1, JudgedStays DEF Inv
  <2> QED BY <2>2, <2>3, <2>4, <2>5, <2>6 DEF Inv
<1>2. CASE Arrive \/ Lookup \/ Fails
  BY <1>2, MovesKeep
<1>3. CASE RefuseAddress
  BY <1>3, RefuseAddressKeeps
<1>4. CASE Logged
  BY <1>4, LoggedKeeps
<1>5. ASSUME NEW stop \in Stops, NEW marks \in SUBSET Rules,
             HandleRequest(marks, stop)
      PROVE  Inv'
  BY <1>5, HandleRequestKeeps
<1>6. ASSUME NEW stop \in Stops, NEW chunk \in Chunks(Units), NEW eos \in BOOLEAN,
             HandleRequestBody(chunk, eos, stop)
      PROVE  Inv'
  BY <1>6, HandleRequestBodyKeeps
<1>7. ASSUME NEW chunk \in Chunks(AnswerUnits), NEW eos \in BOOLEAN, NEW ranUp \in BOOLEAN,
             NEW ranDown \in BOOLEAN, OriginChunk(chunk, eos, ranUp, ranDown)
      PROVE  Inv'
  BY <1>7, OriginChunkKeeps
<1>8. ASSUME NEW n \in 0 .. MaxChunk, NEW ran \in BOOLEAN, CachedChunk(n, ran)
      PROVE  Inv'
  <2>1. n \in Nat
    BY <1>8, WafAssumption
  <2> QED BY <1>8, <2>1, CachedChunkKeeps
<1> QED BY <1>1, <1>2, <1>3, <1>4, <1>5, <1>6, <1>7, <1>8 DEF WafNext

LEMMA InvGuards == Inv => WafGuards
<1> SUFFICES ASSUME Inv PROVE WafGuards
  OBVIOUS
<1>1. /\ sent \in Bytes /\ forwarded \in Bytes /\ origin \in Bytes /\ served \in Bytes
      /\ downstream.buf \in Bytes /\ upstream.buf \in Bytes
  <2>1. upstream \in BufferType /\ downstream \in BufferType
    BY BuffersAre DEF Inv, Typed, WafTypeOK
  <2> QED BY <2>1 DEF Inv, Typed, BufferType
<1>2. forwarded = <<>> \/ forwarded = sent
  BY DEF Inv, BodyOK
<1>3. Starts(forwarded, sent)
  <2>1. Len(sent) \in Nat
    BY <1>1, ConcatBytes
  <2>2. CASE forwarded = <<>>
    <3>1. SubSeq(sent, 1, 0) = <<>>
      BY <1>1, <2>1, SubSeqProperties, EmptySeq DEF Bytes
    <3> QED BY <2>1, <2>2, <3>1, EmptyBytes DEF Starts
  <2>3. CASE forwarded = sent
    <3>1. SubSeq(sent, 1, Len(sent)) = sent
      BY <1>1, SubSeqFull DEF Bytes
    <3> QED BY <2>1, <2>3, <3>1 DEF Starts
  <2> QED BY <1>2, <2>2, <2>3
<1>4. Withheld
  BY <1>3 DEF Inv, BodyOK, Withheld
<1>5. ForwardedIsJudged
  BY DEF Inv, BodyOK, Judged, ForwardedIsJudged
<1>6. SameLength
  <2> DEFINE out == served \o downstream.buf
             all == out \o upstream.buf
  <2>1. out \in Bytes /\ Len(out) \in Nat /\ Len(upstream.buf) \in Nat
    BY <1>1, ConcatBytes
  <2>2. /\ Len(all) = Len(out) + Len(upstream.buf)
        /\ \A i \in 1 .. Len(out) + Len(upstream.buf) :
             all[i] = IF i <= Len(out) THEN out[i] ELSE upstream.buf[i - Len(out)]
    BY <1>1, <2>1, ConcatBytes
  <2>3. Covers(all, origin)
    <3>1. Cat(Cat(served, downstream.buf), upstream.buf)
            = Cat(served, Cat(downstream.buf, upstream.buf))
      BY <1>1, CatAssociates
    <3>2. Covers(Cat(served, Cat(downstream.buf, upstream.buf)), origin)
      BY DEF Inv, AnswerOK, Cat
    <3>3. all = Cat(Cat(served, downstream.buf), upstream.buf)
      BY DEF Cat
    <3> HIDE DEF all
    <3> QED BY <3>1, <3>2, <3>3
  <2>4. DOMAIN out = 1 .. Len(out)
    BY <2>1, LenProperties DEF Bytes
  <2> HIDE DEF out, all
  <2>5. Len(out) + Len(upstream.buf) = Len(origin)
    BY <2>2, <2>3 DEF Covers
  <2>6. ASSUME NEW k \in 1 .. Len(out)
        PROVE  out[k] = origin[k] \/ (out[k] = Star /\ origin[k] = Leak)
    <3>1. k \in 1 .. Len(out) + Len(upstream.buf) /\ k <= Len(out)
      BY <2>1, <2>6
    <3>2. all[k] = out[k]
      BY <2>2, <3>1
    <3> QED BY <2>3, <2>5, <3>1, <3>2 DEF Covers
  <2> QED BY <2>4, <2>5, <2>6 DEF SameLength, out
<1> QED BY <1>4, <1>5, <1>6 DEF Inv, Typed, WafGuards

(* However the chunks of the two bodies are cut and interleaved: a refused     *)
(* request's body does not reach the origin, an allowed one reaches it as it   *)
(* came and not if its text up to the limit would refuse it, a tail past the   *)
(* limit is admitted to, the answer that leaves is the one                     *)
(* the source gave with at most some leaks masked, and every hit is offered    *)
(* once (WafGuards); handle_request_body and scan_response in plugin.rs.       *)
THEOREM WafIsSound == WafSpec => []WafGuards
<1>1. WafSpec => []Inv
  BY InitInv, StepKeeps, PTL DEF WafSpec
<1> QED BY <1>1, InvGuards, PTL
=============================================================================
