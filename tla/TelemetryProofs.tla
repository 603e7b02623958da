---------------------------- MODULE TelemetryProofs ----------------------------
(***************************************************************************)
(* What is proved of the audit trail, the collector and the counters, for  *)
(* any number of queries, tenants and sources, and any ring and collector. *)
(***************************************************************************)
EXTENDS Telemetry, SelectionLemmas

Tenants == Tenant \cup {NoTenant}
Spans == [trace : Request, name : {"query", "plan_and_entitle", "connector.execute"},
          tenant : Tenants]
Traces == [trace : Request, spans : Seq(Spans)]
Events == [trace : Request \cup {NoTenant},
           type : {"query.denied", "query.execute", "query.rate_limited"}, tenant : Tenants]

-----------------------------------------------------------------------------
(* The collector, one span at a time.                                      *)

Distinct(ts) == \A i, j \in DOMAIN ts : ts[i].trace = ts[j].trace => i = j

\* new is ts without the trace at gone (or with all of them), and then the span's.
Moves(ts, span, gone, spans, new) ==
  LET n == IF gone <= Len(ts) THEN Len(ts) ELSE Len(ts) + 1
  IN  /\ new \in Seq(Traces) /\ Len(new) = n
      /\ \A j \in 1..(n - 1) : new[j] = IF j < gone THEN ts[j] ELSE ts[j + 1]
      /\ new[n] = [trace |-> span.trace, spans |-> spans]

\* The span's trace moves.
Rejoins(ts, span, gone, spans) ==
  /\ gone \in DOMAIN ts /\ ts[gone].trace = span.trace
  /\ spans = Append(ts[gone].spans, span)

\* The span's trace is new, and the first one makes room if need be.
Arrives(ts, span, gone, spans) ==
  /\ \A j \in DOMAIN ts : ts[j].trace # span.trace
  /\ spans = <<span>>
  /\ gone = IF Len(ts) = MaxTraces THEN 1 ELSE Len(ts) + 1

\* What SelectInSeq finds of a trace.
LEMMA PlaceOfTrace ==
  ASSUME NEW ts \in Seq(Traces), Distinct(ts), NEW span \in Spans
  PROVE  LET i == SelectInSeq(ts, LAMBDA t : t.trace = span.trace)
         IN  /\ i = 0 => \A j \in DOMAIN ts : ts[j].trace # span.trace
             /\ i # 0 => i \in DOMAIN ts /\ ts[i].trace = span.trace
<1> DEFINE I == {i \in 1..Len(ts) : ts[i].trace = span.trace}
<1>1. DOMAIN ts = 1..Len(ts) /\ Len(ts) \in Nat
  BY LenProperties
<1>2. IsFiniteSet(I) /\ I \in SUBSET Int /\ \A i \in I : i \in DOMAIN ts /\ i # 0
  <2>1. IsFiniteSet(1..Len(ts)) /\ I \in SUBSET (1..Len(ts))
    BY <1>1, FS_Interval
  <2>2. IsFiniteSet(I)
    BY <2>1, FS_Subset
  <2> QED BY <1>1, <2>1, <2>2
<1>3. I # {} => Min(I) \in I
  <2> HIDE DEF I
  <2> QED BY <1>2, MinIsFirst
<1>4. SelectInSeq(ts, LAMBDA t : t.trace = span.trace) = IF I # {} THEN Min(I) ELSE 0
  BY DEF SelectInSeq
<1>5. \A j \in DOMAIN ts : ts[j].trace = span.trace <=> j \in I
  BY <1>1
<1> HIDE DEF I
<1> QED BY <1>2, <1>3, <1>4, <1>5

\* Joined, without room being made.
LEMMA JoinedMoves ==
  ASSUME NEW ts \in Seq(Traces), Distinct(ts), NEW span \in Spans
  PROVE  \E gone \in 1..(Len(ts) + 1), spans \in Seq(Spans) :
           /\ Moves(ts, span, gone, spans, Joined(ts, span))
           /\ \/ Rejoins(ts, span, gone, spans)
              \/ /\ \A j \in DOMAIN ts : ts[j].trace # span.trace
                 /\ spans = <<span>> /\ gone = Len(ts) + 1
<1> DEFINE i == SelectInSeq(ts, LAMBDA t : t.trace = span.trace)
           new == Joined(ts, span)
<1>1. DOMAIN ts = 1..Len(ts) /\ Len(ts) \in Nat
  BY LenProperties
<1>2. /\ i = 0 => \A j \in DOMAIN ts : ts[j].trace # span.trace
      /\ i # 0 => i \in DOMAIN ts /\ ts[i].trace = span.trace
  BY PlaceOfTrace
<1>3. new = IF i = 0 THEN Append(ts, [trace |-> span.trace, spans |-> <<span>>])
            ELSE Append(RemoveAt(ts, i),
                        [trace |-> span.trace, spans |-> Append(ts[i].spans, span)])
  BY DEF Joined
<1>4. span.trace \in Request
  BY DEF Spans
<1> HIDE DEF i, new
<1>5. CASE i = 0
  <2> DEFINE t == [trace |-> span.trace, spans |-> <<span>>]
  <2>1. <<span>> \in Seq(Spans)
    OBVIOUS
  <2>2. t \in Traces
    BY <1>4, <2>1 DEF Traces
  <2>3. new = Append(ts, t)
    BY <1>3, <1>5
  <2> HIDE DEF t
  <2>4. /\ new \in Seq(Traces) /\ Len(new) = Len(ts) + 1 /\ new[Len(ts) + 1] = t
        /\ \A j \in 1..Len(ts) : new[j] = ts[j]
    BY <2>2, <2>3, AppendProperties
  <2>5. Moves(ts, span, Len(ts) + 1, <<span>>, new)
    BY <1>1, <2>4 DEF Moves, t
  <2>6. Len(ts) + 1 \in 1..(Len(ts) + 1)
    BY <1>1
  <2> QED BY <1>2, <1>5, <2>1, <2>5, <2>6 DEF new
<1>6. CASE i # 0
  <2> DEFINE spans == Append(ts[i].spans, span)
             t == [trace |-> span.trace, spans |-> spans]
             before == SubSeq(ts, 1, i - 1)
             after == SubSeq(ts, i + 1, Len(ts))
  <2>1. i \in 1..Len(ts) /\ ts[i].trace = span.trace /\ ts[i] \in Traces
    BY <1>1, <1>2, <1>6, ElementOfSeq
  <2>2. ts[i].spans \in Seq(Spans)
    BY <2>1 DEF Traces
  <2>3. spans \in Seq(Spans)
    BY <2>2, AppendProperties
  <2>4. t \in Traces
    BY <1>4, <2>3 DEF Traces
  <2>5. new = Append(before \o after, t)
    BY <1>3, <1>6 DEF RemoveAt
  <2>6. /\ before \in Seq(Traces) /\ Len(before) = i - 1
        /\ \A j \in 1..(i - 1) : before[j] = ts[j]
    BY <1>1, <2>1, PartBefore
  <2>7. /\ after \in Seq(Traces) /\ Len(after) = Len(ts) - i
        /\ \A j \in 1..(Len(ts) - i) : after[j] = ts[i + j]
    <3>1. i \in 0..Len(ts)
      BY <1>1, <2>1
    <3> QED BY <3>1, PartAfter
  <2> HIDE DEF t, before, after, spans
  <2> DEFINE both == before \o after
  <2>8. /\ both \in Seq(Traces) /\ Len(both) = Len(ts) - 1
        /\ \A j \in 1..(Len(ts) - 1) : both[j] = IF j < i THEN ts[j] ELSE ts[j + 1]
    <3>1. /\ both \in Seq(Traces) /\ Len(both) = Len(before) + Len(after)
          /\ \A j \in 1..(Len(before) + Len(after)) :
               both[j] = IF j <= Len(before) THEN before[j] ELSE after[j - Len(before)]
      BY <2>6, <2>7, ConcatProperties
    <3>2. Len(both) = Len(ts) - 1
      BY <1>1, <2>1, <2>6, <2>7, <3>1
    <3> HIDE DEF both
    <3>3. ASSUME NEW j \in 1..(Len(ts) - 1)
          PROVE  both[j] = IF j < i THEN ts[j] ELSE ts[j + 1]
      <4>1. CASE j < i
        <5>1. j \in 1..(i - 1) /\ j <= Len(before) /\ j \in 1..(Len(before) + Len(after))
          BY <1>1, <2>1, <2>6, <2>7, <4>1
        <5> QED BY <2>6, <3>1, <4>1, <5>1
      <4>2. CASE ~(j < i)
        <5>1. /\ ~(j <= Len(before)) /\ j \in 1..(Len(before) + Len(after))
              /\ j - Len(before) \in 1..(Len(ts) - i) /\ i + (j - Len(before)) = j + 1
          BY <1>1, <2>1, <2>6, <2>7, <4>2
        <5>2. both[j] = after[j - Len(before)]
          BY <3>1, <5>1
        <5>3. after[j - Len(before)] = ts[i + (j - Len(before))]
          BY <2>7, <5>1
        <5> QED BY <4>2, <5>1, <5>2, <5>3
      <4> QED BY <4>1, <4>2
    <3> QED BY <3>1, <3>2, <3>3
  <2> HIDE DEF both
  <2>9. /\ new \in Seq(Traces) /\ Len(new) = Len(ts) /\ new[Len(ts)] = t
        /\ \A j \in 1..(Len(ts) - 1) : new[j] = both[j]
    <3>1. /\ new \in Seq(Traces) /\ Len(new) = Len(both) + 1 /\ new[Len(both) + 1] = t
          /\ \A j \in 1..Len(both) : new[j] = both[j]
      BY <2>4, <2>5, <2>8, AppendProperties DEF both
    <3> QED BY <1>1, <2>1, <2>8, <3>1
  <2>10. Moves(ts, span, i, spans, new)
    BY <2>1, <2>8, <2>9 DEF Moves, t
  <2>11. Rejoins(ts, span, i, spans)
    BY <1>1, <2>1 DEF Rejoins, spans
  <2>12. i \in 1..(Len(ts) + 1)
    BY <1>1, <2>1
  <2> QED BY <2>3, <2>10, <2>11, <2>12 DEF new
<1> QED BY <1>5, <1>6

\* OnEnd: the span's trace moves, or arrives.
LEMMA OnEndMoves ==
  ASSUME NEW ts \in Seq(Traces), Distinct(ts), Len(ts) <= MaxTraces, NEW span \in Spans
  PROVE  \E gone \in 1..(Len(ts) + 1), spans \in Seq(Spans) :
           /\ Moves(ts, span, gone, spans, OnEnd(ts, span))
           /\ Len(OnEnd(ts, span)) <= MaxTraces
           /\ Rejoins(ts, span, gone, spans) \/ Arrives(ts, span, gone, spans)
<1> DEFINE all == Joined(ts, span)
           n == Len(ts)
<1>1. DOMAIN ts = 1..n /\ n \in Nat /\ MaxTraces \in Nat \ {0} /\ n <= MaxTraces
  BY LenProperties, TelemetryAssumption
<1>2. PICK gone \in 1..(n + 1), spans \in Seq(Spans) :
        /\ Moves(ts, span, gone, spans, all)
        /\ \/ Rejoins(ts, span, gone, spans)
           \/ /\ \A j \in DOMAIN ts : ts[j].trace # span.trace
              /\ spans = <<span>> /\ gone = n + 1
  BY JoinedMoves
<1>3. OnEnd(ts, span) = IF Len(all) > MaxTraces THEN Tail(all) ELSE all
  BY DEF OnEnd
<1> HIDE DEF all, n
<1>4. CASE Rejoins(ts, span, gone, spans)
  <2>1. gone <= n
    BY <1>1, <1>4 DEF Rejoins
  <2>2. Len(all) = n
    BY <1>2, <2>1 DEF Moves, n
  <2>3. OnEnd(ts, span) = all
    BY <1>1, <1>3, <2>2 DEF n
  <2> QED BY <1>2, <1>4, <2>2, <2>3 DEF n
<1>5. CASE ~Rejoins(ts, span, gone, spans)
  <2>1. /\ \A j \in DOMAIN ts : ts[j].trace # span.trace
        /\ spans = <<span>> /\ gone = n + 1
    BY <1>2, <1>5
  <2>2. /\ all \in Seq(Traces) /\ Len(all) = n + 1
        /\ \A j \in 1..n : all[j] = ts[j]
        /\ all[n + 1] = [trace |-> span.trace, spans |-> spans]
    BY <1>1, <1>2, <2>1 DEF Moves, n
  <2>3. CASE n = MaxTraces
    <3>1. OnEnd(ts, span) = Tail(all)
      BY <1>1, <1>3, <2>2, <2>3
    <3>2. all # << >>
      BY <1>1, <2>2, EmptySeq
    <3>3. /\ Tail(all) \in Seq(Traces) /\ Len(Tail(all)) = n
          /\ \A j \in 1..n : Tail(all)[j] = all[j + 1]
      BY <1>1, <2>2, <3>2, HeadTailProperties
    <3>4. \A j \in 1..(n - 1) : Tail(all)[j] = ts[j + 1]
      BY <1>1, <2>2, <3>3
    <3>5. Tail(all)[n] = [trace |-> span.trace, spans |-> spans]
      BY <1>1, <2>2, <2>3, <3>3
    <3>6. 1 \in 1..(n + 1) /\ 1 <= n /\ \A j \in 1..(n - 1) : ~(j < 1)
      BY <1>1, <2>3
    <3>7. Moves(ts, span, 1, spans, Tail(all))
      BY <3>3, <3>4, <3>5, <3>6 DEF Moves, n
    <3>8. Arrives(ts, span, 1, spans)
      BY <2>1, <2>3 DEF Arrives, n
    <3> QED BY <2>3, <3>1, <3>3, <3>6, <3>7, <3>8 DEF n
  <2>4. CASE n # MaxTraces
    <3>1. n < MaxTraces
      BY <1>1, <2>4
    <3>2. OnEnd(ts, span) = all
      BY <1>1, <1>3, <2>2, <3>1
    <3>3. Arrives(ts, span, gone, spans)
      BY <2>1, <2>4 DEF Arrives, n
    <3>4. Len(all) <= MaxTraces
      BY <1>1, <2>2, <3>1
    <3> QED BY <1>2, <3>2, <3>3, <3>4 DEF n
  <2> QED BY <2>3, <2>4
<1> QED BY <1>4, <1>5

-----------------------------------------------------------------------------
(* What is kept, one span at a time.  The properties speak of ended; here   *)
(* it is any sequence of spans.                                             *)

LastIn(es, r, k) == Max({0} \cup {i \in 1..k : es[i].trace = r})

\* The traces that were heard of after r, up to the k-th span.
SinceIn(es, r, k) == {es[j].trace : j \in (LastIn(es, r, k) + 1)..k}

KeptIn(es, i) ==
  \A k \in i..Len(es) : Cardinality(SinceIn(es, es[i].trace, k)) < MaxTraces

KeptOf(es, r) == {i \in DOMAIN es : es[i].trace = r /\ KeptIn(es, i)}

LEMMA LastInIsLast ==
  ASSUME NEW es, NEW r, NEW k \in Nat
  PROVE  /\ LastIn(es, r, k) \in 0..k
         /\ LastIn(es, r, k) # 0 => es[LastIn(es, r, k)].trace = r
         /\ \A i \in 1..k : es[i].trace = r => i <= LastIn(es, r, k)
<1> DEFINE S == {0} \cup {i \in 1..k : es[i].trace = r}
<1>1. IsFiniteSet(0..k) /\ S \in SUBSET (0..k)
  BY FS_Interval
<1>2. 0 \in S /\ \A i \in S : i # 0 => es[i].trace = r
  OBVIOUS
<1>3. \A i \in 1..k : es[i].trace = r => i \in S
  OBVIOUS
<1>4. LastIn(es, r, k) = Max(S)
  BY DEF LastIn
<1> HIDE DEF S
<1>5. IsFiniteSet(S)
  BY <1>1, FS_Subset
<1>6. S \in SUBSET Int /\ S # {}
  BY <1>1, <1>2
<1>7. Max(S) \in S /\ \A i \in S : i <= Max(S)
  BY <1>5, <1>6, MaxIsLast
<1> QED BY <1>1, <1>2, <1>3, <1>4, <1>7

\* The last place is determined by being it.
LEMMA LastInUnique ==
  ASSUME NEW es, NEW r, NEW k \in Nat, NEW m \in 0..k,
         m # 0 => es[m].trace = r, \A i \in 1..k : es[i].trace = r => i <= m
  PROVE  LastIn(es, r, k) = m
<1> DEFINE l == LastIn(es, r, k)
<1>1. /\ l \in 0..k /\ (l # 0 => es[l].trace = r)
      /\ \A i \in 1..k : es[i].trace = r => i <= l
  BY LastInIsLast
<1> HIDE DEF l
<1>2. l <= m
  <2>1. CASE l = 0
    BY <2>1
  <2>2. CASE l # 0
    <3>1. l \in 1..k /\ es[l].trace = r
      BY <1>1, <2>2
    <3> QED BY <3>1
  <2> QED BY <2>1, <2>2
<1>3. m <= l
  <2>1. CASE m = 0
    BY <1>1, <2>1
  <2>2. CASE m # 0
    <3>1. m \in 1..k /\ es[m].trace = r
      BY <2>2
    <3> QED BY <1>1, <3>1
  <2> QED BY <2>1, <2>2
<1> QED BY <1>1, <1>2, <1>3 DEF l

\* One more span ends: what was heard since.
LEMMA SinceGrows ==
  ASSUME NEW es \in Seq(Spans), NEW span \in Spans, NEW r
  PROVE  /\ \A k \in 0..Len(es) :
              SinceIn(Append(es, span), r, k) = SinceIn(es, r, k)
         /\ SinceIn(Append(es, span), r, Len(es) + 1) =
              IF span.trace = r THEN {} ELSE SinceIn(es, r, Len(es)) \cup {span.trace}
<1> DEFINE n == Len(es)
           all == Append(es, span)
<1>1. /\ n \in Nat /\ all[n + 1] = span /\ \A i \in 1..n : all[i] = es[i]
  BY LenProperties, AppendProperties
<1> HIDE DEF n, all
<1>2. ASSUME NEW k \in 0..n
      PROVE  /\ LastIn(all, r, k) = LastIn(es, r, k)
             /\ SinceIn(all, r, k) = SinceIn(es, r, k)
  <2>1. \A i \in 1..k : all[i] = es[i]
    BY <1>1
  <2>2. {i \in 1..k : all[i].trace = r} = {i \in 1..k : es[i].trace = r}
    BY <2>1
  <2>3. LastIn(all, r, k) = LastIn(es, r, k)
    BY <2>2 DEF LastIn
  <2>4. LastIn(es, r, k) \in 0..k
    BY <1>1, LastInIsLast
  <2>5. \A j \in (LastIn(es, r, k) + 1)..k : all[j] = es[j]
    BY <1>1, <2>1, <2>4
  <2>6. SinceIn(all, r, k) = SinceIn(es, r, k)
    BY <2>3, <2>5 DEF SinceIn
  <2> QED BY <2>3, <2>6
<1>3. CASE span.trace = r
  <2>1. LastIn(all, r, n + 1) = n + 1
    <3>1. n + 1 \in Nat /\ n + 1 \in 0..(n + 1)
      BY <1>1
    <3>2. all[n + 1].trace = r /\ \A i \in 1..(n + 1) : i <= n + 1
      BY <1>1, <1>3
    <3> QED BY <3>1, <3>2, LastInUnique
  <2>2. (n + 1 + 1)..(n + 1) = {}
    BY <1>1
  <2>3. SinceIn(all, r, n + 1) = {}
    BY <2>1, <2>2 DEF SinceIn
  <2> QED BY <1>2, <1>3, <2>3 DEF n, all
<1>4. CASE span.trace # r
  <2> DEFINE l == LastIn(es, r, n)
  <2>1. l \in 0..n /\ (l # 0 => es[l].trace = r)
        /\ \A i \in 1..n : es[i].trace = r => i <= l
    BY <1>1, LastInIsLast
  <2> HIDE DEF l
  <2>2. LastIn(all, r, n + 1) = l
    <3>1. n + 1 \in Nat /\ l \in 0..(n + 1)
      BY <1>1, <2>1
    <3>2. l # 0 => all[l].trace = r
      BY <1>1, <2>1
    <3>3. ASSUME NEW i \in 1..(n + 1), all[i].trace = r
          PROVE  i <= l
      <4>1. i # n + 1
        BY <1>1, <1>4, <3>3
      <4>2. i \in 1..n
        BY <1>1, <4>1
      <4> QED BY <1>1, <2>1, <3>3, <4>2
    <3> QED BY <3>1, <3>2, <3>3, LastInUnique
  <2>3. (l + 1)..(n + 1) = ((l + 1)..n) \cup {n + 1}
    BY <1>1, <2>1
  <2>4. \A j \in (l + 1)..n : all[j] = es[j]
    BY <1>1, <2>1
  <2>5. {all[j].trace : j \in (l + 1)..(n + 1)}
           = {es[j].trace : j \in (l + 1)..n} \cup {span.trace}
    BY <1>1, <2>3, <2>4
  <2>6. SinceIn(all, r, n + 1) = SinceIn(es, r, n) \cup {span.trace}
    BY <2>2, <2>5 DEF SinceIn, l
  <2> QED BY <1>2, <1>4, <2>6 DEF n, all
<1> QED BY <1>3, <1>4

\* One more span ends: what is kept.
LEMMA KeptGrows ==
  ASSUME NEW es \in Seq(Spans), NEW span \in Spans, NEW r
  PROVE  KeptOf(Append(es, span), r) =
           IF span.trace = r THEN KeptOf(es, r) \cup {Len(es) + 1}
           ELSE IF Cardinality(SinceIn(es, r, Len(es)) \cup {span.trace}) < MaxTraces
           THEN KeptOf(es, r) ELSE {}
<1> DEFINE n == Len(es)
           all == Append(es, span)
           last == SinceIn(all, r, n + 1)
<1>1. /\ n \in Nat /\ Len(all) = n + 1 /\ all[n + 1] = span
      /\ \A i \in 1..n : all[i] = es[i]
      /\ DOMAIN es = 1..n /\ DOMAIN all = 1..(n + 1)
  BY LenProperties, AppendProperties
<1>2. /\ \A k \in 0..n : SinceIn(all, r, k) = SinceIn(es, r, k)
      /\ last = IF span.trace = r THEN {} ELSE SinceIn(es, r, n) \cup {span.trace}
  BY SinceGrows
<1>3. MaxTraces \in Nat \ {0}
  BY TelemetryAssumption
<1>4. Cardinality({}) = 0
  BY FS_EmptySet
<1> HIDE DEF n, all, last
<1>5. ASSUME NEW i \in 1..n, es[i].trace = r
      PROVE  KeptIn(all, i) <=> KeptIn(es, i) /\ Cardinality(last) < MaxTraces
  <2>1. all[i] = es[i]
    BY <1>1
  <2>2. KeptIn(all, i) <=>
          \A k \in i..(n + 1) : Cardinality(SinceIn(all, r, k)) < MaxTraces
    BY <1>1, <1>5, <2>1 DEF KeptIn
  <2>3. i..(n + 1) = (i..n) \cup {n + 1}
    BY <1>1
  <2>4. KeptIn(all, i) <=>
          /\ \A k \in i..n : Cardinality(SinceIn(all, r, k)) < MaxTraces
          /\ Cardinality(last) < MaxTraces
    BY <2>2, <2>3 DEF last
  <2>5. \A k \in i..n : SinceIn(all, r, k) = SinceIn(es, r, k)
    BY <1>1, <1>2
  <2>6. KeptIn(es, i) <=> \A k \in i..n : Cardinality(SinceIn(es, r, k)) < MaxTraces
    BY <1>5 DEF KeptIn, n
  <2> QED BY <2>4, <2>5, <2>6
<1>6. span.trace = r => KeptIn(all, n + 1)
  <2> SUFFICES ASSUME span.trace = r PROVE KeptIn(all, n + 1)
    OBVIOUS
  <2>1. (n + 1)..(n + 1) = {n + 1}
    BY <1>1
  <2>2. Cardinality(last) < MaxTraces
    BY <1>2, <1>3, <1>4
  <2> QED BY <1>1, <2>1, <2>2 DEF KeptIn, last
<1>7. KeptOf(es, r) = {i \in 1..n : es[i].trace = r /\ KeptIn(es, i)}
  BY <1>1 DEF KeptOf
<1>8. KeptOf(all, r) = {i \in 1..(n + 1) : all[i].trace = r /\ KeptIn(all, i)}
  BY <1>1 DEF KeptOf
<1>9. 1..(n + 1) = (1..n) \cup {n + 1}
  BY <1>1
<1>10. \A i \in 1..n : i \in KeptOf(all, r) <=>
                         i \in KeptOf(es, r) /\ Cardinality(last) < MaxTraces
  BY <1>1, <1>5, <1>7, <1>8, <1>9
<1>11. n + 1 \in KeptOf(all, r) <=> span.trace = r
  BY <1>1, <1>6, <1>8, <1>9
<1>12. KeptOf(all, r) \subseteq (1..n) \cup {n + 1} /\ KeptOf(es, r) \subseteq 1..n
  BY <1>7, <1>8, <1>9
<1>13. CASE span.trace = r
  <2>1. Cardinality(last) < MaxTraces
    BY <1>2, <1>3, <1>4, <1>13
  <2>2. KeptOf(all, r) = KeptOf(es, r) \cup {n + 1}
    BY <1>10, <1>11, <1>12, <1>13, <2>1
  <2> QED BY <1>13, <2>2 DEF n, all
<1>14. CASE span.trace # r
  <2>1. KeptOf(all, r) = IF Cardinality(last) < MaxTraces THEN KeptOf(es, r) ELSE {}
    BY <1>10, <1>11, <1>12, <1>14
  <2> QED BY <1>2, <1>14, <2>1 DEF n, all
<1> QED BY <1>13, <1>14

-----------------------------------------------------------------------------
(* The collector holds what is kept.                                        *)

\* The traces behind p.
Behind(ts, p) == {ts[j].trace : j \in (p + 1)..Len(ts)}

Collected(ts, es) ==
  /\ ts \in Seq(Traces) /\ es \in Seq(Spans)
  /\ Distinct(ts) /\ Len(ts) <= MaxTraces
  /\ \A p \in DOMAIN ts :
       /\ SinceIn(es, ts[p].trace, Len(es)) = Behind(ts, p)
       /\ KeptOf(es, ts[p].trace) # {}
       /\ ts[p].spans = Selected(es, KeptOf(es, ts[p].trace))
  /\ \A r \in Request : (\A p \in DOMAIN ts : ts[p].trace # r) => KeptOf(es, r) = {}

\* As many traces are behind p as places.
LEMMA BehindCount ==
  ASSUME NEW ts \in Seq(Traces), Distinct(ts), NEW p \in 0..Len(ts)
  PROVE  /\ IsFiniteSet(Behind(ts, p))
         /\ Cardinality(Behind(ts, p)) = Len(ts) - p
<1> DEFINE I == (p + 1)..Len(ts)
           f == [j \in I |-> ts[j].trace]
<1>1. DOMAIN ts = 1..Len(ts) /\ Len(ts) \in Nat
  BY LenProperties
<1>2. I \subseteq DOMAIN ts
  BY <1>1
<1>3. IsFiniteSet(I) /\ Cardinality(I) = Len(ts) - p
  <2>1. p + 1 \in Int /\ Len(ts) \in Int
    BY <1>1
  <2>2. IsFiniteSet(I) /\ Cardinality(I) = IF p + 1 > Len(ts) THEN 0 ELSE Len(ts) - (p + 1) + 1
    BY <2>1, FS_Interval
  <2> HIDE DEF I
  <2>3. p \in Int /\ p <= Len(ts)
    BY <1>1
  <2>4. (IF p + 1 > Len(ts) THEN 0 ELSE Len(ts) - (p + 1) + 1) = Len(ts) - p
    <3>1. ASSUME NEW n \in Nat, NEW q \in 0..n
          PROVE  (IF q + 1 > n THEN 0 ELSE n - (q + 1) + 1) = n - q
      OBVIOUS
    <3> QED BY <1>1, <3>1
  <2> QED BY <2>2, <2>4
<1>4. Behind(ts, p) = {f[j] : j \in I}
  BY DEF Behind
<1> HIDE DEF I
<1>5. f \in Surjection(I, Behind(ts, p))
  BY <1>4 DEF Surjection
<1>6. f \in Injection(I, Behind(ts, p))
  BY <1>2, <1>5 DEF Injection, IsInjective, Surjection, Distinct
<1> HIDE DEF f
<1>7. IsFiniteSet(Behind(ts, p)) /\ Cardinality(Behind(ts, p)) = Cardinality(I)
  BY <1>3, <1>5, <1>6, FS_Surjection
<1> QED BY <1>3, <1>7

LEMMA SelectedNone ==
  ASSUME NEW seq
  PROVE  Selected(seq, {}) = << >>
<1>1. Cardinality({}) = 0
  BY FS_EmptySet
<1>2. 1..0 = {}
  OBVIOUS
<1> QED BY <1>1, <1>2 DEF Selected

\* Where the places of a moved collector come from.
LEMMA MovesPlaces ==
  ASSUME NEW ts \in Seq(Traces), Distinct(ts), NEW span \in Spans,
         NEW gone \in 1..(Len(ts) + 1), NEW spans, NEW new,
         Moves(ts, span, gone, spans, new),
         Rejoins(ts, span, gone, spans) \/ Arrives(ts, span, gone, spans)
  PROVE  /\ DOMAIN new = 1..Len(new) /\ Len(new) \in Nat \ {0}
         /\ new[Len(new)] = [trace |-> span.trace, spans |-> spans]
         /\ \A p \in 1..(Len(new) - 1) :
              \E q \in DOMAIN ts :
                /\ new[p] = ts[q] /\ ts[q].trace # span.trace
                /\ Behind(new, p) = Behind(ts, q) \cup {span.trace}
         /\ \A q \in DOMAIN ts : q # gone => \E p \in 1..(Len(new) - 1) : new[p] = ts[q]
         /\ Distinct(new)
<1> DEFINE n == Len(ts)
           m == Len(new)
           Old(j) == IF j < gone THEN j ELSE j + 1
<1>1. DOMAIN ts = 1..n /\ n \in Nat /\ gone \in Nat /\ 1 <= gone /\ gone <= n + 1
  BY LenProperties
<1>2. /\ new \in Seq(Traces) /\ m = IF gone <= n THEN n ELSE n + 1
      /\ \A j \in 1..(m - 1) : new[j] = IF j < gone THEN ts[j] ELSE ts[j + 1]
      /\ new[m] = [trace |-> span.trace, spans |-> spans]
  BY DEF Moves
<1>3. DOMAIN new = 1..m /\ m \in Nat \ {0}
  BY <1>1, <1>2, LenProperties
<1>4. new[m].trace = span.trace
  BY <1>2
<1> HIDE DEF n, m
<1>5. ASSUME NEW j \in 1..(m - 1)
      PROVE  /\ Old(j) \in 1..n /\ Old(j) # gone /\ new[j] = ts[Old(j)]
             /\ j < gone => Old(j) = j
             /\ ~(j < gone) => Old(j) = j + 1
  BY <1>1, <1>2, <1>3
<1>6. ASSUME NEW q \in 1..n, q # gone
      PROVE  \E j \in 1..(m - 1) : Old(j) = q
  <2>1. CASE q < gone
    <3>1. q \in 1..(m - 1) /\ Old(q) = q
      BY <1>1, <1>2, <2>1
    <3> QED BY <3>1
  <2>2. CASE ~(q < gone)
    <3>1. q - 1 \in 1..(m - 1) /\ Old(q - 1) = q
      BY <1>1, <1>2, <1>6, <2>2
    <3> QED BY <3>1
  <2> QED BY <2>1, <2>2
<1>7. \A i, j \in 1..(m - 1) : i < j <=> Old(i) < Old(j)
  BY <1>1, <1>3
<1> HIDE DEF Old
<1>8. \A j \in 1..(m - 1) : ts[Old(j)].trace # span.trace
  BY <1>1, <1>5 DEF Rejoins, Arrives, Distinct
<1>9. ASSUME NEW p \in 1..(m - 1)
      PROVE  Behind(new, p) = Behind(ts, Old(p)) \cup {span.trace}
  <2>1. ASSUME NEW j \in (p + 1)..m
        PROVE  new[j].trace \in Behind(ts, Old(p)) \cup {span.trace}
    <3>1. CASE j = m
      BY <1>4, <3>1
    <3>2. CASE j # m
      <4>1. j \in 1..(m - 1) /\ p < j
        BY <1>3, <3>2
      <4>2. Old(p) < Old(j) /\ Old(j) \in 1..n /\ Old(p) \in 1..n /\ new[j] = ts[Old(j)]
        BY <1>5, <1>7, <4>1
      <4>3. Old(j) \in (Old(p) + 1)..n
        BY <1>1, <4>2
      <4> QED BY <4>2, <4>3 DEF Behind, n
    <3> QED BY <3>1, <3>2
  <2>2. span.trace \in Behind(new, p)
    <3>1. m \in (p + 1)..m
      BY <1>3
    <3> QED BY <1>4, <3>1 DEF Behind, m
  <2>3. ASSUME NEW q \in (Old(p) + 1)..n
        PROVE  ts[q].trace \in Behind(new, p)
    <3>1. Old(p) \in 1..n /\ q \in 1..n /\ Old(p) < q
      BY <1>1, <1>5
    <3>2. CASE q = gone
      <4>1. gone # 1 /\ gone # n + 1
        BY <1>1, <3>1, <3>2
      <4>2. Rejoins(ts, span, gone, spans)
        BY <4>1 DEF Arrives, n
      <4> QED BY <2>2, <3>2, <4>2 DEF Rejoins
    <3>3. CASE q # gone
      <4>1. PICK j \in 1..(m - 1) : Old(j) = q
        BY <1>6, <3>1, <3>3
      <4>2. p < j /\ new[j] = ts[q]
        BY <1>5, <1>7, <3>1, <4>1
      <4>3. j \in (p + 1)..m
        BY <1>3, <4>2
      <4> QED BY <4>2, <4>3 DEF Behind, m
    <3> QED BY <3>2, <3>3
  <2>4. Behind(new, p) \subseteq Behind(ts, Old(p)) \cup {span.trace}
    BY <2>1 DEF Behind, m
  <2>5. Behind(ts, Old(p)) \subseteq Behind(new, p)
    BY <2>3 DEF Behind, n
  <2> QED BY <2>2, <2>4, <2>5
<1>10. Distinct(new)
  <2> SUFFICES ASSUME NEW i \in 1..m, NEW j \in 1..m, new[i].trace = new[j].trace
               PROVE  i = j
    BY <1>3 DEF Distinct
  <2>1. i # m => i \in 1..(m - 1)
    BY <1>3
  <2>2. j # m => j \in 1..(m - 1)
    BY <1>3
  <2>3. i # m => new[i].trace # span.trace
    BY <1>5, <1>8, <2>1
  <2>4. j # m => new[j].trace # span.trace
    BY <1>5, <1>8, <2>2
  <2>5. CASE i # m /\ j # m
    <3>1. i \in 1..(m - 1) /\ j \in 1..(m - 1)
      BY <2>1, <2>2, <2>5
    <3>2. Old(i) \in DOMAIN ts /\ Old(j) \in DOMAIN ts /\ Old(i) = Old(j)
      BY <1>1, <1>5, <3>1 DEF Distinct
    <3>3. ~(i < j) /\ ~(j < i)
      <4>1. Old(i) \in Int /\ ~(Old(i) < Old(j)) /\ ~(Old(j) < Old(i))
        BY <1>1, <3>2
      <4> QED BY <1>7, <3>1, <4>1
    <3> QED BY <1>3, <3>1, <3>3
  <2> QED BY <1>4, <2>3, <2>4, <2>5
<1>11. \A p \in 1..(m - 1) :
         \E q \in DOMAIN ts :
           /\ new[p] = ts[q] /\ ts[q].trace # span.trace
           /\ Behind(new, p) = Behind(ts, q) \cup {span.trace}
  BY <1>1, <1>5, <1>8, <1>9
<1>12. \A q \in DOMAIN ts : q # gone => \E p \in 1..(m - 1) : new[p] = ts[q]
  BY <1>1, <1>5, <1>6
<1> QED BY <1>2, <1>3, <1>10, <1>11, <1>12 DEF m

\* A span ends, and the collector again holds what is kept.
LEMMA CollectedGrows ==
  ASSUME NEW ts, NEW es, Collected(ts, es), NEW span \in Spans
  PROVE  Collected(OnEnd(ts, span), Append(es, span))
<1> DEFINE n == Len(ts)
           k == Len(es)
           new == OnEnd(ts, span)
           m == Len(new)
           all == Append(es, span)
<1>1. /\ ts \in Seq(Traces) /\ es \in Seq(Spans) /\ Distinct(ts) /\ n <= MaxTraces
      /\ n \in Nat /\ k \in Nat /\ MaxTraces \in Nat \ {0} /\ span.trace \in Request
      /\ DOMAIN ts = 1..n /\ DOMAIN es = 1..k
  BY LenProperties, TelemetryAssumption DEF Collected, Spans
<1>2. \A q \in DOMAIN ts :
        /\ SinceIn(es, ts[q].trace, k) = Behind(ts, q)
        /\ KeptOf(es, ts[q].trace) # {}
        /\ ts[q].spans = Selected(es, KeptOf(es, ts[q].trace))
  BY DEF Collected
<1>3. \A r \in Request : (\A q \in DOMAIN ts : ts[q].trace # r) => KeptOf(es, r) = {}
  BY DEF Collected
<1>4. \A r : /\ KeptOf(es, r) \in SUBSET (DOMAIN es)
              /\ Selected(all, KeptOf(es, r)) = Selected(es, KeptOf(es, r))
              /\ Selected(all, KeptOf(es, r) \cup {k + 1})
                   = Append(Selected(es, KeptOf(es, r)), span)
  <2> TAKE r
  <2> DEFINE K == KeptOf(es, r)
  <2>1. K \in SUBSET (DOMAIN es)
    BY DEF KeptOf
  <2> HIDE DEF K
  <2>2. /\ Selected(all, K) = Selected(es, K)
        /\ Selected(all, K \cup {Len(es) + 1}) = Append(Selected(es, K), span)
    <3>1. es \in Seq(Spans)
      BY <1>1
    <3> QED BY <2>1, <3>1, SelectedGrows
  <2> QED BY <2>1, <2>2 DEF k, K
<1>5. PICK gone \in 1..(n + 1), spans \in Seq(Spans) :
        /\ Moves(ts, span, gone, spans, new)
        /\ m <= MaxTraces
        /\ Rejoins(ts, span, gone, spans) \/ Arrives(ts, span, gone, spans)
  BY <1>1, OnEndMoves
<1> HIDE DEF n, k, new, m
<1>6. new \in Seq(Traces)
  BY <1>5 DEF Moves
<1>7. /\ DOMAIN new = 1..m /\ m \in Nat \ {0}
      /\ new[m] = [trace |-> span.trace, spans |-> spans]
      /\ \A p \in 1..(m - 1) :
           \E q \in DOMAIN ts :
             /\ new[p] = ts[q] /\ ts[q].trace # span.trace
             /\ Behind(new, p) = Behind(ts, q) \cup {span.trace}
      /\ \A q \in DOMAIN ts : q # gone => \E p \in 1..(m - 1) : new[p] = ts[q]
      /\ Distinct(new)
  BY <1>1, <1>5, MovesPlaces DEF n, m
<1>8. /\ all \in Seq(Spans) /\ Len(all) = k + 1
  BY <1>1, AppendProperties DEF k
<1>9. \A r : SinceIn(all, r, k + 1) =
               IF span.trace = r THEN {} ELSE SinceIn(es, r, k) \cup {span.trace}
  BY <1>1, SinceGrows DEF k
<1>10. \A r : KeptOf(all, r) =
               IF span.trace = r THEN KeptOf(es, r) \cup {k + 1}
               ELSE IF Cardinality(SinceIn(es, r, k) \cup {span.trace}) < MaxTraces
               THEN KeptOf(es, r) ELSE {}
  BY <1>1, KeptGrows DEF k
<1> HIDE DEF all
<1>11. ASSUME NEW p \in 1..(m - 1)
       PROVE  /\ SinceIn(all, new[p].trace, k + 1) = Behind(new, p)
              /\ KeptOf(all, new[p].trace) # {}
              /\ new[p].spans = Selected(all, KeptOf(all, new[p].trace))
  <2>1. PICK q \in DOMAIN ts : /\ new[p] = ts[q] /\ ts[q].trace # span.trace
                               /\ Behind(new, p) = Behind(ts, q) \cup {span.trace}
    BY <1>7
  <2> DEFINE r == ts[q].trace
  <2>2. SinceIn(all, r, k + 1) = Behind(new, p)
    BY <1>2, <1>9, <2>1
  <2>3. Cardinality(Behind(new, p)) < MaxTraces
    <3>1. p \in 0..m /\ m - p < MaxTraces
      BY <1>1, <1>5, <1>7
    <3>2. Cardinality(Behind(new, p)) = m - p
      BY <1>6, <1>7, <3>1, BehindCount DEF m
    <3> QED BY <3>1, <3>2
  <2>4. KeptOf(all, r) = KeptOf(es, r)
    BY <1>2, <1>10, <2>1, <2>3
  <2> QED BY <1>2, <1>4, <2>1, <2>2, <2>4
<1>12. /\ SinceIn(all, new[m].trace, k + 1) = Behind(new, m)
       /\ KeptOf(all, new[m].trace) # {}
       /\ new[m].spans = Selected(all, KeptOf(all, new[m].trace))
  <2> DEFINE r == span.trace
  <2>1. new[m].trace = r /\ new[m].spans = spans
    BY <1>7
  <2>2. SinceIn(all, r, k + 1) = {}
    BY <1>9
  <2>3. Behind(new, m) = {}
    <3>1. (m + 1)..m = {}
      BY <1>7
    <3> QED BY <3>1 DEF Behind, m
  <2>4. KeptOf(all, r) = KeptOf(es, r) \cup {k + 1}
    BY <1>10
  <2>5. spans = Append(Selected(es, KeptOf(es, r)), span)
    <3>1. CASE Rejoins(ts, span, gone, spans)
      BY <1>2, <3>1 DEF Rejoins
    <3>2. CASE Arrives(ts, span, gone, spans)
      <4>1. KeptOf(es, r) = {} /\ spans = <<span>>
        BY <1>1, <1>3, <3>2 DEF Arrives
      <4>2. Selected(es, KeptOf(es, r)) = << >>
        BY <4>1, SelectedNone
      <4>3. <<span>> = Append(<< >>, span)
        OBVIOUS
      <4> QED BY <4>1, <4>2, <4>3
    <3> QED BY <1>5, <3>1, <3>2
  <2> QED BY <1>4, <2>1, <2>2, <2>3, <2>4, <2>5
<1>13. ASSUME NEW r \in Request, \A p \in DOMAIN new : new[p].trace # r
       PROVE  KeptOf(all, r) = {}
  <2>1. r # span.trace /\ \A p \in 1..(m - 1) : new[p].trace # r
    <3>1. m \in 1..m /\ \A p \in 1..(m - 1) : p \in 1..m
      BY <1>7
    <3> QED BY <1>7, <1>13, <3>1
  <2>2. CASE \A q \in DOMAIN ts : ts[q].trace # r
    <3>1. KeptOf(es, r) = {}
      BY <1>3, <2>2
    <3> QED BY <1>10, <2>1, <3>1
  <2>3. ASSUME NEW q \in DOMAIN ts, ts[q].trace = r
        PROVE  KeptOf(all, r) = {}
    <3>1. q = gone
      BY <1>7, <2>1, <2>3
    <3>2. Arrives(ts, span, gone, spans)
      BY <1>5, <2>1, <2>3, <3>1 DEF Rejoins
    <3>3. q = 1 /\ n = MaxTraces
      <4>1. gone = IF n = MaxTraces THEN 1 ELSE n + 1
        BY <3>2 DEF Arrives, n
      <4>2. q \in 1..n
        BY <1>1
      <4> QED BY <1>1, <3>1, <4>1, <4>2
    <3> DEFINE B == Behind(ts, 1)
    <3>4. span.trace \notin B
      <4>1. \A j \in 2..n : j \in DOMAIN ts
        BY <1>1
      <4> QED BY <3>2, <4>1 DEF Arrives, Behind, n
    <3>5. IsFiniteSet(B) /\ Cardinality(B) = n - 1
      <4>1. 1 \in 0..n
        BY <1>1, <3>3
      <4> QED BY <1>1, <4>1, BehindCount DEF n
    <3> HIDE DEF B
    <3>6. Cardinality(B \cup {span.trace}) = n
      <4>1. Cardinality(B \cup {span.trace}) = n - 1 + 1
        BY <3>4, <3>5, FS_AddElement
      <4> QED BY <1>1, <4>1
    <3>7. SinceIn(es, r, k) = B
      BY <1>2, <2>3, <3>3 DEF B
    <3>8. ~(Cardinality(B \cup {span.trace}) < MaxTraces)
      BY <1>1, <3>3, <3>6
    <3> QED BY <1>10, <2>1, <3>7, <3>8
  <2> QED BY <2>2, <2>3
<1>14. \A p \in DOMAIN new :
         /\ SinceIn(all, new[p].trace, Len(all)) = Behind(new, p)
         /\ KeptOf(all, new[p].trace) # {}
         /\ new[p].spans = Selected(all, KeptOf(all, new[p].trace))
  <2>1. \A p \in DOMAIN new : p = m \/ p \in 1..(m - 1)
    BY <1>7
  <2> QED BY <1>8, <1>11, <1>12, <2>1
<1>15. Collected(new, all)
  BY <1>5, <1>6, <1>7, <1>8, <1>13, <1>14 DEF Collected, m
<1> QED BY <1>15 DEF new, all

-----------------------------------------------------------------------------
(* What a step adds: spans and events, one or two or none.                 *)

SpansEnd ==
  \/ \E span \in Spans : End(span)
  \/ \E first, second \in Spans : EndBoth(first, second)
  \/ UNCHANGED <<traces, ended>>

EventsRecorded == (\E event \in Events : Record(event)) \/ UNCHANGED <<ring, log>>

LEMMA HandlersSpans ==
  ASSUME NEW r \in Request
  PROVE  /\ Root(r) \in Spans /\ Planned(r) \in Spans /\ TenantOf[r] \in Tenants
         /\ Span(r, "query", NoTenant) \in Spans
         /\ Span(r, "connector.execute", NoTenant) \in Spans
         /\ \A tenant \in Tenants :
              /\ Event(r, "query.denied", tenant) \in Events
              /\ Event(r, "query.execute", tenant) \in Events
              /\ Event(r, "query.rate_limited", tenant) \in Events
<1>1. TenantOf[r] \in Tenants /\ NoTenant \in Tenants
  BY DEF Tenants, Tenant
<1> QED BY <1>1 DEF Root, Planned, Span, Spans, Event, Events

LEMMA StepAdds ==
  ASSUME [Next]_vars
  PROVE  SpansEnd /\ EventsRecorded
<1>1. CASE UNCHANGED vars
  BY <1>1 DEF vars, SpansEnd, EventsRecorded
<1>2. CASE ReadDenied
  <2>1. Event(NoTenant, "query.denied", NoTenant) \in Events
    BY DEF Event, Events, Tenants
  <2> QED BY <1>2, <2>1 DEF ReadDenied, Denied, SpansEnd, EventsRecorded
<1>3. ASSUME NEW r \in Request, Handler(r)
      PROVE  SpansEnd /\ EventsRecorded
  <2>1. /\ Root(r) \in Spans /\ Planned(r) \in Spans
        /\ Span(r, "query", NoTenant) \in Spans
        /\ Span(r, "connector.execute", NoTenant) \in Spans
    BY HandlersSpans
  <2>2. /\ Event(r, "query.denied", NoTenant) \in Events
        /\ Event(r, "query.denied", TenantOf[r]) \in Events
        /\ Event(r, "query.execute", TenantOf[r]) \in Events
        /\ Event(r, "query.rate_limited", TenantOf[r]) \in Events
    BY HandlersSpans DEF Tenants
  <2>3. CASE Unauthenticated(r)
    BY <2>1, <2>2, <2>3 DEF Unauthenticated, Denied, SpansEnd, EventsRecorded
  <2>4. CASE Deny(r)
    BY <2>1, <2>2, <2>4 DEF Deny, Denied, Crashes, SpansEnd, EventsRecorded
  <2>5. CASE Limit(r)
    BY <2>1, <2>2, <2>5 DEF Limit, SpansEnd, EventsRecorded
  <2>6. CASE Admit(r)
    BY <2>1, <2>2, <2>6 DEF Admit, SpansEnd, EventsRecorded
  <2>7. CASE JobExecutes(r)
    BY <2>7 DEF JobExecutes, SpansEnd, EventsRecorded
  <2>8. CASE FetchEnds(r)
    BY <2>1, <2>8 DEF FetchEnds, SpansEnd, EventsRecorded
  <2>9. CASE Respond(r)
    BY <2>1, <2>2, <2>9 DEF Respond, SpansEnd, EventsRecorded
  <2>10. CASE RequestTimesOut(r)
    BY <2>1, <2>10 DEF RequestTimesOut, SpansEnd, EventsRecorded
  <2>11. CASE Abort(r)
    BY <2>1, <2>2, <2>11 DEF Abort, Denied, Crashes, SpansEnd, EventsRecorded
  <2> QED BY <1>3, <2>3, <2>4, <2>5, <2>6, <2>7, <2>8, <2>9, <2>10, <2>11 DEF Handler
<1> QED BY <1>1, <1>2, <1>3 DEF Next

-----------------------------------------------------------------------------
(* The collector's invariant.                                              *)

LEMMA CollectedInit == Init => Collected(traces, ended)
<1> SUFFICES ASSUME Init PROVE Collected(<< >>, << >>)
  BY DEF Init
<1>1. << >> \in Seq(Traces) /\ << >> \in Seq(Spans) /\ Len(<< >>) = 0
      /\ DOMAIN << >> = {}
  OBVIOUS
<1>2. MaxTraces \in Nat
  BY TelemetryAssumption
<1>3. \A r : KeptOf(<< >>, r) = {}
  BY <1>1 DEF KeptOf
<1> QED BY <1>1, <1>2, <1>3 DEF Collected, Distinct

LEMMA CollectedNext ==
  Collected(traces, ended) /\ [Next]_vars => Collected(traces, ended)'
<1> SUFFICES ASSUME Collected(traces, ended), [Next]_vars
             PROVE  Collected(traces', ended')
  OBVIOUS
<1>1. SpansEnd
  BY StepAdds
<1>2. ASSUME NEW span \in Spans, End(span)
      PROVE  Collected(traces', ended')
  <2>1. traces' = OnEnd(traces, span) /\ ended' = Append(ended, span)
    BY <1>2 DEF End
  <2>2. Collected(OnEnd(traces, span), Append(ended, span))
    BY CollectedGrows
  <2> QED BY <2>1, <2>2
<1>3. ASSUME NEW first \in Spans, NEW second \in Spans, EndBoth(first, second)
      PROVE  Collected(traces', ended')
  <2> DEFINE ts == OnEnd(traces, first)
             es == Append(ended, first)
  <2>1. traces' = OnEnd(ts, second) /\ ended' = Append(es, second)
    BY <1>3 DEF EndBoth
  <2>2. Collected(ts, es)
    BY CollectedGrows
  <2> HIDE DEF ts, es
  <2>3. Collected(OnEnd(ts, second), Append(es, second))
    BY <2>2, CollectedGrows
  <2> QED BY <2>1, <2>3
<1>4. CASE UNCHANGED <<traces, ended>>
  BY <1>4
<1> QED BY <1>1, <1>2, <1>3, <1>4 DEF SpansEnd

-----------------------------------------------------------------------------
(* What follows of the collector.                                          *)

LEMMA KeptIsKept ==
  /\ \A r, k : LastEnd(r, k) = LastIn(ended, r, k)
  /\ \A i : Kept(i) <=> KeptIn(ended, i)
<1>1. ASSUME NEW r, NEW k
      PROVE  LastEnd(r, k) = LastIn(ended, r, k)
  BY DEF LastEnd, LastIn
<1>2. ASSUME NEW i
      PROVE  Kept(i) <=> KeptIn(ended, i)
  BY <1>1 DEF Kept, KeptIn, SinceIn
<1> QED BY <1>1, <1>2

LEMMA CollectedDrops == Collected(traces, ended) => DropsTheMostSilent
<1> SUFFICES ASSUME Collected(traces, ended), NEW r \in Request
             PROVE  LET kept == {i \in DOMAIN ended : ended[i].trace = r /\ Kept(i)}
                        mine == {i \in DOMAIN traces : traces[i].trace = r}
                    IN  IF kept = {} THEN mine = {}
                        ELSE \E i \in mine : traces[i].spans = Selected(ended, kept)
  BY DEF DropsTheMostSilent
<1> DEFINE kept == {i \in DOMAIN ended : ended[i].trace = r /\ Kept(i)}
           mine == {i \in DOMAIN traces : traces[i].trace = r}
<1>1. kept = KeptOf(ended, r)
  BY KeptIsKept DEF KeptOf
<1>2. \A p \in mine : kept # {} /\ traces[p].spans = Selected(ended, kept)
  BY <1>1 DEF Collected
<1>3. mine = {} => kept = {}
  BY <1>1 DEF Collected
<1> HIDE DEF kept, mine
<1>4. IF kept = {} THEN mine = {}
      ELSE \E i \in mine : traces[i].spans = Selected(ended, kept)
  BY <1>2, <1>3
<1> QED BY <1>4 DEF kept, mine

\* The root that is read is one of the trace's.
LEMMA RootIsFound ==
  ASSUME NEW t \in Traces, HasRoot(t)
  PROVE  \E k \in DOMAIN t.spans : RootOf(t) = t.spans[k] /\ IsRoot(t.spans[k])
<1> DEFINE I == {k \in 1..Len(t.spans) : IsRoot(t.spans[k])}
<1>1. t.spans \in Seq(Spans)
  BY DEF Traces
<1>2. DOMAIN t.spans = 1..Len(t.spans) /\ Len(t.spans) \in Nat
  BY <1>1, LenProperties
<1>3. IsFiniteSet(I) /\ I \in SUBSET Int /\ I # {}
  <2>1. IsFiniteSet(1..Len(t.spans)) /\ I \in SUBSET (1..Len(t.spans))
    BY <1>2, FS_Interval
  <2>2. IsFiniteSet(I)
    BY <2>1, FS_Subset
  <2> QED BY <1>2, <2>1, <2>2 DEF HasRoot
<1>4. SelectInSeq(t.spans, IsRoot) = IF I # {} THEN Min(I) ELSE 0
  BY DEF SelectInSeq
<1>5. \A k \in I : k \in DOMAIN t.spans /\ IsRoot(t.spans[k])
  BY <1>2
<1> HIDE DEF I
<1>6. Min(I) \in I
  BY <1>3, MinIsFirst
<1> QED BY <1>3, <1>4, <1>5, <1>6 DEF RootOf

\* The trace that is shown is the last with a root.
LEMMA LatestIsFound ==
  ASSUME traces \in Seq(Traces)
  PROVE  /\ Latest = << >> => \A p \in DOMAIN traces : ~HasRoot(traces[p])
         /\ Latest # << >> =>
              \E q \in DOMAIN traces :
                /\ Latest = <<traces[q]>> /\ HasRoot(traces[q])
                /\ \A p \in DOMAIN traces : HasRoot(traces[p]) => p <= q
<1> DEFINE I == {k \in 1..Len(traces) : HasRoot(traces[k])}
<1>1. DOMAIN traces = 1..Len(traces) /\ Len(traces) \in Nat
  BY LenProperties
<1>2. IsFiniteSet(I) /\ I \in SUBSET Int /\ 0 \notin I
  <2>1. IsFiniteSet(1..Len(traces)) /\ I \in SUBSET (1..Len(traces))
    BY <1>1, FS_Interval
  <2>2. IsFiniteSet(I)
    BY <2>1, FS_Subset
  <2> QED BY <1>1, <2>1, <2>2
<1>3. SelectLastInSeq(traces, HasRoot) = IF I # {} THEN Max(I) ELSE 0
  BY DEF SelectLastInSeq
<1>4. \A k \in DOMAIN traces : HasRoot(traces[k]) <=> k \in I
  BY <1>1
<1>5. \A k \in I : k \in DOMAIN traces
  BY <1>1
<1> HIDE DEF I
<1>6. CASE I = {}
  BY <1>3, <1>4, <1>6 DEF Latest
<1>7. CASE I # {}
  <2>1. Max(I) \in I /\ \A i \in I : i <= Max(I)
    BY <1>2, <1>7, MaxIsLast
  <2>2. Max(I) # 0
    BY <1>2, <2>1
  <2>3. Latest = <<traces[Max(I)]>>
    BY <1>3, <1>7, <2>2 DEF Latest
  <2>4. Latest # << >>
    BY <2>3
  <2> QED BY <1>4, <1>5, <2>1, <2>3, <2>4
<1> QED BY <1>6, <1>7

\* The root of a trace in the collector is a kept one.
LEMMA ShownRoot ==
  ASSUME Collected(traces, ended), NEW p \in DOMAIN traces, HasRoot(traces[p])
  PROVE  \E i \in KeptOf(ended, traces[p].trace) :
           RootOf(traces[p]) = ended[i] /\ IsRoot(ended[i])
<1> DEFINE K == KeptOf(ended, traces[p].trace)
<1>1. /\ traces \in Seq(Traces) /\ ended \in Seq(Spans)
      /\ traces[p].spans = Selected(ended, K)
  BY DEF Collected
<1>2. traces[p] \in Traces
  BY <1>1, LenProperties, ElementOfSeq
<1>3. K \in SUBSET (DOMAIN ended)
  BY DEF KeptOf
<1> HIDE DEF K
<1>4. IsFiniteSet(K) /\ K \in SUBSET Int
  BY <1>1, <1>3, SelectedType
<1>5. PICK k \in DOMAIN traces[p].spans :
        RootOf(traces[p]) = traces[p].spans[k] /\ IsRoot(traces[p].spans[k])
  BY <1>2, RootIsFound
<1>6. k \in 1..Cardinality(K)
  BY <1>1, <1>4, <1>5, SelectedAt
<1>7. \E i \in K : Selected(ended, K)[k] = ended[i]
  BY <1>4, <1>6, SelectedFrom
<1> QED BY <1>1, <1>5, <1>7 DEF K

\* A root that is kept is in the collector.
LEMMA KeptRootIsShown ==
  ASSUME Collected(traces, ended), NEW i \in DOMAIN ended, KeptIn(ended, i),
         IsRoot(ended[i])
  PROVE  \E p \in DOMAIN traces :
           traces[p].trace = ended[i].trace /\ HasRoot(traces[p])
<1> DEFINE r == ended[i].trace
           K == KeptOf(ended, r)
<1>1. /\ traces \in Seq(Traces) /\ ended \in Seq(Spans)
  BY DEF Collected
<1>2. r \in Request
  <2>1. ended[i] \in Spans
    BY <1>1, LenProperties, ElementOfSeq
  <2> QED BY <2>1 DEF Spans
<1>3. K \in SUBSET (DOMAIN ended) /\ i \in K
  BY DEF KeptOf
<1>4. PICK p \in DOMAIN traces : traces[p].trace = r
  BY <1>2, <1>3 DEF Collected
<1>5. traces[p].spans = Selected(ended, K)
  BY <1>4 DEF Collected
<1> HIDE DEF K
<1>6. IsFiniteSet(K) /\ K \in SUBSET Int
  BY <1>1, <1>3, SelectedType
<1>7. /\ RankIn(K, i) \in 1..Cardinality(K)
      /\ DOMAIN Selected(ended, K) = 1..Cardinality(K)
      /\ Selected(ended, K)[RankIn(K, i)] = ended[i]
  BY <1>3, <1>6, SelectedAt, RankIsPlace
<1>8. HasRoot(traces[p])
  BY <1>5, <1>7 DEF HasRoot
<1> QED BY <1>4, <1>8

\* What was heard of since s ended later than s.
LEMMA HeardIsLater ==
  ASSUME NEW es, NEW r, NEW s, Len(es) \in Nat, r \in SinceIn(es, s, Len(es))
  PROVE  \E j \in (LastIn(es, s, Len(es)) + 1)..Len(es) :
           es[j].trace = r /\ j <= LastIn(es, r, Len(es))
<1>1. PICK j \in (LastIn(es, s, Len(es)) + 1)..Len(es) : es[j].trace = r
  BY DEF SinceIn
<1>2. LastIn(es, s, Len(es)) \in 0..Len(es)
  BY LastInIsLast
<1>3. j \in 1..Len(es)
  BY <1>2
<1>4. j <= LastIn(es, r, Len(es))
  BY <1>1, <1>3, LastInIsLast
<1> QED BY <1>1, <1>4

LEMMA SinceIsFinite ==
  ASSUME NEW es, NEW r, NEW k \in Nat
  PROVE  IsFiniteSet(SinceIn(es, r, k))
<1> DEFINE I == (LastIn(es, r, k) + 1)..k
           f == [j \in I |-> es[j].trace]
<1>1. LastIn(es, r, k) \in 0..k
  BY LastInIsLast
<1>2. IsFiniteSet(I)
  <2>1. LastIn(es, r, k) + 1 \in Int /\ k \in Int
    BY <1>1
  <2> QED BY <2>1, FS_Interval
<1>3. SinceIn(es, r, k) = {f[j] : j \in I}
  BY DEF SinceIn
<1> HIDE DEF I
<1>4. f \in Surjection(I, SinceIn(es, r, k))
  BY <1>3 DEF Surjection
<1> QED BY <1>2, <1>4, FS_Surjection

\* A trace that has something kept was heard of since any trace that lost something.
LEMMA KeptAfterLost ==
  ASSUME NEW es, Len(es) \in Nat, NEW i \in 1..Len(es), KeptIn(es, i),
         NEW l \in 1..Len(es), ~KeptIn(es, l)
  PROVE  LastIn(es, es[i].trace, Len(es)) > l
<1> DEFINE n == Len(es)
           r == es[i].trace
           s == es[l].trace
<1>1. LastIn(es, r, n) \in 0..n /\ i <= LastIn(es, r, n)
  BY LastInIsLast
<1>2. SUFFICES ASSUME LastIn(es, r, n) <= l PROVE FALSE
  BY <1>1
<1>3. PICK k \in l..n : ~(Cardinality(SinceIn(es, s, k)) < MaxTraces)
  BY DEF KeptIn
<1>4. k \in Nat /\ k \in i..n /\ k <= n /\ n \in Nat
  BY <1>1, <1>2
<1>5. Cardinality(SinceIn(es, r, k)) < MaxTraces
  BY <1>4 DEF KeptIn
<1> HIDE DEF n, r, s
<1>6. LastIn(es, s, k) \in 0..k /\ l <= LastIn(es, s, k)
  <2>1. l \in 1..k
    BY <1>3, <1>4
  <2> QED BY <1>4, <2>1, LastInIsLast DEF s
<1>7. LastIn(es, r, k) \in 0..k /\ LastIn(es, r, k) <= l
  <2> DEFINE j == LastIn(es, r, k)
  <2>1. j \in 0..k /\ (j # 0 => es[j].trace = r)
    BY <1>4, LastInIsLast
  <2> HIDE DEF j
  <2>2. CASE j = 0
    BY <2>1, <2>2 DEF j
  <2>3. CASE j # 0
    <3>1. j \in 1..n /\ es[j].trace = r
      BY <1>4, <2>1, <2>3
    <3>2. j <= LastIn(es, r, n)
      BY <3>1, LastInIsLast DEF n
    <3>3. j <= l
      BY <1>1, <1>2, <2>1, <3>2 DEF n, r
    <3> QED BY <2>1, <3>3 DEF j
  <2> QED BY <2>2, <2>3
<1>8. (LastIn(es, s, k) + 1)..k \subseteq (LastIn(es, r, k) + 1)..k
  BY <1>4, <1>6, <1>7
<1>9. SinceIn(es, s, k) \in SUBSET SinceIn(es, r, k)
  BY <1>8 DEF SinceIn
<1>10. IsFiniteSet(SinceIn(es, r, k)) /\ IsFiniteSet(SinceIn(es, s, k))
  BY <1>4, SinceIsFinite
<1>11. Cardinality(SinceIn(es, s, k)) <= Cardinality(SinceIn(es, r, k))
  BY <1>9, <1>10, FS_Subset
<1>12. Cardinality(SinceIn(es, s, k)) \in Nat /\ Cardinality(SinceIn(es, r, k)) \in Nat
       /\ MaxTraces \in Nat
  BY <1>10, FS_CardinalityType, TelemetryAssumption
<1> QED BY <1>3, <1>5, <1>11, <1>12

LEMMA CollectedLatest == Collected(traces, ended) => LatestIsTheTenantsLast
<1> SUFFICES ASSUME Collected(traces, ended), NEW t \in Tenant
             PROVE  LET roots == {i \in DOMAIN ended : IsRoot(ended[i])}
                        last == Max({0} \cup {i \in roots : ended[i].tenant = t})
                        others == {ended[i].trace : i \in {j \in roots : ended[j].tenant # t}}
                    IN  last > 0 =>
                          IF LatestFor(t) = << >>
                          THEN ~Kept(last) \/ \E i \in last..Len(ended) : ended[i].trace \in others
                          ELSE LET r == LatestFor(t)[1].trace
                               IN  r = ended[last].trace \/ LastEnd(r, Len(ended)) > last
  BY DEF LatestIsTheTenantsLast
<1> DEFINE n == Len(ended)
           roots == {i \in DOMAIN ended : IsRoot(ended[i])}
           S == {0} \cup {i \in roots : ended[i].tenant = t}
           last == Max(S)
           others == {ended[i].trace : i \in {j \in roots : ended[j].tenant # t}}
           Shown(r) == r = ended[last].trace \/ LastEnd(r, n) > last
<1>1. /\ traces \in Seq(Traces) /\ ended \in Seq(Spans) /\ Distinct(traces)
      /\ DOMAIN traces = 1..Len(traces) /\ Len(traces) \in Nat
      /\ DOMAIN ended = 1..n /\ n \in Nat
  BY LenProperties DEF Collected
<1>2. S \in SUBSET (0..n) /\ IsFiniteSet(S) /\ S \in SUBSET Int /\ S # {}
  <2>1. S \in SUBSET (0..n) /\ S # {}
    BY <1>1
  <2>2. IsFiniteSet(0..n)
    BY <1>1, FS_Interval
  <2> HIDE DEF S
  <2>3. IsFiniteSet(S)
    BY <2>1, <2>2, FS_Subset
  <2> QED BY <2>1, <2>3
<1>3. /\ \A i \in S : i # 0 => i \in DOMAIN ended /\ IsRoot(ended[i]) /\ ended[i].tenant = t
      /\ \A i \in DOMAIN ended : IsRoot(ended[i]) /\ ended[i].tenant = t => i \in S
  OBVIOUS
<1>4. last \in S /\ \A i \in S : i <= last
  <2> HIDE DEF S
  <2> QED BY <1>2, MaxIsLast
<1>5. \A i \in DOMAIN ended :
        IsRoot(ended[i]) /\ ended[i].tenant # t => ended[i].trace \in others
  OBVIOUS
<1> HIDE DEF S, last, others
<1>6. SUFFICES ASSUME last > 0
               PROVE  IF LatestFor(t) = << >>
                      THEN ~Kept(last) \/ \E i \in last..n : ended[i].trace \in others
                      ELSE Shown(LatestFor(t)[1].trace)
  BY DEF S, last, others
<1> DEFINE s == ended[last].trace
<1>7. last \in 1..n /\ IsRoot(ended[last])
  BY <1>1, <1>2, <1>3, <1>4, <1>6
<1>8. last <= LastIn(ended, s, n) /\ LastIn(ended, s, n) \in 0..n
  BY <1>1, <1>7, LastInIsLast
<1>9. ASSUME KeptIn(ended, last)
      PROVE  \E p \in DOMAIN traces : traces[p].trace = s /\ HasRoot(traces[p])
  BY <1>1, <1>7, <1>9, KeptRootIsShown
\* What is behind the trace of last was heard of after it.
<1>10. ASSUME NEW p \in DOMAIN traces, traces[p].trace = s,
              NEW q \in DOMAIN traces, p <= q, p # q
       PROVE  \E j \in last..n : /\ ended[j].trace = traces[q].trace
                                 /\ last < j /\ j <= LastIn(ended, traces[q].trace, n)
  <2> DEFINE r == traces[q].trace
  <2>1. q \in (p + 1)..Len(traces)
    BY <1>1, <1>10
  <2>2. r \in Behind(traces, p)
    BY <2>1 DEF Behind
  <2>3. r \in SinceIn(ended, s, n)
    BY <1>10, <2>2 DEF Collected
  <2> HIDE DEF r, s
  <2>4. PICK j \in (LastIn(ended, s, n) + 1)..n :
          ended[j].trace = r /\ j <= LastIn(ended, r, n)
    BY <1>1, <2>3, HeardIsLater
  <2>5. j \in last..n /\ last < j
    BY <1>1, <1>7, <1>8
  <2> QED BY <2>4, <2>5 DEF r
<1>11. CASE LatestFor(t) = << >>
  <2> SUFFICES ASSUME KeptIn(ended, last)
               PROVE  \E i \in last..n : ended[i].trace \in others
    BY <1>11, KeptIsKept
  <2>1. PICK p \in DOMAIN traces : traces[p].trace = s /\ HasRoot(traces[p])
    BY <1>9
  <2>2. Latest # << >>
    BY <1>1, <2>1, LatestIsFound
  <2>3. PICK q \in DOMAIN traces :
          /\ Latest = <<traces[q]>> /\ HasRoot(traces[q])
          /\ \A k \in DOMAIN traces : HasRoot(traces[k]) => k <= q
    BY <1>1, <2>2, LatestIsFound
  <2>4. RootOf(traces[q]).tenant # t
    <3>1. Latest[1] = traces[q]
      BY <2>3
    <3> QED BY <1>11, <2>2, <3>1 DEF LatestFor
  <2>5. PICK i \in KeptOf(ended, traces[q].trace) :
          RootOf(traces[q]) = ended[i] /\ IsRoot(ended[i])
    BY <2>3, ShownRoot
  <2>6. traces[q].trace \in others
    <3>1. i \in DOMAIN ended /\ ended[i].trace = traces[q].trace
      BY DEF KeptOf
    <3> QED BY <1>5, <2>4, <2>5, <3>1
  <2>7. CASE p = q
    <3>1. last \in last..n
      BY <1>1, <1>7
    <3> QED BY <2>1, <2>6, <2>7, <3>1
  <2>8. CASE p # q
    BY <1>10, <2>1, <2>3, <2>6, <2>8
  <2> QED BY <2>7, <2>8
<1>12. CASE LatestFor(t) # << >>
  <2>1. LatestFor(t) = Latest /\ Latest # << >> /\ RootOf(Latest[1]).tenant = t
    BY <1>12 DEF LatestFor
  <2>2. PICK q \in DOMAIN traces :
          /\ Latest = <<traces[q]>> /\ HasRoot(traces[q])
          /\ \A k \in DOMAIN traces : HasRoot(traces[k]) => k <= q
    BY <1>1, <2>1, LatestIsFound
  <2> DEFINE r == traces[q].trace
  <2>3. LatestFor(t)[1].trace = r /\ RootOf(traces[q]).tenant = t
    <3>1. Latest[1] = traces[q]
      BY <2>2
    <3> QED BY <2>1, <3>1
  <2>4. PICK i \in KeptOf(ended, r) : RootOf(traces[q]) = ended[i] /\ IsRoot(ended[i])
    BY <2>2, ShownRoot
  <2>5. i \in 1..n /\ ended[i].trace = r /\ KeptIn(ended, i)
    BY <1>1 DEF KeptOf
  <2>6. LastEnd(r, n) = LastIn(ended, r, n) /\ LastIn(ended, r, n) \in 0..n
    BY <1>1, KeptIsKept, LastInIsLast
  <2>7. CASE KeptIn(ended, last)
    <3>1. PICK p \in DOMAIN traces : traces[p].trace = s /\ HasRoot(traces[p])
      BY <1>9, <2>7
    <3>2. CASE p = q
      BY <1>12, <2>3, <3>1, <3>2
    <3>3. CASE p # q
      <4>1. p <= q
        BY <2>2, <3>1
      <4>2. PICK j \in last..n : last < j /\ j <= LastIn(ended, r, n)
        BY <1>10, <3>1, <3>3, <4>1
      <4>3. LastEnd(r, n) > last
        BY <1>7, <2>6, <4>2
      <4> QED BY <1>12, <2>3, <4>3
    <3> QED BY <3>2, <3>3
  <2>8. CASE ~KeptIn(ended, last)
    <3>1. LastIn(ended, ended[i].trace, n) > last
      BY <1>1, <1>7, <2>5, <2>8, KeptAfterLost
    <3>2. LastEnd(r, n) > last
      BY <2>5, <2>6, <3>1
    <3> QED BY <1>12, <2>3, <3>2
  <2> QED BY <2>7, <2>8
<1> QED BY <1>11, <1>12

-----------------------------------------------------------------------------
(* The ring is the end of the log.                                         *)

\* The last n of a sequence.
LEMMA LastOfIs ==
  ASSUME NEW T, NEW seq \in Seq(T), NEW n \in Nat \ {0}
  PROVE  \E off \in 0..Len(seq) :
           /\ off = IF Len(seq) > n THEN Len(seq) - n ELSE 0
           /\ LastOf(n, seq) = SubSeq(seq, off + 1, Len(seq))
           /\ LastOf(n, seq) \in Seq(T) /\ Len(LastOf(n, seq)) = Len(seq) - off
           /\ \A k \in 1..(Len(seq) - off) : LastOf(n, seq)[k] = seq[off + k]
<1> DEFINE m == Len(seq)
           off == IF m > n THEN m - n ELSE 0
<1>1. m \in Nat
  BY LenProperties
<1> HIDE DEF m
<1>2. off \in 0..m
  BY <1>1
<1>3. Max({1, m - n + 1}) = off + 1
  <2>1. {1, m - n + 1} \in SUBSET Int /\ IsFiniteSet({1, m - n + 1})
    <3>3. IsFiniteSet({1})
      BY FS_Singleton
    <3>1. IsFiniteSet({1} \cup {m - n + 1})
      BY <3>3, FS_AddElement
    <3>2. {1} \cup {m - n + 1} = {1, m - n + 1}
      OBVIOUS
    <3> QED BY <1>1, <3>1, <3>2
  <2>2. /\ Max({1, m - n + 1}) \in {1, m - n + 1}
        /\ \A i \in {1, m - n + 1} : i <= Max({1, m - n + 1})
    BY <2>1, MaxIsLast
  <2> QED BY <1>1, <2>2
<1>4. LastOf(n, seq) = SubSeq(seq, off + 1, m)
  BY <1>3 DEF LastOf, m
<1> HIDE DEF off
<1>5. /\ LastOf(n, seq) \in Seq(T) /\ Len(LastOf(n, seq)) = m - off
      /\ \A k \in 1..(m - off) : LastOf(n, seq)[k] = seq[off + k]
  BY <1>2, <1>4, PartAfter DEF m
<1> QED BY <1>2, <1>4, <1>5 DEF off, m

\* The ring, after one more event, is again the end of the log.
LEMMA LastOfAppend ==
  ASSUME NEW T, NEW seq \in Seq(T), NEW e \in T, NEW n \in Nat \ {0}
  PROVE  LastOf(n, Append(LastOf(n, seq), e)) = LastOf(n, Append(seq, e))
<1> DEFINE m == Len(seq)
           ring0 == LastOf(n, seq)
           all == Append(seq, e)
           long == Append(ring0, e)
<1>1. PICK a \in 0..m :
        /\ a = IF m > n THEN m - n ELSE 0
        /\ ring0 \in Seq(T) /\ Len(ring0) = m - a
        /\ \A k \in 1..(m - a) : ring0[k] = seq[a + k]
  BY LastOfIs
<1>2. m \in Nat /\ all \in Seq(T) /\ Len(all) = m + 1 /\ all[m + 1] = e
      /\ \A k \in 1..m : all[k] = seq[k]
  BY LenProperties, AppendProperties
<1> HIDE DEF m, ring0
<1>3. long \in Seq(T) /\ Len(long) = m - a + 1 /\ long[m - a + 1] = e
      /\ \A k \in 1..(m - a) : long[k] = ring0[k]
  BY <1>1, AppendProperties
<1> HIDE DEF all, long
<1>4. \A k \in 1..(m - a + 1) : long[k] = all[a + k]
  <2> TAKE k \in 1..(m - a + 1)
  <2>1. CASE k = m - a + 1
    <3>1. a + k = m + 1
      BY <1>1, <1>2, <2>1
    <3>2. long[k] = e /\ all[a + k] = e
      BY <1>2, <1>3, <2>1, <3>1
    <3> QED BY <3>2
  <2>2. CASE k # m - a + 1
    <3>1. k \in 1..(m - a) /\ a + k \in 1..m
      BY <1>1, <1>2, <2>2
    <3>2. long[k] = ring0[k] /\ ring0[k] = seq[a + k]
      BY <1>1, <1>3, <3>1
    <3>3. all[a + k] = seq[a + k]
      BY <1>2, <3>1
    <3> QED BY <3>2, <3>3
  <2> QED BY <2>1, <2>2
<1>5. PICK b \in 0..Len(all) :
        /\ b = IF Len(all) > n THEN Len(all) - n ELSE 0
        /\ LastOf(n, all) \in Seq(T) /\ Len(LastOf(n, all)) = Len(all) - b
        /\ \A k \in 1..(Len(all) - b) : LastOf(n, all)[k] = all[b + k]
  <2>1. all \in Seq(T)
    BY <1>2
  <2> QED BY <2>1, LastOfIs
<1>6. PICK c \in 0..Len(long) :
        /\ c = IF Len(long) > n THEN Len(long) - n ELSE 0
        /\ LastOf(n, long) \in Seq(T) /\ Len(LastOf(n, long)) = Len(long) - c
        /\ \A k \in 1..(Len(long) - c) : LastOf(n, long)[k] = long[c + k]
  <2>1. long \in Seq(T)
    BY <1>3
  <2> QED BY ZenonT(60), <2>1, LastOfIs
<1>7. a + c = b /\ a \in Nat /\ b \in Nat /\ c \in Nat /\ b <= m + 1
  <2>1. a \in Nat /\ b \in Int /\ c \in Int /\ m \in Nat /\ n \in Nat
    BY <1>1, <1>2, <1>3, <1>5, <1>6
  <2>2. /\ a = IF m > n THEN m - n ELSE 0
        /\ b = IF m + 1 > n THEN m + 1 - n ELSE 0
        /\ c = IF m - a + 1 > n THEN m - a + 1 - n ELSE 0
    BY <1>1, <1>2, <1>3, <1>5, <1>6
  <2>3. CASE m > n
    <3>1. a = m - n /\ b = m + 1 - n
      BY <2>1, <2>2, <2>3
    <3>2. c = 1
      BY <2>1, <2>2, <2>3, <3>1
    <3> QED BY <2>1, <2>3, <3>1, <3>2
  <2>4. CASE ~(m > n)
    <3>1. a = 0
      BY <2>2, <2>4
    <3>2. b = c
      BY <2>1, <2>2, <3>1
    <3>3. b \in 0..(m + 1)
      BY <2>1, <2>2, <2>4
    <3> QED BY <2>1, <3>1, <3>2, <3>3
  <2> QED BY <2>3, <2>4
<1>8. ASSUME NEW k \in 1..(m + 1 - b)
      PROVE  LastOf(n, long)[k] = LastOf(n, all)[k]
  <2>1. /\ k \in 1..(Len(long) - c) /\ k \in 1..(Len(all) - b)
        /\ c + k \in 1..(m - a + 1) /\ a + (c + k) = b + k
    BY <1>2, <1>3, <1>7
  <2>2. LastOf(n, long)[k] = long[c + k]
    BY <1>6, <2>1
  <2>3. LastOf(n, all)[k] = all[b + k]
    BY <1>5, <2>1
  <2> QED BY <1>4, <2>1, <2>2, <2>3
<1>9. Len(LastOf(n, long)) = Len(LastOf(n, all)) /\ Len(LastOf(n, all)) = m + 1 - b
  BY <1>2, <1>3, <1>5, <1>6, <1>7
<1>10. LastOf(n, long) = LastOf(n, all)
  <2>1. LastOf(n, long) \in Seq(T) /\ LastOf(n, all) \in Seq(T)
    BY <1>5, <1>6
  <2>2. \A k \in 1..Len(LastOf(n, long)) : LastOf(n, long)[k] = LastOf(n, all)[k]
    BY <1>8, <1>9
  <2> QED BY <1>9, <2>1, <2>2, SeqEqual
<1> QED BY <1>10 DEF long, all, ring0

RingIsLast == log \in Seq(Events) /\ ring = LastOf(RingSize, log)

LEMMA RingInit == Init => RingIsLast
<1> SUFFICES ASSUME Init PROVE RingIsLast
  OBVIOUS
<1>1. ring = << >> /\ log = << >>
  BY DEF Init
<1>2. RingSize \in Nat \ {0} /\ log \in Seq(Events) /\ Len(log) = 0
  BY <1>1, TelemetryAssumption
<1>3. LastOf(RingSize, log) \in Seq(Events) /\ Len(LastOf(RingSize, log)) = 0
  <2>1. PICK off \in 0..Len(log) : /\ LastOf(RingSize, log) \in Seq(Events)
                                   /\ Len(LastOf(RingSize, log)) = Len(log) - off
    BY ZenonT(60), <1>2, LastOfIs
  <2>2. off \in 0..0 /\ Len(LastOf(RingSize, log)) = 0 - off
    BY <1>2, <2>1
  <2>3. off = 0
    BY <2>2
  <2> QED BY <2>1, <2>2, <2>3
<1>4. LastOf(RingSize, log) = << >>
  BY <1>3, EmptySeq
<1> QED BY <1>1, <1>2, <1>4 DEF RingIsLast

LEMMA RingNext == RingIsLast /\ [Next]_vars => RingIsLast'
<1> SUFFICES ASSUME RingIsLast, [Next]_vars PROVE RingIsLast'
  OBVIOUS
<1>1. EventsRecorded
  BY StepAdds
<1>2. ASSUME NEW event \in Events, Record(event)
      PROVE  RingIsLast'
  <2>1. ring' = LastOf(RingSize, Append(ring, event)) /\ log' = Append(log, event)
    BY <1>2 DEF Record
  <2>2. RingSize \in Nat \ {0} /\ log \in Seq(Events) /\ ring = LastOf(RingSize, log)
    BY TelemetryAssumption DEF RingIsLast
  <2>3. LastOf(RingSize, Append(LastOf(RingSize, log), event))
          = LastOf(RingSize, Append(log, event))
    BY <2>2, LastOfAppend
  <2>4. Append(log, event) \in Seq(Events)
    BY <2>2, AppendProperties
  <2> QED BY <2>1, <2>2, <2>3, <2>4 DEF RingIsLast
<1>3. CASE UNCHANGED <<ring, log>>
  BY <1>3 DEF RingIsLast
<1> QED BY <1>1, <1>2, <1>3 DEF EventsRecorded

LEMMA CardinalityWithout ==
  ASSUME NEW S, IsFiniteSet(S), NEW U \in SUBSET S
  PROVE  /\ IsFiniteSet(S \ U) /\ IsFiniteSet(U)
         /\ Cardinality(S \ U) = Cardinality(S) - Cardinality(U)
         /\ Cardinality(S) \in Nat /\ Cardinality(U) \in Nat
<1>1. IsFiniteSet(S \ U) /\ Cardinality(S \ U) = Cardinality(S) - Cardinality(S \cap U)
  BY FS_Difference
<1>2. S \cap U = U
  OBVIOUS
<1>3. IsFiniteSet(U)
  BY FS_Subset
<1> QED BY <1>1, <1>2, <1>3, FS_CardinalityType

\* The last n of a selection are the selection of the last n places.
LEMMA LastOfSelected ==
  ASSUME NEW T, NEW seq \in Seq(T), NEW S \in SUBSET (DOMAIN seq), NEW n \in Nat \ {0}
  PROVE  LastOf(n, Selected(seq, S))
           = Selected(seq, {i \in S : Cardinality({j \in S : j > i}) < n})
<1> DEFINE m == Cardinality(S)
           sel == Selected(seq, S)
           out == LastOf(n, sel)
           off == IF m > n THEN m - n ELSE 0
           last == {i \in S : Cardinality({j \in S : j > i}) < n}
           early == {i \in S : RankIn(S, i) <= off}
<1>1. /\ S \in SUBSET Int /\ IsFiniteSet(S) /\ sel \in Seq(T) /\ m \in Nat /\ Len(sel) = m
      /\ \A i \in S : sel[RankIn(S, i)] = seq[i] /\ RankIn(S, i) \in 1..m
  <2>1. S \in SUBSET Int /\ IsFiniteSet(S) /\ sel \in Seq(T)
    BY SelectedType
  <2> QED BY <2>1, SelectedAt, RankIsPlace, FS_CardinalityType
<1> HIDE DEF m, sel, out
<1>2. off \in 0..m /\ off \in Nat
  BY <1>1
<1>3. /\ out \in Seq(T) /\ Len(out) = m - off
      /\ \A k \in 1..(m - off) : out[k] = sel[off + k]
  <2>1. PICK a \in 0..Len(sel) :
          /\ a = IF Len(sel) > n THEN Len(sel) - n ELSE 0
          /\ LastOf(n, sel) \in Seq(T) /\ Len(LastOf(n, sel)) = Len(sel) - a
          /\ \A k \in 1..(Len(sel) - a) : LastOf(n, sel)[k] = sel[a + k]
    <3>1. sel \in Seq(T)
      BY <1>1
    <3> QED BY ZenonT(60), <3>1, LastOfIs
  <2> QED BY <1>1, <2>1 DEF out
<1>4. ASSUME NEW i \in S
      PROVE  i \in last <=> RankIn(S, i) > off
  <2> DEFINE U == {j \in S : j <= i}
             V == {j \in S : j > i}
  <2>1. \A j \in S : j \in Int /\ i \in Int
    BY <1>1
  <2>2. U \in SUBSET S /\ V = S \ U
    BY <2>1
  <2>3. Cardinality(U) = RankIn(S, i)
    BY DEF RankIn
  <2>4. i \in last <=> Cardinality(V) < n
    OBVIOUS
  <2> HIDE DEF U, V, last
  <2>5. Cardinality(V) = m - RankIn(S, i)
    BY <1>1, <2>2, <2>3, CardinalityWithout DEF m
  <2>6. RankIn(S, i) \in 1..m
    BY <1>1
  <2> QED BY <1>1, <2>4, <2>5, <2>6
<1>5. last \in SUBSET S
  OBVIOUS
<1> HIDE DEF off, last
<1>6. IsFiniteSet(early) /\ Cardinality(early) = off /\ early \in SUBSET S
  <2> DEFINE f == [i \in early |-> RankIn(S, i)]
  <2>1. early \in SUBSET S
    OBVIOUS
  <2>2. f \in [early -> 1..off]
    BY <1>1, <1>2
  <2>3. \A k \in 1..off : \E i \in early : f[i] = k
    <3> TAKE k \in 1..off
    <3>1. k \in 1..Cardinality(S)
      BY <1>1, <1>2 DEF m
    <3>2. PICK i \in S : RankIn(S, i) = k
      BY <1>1, <3>1, RankIsOnto
    <3> QED BY <1>2, <3>2
  <2>4. \A i, j \in early : f[i] = f[j] => i = j
    BY <1>1, RankIsInjective
  <2> HIDE DEF f
  <2>5. f \in Surjection(early, 1..off) /\ f \in Injection(early, 1..off)
    BY <2>2, <2>3, <2>4 DEF Surjection, Injection, IsInjective
  <2> HIDE DEF early
  <2>6. IsFiniteSet(early)
    BY <1>1, <2>1, FS_Subset
  <2>7. Cardinality(early) = Cardinality(1..off)
    BY <2>5, <2>6, FS_Surjection
  <2>8. Cardinality(1..off) = off
    <3>1. 1 \in Int /\ off \in Int
      BY <1>2
    <3>2. Cardinality(1..off) = IF 1 > off THEN 0 ELSE off - 1 + 1
      BY <3>1, FS_Interval
    <3> QED BY <1>2, <3>2
  <2> QED BY <2>1, <2>6, <2>7, <2>8
<1>7. last = S \ early
  BY <1>1, <1>2, <1>4, <1>5
<1>8. IsFiniteSet(last) /\ last \in SUBSET Int /\ Cardinality(last) = m - off
  BY <1>1, <1>5, <1>6, <1>7, CardinalityWithout DEF m
<1>9. ASSUME NEW i \in last
      PROVE  out[RankIn(last, i)] = seq[i]
  <2> DEFINE U == {j \in S : j <= i}
  <2>1. i \in S /\ RankIn(S, i) > off /\ RankIn(S, i) \in 1..m
    BY <1>1, <1>4, <1>5
  <2>2. early \in SUBSET U
    <3> SUFFICES ASSUME NEW j \in early
                 PROVE  j <= i
      BY <1>6
    <3>1. j \in S /\ RankIn(S, j) <= off /\ RankIn(S, j) \in 1..m
      BY <1>1
    <3>2. ~(i < j)
      <4> SUFFICES ASSUME i < j PROVE FALSE
        OBVIOUS
      <4>1. RankIn(S, i) < RankIn(S, j)
        BY <1>1, <2>1, <3>1, RankGrows
      <4> QED BY <1>2, <2>1, <3>1, <4>1
    <3>3. i \in Int /\ j \in Int
      BY <1>1, <2>1, <3>1
    <3> QED BY <3>2, <3>3
  <2>3. {j \in last : j <= i} = U \ early
    BY <1>7
  <2>4. IsFiniteSet(U) /\ Cardinality(U) = RankIn(S, i)
    <3>1. IsFiniteSet(U)
      <4>1. IsFiniteSet(S) /\ U \in SUBSET S
        BY <1>1
      <4> HIDE DEF U
      <4> QED BY <4>1, FS_Subset
    <3>2. Cardinality(U) = RankIn(S, i)
      BY DEF RankIn
    <3> QED BY <3>1, <3>2
  <2> HIDE DEF U, early
  <2>5. RankIn(last, i) = RankIn(S, i) - off
    BY <1>6, <2>2, <2>3, <2>4, CardinalityWithout DEF RankIn
  <2>6. RankIn(last, i) \in 1..(m - off) /\ off + RankIn(last, i) = RankIn(S, i)
    BY <1>1, <1>2, <2>1, <2>5
  <2>7. out[RankIn(last, i)] = sel[RankIn(S, i)]
    BY <1>3, <2>6
  <2> QED BY <1>1, <2>1, <2>7
<1>10. out = [k \in 1..Cardinality(last) |-> out[k]]
  <2>1. out \in [1..Len(out) -> T]
    BY <1>3, LenProperties
  <2> QED BY <1>3, <1>8, <2>1
<1>11. out = Selected(seq, last)
  BY <1>8, <1>9, <1>10, IsSelected, ZenonT(90)
<1> QED BY <1>11 DEF out, sel, last

LEMMA RingRecent == RingIsLast => RecentAreTheTenantsLast
<1> SUFFICES ASSUME RingIsLast, NEW t \in Tenant, NEW n \in 1..RingSize
             PROVE  LET mine == {i \in DOMAIN log : log[i].tenant = t /\ i > Len(log) - RingSize}
                        last == {i \in mine : Cardinality({j \in mine : j > i}) < n}
                    IN  Recent(n, t) = Selected(log, last)
  BY DEF RecentAreTheTenantsLast
<1> DEFINE m == Len(log)
           mine == {i \in DOMAIN log : log[i].tenant = t /\ i > m - RingSize}
           last == {i \in mine : Cardinality({j \in mine : j > i}) < n}
           R == {i \in DOMAIN ring : ring[i].tenant = t}
<1>1. /\ RingSize \in Nat \ {0} /\ n \in Nat \ {0} /\ n > 0
      /\ log \in Seq(Events) /\ DOMAIN log = 1..m /\ m \in Nat
  BY TelemetryAssumption, LenProperties DEF RingIsLast
<1>2. PICK off \in 0..m :
        /\ off = IF m > RingSize THEN m - RingSize ELSE 0
        /\ ring \in Seq(Events) /\ Len(ring) = m - off
        /\ \A k \in 1..(m - off) : ring[k] = log[off + k]
  <2>1. log \in Seq(Events) /\ RingSize \in Nat \ {0}
    BY <1>1
  <2>2. \E off \in 0..Len(log) :
          /\ off = IF Len(log) > RingSize THEN Len(log) - RingSize ELSE 0
          /\ LastOf(RingSize, log) = SubSeq(log, off + 1, Len(log))
          /\ LastOf(RingSize, log) \in Seq(Events)
          /\ Len(LastOf(RingSize, log)) = Len(log) - off
          /\ \A k \in 1..(Len(log) - off) : LastOf(RingSize, log)[k] = log[off + k]
    BY <2>1, LastOfIs
  <2>3. ring = LastOf(RingSize, log)
    BY DEF RingIsLast
  <2> HIDE DEF R, mine, last
  <2> QED BY <2>2, <2>3
<1> HIDE DEF m
<1>3. DOMAIN ring = 1..(m - off) /\ off \in Int
  <2>1. DOMAIN ring = 1..Len(ring)
    BY <1>2, LenProperties
  <2> QED BY <1>1, <1>2, <2>1
<1>4. R \in SUBSET (DOMAIN ring) /\ \A i \in R : ring[i] = log[i + off]
  <2> SUFFICES ASSUME NEW i \in R PROVE ring[i] = log[i + off]
    OBVIOUS
  <2>1. i \in 1..(m - off)
    BY <1>3
  <2>2. ring[i] = log[off + i] /\ off + i = i + off
    BY <1>2, <1>3, <2>1
  <2> QED BY <2>2
<1>5. mine = {i + off : i \in R}
  <2>1. ASSUME NEW i \in R
        PROVE  i + off \in mine
    <3>1. i \in 1..(m - off) /\ ring[i].tenant = t
      BY <1>3
    <3>2. i + off \in 1..m /\ i + off > m - RingSize
      BY <1>1, <1>2, <3>1
    <3> QED BY <1>1, <1>4, <3>1, <3>2
  <2>2. ASSUME NEW i \in mine
        PROVE  i - off \in R /\ (i - off) + off = i
    <3>1. i \in 1..m /\ i > m - RingSize /\ log[i].tenant = t
      BY <1>1
    <3>2. i - off \in 1..(m - off) /\ off + (i - off) = i /\ (i - off) + off = i
      BY <1>1, <1>2, <3>1
    <3>3. ring[i - off] = log[off + (i - off)]
      BY <1>2, <3>2
    <3>4. ring[i - off].tenant = t
      BY <3>1, <3>2, <3>3
    <3> QED BY <1>3, <3>2, <3>4
  <2> HIDE DEF mine, R
  <2> QED BY <2>1, <2>2
<1>6. mine \in SUBSET (DOMAIN log)
  OBVIOUS
<1>7. Recent(n, t) = LastOf(n, Selected(ring, R))
  BY <1>1 DEF Recent
<1> HIDE DEF mine, R
<1>8. IsFiniteSet(R) /\ R \in SUBSET Int
  BY <1>2, <1>4, SelectedType
<1>9. Selected(ring, R) = Selected(log, mine)
  <2>1. off \in Int /\ IsFiniteSet(R) /\ R \in SUBSET Int
    BY <1>3, <1>8
  <2>2. \A i \in R : i + off \in mine /\ ring[i] = log[i + off]
    BY <1>4, <1>5
  <2>3. \A v \in mine : v \in Int /\ v - off \in R
    BY <1>1, <1>5, <1>6, <1>8, <2>1
  <2> QED BY <2>1, <2>2, <2>3, SelectedShifts
<1>10. LastOf(n, Selected(log, mine)) = Selected(log, last)
  <2>1. log \in Seq(Events) /\ n \in Nat \ {0}
    BY <1>1
  <2> QED BY <1>6, <2>1, LastOfSelected
<1> HIDE DEF last
<1>11. Recent(n, t) = Selected(log, last)
  BY <1>7, <1>9, <1>10
<1> QED BY <1>11 DEF last, mine, m

-----------------------------------------------------------------------------
(* The types, and the counters.                                            *)

Typed ==
  /\ phase \in [Request -> {"new", "fetching", "raised", "queued", "closed", "crashed"}]
  /\ running \in [Request -> Int] /\ \A r \in Request : running[r] \in 0..Fetches[r]
  /\ errors \in Nat /\ durations \in [Status -> Nat]

\* A handler's step of its query.
LEMMA GoesKeepsPhases ==
  ASSUME Typed, NEW r \in Request, NEW from, 
         NEW to \in {"new", "fetching", "raised", "queued", "closed", "crashed"},
         Goes(r, from, to)
  PROVE  /\ phase' \in [Request -> {"new", "fetching", "raised", "queued", "closed", "crashed"}]
         /\ phase' = [phase EXCEPT ![r] = to] /\ phase[r] = from /\ phase'[r] = to
         /\ \A q \in Request : q # r => phase'[q] = phase[q]
BY DEF Typed, Goes

LEMMA ObservedKeepsTypes ==
  ASSUME Typed, NEW s \in Status, Observed(s)
  PROVE  /\ errors' = errors /\ errors' \in Nat /\ durations' \in [Status -> Nat]
         /\ durations'[s] = durations[s] + 1
         /\ \A o \in Status : o # s => durations'[o] = durations[o]
BY DEF Typed, Observed

LEMMA TypedNext == Typed /\ [Next]_vars => Typed'
<1> SUFFICES ASSUME Typed, [Next]_vars PROVE Typed'
  OBVIOUS
<1>1. CASE UNCHANGED vars
  BY <1>1 DEF vars, Typed
<1>2. CASE ReadDenied
  BY <1>2 DEF ReadDenied, Denied, Typed
<1>3. ASSUME NEW r \in Request, Handler(r)
      PROVE  Typed'
  <2>1. {"ok", "rate_limited", "request_timeout"} = Status
    BY DEF Status
  <2>2. Fetches[r] \in Nat
    BY TelemetryAssumption
  <2>3. CASE Unauthenticated(r)
    BY <2>3, GoesKeepsPhases DEF Unauthenticated, Denied, Typed
  <2>4. CASE Deny(r)
    <3>1. phase' \in [Request -> {"new", "fetching", "raised", "queued", "closed", "crashed"}]
      BY <2>4, GoesKeepsPhases DEF Deny, Crashes
    <3> QED BY <2>4, <3>1 DEF Deny, Denied, Crashes, Typed
  <2>5. CASE Limit(r)
    <3>1. phase' \in [Request -> {"new", "fetching", "raised", "queued", "closed", "crashed"}]
      BY <2>5, GoesKeepsPhases DEF Limit
    <3>2. errors' \in Nat /\ durations' \in [Status -> Nat]
      BY <2>1, <2>5, ObservedKeepsTypes DEF Limit
    <3> QED BY <2>5, <3>1, <3>2 DEF Limit, Typed
  <2>6. CASE Admit(r)
    <3>1. phase' \in [Request -> {"new", "fetching", "raised", "queued", "closed", "crashed"}]
      BY <2>6, GoesKeepsPhases DEF Admit
    <3>2. /\ running' \in [Request -> Int]
          /\ \A q \in Request : running'[q] \in 0..Fetches[q]
      BY <2>2, <2>6 DEF Admit, Starts, Typed
    <3> QED BY <2>6, <3>1, <3>2 DEF Admit, Typed
  <2>7. CASE JobExecutes(r)
    <3>1. phase' \in [Request -> {"new", "fetching", "raised", "queued", "closed", "crashed"}]
      BY <2>7, GoesKeepsPhases DEF JobExecutes
    <3>2. /\ running' \in [Request -> Int]
          /\ \A q \in Request : running'[q] \in 0..Fetches[q]
      BY <2>2, <2>7 DEF JobExecutes, Starts, Typed
    <3> QED BY <2>7, <3>1, <3>2 DEF JobExecutes, Typed
  <2>8. CASE FetchEnds(r)
    <3>1. phase' \in [Request -> {"new", "fetching", "raised", "queued", "closed", "crashed"}]
      BY <2>8 DEF FetchEnds, Typed
    <3>2. /\ running' \in [Request -> Int]
          /\ \A q \in Request : running'[q] \in 0..Fetches[q]
      BY <2>2, <2>8 DEF FetchEnds, Typed
    <3> QED BY <2>8, <3>1, <3>2 DEF FetchEnds, Typed
  <2>9. CASE Respond(r)
    <3>1. phase' \in [Request -> {"new", "fetching", "raised", "queued", "closed", "crashed"}]
      BY <2>9, GoesKeepsPhases DEF Respond
    <3>2. errors' \in Nat /\ durations' \in [Status -> Nat]
      BY <2>1, <2>9, ObservedKeepsTypes DEF Respond
    <3> QED BY <2>9, <3>1, <3>2 DEF Respond, Typed
  <2>10. CASE RequestTimesOut(r)
    <3>1. phase' \in [Request -> {"new", "fetching", "raised", "queued", "closed", "crashed"}]
      BY <2>10, GoesKeepsPhases DEF RequestTimesOut
    <3>2. errors' \in Nat /\ durations' \in [Status -> Nat]
      BY <2>1, <2>10, ObservedKeepsTypes DEF RequestTimesOut
    <3> QED BY <2>10, <3>1, <3>2 DEF RequestTimesOut, Typed
  <2>11. CASE Abort(r)
    <3>1. phase' \in [Request -> {"new", "fetching", "raised", "queued", "closed", "crashed"}]
      BY <2>11, GoesKeepsPhases DEF Abort, Crashes
    <3> QED BY <2>11, <3>1 DEF Abort, Denied, Crashes, Typed
  <2> QED BY <1>3, <2>3, <2>4, <2>5, <2>6, <2>7, <2>8, <2>9, <2>10, <2>11 DEF Handler
<1> QED BY <1>1, <1>2, <1>3 DEF Next

\* One more place may be counted.
LEMMA OneMorePlace ==
  ASSUME NEW n \in Nat, NEW A \in SUBSET (1..n), NEW B \in SUBSET (1..(n + 1)),
         \A i \in 1..n : i \in B <=> i \in A
  PROVE  /\ IsFiniteSet(A) /\ IsFiniteSet(B) /\ Cardinality(A) \in Nat
         /\ Cardinality(B) = Cardinality(A) + IF n + 1 \in B THEN 1 ELSE 0
<1>1. IsFiniteSet(1..n)
  BY FS_Interval
<1>2. IsFiniteSet(A)
  BY <1>1, FS_Subset
<1>3. Cardinality(A) \in Nat
  BY <1>2, FS_CardinalityType
<1>4. n + 1 \notin A
  OBVIOUS
<1>5. \A i \in B : i \in 1..n \/ i = n + 1
  OBVIOUS
<1>6. CASE n + 1 \in B
  <2>1. B = A \cup {n + 1}
    BY <1>5, <1>6
  <2> QED BY <1>2, <1>3, <1>4, <1>6, <2>1, FS_AddElement
<1>7. CASE n + 1 \notin B
  <2>1. B = A
    BY <1>5, <1>7
  <2> QED BY <1>2, <1>3, <1>7, <2>1
<1> QED BY <1>6, <1>7

\* An event is counted by its type, and as a read if it has no trace.
LEMMA RecordCounts ==
  ASSUME log \in Seq(Events), NEW event \in Events, Record(event)
  PROVE  /\ \A type : Count(type) \in Nat
         /\ \A type : Count(type)' = Count(type) + IF event.type = type THEN 1 ELSE 0
         /\ Cardinality(Reads) \in Nat
         /\ Cardinality(Reads)' = Cardinality(Reads) + IF event.trace = NoTenant THEN 1 ELSE 0
<1> DEFINE n == Len(log)
           all == Append(log, event)
<1>1. /\ n \in Nat /\ DOMAIN log = 1..n /\ DOMAIN all = 1..(n + 1)
      /\ all[n + 1] = event /\ \A i \in 1..n : all[i] = log[i]
  BY LenProperties, AppendProperties
<1>2. log' = all
  BY DEF Record
<1> HIDE DEF n, all
<1>3. ASSUME NEW type
      PROVE  /\ Count(type) \in Nat
             /\ Count(type)' = Count(type) + IF event.type = type THEN 1 ELSE 0
  <2> DEFINE A == {i \in DOMAIN log : log[i].type = type}
             B == {i \in DOMAIN all : all[i].type = type}
  <2>1. /\ A \in SUBSET (1..n) /\ B \in SUBSET (1..(n + 1))
        /\ \A i \in 1..n : i \in B <=> i \in A
        /\ n + 1 \in B <=> event.type = type
    BY <1>1
  <2>2. Count(type) = Cardinality(A) /\ Count(type)' = Cardinality(B)
    BY <1>2 DEF Count
  <2> HIDE DEF A, B
  <2>3. Cardinality(A) \in Nat /\ Cardinality(B) = Cardinality(A) + IF n + 1 \in B THEN 1 ELSE 0
    BY <1>1, <2>1, OneMorePlace
  <2> QED BY <2>1, <2>2, <2>3
<1>4. /\ Cardinality(Reads) \in Nat
      /\ Cardinality(Reads)' = Cardinality(Reads) + IF event.trace = NoTenant THEN 1 ELSE 0
  <2> DEFINE A == {i \in DOMAIN log : log[i].trace = NoTenant}
             B == {i \in DOMAIN all : all[i].trace = NoTenant}
  <2>1. /\ A \in SUBSET (1..n) /\ B \in SUBSET (1..(n + 1))
        /\ \A i \in 1..n : i \in B <=> i \in A
        /\ n + 1 \in B <=> event.trace = NoTenant
    BY <1>1
  <2>2. Cardinality(Reads) = Cardinality(A) /\ Cardinality(Reads)' = Cardinality(B)
    BY <1>2 DEF Reads
  <2> HIDE DEF A, B
  <2>3. Cardinality(A) \in Nat /\ Cardinality(B) = Cardinality(A) + IF n + 1 \in B THEN 1 ELSE 0
    BY <1>1, <2>1, OneMorePlace
  <2> QED BY <2>1, <2>2, <2>3
<1> QED BY <1>3, <1>4

\* The queries that are over.
Over == {r \in Request : phase[r] \in {"queued", "closed"}}

Counted == IsFiniteSet(Over) /\ CountersAgreeWithTrail

LEMMA CountedIs ==
  Counted <=>
    /\ IsFiniteSet(Over)
    /\ errors = Count("query.denied") /\ durations["ok"] = Count("query.execute")
    /\ durations["rate_limited"] = Count("query.rate_limited")
    /\ Cardinality(Over) = errors - Cardinality(Reads) + durations["ok"]
                             + durations["rate_limited"] + durations["request_timeout"]
BY DEF Counted, CountersAgreeWithTrail, Over

\* A handler's step ends a query, or none.
LEMMA OverGrows ==
  ASSUME Typed, IsFiniteSet(Over), NEW r \in Request, NEW from,
         NEW to \in {"new", "fetching", "raised", "queued", "closed", "crashed"},
         Goes(r, from, to)
  PROVE  /\ IsFiniteSet(Over)' /\ Cardinality(Over) \in Nat
         /\ from \notin {"queued", "closed"} /\ to \in {"queued", "closed"}
              => Cardinality(Over)' = Cardinality(Over) + 1
         /\ (from \in {"queued", "closed"} <=> to \in {"queued", "closed"})
              => Cardinality(Over)' = Cardinality(Over)
<1>1. /\ phase[r] = from /\ phase'[r] = to
      /\ \A q \in Request : q # r => phase'[q] = phase[q]
  BY GoesKeepsPhases
<1>2. /\ Over' \ {r} = Over \ {r}
      /\ r \in Over <=> from \in {"queued", "closed"}
      /\ r \in Over' <=> to \in {"queued", "closed"}
  BY <1>1 DEF Over
<1> DEFINE A == Over
           B == Over'
<1> HIDE DEF A, B
<1>3. /\ B \ {r} = A \ {r} /\ IsFiniteSet(A)
      /\ r \in A <=> from \in {"queued", "closed"}
      /\ r \in B <=> to \in {"queued", "closed"}
  BY <1>2 DEF A, B
<1>4. Cardinality(A) \in Nat
  BY <1>3, FS_CardinalityType
<1>5. B \in SUBSET (A \cup {r}) /\ IsFiniteSet(A \cup {r})
  BY <1>3, FS_AddElement
<1>6. IsFiniteSet(B)
  BY <1>5, FS_Subset
<1>7. ASSUME r \notin A, r \in B
      PROVE  Cardinality(B) = Cardinality(A) + 1
  <2>1. B = A \cup {r}
    BY <1>3, <1>7
  <2> QED BY <1>3, <1>7, <2>1, FS_AddElement
<1>8. ASSUME r \in A <=> r \in B
      PROVE  B = A
  BY <1>3, <1>8
<1> QED BY <1>3, <1>4, <1>6, <1>7, <1>8 DEF A, B

\* What is recorded is counted, by its type, as a query or a read.
LEMMA CountedWhenRecorded ==
  ASSUME Typed, Counted, log \in Seq(Events), NEW event \in Events, Record(event),
         IsFiniteSet(Over)',
         Cardinality(Over)' = Cardinality(Over) + IF event.trace = NoTenant THEN 0 ELSE 1,
         Cardinality(Over) \in Nat,
         \/ /\ event.type = "query.denied"
            /\ errors' = errors + 1 /\ durations' = durations
         \/ event.type = "query.execute" /\ Observed("ok")
         \/ event.type = "query.rate_limited" /\ Observed("rate_limited")
  PROVE  Counted'
<1>1. Status = {"ok", "rate_limited", "request_timeout"}
  BY DEF Status
<1>2. /\ errors \in Nat /\ durations["ok"] \in Nat /\ durations["rate_limited"] \in Nat
      /\ durations["request_timeout"] \in Nat
  BY <1>1 DEF Typed
<1>3. /\ \A type : Count(type) \in Nat
      /\ \A type : Count(type)' = Count(type) + IF event.type = type THEN 1 ELSE 0
      /\ Cardinality(Reads) \in Nat
      /\ Cardinality(Reads)' = Cardinality(Reads) + IF event.trace = NoTenant THEN 1 ELSE 0
  BY RecordCounts
<1>4. /\ errors = Count("query.denied") /\ durations["ok"] = Count("query.execute")
      /\ durations["rate_limited"] = Count("query.rate_limited")
      /\ Cardinality(Over) = errors - Cardinality(Reads) + durations["ok"]
                             + durations["rate_limited"] + durations["request_timeout"]
  BY CountedIs
<1>5. SUFFICES
        /\ errors' = Count("query.denied")' /\ durations'["ok"] = Count("query.execute")'
        /\ durations'["rate_limited"] = Count("query.rate_limited")'
        /\ Cardinality(Over)' = errors' - Cardinality(Reads)' + durations'["ok"]
                             + durations'["rate_limited"] + durations'["request_timeout"]
  BY DEF Counted, CountersAgreeWithTrail, Over
<1> DEFINE d == Count("query.denied")
           e == Count("query.execute")
           l == Count("query.rate_limited")
           dd == Count("query.denied")'
           ee == Count("query.execute")'
           ll == Count("query.rate_limited")'
           R == Cardinality(Reads)
           RR == Cardinality(Reads)'
           O == Cardinality(Over)
           OO == Cardinality(Over)'
<1>6. /\ dd = d + IF event.type = "query.denied" THEN 1 ELSE 0
      /\ ee = e + IF event.type = "query.execute" THEN 1 ELSE 0
      /\ ll = l + IF event.type = "query.rate_limited" THEN 1 ELSE 0
      /\ RR = R + IF event.trace = NoTenant THEN 1 ELSE 0
      /\ OO = O + IF event.trace = NoTenant THEN 0 ELSE 1
      /\ d \in Nat /\ e \in Nat /\ l \in Nat /\ R \in Nat /\ O \in Nat
  BY <1>3
<1>7. /\ errors = d /\ durations["ok"] = e /\ durations["rate_limited"] = l
      /\ O = errors - R + durations["ok"] + durations["rate_limited"]
               + durations["request_timeout"]
  BY <1>4
<1> HIDE DEF d, e, l, dd, ee, ll, R, RR, O, OO
<1>8. OO = O + R + 1 - RR /\ RR \in Nat
  BY <1>6
<1>9. /\ errors' = dd /\ durations'["ok"] = ee /\ durations'["rate_limited"] = ll
      /\ OO = errors' - RR + durations'["ok"] + durations'["rate_limited"]
               + durations'["request_timeout"]
  <2>1. CASE /\ event.type = "query.denied"
             /\ errors' = errors + 1 /\ durations' = durations
    <3>1. dd = d + 1 /\ ee = e /\ ll = l
      BY <1>6, <2>1
    <3>2. /\ errors' = errors + 1 /\ durations'["ok"] = durations["ok"]
          /\ durations'["rate_limited"] = durations["rate_limited"]
          /\ durations'["request_timeout"] = durations["request_timeout"]
      BY <2>1
    <3> QED BY SMTT(40), <1>2, <1>6, <1>7, <1>8, <3>1, <3>2
  <2>2. CASE event.type = "query.execute" /\ Observed("ok")
    <3>1. /\ errors' = errors /\ durations'["ok"] = durations["ok"] + 1
          /\ durations'["rate_limited"] = durations["rate_limited"]
          /\ durations'["request_timeout"] = durations["request_timeout"]
      BY <1>1, <2>2, ObservedKeepsTypes
    <3>2. ee = e + 1 /\ dd = d /\ ll = l
      BY <1>6, <2>2
    <3> QED BY SMTT(40), <1>2, <1>6, <1>7, <1>8, <3>1, <3>2
  <2>3. CASE event.type = "query.rate_limited" /\ Observed("rate_limited")
    <3>1. /\ errors' = errors /\ durations'["rate_limited"] = durations["rate_limited"] + 1
          /\ durations'["ok"] = durations["ok"]
          /\ durations'["request_timeout"] = durations["request_timeout"]
      BY <1>1, <2>3, ObservedKeepsTypes
    <3>2. ll = l + 1 /\ dd = d /\ ee = e
      BY <1>6, <2>3
    <3> QED BY SMTT(40), <1>2, <1>6, <1>7, <1>8, <3>1, <3>2
  <2> QED BY <2>1, <2>2, <2>3
<1> QED BY <1>9 DEF dd, ee, ll, RR, OO

\* Nothing is recorded, and no query is counted as over.
LEMMA CountedOtherwise ==
  ASSUME Typed, Counted, log' = log, errors' = errors, durations' = durations,
         IsFiniteSet(Over)', Cardinality(Over)' = Cardinality(Over)
  PROVE  Counted'
<1>1. \A type : Count(type)' = Count(type)
  BY DEF Count
<1>2. Reads' = Reads
  BY DEF Reads
<1>3. /\ errors = Count("query.denied") /\ durations["ok"] = Count("query.execute")
      /\ durations["rate_limited"] = Count("query.rate_limited")
      /\ Cardinality(Over) = errors - Cardinality(Reads) + durations["ok"]
                             + durations["rate_limited"] + durations["request_timeout"]
  BY CountedIs
<1>4. SUFFICES
        /\ errors' = Count("query.denied")' /\ durations'["ok"] = Count("query.execute")'
        /\ durations'["rate_limited"] = Count("query.rate_limited")'
        /\ Cardinality(Over)' = errors' - Cardinality(Reads)' + durations'["ok"]
                             + durations'["rate_limited"] + durations'["request_timeout"]
  BY DEF Counted, CountersAgreeWithTrail, Over
<1> QED BY <1>1, <1>2, <1>3

LEMMA CountedNext ==
  Typed /\ Counted /\ log \in Seq(Events) /\ [Next]_vars => Counted'
<1> SUFFICES ASSUME Typed, Counted, log \in Seq(Events), [Next]_vars PROVE Counted'
  OBVIOUS
<1>0. IsFiniteSet(Over)
  BY DEF Counted
<1>1. CASE UNCHANGED vars
  <2>1. Over' = Over
    BY <1>1 DEF vars, Over
  <2> QED BY <1>0, <1>1, <2>1, CountedOtherwise DEF vars
<1>2. CASE ReadDenied
  <2> DEFINE event == Event(NoTenant, "query.denied", NoTenant)
  <2>1. event \in Events /\ event.type = "query.denied" /\ event.trace = NoTenant
    BY DEF Event, Events, Tenants
  <2>2. Record(event) /\ errors' = errors + 1 /\ durations' = durations /\ phase' = phase
    BY <1>2 DEF ReadDenied, Denied
  <2>3. Over' = Over /\ Cardinality(Over) \in Nat
    BY <1>0, <2>2, FS_CardinalityType DEF Over
  <2> HIDE DEF event
  <2>4. IsFiniteSet(Over)' /\ Cardinality(Over)' = Cardinality(Over) + 0
    BY <1>0, <2>3
  <2> QED BY <2>1, <2>2, <2>3, <2>4, CountedWhenRecorded
<1>3. ASSUME NEW r \in Request, Handler(r)
      PROVE  Counted'
  <2>1. /\ TenantOf[r] \in Tenants /\ NoTenant \in Tenants /\ r # NoTenant
        /\ Status = {"ok", "rate_limited", "request_timeout"}
    BY TelemetryAssumption DEF Tenants, Tenant, Status
  \* The query is over, and an event of it is recorded.
  <2>2. ASSUME NEW from \in {"new", "fetching", "raised"}, NEW to \in {"queued", "closed"},
               Goes(r, from, to),
               NEW type \in {"query.denied", "query.execute", "query.rate_limited"},
               NEW tenant \in Tenants, Record(Event(r, type, tenant)),
               \/ type = "query.denied" /\ errors' = errors + 1 /\ durations' = durations
               \/ type = "query.execute" /\ Observed("ok")
               \/ type = "query.rate_limited" /\ Observed("rate_limited")
        PROVE  Counted'
    <3> DEFINE event == Event(r, type, tenant)
    <3>1. event \in Events /\ event.type = type /\ event.trace = r
      BY DEF Event, Events
    <3>2. /\ IsFiniteSet(Over)' /\ Cardinality(Over) \in Nat
          /\ Cardinality(Over)' = Cardinality(Over) + 1
      BY <1>0, <2>2, OverGrows
    <3>3. Cardinality(Over)' = Cardinality(Over) + IF event.trace = NoTenant THEN 0 ELSE 1
      BY <2>1, <3>1, <3>2
    <3> HIDE DEF event
    <3>4. Record(event)
      BY <2>2 DEF event
    <3> QED BY <2>2, <3>1, <3>2, <3>3, <3>4, CountedWhenRecorded
  \* Nothing is recorded, and the query is as over as before.
  <2>3. ASSUME NEW from, NEW to \in {"new", "fetching", "raised", "queued", "closed", "crashed"},
               Goes(r, from, to),
               from \in {"queued", "closed"} <=> to \in {"queued", "closed"},
               log' = log, errors' = errors, durations' = durations
        PROVE  Counted'
    <3>1. IsFiniteSet(Over)' /\ Cardinality(Over)' = Cardinality(Over)
      BY <1>0, <2>3, OverGrows
    <3> QED BY <2>3, <3>1, CountedOtherwise
  <2>4. CASE Unauthenticated(r)
    BY <2>1, <2>2, <2>4 DEF Unauthenticated, Denied
  <2>5. CASE Deny(r)
    <3>1. CASE Goes(r, "new", "closed") /\ Denied(r, TenantOf[r])
      BY <2>1, <2>2, <3>1 DEF Denied
    <3>2. CASE Crashes(r, "new")
      BY <2>3, <3>2 DEF Crashes
    <3> QED BY <2>5, <3>1, <3>2 DEF Deny
  <2>6. CASE Limit(r)
    BY <2>1, <2>2, <2>6 DEF Limit
  <2>7. CASE Admit(r)
    BY <2>3, <2>7 DEF Admit
  <2>8. CASE JobExecutes(r)
    BY <2>3, <2>8 DEF JobExecutes
  <2>9. CASE FetchEnds(r)
    <3>1. log' = log /\ errors' = errors /\ durations' = durations
      BY <2>9 DEF FetchEnds
    <3>2. Over' = Over
      BY <2>9 DEF FetchEnds, Over, Typed
    <3> QED BY <1>0, <3>1, <3>2, CountedOtherwise
  <2>10. CASE Respond(r)
    BY <2>1, <2>2, <2>10 DEF Respond
  <2>11. CASE RequestTimesOut(r)
    <3>1. /\ IsFiniteSet(Over)' /\ Cardinality(Over) \in Nat
          /\ Cardinality(Over)' = Cardinality(Over) + 1
      BY <1>0, <2>11, OverGrows DEF RequestTimesOut
    <3>2. /\ errors' = errors /\ log' = log
          /\ durations'["request_timeout"] = durations["request_timeout"] + 1
          /\ durations'["ok"] = durations["ok"]
          /\ durations'["rate_limited"] = durations["rate_limited"]
      BY <2>1, <2>11, ObservedKeepsTypes DEF RequestTimesOut
    <3>3. \A type : Count(type)' = Count(type)
      BY <3>2 DEF Count
    <3>4. Reads' = Reads
      BY <3>2 DEF Reads
    <3>5. /\ errors = Count("query.denied") /\ durations["ok"] = Count("query.execute")
          /\ durations["rate_limited"] = Count("query.rate_limited")
          /\ Cardinality(Over) = errors - Cardinality(Reads) + durations["ok"]
                                 + durations["rate_limited"] + durations["request_timeout"]
      BY CountedIs
    <3>6. /\ errors \in Nat /\ durations["ok"] \in Nat /\ durations["rate_limited"] \in Nat
          /\ durations["request_timeout"] \in Nat /\ Cardinality(Reads) \in Int
      <4>1. /\ errors \in Nat /\ durations["ok"] \in Nat /\ durations["rate_limited"] \in Nat
            /\ durations["request_timeout"] \in Nat
        BY <2>1 DEF Typed
      <4>2. DOMAIN log = 1..Len(log) /\ Len(log) \in Nat
        BY LenProperties
      <4>3. Reads \in SUBSET (1..Len(log)) /\ IsFiniteSet(1..Len(log))
        BY <4>2, FS_Interval DEF Reads
      <4>4. IsFiniteSet(Reads)
        BY <4>3, FS_Subset
      <4>5. Cardinality(Reads) \in Nat
        BY <4>4, FS_CardinalityType
      <4> QED BY <4>1, <4>5
    <3>7. Cardinality(Over)' = errors' - Cardinality(Reads)' + durations'["ok"]
                             + durations'["rate_limited"] + durations'["request_timeout"]
      BY SMTT(40), <3>1, <3>2, <3>4, <3>5, <3>6
    <3> QED BY <3>1, <3>2, <3>3, <3>5, <3>7 DEF Counted, CountersAgreeWithTrail, Over
  <2>12. CASE Abort(r)
    <3>1. CASE Goes(r, "raised", "closed") /\ Denied(r, TenantOf[r])
      BY <2>1, <2>2, <3>1 DEF Denied
    <3>2. CASE Crashes(r, "raised") \/ Crashes(r, "fetching")
      BY <2>3, <3>2 DEF Crashes
    <3> QED BY <2>12, <3>1, <3>2 DEF Abort
  <2> QED BY <1>3, <2>4, <2>5, <2>6, <2>7, <2>8, <2>9, <2>10, <2>11, <2>12 DEF Handler
<1> QED BY <1>1, <1>2, <1>3 DEF Next

LEMMA CountedInit == Init => Counted
<1> SUFFICES ASSUME Init PROVE Counted
  OBVIOUS
<1>1. /\ log = << >> /\ DOMAIN log = {} /\ errors = 0
      /\ durations["ok"] = 0 /\ durations["rate_limited"] = 0 /\ durations["request_timeout"] = 0
  BY DEF Init, Status
<1>2. Over = {}
  BY DEF Over, Init
<1>3. IsFiniteSet({}) /\ Cardinality({}) = 0
  BY FS_EmptySet
<1>4. Reads = {} /\ \A type : {i \in DOMAIN log : log[i].type = type} = {}
  BY <1>1 DEF Reads
<1>5. \A type : Count(type) = 0
  BY <1>3, <1>4 DEF Count
<1> QED BY <1>1, <1>2, <1>3, <1>4, <1>5, CountedIs

LEMMA TypedInit == Init => Typed
<1>1. \A r \in Request : Fetches[r] \in Nat
  BY TelemetryAssumption
<1> QED BY <1>1 DEF Init, Typed

-----------------------------------------------------------------------------
(* The trail beside the traces.                                            *)

Queries(l) == {i \in DOMAIN l : l[i].trace # NoTenant}
Audited(l) == {l[i].trace : i \in Queries(l)}
AuditedRoots(l, es) == {i \in DOMAIN es : IsRoot(es[i]) /\ es[i].trace \in Audited(l)}

\* The events of queries are, one by one, of the traces of the audited roots.
Matches(l, es) ==
  LET events == Selected(l, Queries(l))
      roots == Selected(es, AuditedRoots(l, es))
  IN  /\ Len(events) = Len(roots)
      /\ \A k \in 1..Len(events) : events[k].trace = roots[k].trace

\* Only queries whose handler has ended have an event, or a root.
EndedFirst(l, es, ph) ==
  /\ \A i \in Queries(l) : ph[l[i].trace] \in {"queued", "closed"}
  /\ \A i \in DOMAIN es : IsRoot(es[i]) => ph[es[i].trace] \in {"queued", "closed", "crashed"}

InTraceOrder == Matches(log, ended) /\ EndedFirst(log, ended, phase)

\* Another span than the root of an audited query.
LEMMA MatchesSpan ==
  ASSUME NEW l \in Seq(Events), NEW es \in Seq(Spans), NEW span \in Spans,
         ~(IsRoot(span) /\ span.trace \in Audited(l)), Matches(l, es)
  PROVE  Matches(l, Append(es, span))
<1> DEFINE all == Append(es, span)
           R == AuditedRoots(l, es)
           RR == AuditedRoots(l, all)
<1>1. /\ DOMAIN es = 1..Len(es) /\ Len(es) \in Nat /\ all[Len(es) + 1] = span
      /\ DOMAIN all = 1..(Len(es) + 1) /\ \A i \in 1..Len(es) : all[i] = es[i]
  BY LenProperties, AppendProperties
<1>2. ASSUME NEW i
      PROVE  i \in RR <=> i \in R
  BY <1>1 DEF AuditedRoots
<1>3. RR = R
  BY <1>2
<1>4. R \in SUBSET (DOMAIN es)
  BY DEF AuditedRoots
<1> HIDE DEF R
<1>5. Selected(all, R) = Selected(es, R)
  BY ZenonT(60), <1>4, SelectedGrows
<1> QED BY <1>3, <1>5 DEF Matches, R, RR, all

\* An event of a refused read.
LEMMA MatchesRead ==
  ASSUME NEW l \in Seq(Events), NEW es \in Seq(Spans), NEW event \in Events,
         event.trace = NoTenant, Matches(l, es)
  PROVE  Matches(Append(l, event), es) /\ Queries(Append(l, event)) = Queries(l)
<1> DEFINE all == Append(l, event)
           Q == Queries(l)
<1>1. /\ DOMAIN l = 1..Len(l) /\ Len(l) \in Nat /\ all[Len(l) + 1] = event
      /\ DOMAIN all = 1..(Len(l) + 1) /\ \A i \in 1..Len(l) : all[i] = l[i]
  BY LenProperties, AppendProperties
<1>2. ASSUME NEW i
      PROVE  i \in Queries(all) <=> i \in Q
  BY <1>1 DEF Queries
<1>3. Queries(all) = Q
  BY <1>2
<1>4. Q \in SUBSET (DOMAIN l) /\ \A i \in Q : all[i] = l[i]
  BY <1>1 DEF Queries
<1>5. Audited(all) = Audited(l)
  BY <1>3, <1>4 DEF Audited
<1>6. AuditedRoots(all, es) = AuditedRoots(l, es)
  BY <1>5 DEF AuditedRoots
<1> HIDE DEF Q
<1>7. Selected(all, Q) = Selected(l, Q)
  BY ZenonT(60), <1>4, SelectedGrows
<1> QED BY <1>3, <1>6, <1>7 DEF Matches, Q, all

\* An event of a query and its root.
LEMMA MatchesBoth ==
  ASSUME NEW l \in Seq(Events), NEW es \in Seq(Spans), NEW event \in Events, NEW root \in Spans,
         IsRoot(root), event.trace = root.trace, event.trace # NoTenant,
         \A i \in DOMAIN es : IsRoot(es[i]) => es[i].trace # root.trace, Matches(l, es)
  PROVE  /\ Matches(Append(l, event), Append(es, root))
         /\ Queries(Append(l, event)) = Queries(l) \cup {Len(l) + 1}
<1> DEFINE ll == Append(l, event)
           ees == Append(es, root)
           Q == Queries(l)
           R == AuditedRoots(l, es)
           events == Selected(l, Q)
           roots == Selected(es, R)
<1>1. /\ DOMAIN l = 1..Len(l) /\ Len(l) \in Nat /\ ll[Len(l) + 1] = event
      /\ DOMAIN ll = 1..(Len(l) + 1) /\ \A i \in 1..Len(l) : ll[i] = l[i]
  BY LenProperties, AppendProperties
<1>2. /\ DOMAIN es = 1..Len(es) /\ Len(es) \in Nat /\ ees[Len(es) + 1] = root
      /\ DOMAIN ees = 1..(Len(es) + 1) /\ \A i \in 1..Len(es) : ees[i] = es[i]
  BY LenProperties, AppendProperties
<1>3. ASSUME NEW i
      PROVE  i \in Queries(ll) <=> i \in Q \cup {Len(l) + 1}
  BY <1>1 DEF Queries
<1>4. Queries(ll) = Q \cup {Len(l) + 1}
  BY <1>3
<1>5. Q \in SUBSET (DOMAIN l) /\ \A i \in Q : ll[i] = l[i]
  BY <1>1 DEF Queries
<1>6. ASSUME NEW r
      PROVE  r \in Audited(ll) <=> r \in Audited(l) \cup {event.trace}
  BY <1>1, <1>4, <1>5 DEF Audited
<1>7. ASSUME NEW i
      PROVE  i \in AuditedRoots(ll, ees) <=> i \in R \cup {Len(es) + 1}
  BY <1>2, <1>6 DEF AuditedRoots
<1>8. AuditedRoots(ll, ees) = R \cup {Len(es) + 1}
  BY <1>7
<1>9. R \in SUBSET (DOMAIN es)
  BY DEF AuditedRoots
<1>10. Len(events) = Len(roots) /\ \A k \in 1..Len(events) : events[k].trace = roots[k].trace
  BY DEF Matches
<1> HIDE DEF Q, R
<1>11. events \in Seq(Events) /\ roots \in Seq(Spans)
  BY <1>5, <1>9, SelectedType
<1>12. /\ Selected(ll, Q \cup {Len(l) + 1}) = Append(events, event)
       /\ Selected(ees, R \cup {Len(es) + 1}) = Append(roots, root)
  <2>1. Q \in SUBSET (DOMAIN l)
    BY <1>5
  <2>2. Selected(Append(l, event), Q \cup {Len(l) + 1}) = Append(Selected(l, Q), event)
    BY <2>1, SelectedGrows
  <2>3. Selected(Append(es, root), R \cup {Len(es) + 1}) = Append(Selected(es, R), root)
    <3>1. es \in Seq(Spans) /\ root \in Spans
      OBVIOUS
    <3> QED BY <1>9, <3>1, ZenonT(60), SelectedGrows
  <2> QED BY <2>2, <2>3
<1> HIDE DEF events, roots, ll, ees
<1> DEFINE n == Len(events)
<1>13. /\ n \in Nat /\ Len(Append(events, event)) = n + 1 /\ Len(Append(roots, root)) = n + 1
       /\ Append(events, event)[n + 1] = event /\ Append(roots, root)[n + 1] = root
       /\ \A k \in 1..n : /\ Append(events, event)[k] = events[k]
                          /\ Append(roots, root)[k] = roots[k]
  BY <1>10, <1>11, LenProperties, AppendProperties
<1>14. \A k \in 1..(n + 1) : Append(events, event)[k].trace = Append(roots, root)[k].trace
  BY <1>10, <1>13
<1>15. Matches(ll, ees)
  BY <1>4, <1>8, <1>12, <1>13, <1>14 DEF Matches
<1> QED BY <1>4, <1>15 DEF ll, ees, Q

\* A handler's step of its query, before it has ended or after, leaves the others.
LEMMA EndedStays ==
  ASSUME Typed, NEW l \in Seq(Events), NEW es \in Seq(Spans),
         EndedFirst(l, es, phase), NEW r \in Request, NEW from,
         NEW to \in {"new", "fetching", "raised", "queued", "closed", "crashed"},
         Goes(r, from, to),
         \/ from \in {"new", "fetching", "raised"}
         \/ from \in {"queued", "closed"} /\ to \in {"queued", "closed"}
         \/ from = to
  PROVE  EndedFirst(l, es, phase')
<1>1. /\ phase'[r] = to /\ phase[r] = from
      /\ \A q \in Request : q # r => phase'[q] = phase[q]
  BY GoesKeepsPhases
<1>2. \A i \in DOMAIN l : l[i].trace \in Request \cup {NoTenant}
  <2>1. \A i \in DOMAIN l : l[i] \in Events
    BY LenProperties, ElementOfSeq
  <2> QED BY <2>1 DEF Events
<1>3. \A i \in DOMAIN es : es[i].trace \in Request
  <2>1. \A i \in DOMAIN es : es[i] \in Spans
    BY LenProperties, ElementOfSeq
  <2> QED BY <2>1 DEF Spans
<1>4. ASSUME NEW i \in Queries(l)
      PROVE  phase'[l[i].trace] \in {"queued", "closed"}
  <2>1. l[i].trace \in Request /\ phase[l[i].trace] \in {"queued", "closed"}
    BY <1>2 DEF EndedFirst, Queries
  <2>2. CASE l[i].trace = r
    BY <1>1, <2>1, <2>2
  <2>3. CASE l[i].trace # r
    BY <1>1, <2>1, <2>3
  <2> QED BY <2>2, <2>3
<1>5. ASSUME NEW i \in DOMAIN es, IsRoot(es[i])
      PROVE  phase'[es[i].trace] \in {"queued", "closed", "crashed"}
  <2>1. /\ es[i].trace \in Request
        /\ phase[es[i].trace] \in {"queued", "closed", "crashed"}
    BY <1>3, <1>5 DEF EndedFirst
  <2>2. CASE es[i].trace = r
    BY <1>1, <2>1, <2>2
  <2>3. CASE es[i].trace # r
    BY <1>1, <2>1, <2>3
  <2> QED BY <2>2, <2>3
<1> QED BY <1>4, <1>5 DEF EndedFirst

\* While its handler runs a query has neither a root nor an event.
LEMMA NotYetEnded ==
  ASSUME NEW l, NEW es, EndedFirst(l, es, phase), NEW r \in Request,
         phase[r] \in {"new", "fetching", "raised"}
  PROVE  r \notin Audited(l) /\ \A i \in DOMAIN es : IsRoot(es[i]) => es[i].trace # r
BY DEF EndedFirst, Audited

\* A span joins, or an event with its root, or an event of a read.
LEMMA EndedSpan ==
  ASSUME NEW l, NEW es \in Seq(Spans), NEW ph, EndedFirst(l, es, ph), NEW span \in Spans,
         IsRoot(span) => ph[span.trace] \in {"queued", "closed", "crashed"}
  PROVE  EndedFirst(l, Append(es, span), ph)
<1> DEFINE all == Append(es, span)
<1>1. /\ DOMAIN es = 1..Len(es) /\ Len(es) \in Nat /\ all[Len(es) + 1] = span
      /\ DOMAIN all = 1..(Len(es) + 1) /\ \A i \in 1..Len(es) : all[i] = es[i]
  BY LenProperties, AppendProperties
<1>2. ASSUME NEW i \in DOMAIN all, IsRoot(all[i])
      PROVE  ph[all[i].trace] \in {"queued", "closed", "crashed"}
  <2> HIDE DEF all
  <2>1. CASE i = Len(es) + 1
    BY <1>1, <1>2, <2>1
  <2>2. CASE i # Len(es) + 1
    <3>1. i \in 1..Len(es)
      BY <1>1, <2>2
    <3>2. i \in DOMAIN es /\ all[i] = es[i]
      BY <1>1, <3>1
    <3> QED BY <1>2, <3>2 DEF EndedFirst
  <2> QED BY <2>1, <2>2
<1> QED BY <1>2 DEF EndedFirst

LEMMA EndedEvent ==
  ASSUME NEW l \in Seq(Events), NEW es, NEW ph, EndedFirst(l, es, ph), NEW event \in Events,
         event.trace # NoTenant => ph[event.trace] \in {"queued", "closed"}
  PROVE  EndedFirst(Append(l, event), es, ph)
<1> DEFINE all == Append(l, event)
<1>1. /\ DOMAIN l = 1..Len(l) /\ Len(l) \in Nat /\ all[Len(l) + 1] = event
      /\ DOMAIN all = 1..(Len(l) + 1) /\ \A i \in 1..Len(l) : all[i] = l[i]
  BY LenProperties, AppendProperties
<1>2. ASSUME NEW i \in Queries(all)
      PROVE  ph[all[i].trace] \in {"queued", "closed"}
  <2>1. i \in DOMAIN all /\ all[i].trace # NoTenant
    BY DEF Queries
  <2> HIDE DEF all
  <2>2. CASE i = Len(l) + 1
    BY <1>1, <2>1, <2>2
  <2>3. CASE i # Len(l) + 1
    <3>1. i \in 1..Len(l)
      BY <1>1, <2>1, <2>3
    <3>2. i \in Queries(l) /\ all[i] = l[i]
      BY <1>1, <2>1, <3>1 DEF Queries
    <3> QED BY <3>2 DEF EndedFirst
  <2> QED BY <2>2, <2>3
<1> QED BY <1>2 DEF EndedFirst

LEMMA InTraceOrderInit == Init => InTraceOrder
<1> SUFFICES ASSUME Init PROVE InTraceOrder
  OBVIOUS
<1>1. log = << >> /\ ended = << >> /\ DOMAIN log = {} /\ DOMAIN ended = {}
  BY DEF Init
<1>2. Queries(log) = {} /\ AuditedRoots(log, ended) = {}
  BY <1>1 DEF Queries, AuditedRoots
<1>3. /\ IsFiniteSet({}) /\ {} \in SUBSET Int /\ Cardinality({}) = 0
  BY FS_EmptySet
<1>4. Len(Selected(log, {})) = 0 /\ Len(Selected(ended, {})) = 0
  BY <1>3, SelectedAt
<1>5. Matches(log, ended)
  BY <1>2, <1>4 DEF Matches
<1> QED BY <1>1, <1>2, <1>5 DEF InTraceOrder, EndedFirst

\* A query's handler ends: its event is recorded and its root ends.
LEMMA QueryEnds ==
  ASSUME Typed, NEW l \in Seq(Events), NEW es \in Seq(Spans),
         Matches(l, es), EndedFirst(l, es, phase), NEW r \in Request,
         NEW from \in {"new", "fetching", "raised"}, NEW to \in {"queued", "closed"},
         Goes(r, from, to), NEW type \in {"query.denied", "query.execute", "query.rate_limited"},
         NEW tenant \in Tenants, NEW identity \in Tenants
  PROVE  LET event == Event(r, type, tenant)
             root == Span(r, "query", identity)
         IN  /\ Matches(Append(l, event), Append(es, root))
             /\ EndedFirst(Append(l, event), Append(es, root), phase')
<1> DEFINE event == Event(r, type, tenant)
           root == Span(r, "query", identity)
<1>1. /\ event \in Events /\ root \in Spans /\ IsRoot(root) /\ event.trace = r /\ root.trace = r
      /\ r # NoTenant
  BY TelemetryAssumption DEF Event, Events, Span, Spans, IsRoot
<1> HIDE DEF event, root
<1>2. phase[r] = from
  BY DEF Goes
<1>3. \A i \in DOMAIN es : IsRoot(es[i]) => es[i].trace # r
  BY <1>2, NotYetEnded
<1>4. Matches(Append(l, event), Append(es, root))
  BY <1>1, <1>3, MatchesBoth
<1>5. EndedFirst(l, es, phase') /\ phase'[r] = to
  BY EndedStays, GoesKeepsPhases
<1>6. EndedFirst(l, Append(es, root), phase')
  BY <1>1, <1>5, EndedSpan
<1>7. EndedFirst(Append(l, event), Append(es, root), phase')
  BY <1>1, <1>5, <1>6, EndedEvent
<1> QED BY <1>4, <1>7 DEF event, root

\* Another span ends.
LEMMA SpanEnds ==
  ASSUME NEW l \in Seq(Events), NEW es \in Seq(Spans), Matches(l, es), NEW ph,
         EndedFirst(l, es, ph), NEW span \in Spans, ~IsRoot(span)
  PROVE  Matches(l, Append(es, span)) /\ EndedFirst(l, Append(es, span), ph)
BY MatchesSpan, EndedSpan

\* A query's handler ends without an event.
LEMMA RootEnds ==
  ASSUME Typed, NEW l \in Seq(Events), NEW es \in Seq(Spans),
         Matches(l, es), EndedFirst(l, es, phase), NEW r \in Request,
         NEW from \in {"new", "fetching", "raised"}, NEW to \in {"closed", "crashed"},
         Goes(r, from, to)
  PROVE  Matches(l, Append(es, Root(r))) /\ EndedFirst(l, Append(es, Root(r)), phase')
<1>1. Root(r) \in Spans /\ Root(r).trace = r
  BY HandlersSpans DEF Root, Span
<1>2. phase[r] = from
  BY DEF Goes
<1>3. r \notin Audited(l)
  BY <1>2, NotYetEnded
<1>4. EndedFirst(l, es, phase') /\ phase'[r] = to
  BY EndedStays, GoesKeepsPhases
<1>5. Matches(l, Append(es, Root(r)))
  BY <1>1, <1>3, MatchesSpan
<1>6. EndedFirst(l, Append(es, Root(r)), phase')
  BY <1>1, <1>4, EndedSpan
<1> QED BY <1>5, <1>6

LEMMA InTraceOrderNext ==
  Typed /\ log \in Seq(Events) /\ ended \in Seq(Spans) /\ InTraceOrder /\ [Next]_vars
    => InTraceOrder'
<1> SUFFICES ASSUME Typed, log \in Seq(Events), ended \in Seq(Spans), InTraceOrder, [Next]_vars
             PROVE  InTraceOrder'
  OBVIOUS
<1>1. Matches(log, ended) /\ EndedFirst(log, ended, phase)
  BY DEF InTraceOrder
<1>2. CASE UNCHANGED vars
  BY <1>1, <1>2 DEF vars, InTraceOrder
<1>3. CASE ReadDenied
  <2> DEFINE event == Event(NoTenant, "query.denied", NoTenant)
  <2>1. event \in Events /\ event.trace = NoTenant
    BY DEF Event, Events, Tenants
  <2>2. log' = Append(log, event) /\ ended' = ended /\ phase' = phase
    BY <1>3 DEF ReadDenied, Denied, Record
  <2> HIDE DEF event
  <2>3. Matches(Append(log, event), ended) /\ EndedFirst(Append(log, event), ended, phase)
    BY <1>1, <2>1, MatchesRead, EndedEvent
  <2> QED BY <2>2, <2>3 DEF InTraceOrder
<1>4. ASSUME NEW r \in Request, Handler(r)
      PROVE  InTraceOrder'
  <2>1. /\ TenantOf[r] \in Tenants /\ NoTenant \in Tenants
        /\ Planned(r) \in Spans /\ ~IsRoot(Planned(r))
    BY HandlersSpans DEF Tenants, Planned, Span, IsRoot
  <2> DEFINE fetch == Span(r, "connector.execute", NoTenant)
             planned == Append(ended, Planned(r))
  <2>2. fetch \in Spans /\ ~IsRoot(fetch)
    BY HandlersSpans DEF Span, IsRoot
  <2>3. Matches(log, planned) /\ EndedFirst(log, planned, phase) /\ planned \in Seq(Spans)
    BY <1>1, <2>1, SpanEnds, AppendProperties
  <2> HIDE DEF fetch, planned
  <2>4. CASE Unauthenticated(r)
    <3>1. /\ Goes(r, "new", "closed")
          /\ ended' = Append(ended, Span(r, "query", NoTenant))
          /\ log' = Append(log, Event(r, "query.denied", NoTenant))
      BY <2>4 DEF Unauthenticated, End, Denied, Record
    <3>2. /\ Matches(log', ended') /\ EndedFirst(log', ended', phase')
      BY <1>1, <2>1, <3>1, QueryEnds
    <3> QED BY <3>2 DEF InTraceOrder
  <2>5. CASE Deny(r)
    <3>1. /\ ended' = Append(planned, Span(r, "query", TenantOf[r]))
          /\ ended' = Append(planned, Root(r))
      BY <2>5 DEF Deny, EndBoth, Root, planned
    <3>2. CASE Goes(r, "new", "closed") /\ Denied(r, TenantOf[r])
      <4>1. log' = Append(log, Event(r, "query.denied", TenantOf[r]))
        BY <3>2 DEF Denied, Record
      <4>2. Matches(log', ended') /\ EndedFirst(log', ended', phase')
        BY <2>1, <2>3, <3>1, <3>2, <4>1, QueryEnds
      <4> QED BY <4>2 DEF InTraceOrder
    <3>3. CASE Crashes(r, "new")
      <4>1. Goes(r, "new", "crashed") /\ log' = log
        BY <3>3 DEF Crashes
      <4>2. Matches(log, ended') /\ EndedFirst(log, ended', phase')
        BY <2>3, <3>1, <4>1, RootEnds
      <4> QED BY <4>1, <4>2 DEF InTraceOrder
    <3> QED BY <2>5, <3>2, <3>3 DEF Deny
  <2>6. CASE Limit(r)
    <3>1. PICK to \in {"queued", "closed"} : Goes(r, "new", to)
      BY <2>6 DEF Limit
    <3>2. /\ ended' = Append(planned, Span(r, "query", TenantOf[r]))
          /\ log' = Append(log, Event(r, "query.rate_limited", TenantOf[r]))
      BY <2>6 DEF Limit, EndBoth, Record, Root, planned
    <3>3. /\ Matches(log', ended') /\ EndedFirst(log', ended', phase')
      BY <2>1, <2>3, <3>1, <3>2, QueryEnds
    <3> QED BY <3>3 DEF InTraceOrder
  <2>7. CASE Admit(r)
    <3>1. Goes(r, "new", "fetching") /\ ended' = planned /\ log' = log
      BY <2>7 DEF Admit, End, planned
    <3>2. EndedFirst(log, planned, phase')
      BY <2>3, <3>1, EndedStays
    <3> QED BY <2>3, <3>1, <3>2 DEF InTraceOrder
  <2>8. CASE JobExecutes(r)
    <3>1. Goes(r, "queued", "closed") /\ ended' = ended /\ log' = log
      BY <2>8 DEF JobExecutes
    <3>2. EndedFirst(log, ended, phase')
      BY <1>1, <3>1, EndedStays
    <3> QED BY <1>1, <3>1, <3>2 DEF InTraceOrder
  <2>9. CASE FetchEnds(r)
    <3>1. log' = log /\ (ended' = ended \/ ended' = Append(ended, fetch))
      BY <2>9 DEF FetchEnds, End, fetch
    <3>2. EndedFirst(log, ended, phase')
      <4>1. CASE phase' = phase
        BY <1>1, <4>1
      <4>2. CASE phase' = [phase EXCEPT ![r] = IF @ = "fetching" THEN "raised" ELSE @]
        <5> DEFINE to == IF phase[r] = "fetching" THEN "raised" ELSE phase[r]
        <5>1. to \in {"new", "fetching", "raised", "queued", "closed", "crashed"}
          BY DEF Typed
        <5>2. Goes(r, phase[r], to)
          BY <4>2 DEF Goes, Typed
        <5>3. phase[r] \in {"new", "fetching", "raised"} \/ phase[r] = to
          OBVIOUS
        <5> HIDE DEF to
        <5> QED BY <1>1, <5>1, <5>2, <5>3, EndedStays
      <4> QED BY <2>9, <4>1, <4>2 DEF FetchEnds
    <3>3. CASE ended' = ended
      BY <1>1, <3>1, <3>2, <3>3 DEF InTraceOrder
    <3>4. CASE ended' = Append(ended, fetch)
      <4>1. Matches(log, Append(ended, fetch)) /\ EndedFirst(log, Append(ended, fetch), phase')
        BY <1>1, <2>2, <3>2, SpanEnds
      <4> QED BY <3>1, <3>4, <4>1 DEF InTraceOrder
    <3> QED BY <3>1, <3>3, <3>4
  <2>10. CASE Respond(r)
    <3>1. /\ Goes(r, "fetching", "closed")
          /\ ended' = Append(ended, Span(r, "query", TenantOf[r]))
          /\ log' = Append(log, Event(r, "query.execute", TenantOf[r]))
      BY <2>10 DEF Respond, End, Record, Root
    <3>2. /\ Matches(log', ended') /\ EndedFirst(log', ended', phase')
      BY <1>1, <2>1, <3>1, QueryEnds
    <3> QED BY <3>2 DEF InTraceOrder
  <2>11. CASE RequestTimesOut(r)
    <3>1. Goes(r, "fetching", "closed") /\ ended' = Append(ended, Root(r)) /\ log' = log
      BY <2>11 DEF RequestTimesOut, End
    <3>2. Matches(log, ended') /\ EndedFirst(log, ended', phase')
      BY <1>1, <3>1, RootEnds
    <3> QED BY <3>1, <3>2 DEF InTraceOrder
  <2>12. CASE Abort(r)
    <3>1. ended' = Append(ended, Span(r, "query", TenantOf[r])) /\ ended' = Append(ended, Root(r))
      BY <2>12 DEF Abort, End, Root
    <3>2. CASE Goes(r, "raised", "closed") /\ Denied(r, TenantOf[r])
      <4>1. log' = Append(log, Event(r, "query.denied", TenantOf[r]))
        BY <3>2 DEF Denied, Record
      <4>2. Matches(log', ended') /\ EndedFirst(log', ended', phase')
        BY <1>1, <2>1, <3>1, <3>2, <4>1, QueryEnds
      <4> QED BY <4>2 DEF InTraceOrder
    <3>3. ASSUME NEW from \in {"raised", "fetching"}, Crashes(r, from) PROVE InTraceOrder'
      <4>1. Goes(r, from, "crashed") /\ log' = log
        BY <3>3 DEF Crashes
      <4>2. Matches(log, ended') /\ EndedFirst(log, ended', phase')
        BY <1>1, <3>1, <4>1, RootEnds
      <4> QED BY <4>1, <4>2 DEF InTraceOrder
    <3> QED BY <2>12, <3>2, <3>3 DEF Abort
  <2> QED BY <1>4, <2>4, <2>5, <2>6, <2>7, <2>8, <2>9, <2>10, <2>11, <2>12 DEF Handler
<1> QED BY <1>2, <1>3, <1>4 DEF Next

LEMMA InOrderIs ==
  ASSUME InTraceOrder, log \in Seq(Events), ended \in Seq(Spans)
  PROVE  TrailInTraceOrder
<1> DEFINE events == Selected(log, Queries(log))
           roots == Selected(ended, AuditedRoots(log, ended))
           TracesOf(seq) == [k \in DOMAIN seq |-> seq[k].trace]
<1>1. Len(events) = Len(roots) /\ \A k \in 1..Len(events) : events[k].trace = roots[k].trace
  BY DEF InTraceOrder, Matches
<1>2. Queries(log) \in SUBSET (DOMAIN log) /\ AuditedRoots(log, ended) \in SUBSET (DOMAIN ended)
  BY DEF Queries, AuditedRoots
<1>3. events \in Seq(Events) /\ roots \in Seq(Spans)
  BY <1>2, SelectedType
<1> HIDE DEF events, roots
<1>4. DOMAIN events = 1..Len(events) /\ DOMAIN roots = 1..Len(roots)
  BY <1>3, LenProperties
<1>5. TracesOf(events) = TracesOf(roots)
  BY <1>1, <1>4
<1> QED BY <1>5 DEF TrailInTraceOrder, events, roots, Queries, Audited, AuditedRoots

-----------------------------------------------------------------------------

IInv == Typed /\ Counted /\ RingIsLast /\ Collected(traces, ended) /\ InTraceOrder

LEMMA InvInit == Init => IInv
BY TypedInit, CountedInit, RingInit, CollectedInit, InTraceOrderInit DEF IInv

LEMMA InvNext == IInv /\ [Next]_vars => IInv'
<1> SUFFICES ASSUME IInv, [Next]_vars PROVE IInv'
  OBVIOUS
<1>1. /\ Typed /\ Counted /\ RingIsLast /\ Collected(traces, ended) /\ InTraceOrder
      /\ log \in Seq(Events) /\ ended \in Seq(Spans)
  BY DEF IInv, RingIsLast, Collected
<1>2. Typed' /\ RingIsLast' /\ Collected(traces, ended)'
  BY <1>1, TypedNext, RingNext, CollectedNext
<1>3. Counted' /\ InTraceOrder'
  BY <1>1, CountedNext, InTraceOrderNext
<1> QED BY <1>2, <1>3 DEF IInv

LEMMA InvAlways == Spec => []IInv
<1>1. Init => IInv
  BY InvInit
<1>2. IInv /\ [Next]_vars => IInv'
  BY InvNext
<1> QED BY <1>1, <1>2, PTL DEF Spec

LEMMA TypesHold == IInv => TypeOK
<1> SUFFICES ASSUME IInv PROVE TypeOK
  OBVIOUS
<1>1. Typed /\ RingIsLast /\ Collected(traces, ended)
  BY DEF IInv
<1>2. Len(ring) <= RingSize
  <2>1. log \in Seq(Events) /\ ring = LastOf(RingSize, log) /\ RingSize \in Nat \ {0}
    BY <1>1, TelemetryAssumption DEF RingIsLast
  <2>2. PICK off \in 0..Len(log) :
          /\ off = IF Len(log) > RingSize THEN Len(log) - RingSize ELSE 0
          /\ Len(LastOf(RingSize, log)) = Len(log) - off
    BY <2>1, LastOfIs
  <2>3. Len(log) \in Nat
    BY <2>1, LenProperties
  <2> DEFINE m == Len(log)
  <2>4. Len(ring) = m - off /\ off = IF m > RingSize THEN m - RingSize ELSE 0
    BY <2>1, <2>2
  <2>5. m \in Nat
    BY <2>3
  <2> HIDE DEF m
  <2> QED BY <2>1, <2>4, <2>5
<1>3. Len(traces) <= MaxTraces /\ Distinct(traces)
  BY <1>1 DEF Collected
<1> QED BY <1>1, <1>2, <1>3 DEF TypeOK, Typed, Distinct

\* Every handler leaves its query in a phase it can be in, no fetch ends twice, the
\* ring and the collector are within their bounds after every event and span, and no
\* trace is in the collector twice (audit.py:15-28, observability.py:46-67).
THEOREM TelemetryTypes == Spec => []TypeOK
<1>1. IInv => TypeOK
  BY TypesHold
<1> QED BY <1>1, InvAlways, PTL

\* The collector drops the trace that was silent for the longest, and only when
\* MaxTraces others were heard of since; a late span starts a dropped trace anew
\* (on_end, observability.py:55-67).  The collector, whose order on_end maintains a
\* span at a time, is at every moment what the export tells by counting.
THEOREM DropsTheLongestSilent == Spec => []DropsTheMostSilent
<1>1. IInv => DropsTheMostSilent
  BY CollectedDrops DEF IInv
<1> QED BY <1>1, InvAlways, PTL

\* GET /v1/trace/latest is the tenant's last query, or one of the tenant heard of
\* since; a 404 only if that one was dropped or is hidden by another's
\* (latest_query_trace, observability.py:75-80, main.py:274-281).
THEOREM LatestIsTheLast == Spec => []LatestIsTheTenantsLast
<1>1. IInv => LatestIsTheTenantsLast
  BY CollectedLatest DEF IInv
<1> QED BY <1>1, InvAlways, PTL

\* GET /v1/audit gives the last n events of the tenant that the ring still holds, and
\* the ring holds the last RingSize of all (record and recent, audit.py:19-35).
THEOREM RecentAreTheLast == Spec => []RecentAreTheTenantsLast
<1>1. IInv => RecentAreTheTenantsLast
  BY RingRecent DEF IInv
<1> QED BY <1>1, InvAlways, PTL

\* The events of queries are in the order in which their handlers' root spans end:
\* every handler that records an event ends its root in the same step, and records
\* once (main.py:308-325, 381, 445).
THEOREM TrailIsInOrder == Spec => []TrailInTraceOrder
<1>1. IInv => TrailInTraceOrder
  BY InOrderIs DEF IInv, RingIsLast, Collected
<1> QED BY <1>1, InvAlways, PTL

\* The counters tell what the trail tells, and every query that is over is counted
\* once, unless it crashed (main.py:308-325, 377-388, 422-427, 441-445).
THEOREM CountersAgree == Spec => []CountersAgreeWithTrail
<1>1. IInv => CountersAgreeWithTrail
  BY DEF IInv, Counted
<1> QED BY <1>1, InvAlways, PTL
=============================================================================
