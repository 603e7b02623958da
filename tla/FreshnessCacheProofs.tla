------------------------- MODULE FreshnessCacheProofs -------------------------
(***************************************************************************)
(* What is proved of the freshness cache, for any number of overlapping    *)
(* fetches, any tolerances, deadlines and changes of the source: how old   *)
(* the rows of an entry, of a hit and of any other answer can be, and that *)
(* the entries of a mock connector never go back.                          *)
(*                                                                         *)
(* One fact carries the proofs: rows that were the source's at tick n stay *)
(* "current since n" whatever happens next (CurrentStays), so that it is   *)
(* enough to know when the rows of an entry, and those a suspended fetch   *)
(* holds in its hands, were the source's.                                  *)
(***************************************************************************)
EXTENDS FreshnessCache, SequenceTheorems, TLAPS

-----------------------------------------------------------------------------
(* The inductive invariant.                                                *)

\* A suspended fetch is within its deadline, and what it has read was the source's
\* after it was called.
CallOnTime(t) ==
  IsWaiting(t) =>
    /\ now - fetch[t].calledAt <= SourceTimeout
    /\ fetch[t].read # Unset => CurrentSince(fetch[t].read, fetch[t].calledAt)

CallsOnTime == \A t \in Task : CallOnTime(t)

IInv == TypeOK /\ CallsOnTime /\ StampWithinLag

\* The tolerance of a call is a number of ticks.
LEMMA ToleranceIsNat ==
  ASSUME NEW asked \in MaxStaleness \cup {Unset}
  PROVE  Tolerance(asked) \in Nat
  BY PolicyAssumption DEF Tolerance, AtLeast

LEMMA LagIsNat == Lag \in Nat
  BY PolicyAssumption DEF Lag

\* What TypeOK says of one entry, of one suspended fetch and of the source.
LEMMA TypedEntry ==
  ASSUME TypeOK, NEW i \in DOMAIN objects
  PROVE  /\ objects[i].rows \in 1..version
         /\ objects[i].fetchedAt \in 0..now
<1>1. objects \in Seq(Entry) /\ DOMAIN objects = 1..Len(objects)
  BY LenProperties DEF TypeOK
<1>2. objects[i] \in Entry
  BY <1>1, ElementOfSeq
<1> QED BY <1>2 DEF Entry

LEMMA TypedCall ==
  ASSUME TypeOK, NEW t \in Task, IsWaiting(t)
  PROVE  /\ fetch[t].calledAt \in 0..now
         /\ fetch[t].held \in Ref
         /\ fetch[t].read \in 1..version \cup {Unset}
  BY DEF TypeOK, IsWaiting, WaitingCall

LEMMA TypedSource ==
  ASSUME TypeOK
  PROVE  /\ version \in Nat /\ version >= 1 /\ now \in Nat
         /\ \A v \in 1..version : since[v] \in 0..now
  BY LenProperties, ElementOfSeq DEF TypeOK, version

LEMMA NewestIsCurrent == ASSUME NEW n PROVE CurrentSince(version, n)
  BY DEF CurrentSince

\* What was current since n was so since any earlier tick.
LEMMA CurrentSinceEarlier ==
  ASSUME TypeOK, NEW v \in 1..version, NEW n \in Int, NEW m \in Int, m <= n,
         CurrentSince(v, n)
  PROVE  CurrentSince(v, m)
<1>1. CASE v = version
  BY <1>1 DEF CurrentSince
<1>2. CASE v # version
  <2>1. v + 1 \in 1..version
    BY <1>2, TypedSource
  <2>2. since[v + 1] \in Int /\ since[v + 1] >= n
    BY <1>2, <2>1, TypedSource DEF CurrentSince
  <2> QED BY <2>2 DEF CurrentSince
<1> QED BY <1>1, <1>2

\* No step of the system takes back that rows were the source's at tick n.
LEMMA CurrentStays ==
  ASSUME TypeOK, [Next]_vars, NEW v \in 1..version, NEW n \in Int, n <= now,
         CurrentSince(v, n)
  PROVE  CurrentSince(v, n)'
<1>1. CASE Change
  <2>1. since' = Append(since, now) /\ since \in Seq(0..now)
    BY <1>1 DEF Change, TypeOK
  <2>2. Len(since') = version + 1 /\ since'[version + 1] = now
        /\ \A w \in 1..version : since'[w] = since[w]
    BY <2>1, AppendProperties DEF version
  <2>3. CASE v = version
    BY <2>2, <2>3 DEF CurrentSince
  <2>4. CASE v # version
    BY <2>2, <2>4, TypedSource DEF CurrentSince
  <2> QED BY <2>3, <2>4
<1>2. CASE UNCHANGED since
  BY <1>2 DEF CurrentSince, version
<1> QED
  BY <1>1, <1>2 DEF Next, Call, Read, Return304, Return200, Fail, Cancel, Clear, Tick, vars

-----------------------------------------------------------------------------
(* Types.                                                                  *)

\* The sets of entries, references and calls only grow while the clock, the source
\* and the list of entries do.
LEMMA SetsGrow ==
  ASSUME TypeOK, now' \in Nat, now <= now', version' \in Nat, version <= version',
         DOMAIN objects \subseteq DOMAIN objects'
  PROVE  /\ Entry \subseteq Entry'
         /\ Ref \subseteq Ref'
         /\ WaitingCall \subseteq WaitingCall'
<1>1. 0..now \subseteq 0..now' /\ 1..version \subseteq 1..version'
  BY TypedSource
<1> QED BY <1>1 DEF Entry, Ref, WaitingCall

LEMMA InitTypeOK == Init => TypeOK
<1> SUFFICES ASSUME Init PROVE TypeOK
  OBVIOUS
<1>1. since \in Seq(0..now) /\ version = 1
  BY DEF Init, version
<1>2. objects \in Seq(Entry) /\ entry \in Ref
  BY EmptySeq DEF Init, Ref
<1> QED BY <1>1, <1>2 DEF Init, TypeOK

\* The rows that a fetch brings back are a version of the source.
LEMMA ProducedIsVersion ==
  ASSUME TypeOK, NEW t \in Task, IsWaiting(t), Produced(t) # Unset
  PROVE  Produced(t) \in 1..version
  BY TypedCall, TypedSource DEF Produced

\* A fetch that returns leaves well-formed calls and a well-formed answer.
LEMMA ReturnTypes ==
  ASSUME TypeOK, NEW t \in Task, IsWaiting(t),
         NEW kind \in {"live", "stale", "failed", "cancelled"},
         NEW rows \in 1..version \cup {Unset}, NEW freshness \in Int \cup {Unset},
         Return(t, kind, rows, freshness)
  PROVE  fetch' \in [Task -> {Idle} \cup WaitingCall] /\ answer' \in Answer
<1>1. fetch' \in [Task -> {Idle} \cup WaitingCall]
  BY DEF Return, TypeOK
<1>2. fetch[t].calledAt \in 0..now
  BY TypedCall
<1> QED BY <1>1, <1>2 DEF Return, Outcome, Answer

LEMMA CallTypes ==
  ASSUME TypeOK, NEW t \in Task, Call(t)
  PROVE  TypeOK'
<1>1. PICK asked \in MaxStaleness \cup {Unset} : Hit(asked) \/ Miss(t, asked)
  BY DEF Call
<1>2. UNCHANGED <<connector, now, since, objects, entry>>
  BY DEF Call
<1>3. CASE Hit(asked)
  <2>1. entry \in DOMAIN objects
    BY <1>3 DEF Hit, TypeOK, Ref
  <2>2. answer' = Outcome("hit", asked, now, objects[entry].rows, now - objects[entry].fetchedAt)
    BY <1>3 DEF Hit
  <2>3. answer' \in Answer
    BY <2>1, <2>2, TypedEntry, TypedSource DEF Outcome, Answer
  <2>4. UNCHANGED fetch
    BY <1>3 DEF Hit
  <2> QED BY <1>2, <2>3, <2>4 DEF TypeOK, Entry, Ref, WaitingCall, Answer, version
<1>4. CASE Miss(t, asked)
  <2>1. Waiting \in WaitingCall
    BY TypedSource DEF Waiting, WaitingCall, TypeOK
  <2>2. fetch' \in [Task -> {Idle} \cup WaitingCall] /\ answer' = NoAnswer
    BY <1>4, <2>1 DEF Miss, TypeOK
  <2> QED BY <1>2, <2>2 DEF TypeOK, Entry, Ref, WaitingCall, version
<1> QED BY <1>1, <1>3, <1>4

LEMMA ReadTypes ==
  ASSUME TypeOK, NEW t \in Task, Read(t)
  PROVE  TypeOK'
<1>1. fetch[t] \in WaitingCall
  BY DEF Read, TypeOK, IsWaiting
<1>2. [fetch[t] EXCEPT !.read = version] \in WaitingCall
  BY <1>1, TypedSource DEF WaitingCall
<1>3. fetch' \in [Task -> {Idle} \cup WaitingCall]
  BY <1>2 DEF Read, TypeOK
<1> QED BY <1>3 DEF Read, TypeOK, Entry, Ref, WaitingCall, version

\* The entry a 304 refreshes is the captured one, and keeps its rows.
LEMMA RefreshedEntry ==
  ASSUME TypeOK, NEW t \in Task, Return304(t)
  PROVE  /\ fetch[t].held \in DOMAIN objects
         /\ objects[fetch[t].held].rows = version
         /\ connector = "etag"
         /\ objects' \in Seq(Entry)
         /\ DOMAIN objects' = DOMAIN objects
         /\ \A i \in DOMAIN objects :
              /\ objects'[i].rows = objects[i].rows
              /\ objects'[i].fetchedAt = IF i = fetch[t].held THEN now ELSE objects[i].fetchedAt
<1> DEFINE held == fetch[t].held
<1>1. held \in DOMAIN objects /\ connector = "etag" /\ objects[held].rows = version
  BY TypedCall DEF Return304, NotModified, Ref, Produced
<1>2. objects \in Seq(Entry) /\ DOMAIN objects = 1..Len(objects) /\ objects[held] \in Entry
  BY <1>1, LenProperties, ElementOfSeq DEF TypeOK
<1>3. [objects[held] EXCEPT !.fetchedAt = now] \in Entry
  <2>1. now \in 0..now
    BY TypedSource
  <2> QED BY <1>2, <2>1 DEF Entry
<1>4. objects' = [objects EXCEPT ![held] = [objects[held] EXCEPT !.fetchedAt = now]]
  BY DEF Return304
<1>5. objects' \in Seq(Entry) /\ DOMAIN objects' = DOMAIN objects
  BY <1>1, <1>2, <1>3, <1>4, ExceptSeq
<1>6. ASSUME NEW i \in DOMAIN objects
      PROVE  /\ objects'[i].rows = objects[i].rows
             /\ objects'[i].fetchedAt = IF i = held THEN now ELSE objects[i].fetchedAt
  <2>1. CASE i = held
    BY <1>2, <1>4, <2>1 DEF Entry
  <2>2. CASE i # held
    BY <1>4, <2>2
  <2> QED BY <2>1, <2>2
<1> QED BY <1>1, <1>5, <1>6

LEMMA Return304Types ==
  ASSUME TypeOK, NEW t \in Task, Return304(t)
  PROVE  TypeOK'
<1>1. /\ objects' \in Seq(Entry) /\ DOMAIN objects' = DOMAIN objects
      /\ objects[fetch[t].held].rows \in 1..version
  BY RefreshedEntry, TypedSource
<1>2. IsWaiting(t) /\ Return(t, "live", objects[fetch[t].held].rows, 0)
      /\ UNCHANGED <<connector, now, since, entry>>
  BY DEF Return304
<1>3. fetch' \in [Task -> {Idle} \cup WaitingCall] /\ answer' \in Answer
  BY <1>1, <1>2, ReturnTypes
<1> QED BY <1>1, <1>2, <1>3 DEF TypeOK, Entry, Ref, WaitingCall, Answer, version

\* What a 200 adds to the list of entries.
LEMMA NewEntry ==
  ASSUME TypeOK, NEW t \in Task, Return200(t)
  PROVE  /\ objects' \in Seq(Entry)
         /\ DOMAIN objects' = DOMAIN objects \cup {entry'}
         /\ entry' \notin DOMAIN objects
         /\ objects'[entry'] = [rows |-> Produced(t), fetchedAt |-> now]
         /\ \A i \in DOMAIN objects : objects'[i] = objects[i]
<1> DEFINE new == [rows |-> Produced(t), fetchedAt |-> now]
<1>1. new \in Entry
  BY ProducedIsVersion, TypedSource DEF Return200, Entry
<1>2. objects \in Seq(Entry) /\ objects' = Append(objects, new) /\ entry' = Len(objects')
  BY DEF Return200, TypeOK
<1>3. /\ objects' \in Seq(Entry) /\ Len(objects') = Len(objects) + 1
      /\ \A i \in 1..Len(objects) : objects'[i] = objects[i]
      /\ objects'[Len(objects) + 1] = new
  BY <1>1, <1>2, AppendProperties
<1>4. /\ DOMAIN objects = 1..Len(objects) /\ DOMAIN objects' = 1..Len(objects')
      /\ Len(objects) \in Nat
  BY <1>2, <1>3, LenProperties
<1> QED BY <1>2, <1>3, <1>4

LEMMA Return200Types ==
  ASSUME TypeOK, NEW t \in Task, Return200(t)
  PROVE  TypeOK'
<1>1. IsWaiting(t) /\ Return(t, "live", Produced(t), 0) /\ UNCHANGED <<connector, now, since>>
  BY DEF Return200
<1>2. fetch' \in [Task -> {Idle} \cup WaitingCall] /\ answer' \in Answer
  BY <1>1, ProducedIsVersion, ReturnTypes DEF Return200
<1>3. WaitingCall \subseteq WaitingCall' /\ Answer' = Answer /\ Entry' = Entry
  <2>1. DOMAIN objects \subseteq DOMAIN objects'
    BY NewEntry
  <2> QED BY <1>1, <2>1 DEF WaitingCall, Ref, Answer, Entry, version
<1>4. objects' \in Seq(Entry') /\ entry' \in Ref'
  BY <1>3, NewEntry DEF Ref
<1> QED BY <1>1, <1>2, <1>3, <1>4 DEF TypeOK, version

LEMMA FailTypes ==
  ASSUME TypeOK, NEW t \in Task, Fail(t) \/ Cancel(t)
  PROVE  TypeOK'
<1>1. IsWaiting(t) /\ UNCHANGED <<connector, now, since, objects, entry>>
  BY DEF Fail, Cancel
<1>2. \E kind \in {"live", "stale", "failed", "cancelled"} :
        \E rows \in 1..version \cup {Unset}, freshness \in Int \cup {Unset} :
          Return(t, kind, rows, freshness)
  <2>1. CASE Cancel(t)
    BY <2>1 DEF Cancel
  <2>2. CASE Fail(t) /\ fetch[t].held # NoEntry
    <3>1. fetch[t].held \in DOMAIN objects /\ fetch[t].calledAt \in Int
      BY <1>1, <2>2, TypedCall, TypedSource DEF Ref
    <3>2. /\ objects[fetch[t].held].rows \in 1..version
          /\ fetch[t].calledAt - objects[fetch[t].held].fetchedAt \in Int
      BY <3>1, TypedEntry, TypedSource
    <3> QED BY <2>2, <3>2 DEF Fail
  <2>3. CASE Fail(t) /\ fetch[t].held = NoEntry
    BY <2>3 DEF Fail
  <2> QED BY <2>1, <2>2, <2>3
<1>3. fetch' \in [Task -> {Idle} \cup WaitingCall] /\ answer' \in Answer
  BY <1>1, <1>2, ReturnTypes
<1> QED BY <1>1, <1>3 DEF TypeOK, Entry, Ref, WaitingCall, Answer, version

LEMMA OtherTypes ==
  ASSUME TypeOK, Clear \/ Change \/ Tick
  PROVE  TypeOK'
<1>1. /\ now' \in Nat /\ now <= now' /\ since' \in Seq(0..now')
      /\ version' \in Nat /\ version <= version'
  <2>1. CASE Change
    BY <2>1, TypedSource, AppendProperties DEF Change, TypeOK, version
  <2>2. CASE Tick
    <3>1. since \in Seq(0..now')
      BY <2>2, TypedSource, SeqMonotonic, 0..now \subseteq 0..now' DEF Tick, TypeOK
    <3> QED BY <2>2, <3>1, TypedSource DEF Tick, version
  <2>3. CASE Clear
    BY <2>3, TypedSource DEF Clear, TypeOK, version
  <2> QED BY <2>1, <2>2, <2>3
<1>2. UNCHANGED <<connector, objects, fetch>> /\ answer' = NoAnswer
      /\ entry' \in {entry, NoEntry}
  BY DEF Clear, Change, Tick
<1>3. Entry \subseteq Entry' /\ Ref \subseteq Ref' /\ WaitingCall \subseteq WaitingCall'
  BY <1>1, <1>2, SetsGrow
<1>4. objects' \in Seq(Entry')
  BY <1>2, <1>3, SeqMonotonic DEF TypeOK
<1>5. entry' \in Ref' /\ fetch' \in [Task -> {Idle} \cup WaitingCall']
  BY <1>2, <1>3 DEF TypeOK, Ref
<1> QED BY <1>1, <1>2, <1>4, <1>5, TypedSource DEF TypeOK

LEMMA NextTypeOK ==
  ASSUME TypeOK, [Next]_vars
  PROVE  TypeOK'
<1>1. CASE UNCHANGED vars
  BY <1>1 DEF vars, TypeOK, Entry, Ref, WaitingCall, Answer, version
<1> QED BY <1>1, CallTypes, ReadTypes, Return304Types, Return200Types, FailTypes, OtherTypes
        DEF Next

-----------------------------------------------------------------------------
(* How old rows can be.                                                    *)

LEMMA NextCalls ==
  ASSUME IInv, [Next]_vars
  PROVE  CallsOnTime'
<1> SUFFICES ASSUME NEW q \in Task, IsWaiting(q)' PROVE CallOnTime(q)'
  BY DEF CallsOnTime, CallOnTime, IsWaiting
<1>0. TypeOK /\ CallOnTime(q)
  BY DEF IInv, CallsOnTime
<1>1. ASSUME UNCHANGED fetch[q], now' - fetch[q].calledAt <= SourceTimeout
      PROVE  CallOnTime(q)'
  <2> SUFFICES ASSUME fetch'[q].read # Unset
               PROVE  CurrentSince(fetch[q].read, fetch[q].calledAt)'
    BY <1>1 DEF CallOnTime, CurrentSince
  <2>1. IsWaiting(q)
    BY <1>1 DEF IsWaiting
  <2>2. fetch[q].calledAt \in Int /\ fetch[q].calledAt <= now /\ fetch[q].read \in 1..version
    BY <1>0, <1>1, <2>1, TypedCall, TypedSource
  <2>3. PICK v \in 1..version, n \in Int : v = fetch[q].read /\ n = fetch[q].calledAt
    BY <2>2
  <2>4. CurrentSince(v, n)'
    BY <1>0, <1>1, <2>1, <2>2, <2>3, CurrentStays DEF CallOnTime
  <2>5. fetch'[q].read = v /\ fetch'[q].calledAt = n
    BY <1>1, <2>3
  <2> QED BY <2>4, <2>5 DEF CurrentSince
<1>2. ASSUME UNCHANGED <<fetch[q], now>> PROVE CallOnTime(q)'
  <2>1. now' - fetch[q].calledAt <= SourceTimeout
    BY <1>0, <1>2 DEF CallOnTime, IsWaiting
  <2> QED BY <1>1, <1>2, <2>1
<1>3. ASSUME NEW t \in Task, fetch' = [fetch EXCEPT ![t] = Idle], UNCHANGED now
      PROVE  CallOnTime(q)'
  <2>1. q # t
    BY <1>0, <1>3 DEF IsWaiting, TypeOK
  <2> QED BY <1>0, <1>2, <1>3, <2>1 DEF TypeOK
<1>4. ASSUME NEW t \in Task, Call(t) PROVE CallOnTime(q)'
  <2>1. PICK asked : Hit(asked) \/ Miss(t, asked)
    BY <1>4 DEF Call
  <2>2. UNCHANGED now
    BY <1>4 DEF Call
  <2>3. CASE UNCHANGED fetch[q]
    BY <1>2, <2>2, <2>3
  <2>4. CASE fetch'[q] = Waiting
    <3>1. fetch'[q].calledAt = now /\ fetch'[q].read = Unset
      BY <2>4 DEF Waiting
    <3> QED BY <1>0, <2>2, <3>1, TypedSource, PolicyAssumption DEF CallOnTime
  <2> QED BY <1>0, <2>1, <2>3, <2>4 DEF Hit, Miss, TypeOK
<1>5. ASSUME NEW t \in Task, Read(t) PROVE CallOnTime(q)'
  <2>1. CASE q = t
    <3>1. fetch[t] \in WaitingCall /\ fetch' = [fetch EXCEPT ![t].read = version]
          /\ UNCHANGED <<now, since>>
      BY <1>0, <1>5 DEF Read, TypeOK, IsWaiting
    <3>2. fetch'[q].calledAt = fetch[q].calledAt /\ fetch'[q].read = version
      BY <1>0, <2>1, <3>1 DEF WaitingCall, TypeOK
    <3>3. now - fetch[q].calledAt <= SourceTimeout
      BY <1>0, <1>5, <2>1 DEF CallOnTime, Read
    <3> QED BY <3>1, <3>2, <3>3, NewestIsCurrent DEF CallOnTime, CurrentSince, version
  <2>2. CASE q # t
    BY <1>0, <1>2, <1>5, <2>2 DEF Read, TypeOK
  <2> QED BY <2>1, <2>2
<1>6. ASSUME NEW t \in Task, Return304(t) \/ Return200(t) \/ Fail(t) \/ Cancel(t)
      PROVE  CallOnTime(q)'
  BY <1>3, <1>6 DEF Return304, Return200, Fail, Cancel, Return
<1>7. CASE Tick
  <2>1. IsWaiting(q) /\ UNCHANGED fetch /\ now' = now + 1
    BY <1>7 DEF Tick, IsWaiting
  <2>2. now' - fetch[q].calledAt <= SourceTimeout
    BY <1>0, <1>7, <2>1, TypedCall, TypedSource, PolicyAssumption DEF Tick
  <2> QED BY <1>1, <2>1, <2>2
<1>8. CASE Clear \/ Change \/ UNCHANGED vars
  BY <1>2, <1>8 DEF Clear, Change, vars
<1> QED BY <1>4, <1>5, <1>6, <1>7, <1>8 DEF Next

\* What a fetch brings back was the source's within the duration of the fetch, or
\* is the source's now.
LEMMA ProducedWithinLag ==
  ASSUME IInv, NEW t \in Task, IsWaiting(t), Produced(t) # Unset
  PROVE  /\ CurrentSince(Produced(t), now - Lag)
         /\ CurrentSince(Produced(t), fetch[t].calledAt)
<1>0. TypeOK
  BY DEF IInv
<1>1. CASE connector = "live"
  <2>1. Produced(t) = fetch[t].read /\ Lag = SourceTimeout
    BY <1>1 DEF Produced, Lag
  <2>2. /\ CurrentSince(fetch[t].read, fetch[t].calledAt)
        /\ now - fetch[t].calledAt <= SourceTimeout
    BY <2>1 DEF IInv, CallsOnTime, CallOnTime
  <2>3. fetch[t].calledAt \in Int /\ now - SourceTimeout \in Int
        /\ now - SourceTimeout <= fetch[t].calledAt
    BY <1>0, <2>2, TypedCall, TypedSource, PolicyAssumption
  <2>4. CurrentSince(fetch[t].read, now - SourceTimeout)
    BY <1>0, <2>1, <2>2, <2>3, ProducedIsVersion, CurrentSinceEarlier
  <2> QED BY <2>1, <2>2, <2>4
<1>2. CASE connector # "live"
  BY <1>2, NewestIsCurrent DEF Produced
<1> QED BY <1>1, <1>2

LEMMA NextStamps ==
  ASSUME IInv, [Next]_vars
  PROVE  StampWithinLag'
<1> SUFFICES ASSUME NEW i \in DOMAIN objects'
             PROVE  CurrentSince(objects[i].rows, objects[i].fetchedAt - Lag)'
  BY DEF StampWithinLag
<1>0. TypeOK /\ Lag \in Nat /\ Lag' = Lag
  <2>1. connector' = connector
    BY DEF Next, Call, Read, Return304, Return200, Fail, Cancel, Clear, Change, Tick, vars
  <2> QED BY <2>1, LagIsNat DEF IInv, Lag
<1>1. ASSUME i \in DOMAIN objects, UNCHANGED objects[i]
      PROVE  CurrentSince(objects[i].rows, objects[i].fetchedAt - Lag)'
  <2>1. /\ objects[i].rows \in 1..version
        /\ objects[i].fetchedAt - Lag \in Int /\ objects[i].fetchedAt - Lag <= now
    BY <1>0, <1>1, TypedEntry, TypedSource
  <2>2. CurrentSince(objects[i].rows, objects[i].fetchedAt - Lag)
    BY <1>1 DEF IInv, StampWithinLag
  <2>3. PICK v \in 1..version, n \in Int : v = objects[i].rows /\ n = objects[i].fetchedAt - Lag
    BY <2>1
  <2>4. CurrentSince(v, n)'
    BY <1>0, <2>1, <2>2, <2>3, CurrentStays
  <2>5. objects'[i].rows = v /\ objects'[i].fetchedAt - Lag' = n
    BY <1>0, <1>1, <2>3
  <2> QED BY <2>4, <2>5 DEF CurrentSince
<1>2. ASSUME NEW t \in Task, Return304(t)
      PROVE  CurrentSince(objects[i].rows, objects[i].fetchedAt - Lag)'
  <2>1. i \in DOMAIN objects /\ UNCHANGED since
    BY <1>0, <1>2, RefreshedEntry DEF Return304
  <2>2. CASE i = fetch[t].held
    <3>1. objects'[i].rows = version
      BY <1>0, <1>2, <2>1, <2>2, RefreshedEntry
    <3> QED BY <2>1, <3>1 DEF CurrentSince, version
  <2>3. CASE i # fetch[t].held
    <3>1. UNCHANGED <<objects[i].rows, objects[i].fetchedAt>>
      BY <1>0, <1>2, <2>1, <2>3, RefreshedEntry
    <3>2. CurrentSince(objects[i].rows, objects[i].fetchedAt - Lag)
      BY <2>1 DEF IInv, StampWithinLag
    <3> QED BY <1>0, <2>1, <3>1, <3>2 DEF CurrentSince, version
  <2> QED BY <2>2, <2>3
<1>3. ASSUME NEW t \in Task, Return200(t)
      PROVE  CurrentSince(objects[i].rows, objects[i].fetchedAt - Lag)'
  <2>1. CASE i \in DOMAIN objects
    BY <1>0, <1>1, <1>3, <2>1, NewEntry
  <2>2. CASE i = entry'
    <3>1. objects'[i].rows = Produced(t) /\ objects'[i].fetchedAt = now /\ UNCHANGED since
      BY <1>0, <1>3, <2>2, NewEntry DEF Return200
    <3>2. CurrentSince(Produced(t), now - Lag)
      BY <1>3, ProducedWithinLag DEF Return200
    <3> QED BY <1>0, <3>1, <3>2 DEF CurrentSince, version
  <2> QED BY <1>0, <1>3, <2>1, <2>2, NewEntry
<1>4. CASE UNCHANGED objects
  BY <1>1, <1>4
<1> QED BY <1>2, <1>3, <1>4 DEF Next, Call, Read, Fail, Cancel, Clear, Change, Tick, vars

LEMMA AlwaysIInv == Spec => []IInv
<1>1. Init => IInv
  BY InitTypeOK DEF Init, IInv, CallsOnTime, CallOnTime, IsWaiting, StampWithinLag
<1>2. IInv /\ [Next]_vars => IInv'
  BY NextTypeOK, NextCalls, NextStamps DEF IInv
<1> QED BY <1>1, <1>2, PTL DEF Spec

\* Type correctness: every entry, suspended fetch and answer is well formed.
THEOREM CacheTypes == Spec => []TypeOK
<1>1. IInv => TypeOK
  BY DEF IInv
<1> QED BY <1>1, AlwaysIInv, PTL

\* The rows of an entry were the source's at its stamp, give or take the duration of
\* a live fetch, whatever fetches, 304s, failures and clears overlap
\* (freshness.py:80-87).
THEOREM StampsAreTrue == Spec => []StampWithinLag
<1>1. IInv => StampWithinLag
  BY DEF IInv
<1> QED BY <1>1, AlwaysIInv, PTL

-----------------------------------------------------------------------------
(* What the callers are told.                                              *)

\* A step that answers leaves the clock and the source alone.
LEMMA SameMoment ==
  ASSUME UNCHANGED <<connector, now, since>>
  PROVE  /\ version' = version /\ Lag' = Lag
         /\ \A v, n : CurrentSince(v, n)' <=> CurrentSince(v, n)
  BY DEF version, Lag, CurrentSince

\* A hit serves the entry, whose stamp is inside the tolerance.
LEMMA HitIsCurrent ==
  ASSUME IInv, NEW asked \in MaxStaleness \cup {Unset}, Hit(asked)
  PROVE  /\ answer'.kind = "hit" /\ answer'.asked = asked
         /\ CurrentSince(answer'.rows, now - Tolerance(asked) - Lag)
         /\ CurrentSince(answer'.rows, now - answer'.freshness - Lag)
<1>0. TypeOK
  BY DEF IInv
<1>1. entry \in DOMAIN objects
  BY <1>0 DEF Hit, TypeOK, Ref
<1>2. /\ objects[entry].rows \in 1..version /\ objects[entry].fetchedAt \in Int
      /\ now \in Int /\ Lag \in Int /\ Tolerance(asked) \in Int
  BY <1>0, <1>1, TypedEntry, TypedSource, LagIsNat, ToleranceIsNat
<1>3. CurrentSince(objects[entry].rows, objects[entry].fetchedAt - Lag)
  BY <1>1 DEF IInv, StampWithinLag
<1>4. /\ answer' = Outcome("hit", asked, now, objects[entry].rows, now - objects[entry].fetchedAt)
      /\ now - objects[entry].fetchedAt <= Tolerance(asked)
  BY DEF Hit
<1>5. CurrentSince(objects[entry].rows, now - Tolerance(asked) - Lag)
  BY <1>0, <1>2, <1>3, <1>4, CurrentSinceEarlier
<1>6. now - (now - objects[entry].fetchedAt) - Lag = objects[entry].fetchedAt - Lag
  BY <1>2
<1> QED BY <1>3, <1>4, <1>5, <1>6 DEF Outcome

\* What a failed fetch serves is the captured entry, inside the error window.
LEMMA StaleIsCurrent ==
  ASSUME IInv, NEW t \in Task, Fail(t), answer'.kind = "stale"
  PROVE  /\ CurrentSince(answer'.rows, now - answer'.freshness - SourceTimeout - Lag)
         /\ CurrentSince(answer'.rows, now - StaleIfError - SourceTimeout - Lag)
<1> DEFINE held == fetch[t].held
           age == fetch[t].calledAt - objects[held].fetchedAt
<1>0. TypeOK /\ IsWaiting(t)
  BY DEF IInv, Fail
<1>1. /\ held # NoEntry /\ age <= StaleIfError
      /\ answer'.rows = objects[held].rows /\ answer'.freshness = age
  BY DEF Fail, Return, Outcome
<1>2. held \in DOMAIN objects
  BY <1>0, <1>1, TypedCall DEF Ref
<1>3. /\ objects[held].rows \in 1..version /\ objects[held].fetchedAt \in Int
      /\ fetch[t].calledAt \in Int /\ now \in Int /\ Lag \in Int
      /\ StaleIfError \in Int /\ SourceTimeout \in Int
  BY <1>0, <1>2, TypedEntry, TypedCall, TypedSource, LagIsNat, PolicyAssumption
<1>4. now - fetch[t].calledAt <= SourceTimeout
  BY <1>0 DEF IInv, CallsOnTime, CallOnTime
<1>5. CurrentSince(objects[held].rows, objects[held].fetchedAt - Lag)
  BY <1>2 DEF IInv, StampWithinLag
<1>6. /\ now - age - SourceTimeout - Lag <= objects[held].fetchedAt - Lag
      /\ now - StaleIfError - SourceTimeout - Lag <= objects[held].fetchedAt - Lag
      /\ {now - age - SourceTimeout - Lag, now - StaleIfError - SourceTimeout - Lag,
          objects[held].fetchedAt - Lag} \subseteq Int
  BY <1>1, <1>3, <1>4
<1> HIDE DEF age, held
<1> QED BY <1>0, <1>1, <1>3, <1>5, <1>6, CurrentSinceEarlier

\* A live answer is what the fetch brought back.
LEMMA LiveIsCurrent ==
  ASSUME IInv, NEW t \in Task, Return304(t) \/ Return200(t)
  PROVE  /\ answer'.kind = "live" /\ answer'.freshness = 0
         /\ CurrentSince(answer'.rows, answer'.calledAt)
         /\ CurrentSince(answer'.rows, now - Lag)
<1>0. TypeOK /\ IsWaiting(t)
  BY DEF IInv, Return304, Return200
<1>1. answer'.kind = "live" /\ answer'.freshness = 0 /\ answer'.calledAt = fetch[t].calledAt
  BY DEF Return304, Return200, Return, Outcome
<1>2. CASE Return304(t)
  <2>1. answer'.rows = version
    BY <1>0, <1>2, RefreshedEntry DEF Return304, Return, Outcome
  <2> QED BY <1>1, <2>1, NewestIsCurrent
<1>3. CASE Return200(t)
  <2>1. answer'.rows = Produced(t) /\ Produced(t) # Unset
    BY <1>3 DEF Return200, Return, Outcome
  <2> QED BY <1>0, <1>1, <2>1, ProducedWithinLag
<1> QED BY <1>2, <1>3

\* Where the answer of a step comes from.
LEMMA AnswerOfStep ==
  ASSUME IInv, [Next]_vars
  PROVE  \/ UNCHANGED vars
         \/ ~Answered({"live", "hit", "stale"})'
         \/ /\ UNCHANGED <<connector, now, since>>
            /\ \/ \E asked \in MaxStaleness \cup {Unset} : Hit(asked)
               \/ \E t \in Task : Return304(t) \/ Return200(t)
               \/ \E t \in Task : Fail(t) /\ answer'.kind = "stale"
<1>1. ASSUME NEW t \in Task, Call(t)
      PROVE  \/ answer' = NoAnswer
             \/ /\ UNCHANGED <<connector, now, since>>
                /\ \E asked \in MaxStaleness \cup {Unset} : Hit(asked)
  BY <1>1 DEF Call, Miss
<1>2. ASSUME NEW t \in Task, Fail(t) \/ Cancel(t)
      PROVE  \/ answer'.kind \in {"failed", "cancelled"}
             \/ UNCHANGED <<connector, now, since>> /\ Fail(t) /\ answer'.kind = "stale"
  BY <1>2 DEF Fail, Cancel, Return, Outcome
<1>3. ASSUME NEW t \in Task, Return304(t) \/ Return200(t)
      PROVE  UNCHANGED <<connector, now, since>>
  BY <1>3 DEF Return304, Return200
<1>4. ASSUME (\E t \in Task : Read(t)) \/ Clear \/ Change \/ Tick PROVE answer' = NoAnswer
  BY <1>4 DEF Read, Clear, Change, Tick
<1>5. \/ answer' = NoAnswer
      \/ answer'.kind \in {"failed", "cancelled"}
      => ~Answered({"live", "hit", "stale"})'
  BY DEF Answered
<1> QED BY <1>1, <1>2, <1>3, <1>4, <1>5 DEF Next

\* A cache hit serves rows that were the source's within the staleness its client
\* accepts, or the source's minimum if that is more (freshness.py:50-62).
THEOREM HitsAreTolerable == Spec => []HitWithinTolerance
<1>1. Init => HitWithinTolerance
  BY DEF Init, HitWithinTolerance, Answered
<1>2. ASSUME IInv, HitWithinTolerance, [Next]_vars PROVE HitWithinTolerance'
  <2>1. CASE UNCHANGED vars
    BY <1>2, <2>1 DEF vars, HitWithinTolerance, Answered, CurrentSince, Lag, version
  <2>2. ASSUME NEW asked \in MaxStaleness \cup {Unset}, Hit(asked),
               UNCHANGED <<connector, now, since>>
        PROVE  HitWithinTolerance'
    BY <1>2, <2>2, HitIsCurrent, SameMoment DEF HitWithinTolerance, CurrentSince
  <2>3. ASSUME NEW t \in Task, Return304(t) \/ Return200(t) PROVE HitWithinTolerance'
    BY <1>2, <2>3, LiveIsCurrent DEF HitWithinTolerance, Answered
  <2>4. CASE answer'.kind = "stale" \/ ~Answered({"live", "hit", "stale"})'
    BY <2>4 DEF HitWithinTolerance, Answered
  <2> QED BY <1>2, <2>1, <2>2, <2>3, <2>4, AnswerOfStep
<1> QED BY <1>1, <1>2, AlwaysIInv, PTL DEF Spec

\* A live answer was the source's at some moment of its own call: no captured entry
\* and no other query's rows can make it older (freshness.py:68-87).
THEOREM LiveAnswersAreLive == Spec => []LiveDuringCall
<1>1. Init => LiveDuringCall
  BY DEF Init, LiveDuringCall, Answered
<1>2. ASSUME IInv, LiveDuringCall, [Next]_vars PROVE LiveDuringCall'
  <2>1. CASE UNCHANGED vars
    BY <1>2, <2>1 DEF vars, LiveDuringCall, Answered, CurrentSince, version
  <2>2. ASSUME NEW asked \in MaxStaleness \cup {Unset}, Hit(asked) PROVE LiveDuringCall'
    BY <1>2, <2>2, HitIsCurrent DEF LiveDuringCall, Answered
  <2>3. ASSUME NEW t \in Task, Return304(t) \/ Return200(t),
               UNCHANGED <<connector, now, since>>
        PROVE  LiveDuringCall'
    BY <1>2, <2>3, LiveIsCurrent, SameMoment DEF LiveDuringCall, CurrentSince
  <2>4. CASE answer'.kind = "stale" \/ ~Answered({"live", "hit", "stale"})'
    BY <2>4 DEF LiveDuringCall, Answered
  <2> QED BY <1>2, <2>1, <2>2, <2>3, <2>4, AnswerOfStep
<1> QED BY <1>1, <1>2, AlwaysIInv, PTL DEF Spec

\* The freshness_ms of an answer bounds the age of its rows, and rows served after an
\* error are older than they say, and than stale_if_error_ms, by the duration of the
\* failed fetch at most (freshness.py:69-78).
THEOREM ReportedAgesBound == Spec => []ReportedAgeBounds
<1>1. Init => ReportedAgeBounds
  BY DEF Init, ReportedAgeBounds, Answered
<1>2. ASSUME IInv, ReportedAgeBounds, [Next]_vars PROVE ReportedAgeBounds'
  <2>0. now \in Int /\ Lag \in Int
    BY <1>2, TypedSource, LagIsNat DEF IInv
  <2>1. CASE UNCHANGED vars
    BY <1>2, <2>1 DEF vars, ReportedAgeBounds, Answered, CurrentSince, Lag, version
  <2>2. ASSUME NEW asked \in MaxStaleness \cup {Unset}, Hit(asked),
               UNCHANGED <<connector, now, since>>
        PROVE  ReportedAgeBounds'
    <3>1. /\ answer'.kind = "hit"
          /\ CurrentSince(answer'.rows, now - answer'.freshness - Lag)
      BY <1>2, <2>2, HitIsCurrent
    <3>2. \E f \in Int : answer'.freshness = f
      BY <1>2, <2>0, <2>2, TypedEntry DEF IInv, Hit, TypeOK, Ref, Outcome
    <3> QED BY <2>0, <2>2, <3>1, <3>2, SameMoment
            DEF ReportedAgeBounds, Answered, CurrentSince
  <2>3. ASSUME NEW t \in Task, Return304(t) \/ Return200(t),
               UNCHANGED <<connector, now, since>>
        PROVE  ReportedAgeBounds'
    <3>1. /\ answer'.kind = "live" /\ answer'.freshness = 0
          /\ CurrentSince(answer'.rows, now - Lag)
      BY <1>2, <2>3, LiveIsCurrent
    <3>2. now - 0 - 0 - Lag = now - Lag
      BY <2>0
    <3> QED BY <2>3, <3>1, <3>2, SameMoment DEF ReportedAgeBounds, Answered, CurrentSince
  <2>4. ASSUME NEW t \in Task, Fail(t), answer'.kind = "stale",
               UNCHANGED <<connector, now, since>>
        PROVE  ReportedAgeBounds'
    BY <1>2, <2>4, StaleIsCurrent, SameMoment DEF ReportedAgeBounds, Answered, CurrentSince
  <2>5. CASE ~Answered({"live", "hit", "stale"})'
    BY <2>5 DEF ReportedAgeBounds, Answered
  <2> QED BY <1>2, <2>1, <2>2, <2>3, <2>4, <2>5, AnswerOfStep
<1> QED BY <1>1, <1>2, AlwaysIInv, PTL DEF Spec

\* The table of a mock connector never goes back, to older rows or to an earlier
\* stamp, however the fetches that replace and refresh its entry overlap.
THEOREM NeverGoesBack == Spec => CacheNeverGoesBack
<1> DEFINE Forward ==
      connector # "live" /\ entry # NoEntry /\ entry' # NoEntry =>
        /\ objects'[entry'].rows >= objects[entry].rows
        /\ objects'[entry'].fetchedAt >= objects[entry].fetchedAt
<1>1. ASSUME IInv, [Next]_vars PROVE Forward
  <2> SUFFICES ASSUME connector # "live", entry # NoEntry, entry' # NoEntry
               PROVE  /\ objects'[entry'].rows >= objects[entry].rows
                      /\ objects'[entry'].fetchedAt >= objects[entry].fetchedAt
    OBVIOUS
  <2>1. /\ TypeOK /\ entry \in DOMAIN objects
        /\ objects[entry].rows \in 1..version /\ objects[entry].fetchedAt \in 0..now
        /\ now \in Int /\ version \in Int
    BY <1>1, TypedEntry, TypedSource DEF IInv, TypeOK, Ref
  <2>2. CASE UNCHANGED <<objects, entry>>
    BY <2>1, <2>2
  <2>3. ASSUME NEW t \in Task, Return304(t)
        PROVE  /\ objects'[entry'].rows >= objects[entry].rows
               /\ objects'[entry'].fetchedAt >= objects[entry].fetchedAt
    <3>1. /\ entry' = entry /\ objects'[entry].rows = objects[entry].rows
          /\ objects'[entry].fetchedAt \in {now, objects[entry].fetchedAt}
      BY <2>1, <2>3, RefreshedEntry DEF Return304
    <3> QED BY <2>1, <3>1
  <2>4. ASSUME NEW t \in Task, Return200(t)
        PROVE  /\ objects'[entry'].rows >= objects[entry].rows
               /\ objects'[entry'].fetchedAt >= objects[entry].fetchedAt
    <3>1. objects'[entry'] = [rows |-> version, fetchedAt |-> now]
      BY <2>1, <2>4, NewEntry DEF Produced
    <3> QED BY <2>1, <3>1
  <2>5. CASE Clear
    BY <2>5 DEF Clear
  <2> QED BY <1>1, <2>2, <2>3, <2>4, <2>5
          DEF Next, Call, Read, Fail, Cancel, Change, Tick, vars
<1>2. CacheNeverGoesBack <=> [][Forward]_vars
  BY DEF CacheNeverGoesBack
<1> HIDE DEF Forward
<1> QED BY <1>1, <1>2, AlwaysIInv, PTL DEF Spec
===============================================================================
