---------------------------- MODULE GatewayProofs ----------------------------
(***************************************************************************)
(* What is proved of the gateway, for all requests, connectors, tenants,   *)
(* users, budgets and deadlines: every invariant that the runs check, and  *)
(* that each step is a step of what the client is promised (ClientView).   *)
(*                                                                         *)
(* The inductive invariant says where a query can be.  Phases ties its     *)
(* answer, its job and whether it was executed together, Fetches says what *)
(* its fetches can look like, and WaitInv what a waiting job has seen its  *)
(* buckets gain.                                                           *)
(***************************************************************************)
EXTENDS Gateway, SequenceTheorems, TLAPS

-----------------------------------------------------------------------------
(* The constants and the buckets.                                          *)

LEMMA ConstantTypes ==
  /\ Minute \in Nat \ {0} /\ BurstUnits \in Nat /\ BurstUnits >= Minute
  /\ SourceTimeout \in Nat \ {0} /\ RequestTimeout \in Nat \ {0}
  /\ PollInterval \in Nat \ {0} /\ MaxWait \in Nat /\ MaxRestarts \in Nat
  BY GatewayAssumption

LEMMA KeysInKey ==
  ASSUME NEW S \in SUBSET Connector, NEW r \in Request
  PROVE  Keys(S, r) \subseteq Key
<1>1. Keys(S, r) \subseteq Keys(Connector, r)
  BY DEF Keys
<1> QED BY <1>1 DEF Key

LEMMA KeyParts ==
  ASSUME NEW k \in Key
  PROVE  k[2] \in Connector /\ k[1] \in Scope
  BY DEF Key, Keys, Scope

\* Every bucket refills, and a full one has at least one token.
LEMMA RateAndCap ==
  ASSUME NEW k \in Key
  PROVE  Rate[k] \in Nat \ {0} /\ Cap[k] \in Nat /\ Cap[k] >= Minute
<1>1. Rate[k] \in Nat \ {0}
  BY KeyParts, GatewayAssumption DEF Rate
<1>2. Cap[k] = Rate[k] * BurstUnits
  BY DEF Cap
<1>3. PICK n \in Nat : Rate[k] = n + 1
  BY <1>1, Rate[k] - 1 \in Nat
<1>4. n * BurstUnits \in Nat /\ Cap[k] = n * BurstUnits + BurstUnits
  BY <1>2, <1>3, GatewayAssumption
<1> QED BY <1>1, <1>4, GatewayAssumption

LevelOK == level \in [Key -> Nat] /\ \A k \in Key : level[k] <= Cap[k]

\* What is done to the buckets keeps them between empty and full.
LEMMA GrantLevels ==
  ASSUME LevelOK, NEW S \in SUBSET Connector, NEW r \in Request, B!Grant(Keys(S, r))
  PROVE  /\ LevelOK'
         /\ \A k \in Key \ Keys(S, r) : level'[k] = level[k]
<1>1. level' = [k \in Key |-> IF k \in Keys(S, r) THEN level[k] - Minute ELSE level[k]]
  BY DEF B!Grant, B!Charged
<1>2. \A k \in Keys(S, r) : level[k] >= Minute
  BY DEF B!Grant, B!CanGrant
<1>3. Minute \in Nat
  BY GatewayAssumption
<1> QED BY <1>1, <1>2, <1>3, RateAndCap DEF LevelOK

LEMMA ElapseLevels ==
  ASSUME LevelOK, B!Elapse
  PROVE  /\ LevelOK'
         /\ \A k \in Key : level'[k] = B!AtMost(Cap[k], level[k] + Rate[k])
<1>1. level' = [k \in Key |-> B!AtMost(Cap[k], level[k] + Rate[k])]
  BY DEF B!Elapse, B!Refilled
<1>2. ASSUME NEW k \in Key PROVE level'[k] \in Nat /\ level'[k] <= Cap[k]
  <2>1. level[k] \in Nat /\ Rate[k] \in Nat /\ Cap[k] \in Nat
    BY RateAndCap DEF LevelOK
  <2>2. level'[k] = IF level[k] + Rate[k] < Cap[k] THEN level[k] + Rate[k] ELSE Cap[k]
    BY <1>1, <2>1 DEF B!AtMost
  <2> QED BY <2>1, <2>2
<1> QED BY <1>1, <1>2 DEF LevelOK

LEMMA FullLevels ==
  (B!Init => LevelOK) /\ (B!Reset => LevelOK')
  BY RateAndCap DEF B!Init, B!Reset, B!Full, LevelOK

-----------------------------------------------------------------------------
(* The inductive invariant.                                                *)

\* A query was executed if and only if its answer or its job says so; only an
\* accepted one has a job, and a job has sources to wait for.
Phase(r) ==
  /\ answer[r] = "accepted" <=> job[r] # "none"
  /\ answer[r] \in {"unsent", "denied", "limited"} \/ job[r] \in {"queued", "polling"}
       => fetch[r] = Idle
  /\ answer[r] \in {"open", "ok", "partial", "failed", "timedOut", "lost"}
       \/ job[r] \in {"executing", "done"} => fetch[r] # Idle
  /\ job[r] \in {"queued", "polling"} => sources[r] # {}

\* The fetches of a query that was executed are those of its sources; one that
\* raised left its exception, and none is cancelled while the query is waited for.
FetchesOf(r) ==
  /\ fetch[r] = Idle => raised[r] = "no"
  /\ fetch[r] # Idle => \A c \in Connector : fetch[r][c] # "idle" <=> c \in sources[r]
  /\ raised[r] = "no" => \A c \in Connector : fetch[r][c] # "raised"
  /\ Waits(r) => \A c \in Connector : fetch[r][c] # "cancelled"

\* A job polls on time; the buckets of one that nobody drew on have gained at
\* least a unit for every tick of its wait.
Wait(r) ==
  job[r] = "polling" =>
    /\ waited[r] + sleep[r] <= MaxWait + PollInterval
    /\ contended[r] \/ \A k \in Keys(sources[r], r) : level[k] >= B!AtMost(Cap[k], waited[r])

Phases == \A r \in Request : Phase(r)
Fetches == \A r \in Request : FetchesOf(r)
WaitInv == \A r \in Request : Wait(r)

IInv == TypeOK /\ Phases /\ Fetches /\ WaitInv

LEMMA TypesOfRequest ==
  ASSUME TypeOK, NEW r \in Request
  PROVE  /\ sources[r] \in SUBSET Connector
         /\ waited[r] \in Nat /\ sleep[r] \in Nat /\ elapsed[r] \in Nat /\ charged[r] \in Nat
         /\ Pending(r) \subseteq Connector
  BY GatewayAssumption DEF TypeOK, Pending

\* Starting the fetches of a set of sources is seen in the fetches.
LEMMA StartedShape ==
  ASSUME NEW S \in Query
  PROVE  /\ Started(S) # Idle
         /\ Started(S) \in [Connector -> {"idle", "pending"}]
         /\ \A c \in Connector : Started(S)[c] # "idle" <=> c \in S
<1>1. \A c \in Connector : Started(S)[c] = IF c \in S THEN "pending" ELSE "idle"
  BY DEF Started
<1>2. PICK c \in Connector : c \in S
  BY DEF Query
<1>3. Idle[c] = "idle" /\ Started(S)[c] = "pending"
  BY <1>1, <1>2 DEF Idle
<1> QED BY <1>1, <1>3 DEF Started

-----------------------------------------------------------------------------
(* Types.                                                                  *)

LEMMA InitTypeOK == Init => TypeOK
<1> SUFFICES ASSUME Init PROVE TypeOK
  OBVIOUS
<1>1. LevelOK
  BY FullLevels DEF Init
<1>2. Idle \in [Connector -> {"idle"}]
  BY DEF Idle
<1> QED BY <1>1, <1>2, GatewayAssumption DEF Init, TypeOK, LevelOK, Answers

\* One more event in a trail.
LEMMA RecordTypes ==
  ASSUME TypeOK, NEW r \in Request,
         NEW event \in {"query.denied", "query.rate_limited", "query.execute"},
         Record(r, event)
  PROVE  audit' \in [Request -> Seq({"query.denied", "query.rate_limited", "query.execute"})]
<1> DEFINE Event == {"query.denied", "query.rate_limited", "query.execute"}
<1>1. audit[r] \in Seq(Event)
  BY DEF TypeOK
<1>2. Append(audit[r], event) \in Seq(Event)
  BY <1>1, AppendProperties
<1> QED BY <1>2 DEF Record, TypeOK

LEMMA AcquireTypes ==
  ASSUME TypeOK, NEW r \in Request, NEW S \in Query, Acquire(r, S), Execute(r, S)
  PROVE  /\ LevelOK'
         /\ charged' \in [Request -> Nat]
         /\ contended' \in [Request -> BOOLEAN]
         /\ fetch' \in [Request -> [Connector ->
              {"idle", "pending", "ok", "stale", "timeout", "raised", "cancelled"}]]
         /\ elapsed' \in [Request -> 0..SourceTimeout]
         /\ raised' = raised
<1>1. LevelOK'
  BY GrantLevels DEF Acquire, TypeOK, LevelOK, Query
<1>2. charged' \in [Request -> Nat] /\ contended' \in [Request -> BOOLEAN]
  BY DEF Acquire, TypeOK
<1>3. fetch' \in [Request -> [Connector ->
              {"idle", "pending", "ok", "stale", "timeout", "raised", "cancelled"}]]
  BY StartedShape DEF Execute, TypeOK
<1>4. elapsed' \in [Request -> 0..SourceTimeout] /\ raised' = raised
  BY GatewayAssumption DEF Execute, TypeOK
<1> QED BY <1>1, <1>2, <1>3, <1>4

LEMMA PollTypes ==
  ASSUME TypeOK, Phases, NEW r \in Request, NEW w \in 0..(MaxWait + PollInterval), Poll(r, w),
         job[r] \in {"queued", "polling"}
  PROVE  /\ LevelOK'
         /\ job' \in [Request ->
              {"none", "queued", "polling", "executing", "done", "failed", "lost"}]
         /\ fetch' \in [Request -> [Connector ->
              {"idle", "pending", "ok", "stale", "timeout", "raised", "cancelled"}]]
         /\ raised' \in [Request -> {"no", "QueryError", "Exception"}]
         /\ elapsed' \in [Request -> 0..SourceTimeout]
         /\ sleep' \in [Request -> 0..PollInterval]
         /\ charged' \in [Request -> Nat]
         /\ contended' \in [Request -> BOOLEAN]
<1>1. sources[r] \in Query
  BY DEF Phases, Phase, TypeOK, Query
<1>2. CASE /\ Acquire(r, sources[r]) /\ Execute(r, sources[r])
           /\ job' = [job EXCEPT ![r] = "executing"] /\ UNCHANGED sleep
  BY <1>1, <1>2, AcquireTypes DEF TypeOK
<1>3. CASE /\ IF w > MaxWait
              THEN job' = [job EXCEPT ![r] = "failed"] /\ UNCHANGED sleep
              ELSE /\ job' = [job EXCEPT ![r] = "polling"]
                   /\ sleep' = [sleep EXCEPT ![r] = PollInterval]
           /\ UNCHANGED <<level, exec, observer>>
  <2>1. level' = level /\ UNCHANGED <<fetch, raised, elapsed, charged, contended>>
    BY <1>3 DEF exec, observer
  <2>2. /\ job' \in [Request ->
              {"none", "queued", "polling", "executing", "done", "failed", "lost"}]
        /\ sleep' \in [Request -> 0..PollInterval]
    <3>1. CASE w > MaxWait
      BY <1>3, <3>1 DEF TypeOK
    <3>2. CASE ~(w > MaxWait)
      <4>1. PollInterval \in 0..PollInterval
        BY ConstantTypes
      <4>2. /\ job' = [job EXCEPT ![r] = "polling"]
            /\ sleep' = [sleep EXCEPT ![r] = PollInterval]
        BY <1>3, <3>2
      <4>3. sleep' \in [Request -> 0..PollInterval]
        BY <4>1, <4>2 DEF TypeOK
      <4> QED BY <4>2, <4>3 DEF TypeOK
    <3> QED BY <3>1, <3>2
  <2> QED BY <2>1, <2>2 DEF TypeOK, LevelOK
<1> QED BY <1>2, <1>3 DEF Poll

LEMMA NextTypeOK ==
  ASSUME IInv, [Next]_vars
  PROVE  TypeOK'
<1>0. TypeOK /\ Phases /\ LevelOK
  BY DEF IInv, TypeOK, LevelOK
<1>1. CASE Restart
  <2>1. LevelOK'
    BY <1>1, FullLevels DEF Restart
  <2>2. restarts' \in 0..MaxRestarts
    BY <1>0, <1>1, ConstantTypes DEF Restart, TypeOK
  <2> QED BY <1>0, <1>1, <2>1, <2>2 DEF Restart, TypeOK, LevelOK, Answers, timer, observer
<1>2. CASE Tick /\ UNCHANGED restarts
  <2>1. LevelOK'
    BY <1>0, <1>2, ElapseLevels DEF Tick
  <2>2. elapsed' \in [Request -> 0..SourceTimeout]
    <3>1. ASSUME NEW r \in Request, Pending(r) # {} PROVE elapsed[r] + 1 \in 0..SourceTimeout
      BY <1>0, <1>2, <3>1, ConstantTypes DEF Tick, Due, SourceIsLate, TypeOK
    <3> QED BY <1>0, <1>2, <3>1 DEF Tick, TypeOK
  <2>3. /\ waited' \in [Request -> 0..(MaxWait + PollInterval)]
        /\ sleep' \in [Request -> 0..PollInterval]
    <3>1. ASSUME NEW r \in Request, job[r] = "polling"
          PROVE  /\ waited[r] + 1 \in 0..(MaxWait + PollInterval)
                 /\ sleep[r] - 1 \in 0..PollInterval
      <4>1. sleep[r] # 0
        BY <1>2, <3>1 DEF Tick, Due
      <4>2. waited[r] + sleep[r] <= MaxWait + PollInterval
        BY <3>1 DEF IInv, WaitInv, Wait
      <4> QED BY <1>0, <4>1, <4>2, ConstantTypes DEF TypeOK
    <3> QED BY <1>0, <1>2, <3>1 DEF Tick, TypeOK
  <2> QED BY <1>0, <1>2, <2>1, <2>2, <2>3 DEF Tick, TypeOK, LevelOK
<1>3. ASSUME NEW r \in Request, Deny(r), UNCHANGED restarts PROVE TypeOK'
  BY <1>0, <1>3, RecordTypes DEF Deny, TypeOK, Answers, exec, timer, observer
<1>4. ASSUME NEW r \in Request, NEW S \in Query, Admit(r, S), UNCHANGED restarts PROVE TypeOK'
  <2>1. sources' \in [Request -> SUBSET Connector] /\ answer' \in [Request -> Answers]
    BY <1>0, <1>4 DEF Admit, TypeOK, Query, Answers
  <2> QED BY <1>0, <1>4, <2>1, AcquireTypes DEF Admit, TypeOK, LevelOK, timer
<1>5. ASSUME NEW r \in Request, NEW S \in Query, Limit(r, S), UNCHANGED restarts PROVE TypeOK'
  <2>1. sources' \in [Request -> SUBSET Connector] /\ answer' \in [Request -> Answers]
    BY <1>0, <1>5 DEF Limit, TypeOK, Query, Answers
  <2> QED BY <1>0, <1>5, <2>1, RecordTypes DEF Limit, TypeOK, exec, timer, observer
<1>6. ASSUME NEW r \in Request, NEW c \in Connector, Deliver(r, c), UNCHANGED restarts
      PROVE  TypeOK'
  BY <1>0, <1>6 DEF Deliver, TypeOK, timer, observer
<1>7. ASSUME NEW r \in Request, NEW c \in Connector, Raise(r, c), UNCHANGED restarts
      PROVE  TypeOK'
  BY <1>0, <1>7 DEF Raise, TypeOK, timer, observer
<1>8. ASSUME NEW r \in Request, NEW c \in Connector, SourceTimesOut(r, c), UNCHANGED restarts
      PROVE  TypeOK'
  BY <1>0, <1>8 DEF SourceTimesOut, TypeOK, timer, observer
<1>9. ASSUME NEW r \in Request, Respond(r) \/ Abort(r), UNCHANGED restarts PROVE TypeOK'
  BY <1>0, <1>9, RecordTypes DEF Respond, Abort, TypeOK, Answers, exec, timer, observer
<1>10. ASSUME NEW r \in Request, RequestTimesOut(r), UNCHANGED restarts PROVE TypeOK'
  BY <1>0, <1>10 DEF RequestTimesOut, TypeOK, Answers, timer, observer
<1>11. ASSUME NEW r \in Request, JobStarts(r), UNCHANGED restarts PROVE TypeOK'
  <2>1. 0 \in 0..(MaxWait + PollInterval)
    BY ConstantTypes
  <2>2. waited' \in [Request -> 0..(MaxWait + PollInterval)]
    BY <1>0, <1>11, <2>1 DEF JobStarts, TypeOK
  <2> QED BY <1>0, <1>11, <2>1, <2>2, PollTypes DEF JobStarts, TypeOK, LevelOK
<1>12. ASSUME NEW r \in Request, JobPolls(r), UNCHANGED restarts PROVE TypeOK'
  <2>1. waited[r] \in 0..(MaxWait + PollInterval)
    BY <1>0 DEF TypeOK
  <2> QED BY <1>0, <1>12, <2>1, PollTypes DEF JobPolls, TypeOK, LevelOK
<1>13. ASSUME NEW r \in Request, JobEnds(r), UNCHANGED restarts PROVE TypeOK'
  BY <1>0, <1>13 DEF JobEnds, TypeOK, exec, timer, observer
<1>14. CASE UNCHANGED vars
  BY <1>0, <1>14 DEF vars, exec, timer, observer, TypeOK
<1> QED
  BY <1>1, <1>2, <1>3, <1>4, <1>5, <1>6, <1>7, <1>8, <1>9, <1>10, <1>11, <1>12, <1>13, <1>14
  DEF Next, Arrive, FetchEnds, Run

-----------------------------------------------------------------------------
(* Where a query can be.                                                   *)

\* A fetch that ends does not make its query one that was never executed.
LEMMA EndedFetchShape ==
  ASSUME TypeOK, NEW r \in Request, NEW c \in Connector, NEW end, end # "idle",
         fetch[r][c] # "idle", fetch' = [fetch EXCEPT ![r][c] = end]
  PROVE  /\ fetch[r] # Idle /\ fetch'[r] # Idle
         /\ \A d \in Connector : fetch'[r][d] = IF d = c THEN end ELSE fetch[r][d]
         /\ \A q \in Request \ {r} : fetch'[q] = fetch[q]
<1>1. \A d \in Connector : fetch'[r][d] = IF d = c THEN end ELSE fetch[r][d]
  BY DEF TypeOK
<1>2. \A q \in Request \ {r} : fetch'[q] = fetch[q]
  BY DEF TypeOK
<1> QED BY <1>1, <1>2 DEF Idle

\* Nor does a cancellation.
LEMMA CancelledShape ==
  ASSUME TypeOK, NEW r \in Request,
         fetch'[r] = [c \in Connector |->
           IF fetch[r][c] = "pending" THEN "cancelled" ELSE fetch[r][c]]
  PROVE  /\ fetch'[r] = Idle <=> fetch[r] = Idle
         /\ \A c \in Connector : /\ fetch'[r][c] = "idle" <=> fetch[r][c] = "idle"
                                 /\ fetch'[r][c] = "raised" <=> fetch[r][c] = "raised"
                                 /\ fetch'[r][c] # "pending"
<1>1. \A c \in Connector : /\ fetch'[r][c] = "idle" <=> fetch[r][c] = "idle"
                           /\ fetch'[r][c] = "raised" <=> fetch[r][c] = "raised"
                           /\ fetch'[r][c] # "pending"
  OBVIOUS
<1>2. fetch[r] = Idle <=> \A c \in Connector : fetch[r][c] = "idle"
  BY DEF TypeOK, Idle
<1>3. fetch'[r] = Idle <=> \A c \in Connector : fetch'[r][c] = "idle"
  BY DEF Idle
<1> QED BY <1>1, <1>2, <1>3

\* What a poll does: it takes the tokens and executes, or it is refused and
\* gives up or sleeps.
LEMMA PollSteps ==
  ASSUME TypeOK, Phases, NEW r \in Request, NEW w, Poll(r, w),
         job[r] \in {"queued", "polling"}
  PROVE  \/ /\ sources[r] \in Query
            /\ Acquire(r, sources[r]) /\ Execute(r, sources[r])
            /\ job' = [job EXCEPT ![r] = "executing"] /\ UNCHANGED sleep
         \/ /\ w > MaxWait
            /\ ~B!CanGrant(level, Keys(sources[r], r))
            /\ job' = [job EXCEPT ![r] = "failed"]
            /\ UNCHANGED <<level, fetch, raised, elapsed, charged, contended, sleep>>
         \/ /\ ~(w > MaxWait)
            /\ job' = [job EXCEPT ![r] = "polling"]
            /\ sleep' = [sleep EXCEPT ![r] = PollInterval]
            /\ UNCHANGED <<level, fetch, raised, elapsed, charged, contended>>
<1>1. sources[r] \in Query
  BY DEF Phases, Phase, TypeOK, Query
<1>2. CASE w > MaxWait
  BY <1>1, <1>2 DEF Poll, exec, observer
<1>3. CASE ~(w > MaxWait)
  BY <1>1, <1>3 DEF Poll, exec, observer
<1> QED BY <1>2, <1>3

LEMMA NextPhases ==
  ASSUME TypeOK, Phases, Fetches, [Next]_vars
  PROVE  Phases'
<1> SUFFICES ASSUME NEW q \in Request PROVE Phase(q)'
  BY DEF Phases
<1>0. Phase(q) /\ FetchesOf(q)
  BY DEF Phases, Fetches
<1>1. CASE Restart
  <2>1. fetch'[q] = Idle <=> fetch[q] = Idle
    BY <1>1, CancelledShape DEF Restart
  <2> QED BY <1>0, <1>1, <2>1 DEF Restart, Phase
<1>2. CASE Tick
  BY <1>0, <1>2 DEF Tick, Phase
<1>3. ASSUME NEW r \in Request, Deny(r) PROVE Phase(q)'
  BY <1>0, <1>3 DEF Deny, Phase, TypeOK, exec
<1>4. ASSUME NEW r \in Request, NEW S \in Query, Admit(r, S) PROVE Phase(q)'
  <2>1. CASE q = r
    BY <1>0, <1>4, <2>1, StartedShape DEF Admit, Execute, Phase, TypeOK
  <2>2. CASE q # r
    BY <1>0, <1>4, <2>2 DEF Admit, Execute, Phase, TypeOK
  <2> QED BY <2>1, <2>2
<1>5. ASSUME NEW r \in Request, NEW S \in Query, Limit(r, S) PROVE Phase(q)'
  <2>1. CASE q = r
    BY <1>0, <1>5, <2>1 DEF Limit, Phase, TypeOK, exec, Query
  <2>2. CASE q # r
    BY <1>0, <1>5, <2>2 DEF Limit, Phase, TypeOK, exec
  <2> QED BY <2>1, <2>2
<1>6. ASSUME NEW r \in Request, NEW c \in Connector,
             Deliver(r, c) \/ Raise(r, c) \/ SourceTimesOut(r, c)
      PROVE  Phase(q)'
  <2>1. PICK end \in {"ok", "stale", "raised", "timeout"} :
          fetch' = [fetch EXCEPT ![r][c] = end]
    BY <1>6 DEF Deliver, Raise, SourceTimesOut
  <2>2. fetch[r][c] # "idle" /\ UNCHANGED <<sources, answer, job>>
    BY <1>6 DEF Deliver, Raise, SourceTimesOut, Pending
  <2>3. fetch'[q] = Idle <=> fetch[q] = Idle
    BY <2>1, <2>2, EndedFetchShape
  <2> QED BY <1>0, <2>2, <2>3 DEF Phase
<1>7. ASSUME NEW r \in Request, Respond(r) \/ Abort(r) PROVE Phase(q)'
  BY <1>0, <1>7 DEF Respond, Abort, Phase, TypeOK, exec
<1>8. ASSUME NEW r \in Request, RequestTimesOut(r) PROVE Phase(q)'
  <2>1. CASE q = r
    <3>1. fetch'[q] = Idle <=> fetch[q] = Idle
      BY ZenonT(60), <1>8, <2>1, CancelledShape DEF RequestTimesOut, TypeOK
    <3> QED BY <1>0, <1>8, <2>1, <3>1 DEF RequestTimesOut, Phase, TypeOK
  <2>2. CASE q # r
    BY <1>0, <1>8, <2>2 DEF RequestTimesOut, Phase, TypeOK
  <2> QED BY <2>1, <2>2
<1>9. ASSUME NEW r \in Request, JobStarts(r) \/ JobPolls(r) PROVE Phase(q)'
  <2>1. UNCHANGED <<sources, answer>> /\ job[r] \in {"queued", "polling"}
    BY <1>9 DEF JobStarts, JobPolls
  <2>2. PICK w : Poll(r, w)
    BY <1>9 DEF JobStarts, JobPolls
  <2>3. CASE /\ sources[r] \in Query
             /\ Execute(r, sources[r]) /\ job' = [job EXCEPT ![r] = "executing"]
    <3>1. fetch' = [fetch EXCEPT ![r] = Started(sources[r])] /\ Started(sources[r]) # Idle
      BY <2>3, StartedShape DEF Execute
    <3> QED BY <1>0, <2>1, <2>3, <3>1 DEF Phase, TypeOK
  <2>4. CASE /\ UNCHANGED fetch
             /\ \/ job' = [job EXCEPT ![r] = "failed"]
                \/ job' = [job EXCEPT ![r] = "polling"]
    BY <1>0, <2>1, <2>4 DEF Phase, TypeOK
  <2> QED BY <2>1, <2>2, <2>3, <2>4, PollSteps
<1>10. ASSUME NEW r \in Request, JobEnds(r) PROVE Phase(q)'
  BY <1>0, <1>10 DEF JobEnds, Phase, TypeOK, exec
<1>11. CASE UNCHANGED vars
  BY <1>0, <1>11 DEF vars, exec, Phase
<1> QED BY <1>1, <1>2, <1>3, <1>4, <1>5, <1>6, <1>7, <1>8, <1>9, <1>10, <1>11
        DEF Next, Arrive, FetchEnds, Run

LEMMA NextFetches ==
  ASSUME TypeOK, Phases, Fetches, [Next]_vars
  PROVE  Fetches'
<1> SUFFICES ASSUME NEW q \in Request PROVE FetchesOf(q)'
  BY DEF Fetches
<1>0. Phase(q) /\ FetchesOf(q)
  BY DEF Phases, Fetches
<1>1. CASE Restart
  <2>1. ~Waits(q)'
    BY <1>1 DEF Restart, Waits, TypeOK
  <2> QED BY <1>0, <1>1, <2>1, CancelledShape DEF Restart, FetchesOf
<1>2. CASE Tick
  BY <1>0, <1>2 DEF Tick, FetchesOf, Waits
<1>3. ASSUME NEW r \in Request, Deny(r) PROVE FetchesOf(q)'
  BY <1>0, <1>3 DEF Deny, FetchesOf, Waits, TypeOK, exec
<1>4. ASSUME NEW r \in Request, NEW S \in Query,
             sources'[r] = S, Execute(r, S), fetch[r] = Idle,
             \A p \in Request \ {r} : sources'[p] = sources[p] /\ (Waits(p)' => Waits(p))
      PROVE  FetchesOf(q)'
  <2>1. CASE q = r
    BY <1>0, <1>4, <2>1, StartedShape DEF Execute, FetchesOf, TypeOK
  <2>2. CASE q # r
    BY <1>0, <1>4, <2>2 DEF Execute, FetchesOf, TypeOK
  <2> QED BY <2>1, <2>2
<1>5. ASSUME NEW r \in Request, NEW S \in Query, Admit(r, S) PROVE FetchesOf(q)'
  <2>1. fetch[r] = Idle /\ sources'[r] = S
    BY <1>5 DEF Admit, Phases, Phase, TypeOK
  <2>2. \A p \in Request \ {r} : sources'[p] = sources[p] /\ (Waits(p)' => Waits(p))
    BY <1>5 DEF Admit, Waits, TypeOK
  <2> QED BY <1>4, <1>5, <2>1, <2>2 DEF Admit
<1>6. ASSUME NEW r \in Request, NEW S \in Query, Limit(r, S) PROVE FetchesOf(q)'
  <2>1. Waits(q)' => Waits(q)
    BY <1>6 DEF Limit, Waits, TypeOK
  <2>2. fetch[q] # Idle => sources'[q] = sources[q]
    BY <1>0, <1>6 DEF Limit, Phase, TypeOK
  <2> QED BY <1>0, <1>6, <2>1, <2>2 DEF Limit, FetchesOf, exec
<1>7. ASSUME NEW r \in Request, NEW c \in Connector,
             Deliver(r, c) \/ Raise(r, c) \/ SourceTimesOut(r, c)
      PROVE  FetchesOf(q)'
  <2>1. PICK end \in {"ok", "stale", "raised", "timeout"} :
          /\ fetch' = [fetch EXCEPT ![r][c] = end]
          /\ raised' = [raised EXCEPT ![r] = IF end = "raised" THEN raised'[r] ELSE @]
          /\ end = "raised" => raised'[r] # "no"
          /\ raised[r] # "no" => raised'[r] # "no"
    BY ZenonT(60), <1>7 DEF Deliver, Raise, SourceTimesOut, TypeOK
  <2>2. fetch[r][c] # "idle" /\ UNCHANGED <<sources, answer, job>>
    BY <1>7 DEF Deliver, Raise, SourceTimesOut, Pending
  <2>3. Waits(q)' <=> Waits(q)
    BY <2>2 DEF Waits
  <2>4. CASE q = r
    <3>1. /\ fetch[q] # Idle /\ fetch'[q] # Idle /\ sources'[q] = sources[q]
          /\ \A d \in Connector : fetch'[q][d] = IF d = c THEN end ELSE fetch[q][d]
      <4>1. end # "idle" /\ fetch' = [fetch EXCEPT ![r][c] = end]
        BY <2>1
      <4>2. /\ fetch[r] # Idle /\ fetch'[r] # Idle
            /\ \A d \in Connector : fetch'[r][d] = IF d = c THEN end ELSE fetch[r][d]
        <5>1. fetch[r] # Idle /\ fetch'[r] # Idle
          BY <2>2, <4>1, EndedFetchShape
        <5>2. \A d \in Connector : fetch'[r][d] = IF d = c THEN end ELSE fetch[r][d]
          BY <4>1 DEF TypeOK
        <5> QED BY <5>1, <5>2
      <4>3. sources'[q] = sources[q]
        BY <2>2
      <4> QED BY <2>4, <4>2, <4>3
    <3>2. raised'[q] = "no" => raised[q] = "no" /\ end # "raised"
      BY <2>1, <2>4
    <3> QED BY <1>0, <2>2, <2>3, <2>4, <3>1, <3>2 DEF FetchesOf
  <2>5. CASE q # r
    BY <1>0, <2>1, <2>2, <2>3, <2>5 DEF FetchesOf, TypeOK
  <2> QED BY <2>4, <2>5
<1>8. ASSUME NEW r \in Request, Respond(r) \/ Abort(r) \/ JobEnds(r) PROVE FetchesOf(q)'
  <2>1. Waits(q)' => Waits(q)
    BY <1>8 DEF Respond, Abort, JobEnds, Waits, TypeOK
  <2> QED BY <1>0, <1>8, <2>1 DEF Respond, Abort, JobEnds, FetchesOf, exec
<1>9. ASSUME NEW r \in Request, RequestTimesOut(r) PROVE FetchesOf(q)'
  <2>1. Waits(q)' => Waits(q)
    BY <1>9 DEF RequestTimesOut, Waits, TypeOK
  <2>2. CASE q = r
    <3>1. ~Waits(q)'
      BY <1>0, <1>9, <2>2 DEF RequestTimesOut, Waits, TypeOK, Phase
    <3>2. fetch'[q] = [c \in Connector |->
            IF fetch[q][c] = "pending" THEN "cancelled" ELSE fetch[q][c]]
      BY <1>9, <2>2 DEF RequestTimesOut, TypeOK
    <3> QED BY <1>0, <1>9, <3>1, <3>2, CancelledShape DEF RequestTimesOut, FetchesOf
  <2>3. CASE q # r
    BY <1>0, <1>9, <2>1, <2>3 DEF RequestTimesOut, FetchesOf, TypeOK
  <2> QED BY <2>2, <2>3
<1>10. ASSUME NEW r \in Request, JobStarts(r) \/ JobPolls(r) PROVE FetchesOf(q)'
  <2>1. UNCHANGED <<sources, answer>> /\ job[r] \in {"queued", "polling"}
    BY <1>10 DEF JobStarts, JobPolls
  <2>2. PICK w : Poll(r, w)
    BY <1>10 DEF JobStarts, JobPolls
  <2>3. CASE /\ sources[r] \in Query
             /\ Execute(r, sources[r]) /\ job' = [job EXCEPT ![r] = "executing"]
    <3>1. fetch[r] = Idle
      BY <2>1 DEF Phases, Phase
    <3>2. \A p \in Request \ {r} : sources'[p] = sources[p] /\ (Waits(p)' => Waits(p))
      BY <2>1, <2>3 DEF Waits, TypeOK
    <3> QED BY <1>4, <2>1, <2>3, <3>1, <3>2
  <2>4. CASE /\ UNCHANGED <<fetch, raised>>
             /\ \/ job' = [job EXCEPT ![r] = "failed"]
                \/ job' = [job EXCEPT ![r] = "polling"]
    <3>1. Waits(q)' => Waits(q)
      BY <2>1, <2>4 DEF Waits, TypeOK
    <3> QED BY <1>0, <2>1, <2>4, <3>1 DEF FetchesOf
  <2> QED BY <2>1, <2>2, <2>3, <2>4, PollSteps
<1>11. CASE UNCHANGED vars
  BY <1>0, <1>11 DEF vars, exec, FetchesOf, Waits
<1> QED BY <1>1, <1>2, <1>3, <1>5, <1>6, <1>7, <1>8, <1>9, <1>10, <1>11
        DEF Next, Arrive, FetchEnds, Run

-----------------------------------------------------------------------------
(* What a waiting job has seen its buckets gain.                           *)

\* The waiting of a job is not disturbed by a step that leaves it, its buckets and
\* its timers alone.
LEMMA SameWait ==
  ASSUME NEW q \in Request, Wait(q), job'[q] = "polling" => job[q] = "polling",
         UNCHANGED <<level, waited[q], sleep[q], contended[q]>>,
         job'[q] = "polling" => sources'[q] = sources[q]
  PROVE  Wait(q)'
  BY DEF Wait, Keys

\* Another query's tokens are not taken from it unseen.
LEMMA AcquireWait ==
  ASSUME TypeOK, NEW r \in Request, NEW S \in Query, Acquire(r, S),
         NEW q \in Request, q # r, Wait(q),
         UNCHANGED <<job[q], waited[q], sleep[q], sources[q]>>
  PROVE  Wait(q)'
<1> SUFFICES ASSUME job[q] = "polling", ~contended'[q]
             PROVE  \A k \in Keys(sources[q], q) : level'[k] >= B!AtMost(Cap[k], waited[q])
  BY DEF Wait, Keys
<1>1. contended'[q] = (contended[q] \/ Keys(sources[q], q) \cap Keys(S, r) # {})
  BY DEF Acquire
<1>2. \A k \in Keys(sources[q], q) : k \in Key \ Keys(S, r)
  BY <1>1, KeysInKey, TypesOfRequest
<1>3. \A k \in Key \ Keys(S, r) : level'[k] = level[k]
  BY GrantLevels DEF Acquire, TypeOK, LevelOK, Query
<1> QED BY <1>1, <1>2, <1>3 DEF Wait

LEMMA NextWait ==
  ASSUME TypeOK, Phases, WaitInv, [Next]_vars
  PROVE  WaitInv'
<1> SUFFICES ASSUME NEW q \in Request PROVE Wait(q)'
  BY DEF WaitInv
<1>0. Wait(q) /\ Phase(q) /\ LevelOK
  BY DEF WaitInv, Phases, TypeOK, LevelOK
<1>1. CASE Restart
  BY <1>1 DEF Restart, Wait
<1>2. CASE Tick
  <2> SUFFICES ASSUME job[q] = "polling" PROVE Wait(q)'
    BY <1>2 DEF Tick, Wait
  <2>1. /\ waited'[q] = waited[q] + 1 /\ sleep'[q] = sleep[q] - 1
        /\ UNCHANGED <<sources[q], contended[q]>>
    BY <1>2 DEF Tick
  <2>2. waited[q] \in Nat /\ sleep[q] \in Nat
    BY TypesOfRequest
  <2>3. ASSUME NEW k \in Keys(sources[q], q), level[k] >= B!AtMost(Cap[k], waited[q])
        PROVE  level'[k] >= B!AtMost(Cap[k], waited'[q])
    <3>1. k \in Key
      BY KeysInKey, TypesOfRequest
    <3>2. level'[k] = B!AtMost(Cap[k], level[k] + Rate[k])
      BY <1>0, <1>2, <3>1, ElapseLevels DEF Tick
    <3>3. level[k] \in Nat
      BY <1>0, <3>1 DEF LevelOK
    <3> QED BY <2>1, <2>2, <2>3, <3>1, <3>2, <3>3, RateAndCap DEF B!AtMost
  <2>4. waited'[q] + sleep'[q] = waited[q] + sleep[q]
    BY <2>1, <2>2
  <2> QED BY <1>0, <2>1, <2>3, <2>4 DEF Wait, Keys
<1>3. ASSUME NEW r \in Request, Deny(r) PROVE Wait(q)'
  BY <1>0, <1>3, SameWait DEF Deny, timer, observer
<1>4. ASSUME NEW r \in Request, NEW S \in Query, Admit(r, S) PROVE Wait(q)'
  <2>1. CASE q = r
    BY <1>0, <1>4, <2>1 DEF Admit, Wait, Phase
  <2>2. CASE q # r
    <3>1. UNCHANGED <<job[q], waited[q], sleep[q], sources[q]>>
      BY <1>4, <2>2 DEF Admit, timer, TypeOK
    <3> QED BY <1>0, <1>4, <2>2, <3>1, AcquireWait DEF Admit
  <2> QED BY <2>1, <2>2
<1>5. ASSUME NEW r \in Request, NEW S \in Query, Limit(r, S) PROVE Wait(q)'
  <2>1. CASE q = r
    BY <1>5, <2>1 DEF Limit, Wait, TypeOK, Phases, Phase
  <2>2. CASE q # r
    <3>1. UNCHANGED <<job[q], sources[q]>>
      BY <1>5, <2>2 DEF Limit, TypeOK
    <3> QED BY <1>0, <1>5, <3>1, SameWait DEF Limit, timer, observer
  <2> QED BY <2>1, <2>2
<1>6. ASSUME NEW r \in Request, NEW c \in Connector,
             Deliver(r, c) \/ Raise(r, c) \/ SourceTimesOut(r, c)
      PROVE  Wait(q)'
  BY <1>0, <1>6, SameWait DEF Deliver, Raise, SourceTimesOut, timer, observer
<1>7. ASSUME NEW r \in Request, Respond(r) \/ Abort(r) \/ RequestTimesOut(r) PROVE Wait(q)'
  BY <1>0, <1>7, SameWait DEF Respond, Abort, RequestTimesOut, timer, observer
<1>8. ASSUME NEW r \in Request, JobStarts(r) \/ JobPolls(r) PROVE Wait(q)'
  <2>1. CASE q = r
    <3>1. PICK w \in Nat : Poll(r, w) /\ w = waited'[r] /\ (JobStarts(r) => w = 0)
      BY <1>8, TypesOfRequest DEF JobStarts, JobPolls, TypeOK
    <3>2. job[r] \in {"queued", "polling"} /\ UNCHANGED sources
      BY <1>8 DEF JobStarts, JobPolls
    <3> SUFFICES ASSUME job'[r] = "polling"
                 PROVE  Wait(r)'
      BY <2>1 DEF Wait
    <3>3. /\ ~(w > MaxWait) /\ sleep'[r] = PollInterval
          /\ UNCHANGED <<level, contended>>
      <4>1. ~(\E v \in {"executing", "failed"} : job' = [job EXCEPT ![r] = v])
        BY DEF TypeOK
      <4>2. /\ ~(w > MaxWait) /\ sleep' = [sleep EXCEPT ![r] = PollInterval]
            /\ UNCHANGED <<level, contended>>
        BY <3>1, <3>2, <4>1, PollSteps
      <4> QED BY <4>2 DEF TypeOK
    <3>4. waited'[r] + sleep'[r] <= MaxWait + PollInterval
      BY <3>1, <3>3, ConstantTypes
    <3>5. CASE JobStarts(r)
      <4>1. \A k \in Keys(sources[r], r) : level[k] >= B!AtMost(Cap[k], 0)
        <5> SUFFICES ASSUME NEW k \in Key PROVE level[k] >= B!AtMost(Cap[k], 0)
          BY KeysInKey, TypesOfRequest
        <5> QED BY <1>0, RateAndCap DEF LevelOK, B!AtMost
      <4> QED BY <3>1, <3>2, <3>3, <3>4, <3>5, <4>1 DEF Wait, Keys
    <3>6. CASE JobPolls(r)
      BY <1>0, <2>1, <3>2, <3>3, <3>4, <3>6 DEF Wait, Keys, JobPolls
    <3> QED BY <1>8, <3>5, <3>6
  <2>2. CASE q # r
    <3>1. UNCHANGED <<waited[q], sources[q]>> /\ job[r] \in {"queued", "polling"}
      BY <1>8, <2>2 DEF JobStarts, JobPolls, TypeOK
    <3>2. PICK w : Poll(r, w)
      BY <1>8 DEF JobStarts, JobPolls
    <3>3. UNCHANGED <<job[q], sleep[q]>>
      <4>1. \E v : job' = [job EXCEPT ![r] = v]
        BY <3>1, <3>2, PollSteps
      <4>2. UNCHANGED sleep \/ sleep' = [sleep EXCEPT ![r] = PollInterval]
        BY <3>1, <3>2, PollSteps
      <4> QED BY <2>2, <4>1, <4>2 DEF TypeOK
    <3>4. CASE sources[r] \in Query /\ Acquire(r, sources[r])
      BY <1>0, <2>2, <3>1, <3>3, <3>4, AcquireWait
    <3>5. CASE UNCHANGED <<level, contended>>
      BY <1>0, <3>1, <3>3, <3>5, SameWait
    <3> QED BY <3>1, <3>2, <3>4, <3>5, PollSteps
  <2> QED BY <2>1, <2>2
<1>9. ASSUME NEW r \in Request, JobEnds(r) PROVE Wait(q)'
  BY <1>0, <1>9, SameWait DEF JobEnds, timer, observer, TypeOK
<1>10. CASE UNCHANGED vars
  BY <1>0, <1>10, SameWait DEF vars, timer, observer
<1> QED BY <1>1, <1>2, <1>3, <1>4, <1>5, <1>6, <1>7, <1>8, <1>9, <1>10
        DEF Next, Arrive, FetchEnds, Run

-----------------------------------------------------------------------------
(* The invariants.                                                         *)

LEMMA InitIInv == Init => IInv
<1> SUFFICES ASSUME Init PROVE IInv
  OBVIOUS
<1>1. Idle = [c \in Connector |-> "idle"]
  BY DEF Idle
<1>2. Phases /\ Fetches /\ WaitInv
  BY <1>1 DEF Init, Phases, Phase, Fetches, FetchesOf, WaitInv, Wait, Waits
<1> QED BY <1>2, InitTypeOK DEF IInv

LEMMA NextIInv == IInv /\ [Next]_vars => IInv'
  BY NextTypeOK, NextPhases, NextFetches, NextWait DEF IInv

LEMMA AlwaysIInv == Spec => []IInv
  BY InitIInv, NextIInv, PTL DEF Spec

\* Type correctness: what each variable of the gateway can be in every state.
THEOREM GatewayTypes == Spec => []TypeOK
<1>1. IInv => TypeOK
  BY DEF IInv
<1> QED BY <1>1, AlwaysIInv, PTL

-----------------------------------------------------------------------------
(* The trail and the tokens.                                               *)

LEMMA TrailOf ==
  /\ Trail["denied"] = <<"query.denied">> /\ Trail["failed"] = <<"query.denied">>
  /\ Trail["limited"] = <<"query.rate_limited">> /\ Trail["accepted"] = <<"query.rate_limited">>
  /\ Trail["ok"] = <<"query.execute">> /\ Trail["partial"] = <<"query.execute">>
  /\ Trail["unsent"] = <<>> /\ Trail["open"] = <<>> /\ Trail["timedOut"] = <<>>
  /\ Trail["crashed"] = <<>> /\ Trail["lost"] = <<>>
  BY DEF Trail, Answers

LEMMA FirstEvent ==
  ASSUME TypeOK, NEW r \in Request, NEW event, Record(r, event), audit[r] = <<>>,
         NEW a, answer' = [answer EXCEPT ![r] = a], Trail[a] = <<event>>,
         AuditAgrees, NEW q \in Request
  PROVE  audit'[q] = Trail[answer'[q]]
<1>1. audit'[q] = IF q = r THEN <<event>> ELSE audit[q]
  <2>1. audit' = [audit EXCEPT ![r] = Append(audit[r], event)]
    BY DEF Record
  <2>2. Append(<<>>, event) = <<event>>
    OBVIOUS
  <2> QED BY <2>1, <2>2 DEF TypeOK
<1>2. answer'[q] = IF q = r THEN a ELSE answer[q]
  BY DEF TypeOK
<1> QED BY <1>1, <1>2 DEF AuditAgrees

LEMMA NextAudit ==
  ASSUME TypeOK, AuditAgrees, [Next]_vars
  PROVE  AuditAgrees'
<1> SUFFICES ASSUME NEW q \in Request PROVE audit'[q] = Trail[answer'[q]]
  BY DEF AuditAgrees, Trail, Answers
<1>0. \A r \in Request : answer[r] \in {"unsent", "open"} => audit[r] = <<>>
  BY TrailOf DEF AuditAgrees
<1>1. CASE Restart
  BY <1>0, <1>1, TrailOf DEF Restart, AuditAgrees, TypeOK
<1>2. CASE Tick
  BY <1>2 DEF Tick, AuditAgrees
<1>3. ASSUME NEW r \in Request, Deny(r) PROVE audit'[q] = Trail[answer'[q]]
  <2>1. CASE answer' = [answer EXCEPT ![r] = "denied"] /\ Record(r, "query.denied")
    BY <1>0, <1>3, <2>1, TrailOf, FirstEvent DEF Deny
  <2>2. CASE answer' = [answer EXCEPT ![r] = "crashed"] /\ UNCHANGED audit
    BY <1>0, <1>3, <2>2, TrailOf DEF Deny, AuditAgrees, TypeOK
  <2> QED BY <1>3, <2>1, <2>2 DEF Deny
<1>4. ASSUME NEW r \in Request, NEW S \in Query, Admit(r, S) PROVE audit'[q] = Trail[answer'[q]]
  BY <1>0, <1>4, TrailOf DEF Admit, AuditAgrees, TypeOK
<1>5. ASSUME NEW r \in Request, NEW S \in Query, Limit(r, S) PROVE audit'[q] = Trail[answer'[q]]
  <2>1. PICK a \in {"limited", "accepted"} : answer' = [answer EXCEPT ![r] = a]
    BY <1>5 DEF Limit
  <2>2. audit[r] = <<>> /\ Record(r, "query.rate_limited")
    BY <1>0, <1>5 DEF Limit
  <2>3. Trail[a] = <<"query.rate_limited">>
    BY TrailOf
  <2> QED BY <2>1, <2>2, <2>3, FirstEvent
<1>6. ASSUME NEW r \in Request, NEW c \in Connector,
             Deliver(r, c) \/ Raise(r, c) \/ SourceTimesOut(r, c)
      PROVE  audit'[q] = Trail[answer'[q]]
  BY <1>6 DEF Deliver, Raise, SourceTimesOut, AuditAgrees
<1>7. ASSUME NEW r \in Request, Respond(r) PROVE audit'[q] = Trail[answer'[q]]
  <2>1. answer[r] = "open" /\ audit[r] = <<>>
    BY <1>0, <1>7 DEF Respond
  <2>2. ASSUME NEW a \in {"ok", "partial"}, answer' = [answer EXCEPT ![r] = a],
               Record(r, "query.execute")
        PROVE  audit'[q] = Trail[answer'[q]]
    <3>1. Trail[a] = <<"query.execute">>
      BY TrailOf
    <3> QED BY <2>1, <2>2, <3>1, FirstEvent
  <2>3. CASE answer' = [answer EXCEPT ![r] = "crashed"] /\ UNCHANGED audit
    BY <2>1, <2>3, TrailOf DEF AuditAgrees, TypeOK
  <2> QED BY <1>7, <2>2, <2>3 DEF Respond
<1>8. ASSUME NEW r \in Request, Abort(r) PROVE audit'[q] = Trail[answer'[q]]
  <2>1. answer[r] = "open" /\ audit[r] = <<>>
    BY <1>0, <1>8 DEF Abort
  <2>2. CASE answer' = [answer EXCEPT ![r] = "failed"] /\ Record(r, "query.denied")
    BY <2>1, <2>2, TrailOf, FirstEvent
  <2>3. CASE answer' = [answer EXCEPT ![r] = "crashed"] /\ UNCHANGED audit
    BY <2>1, <2>3, TrailOf DEF AuditAgrees, TypeOK
  <2> QED BY <1>8, <2>2, <2>3 DEF Abort
<1>9. ASSUME NEW r \in Request, RequestTimesOut(r) PROVE audit'[q] = Trail[answer'[q]]
  BY <1>0, <1>9, TrailOf DEF RequestTimesOut, AuditAgrees, TypeOK
<1>10. ASSUME NEW r \in Request, JobStarts(r) \/ JobPolls(r) \/ JobEnds(r)
       PROVE  audit'[q] = Trail[answer'[q]]
  BY <1>10 DEF JobStarts, JobPolls, JobEnds, AuditAgrees
<1>11. CASE UNCHANGED vars
  BY <1>11 DEF vars, AuditAgrees
<1> QED BY <1>1, <1>2, <1>3, <1>4, <1>5, <1>6, <1>7, <1>8, <1>9, <1>10, <1>11
        DEF Next, Arrive, FetchEnds, Run

\* A query is audited at most once, as what it was answered, whatever its job,
\* its sources or the process did in between (main.py:308-325, 381-388, 445).
THEOREM TrailAgrees == Spec => []AuditAgrees
<1>1. Init => AuditAgrees
  BY TrailOf DEF Init, AuditAgrees
<1>2. IInv /\ AuditAgrees /\ [Next]_vars => AuditAgrees'
  BY NextAudit DEF IInv
<1> QED BY <1>1, <1>2, AlwaysIInv, PTL DEF Spec

\* A grant pays for the fetches that start with it, and only it starts fetches.
LEMMA NextCharged ==
  ASSUME IInv, ChargedOnce, [Next]_vars
  PROVE  ChargedOnce'
<1> DEFINE Paid(r) == charged[r] = IF fetch[r] = Idle THEN 0 ELSE 1
<1> SUFFICES ASSUME NEW q \in Request PROVE Paid(q)'
  BY DEF ChargedOnce, Idle
<1>0. TypeOK /\ Phases /\ Paid(q)
  BY DEF IInv, ChargedOnce
<1>1. ASSUME UNCHANGED charged, fetch'[q] = Idle <=> fetch[q] = Idle PROVE Paid(q)'
  BY <1>0, <1>1 DEF Idle
<1>2. ASSUME NEW r \in Request, NEW S \in Query, fetch[r] = Idle, Acquire(r, S), Execute(r, S)
      PROVE  Paid(q)'
  <2>1. fetch'[q] = IF q = r THEN Started(S) ELSE fetch[q]
    BY <1>0, <1>2 DEF Execute, TypeOK
  <2>2. charged'[q] = IF q = r THEN charged[q] + 1 ELSE charged[q]
    BY <1>0, <1>2 DEF Acquire, TypeOK
  <2> QED BY <1>0, <1>2, <2>1, <2>2, StartedShape DEF Idle
<1>3. CASE Restart
  <2>1. fetch'[q] = Idle <=> fetch[q] = Idle
    BY <1>0, <1>3, CancelledShape DEF Restart
  <2> QED BY <1>1, <1>3, <2>1 DEF Restart, observer
<1>4. CASE Tick
  BY <1>1, <1>4 DEF Tick
<1>5. ASSUME NEW r \in Request, Deny(r) \/ Respond(r) \/ Abort(r) \/ JobEnds(r) PROVE Paid(q)'
  BY <1>1, <1>5 DEF Deny, Respond, Abort, JobEnds, exec, observer
<1>6. ASSUME NEW r \in Request, NEW S \in Query, Admit(r, S) PROVE Paid(q)'
  BY <1>0, <1>2, <1>6 DEF Admit, Phases, Phase
<1>7. ASSUME NEW r \in Request, NEW S \in Query, Limit(r, S) PROVE Paid(q)'
  BY <1>1, <1>7 DEF Limit, exec, observer
<1>8. ASSUME NEW r \in Request, NEW c \in Connector,
             Deliver(r, c) \/ Raise(r, c) \/ SourceTimesOut(r, c)
      PROVE  Paid(q)'
  <2>1. PICK end \in {"ok", "stale", "raised", "timeout"} :
          fetch' = [fetch EXCEPT ![r][c] = end]
    BY <1>8 DEF Deliver, Raise, SourceTimesOut
  <2>2. fetch[r][c] # "idle" /\ UNCHANGED charged
    BY <1>8 DEF Deliver, Raise, SourceTimesOut, Pending, observer
  <2>3. fetch'[q] = Idle <=> fetch[q] = Idle
    BY <1>0, <2>1, <2>2, EndedFetchShape
  <2> QED BY <1>1, <2>2, <2>3
<1>9. ASSUME NEW r \in Request, RequestTimesOut(r) PROVE Paid(q)'
  <2>1. fetch'[q] = Idle <=> fetch[q] = Idle
    <3>1. CASE q = r
      <4>1. fetch'[r] = [c \in Connector |->
              IF fetch[r][c] = "pending" THEN "cancelled" ELSE fetch[r][c]]
        BY <1>0, <1>9 DEF RequestTimesOut, TypeOK
      <4> QED BY <1>0, <3>1, <4>1, CancelledShape
    <3>2. CASE q # r
      BY <1>0, <1>9, <3>2 DEF RequestTimesOut, TypeOK
    <3> QED BY <3>1, <3>2
  <2> QED BY <1>1, <1>9, <2>1 DEF RequestTimesOut, observer
<1>10. ASSUME NEW r \in Request, JobStarts(r) \/ JobPolls(r) PROVE Paid(q)'
  <2>1. job[r] \in {"queued", "polling"} /\ fetch[r] = Idle
    BY <1>0, <1>10 DEF JobStarts, JobPolls, Phases, Phase
  <2>2. PICK w : Poll(r, w)
    BY <1>10 DEF JobStarts, JobPolls
  <2>3. CASE sources[r] \in Query /\ Acquire(r, sources[r]) /\ Execute(r, sources[r])
    BY <1>2, <2>1, <2>3
  <2>4. CASE UNCHANGED <<charged, fetch>>
    BY <1>1, <2>4
  <2> QED BY <1>0, <2>1, <2>2, <2>3, <2>4, PollSteps
<1>11. CASE UNCHANGED vars
  BY <1>1, <1>11 DEF vars, exec, observer
<1> QED BY <1>3, <1>4, <1>5, <1>6, <1>7, <1>8, <1>9, <1>10, <1>11
        DEF Next, Arrive, FetchEnds, Run

\* No source is asked without a grant and no query pays twice, not when it is
\* refused first, polls for its tokens and is executed as a job (jobs.py:58-67).
THEOREM PaysOnce == Spec => []ChargedOnce
<1>1. Init => ChargedOnce
  BY DEF Init, ChargedOnce
<1>2. IInv /\ ChargedOnce /\ [Next]_vars => ChargedOnce'
  BY NextCharged
<1> QED BY <1>1, <1>2, AlwaysIInv, PTL DEF Spec

-----------------------------------------------------------------------------
(* The deadlines and what ends with a query.                               *)

\* Per-source deadlines trip first (main.py:416): with a source deadline below the
\* request's, no query is ever answered REQUEST_TIMEOUT.
THEOREM SourcesTimeOutFirst ==
  ASSUME SourceTimeout < RequestTimeout
  PROVE  Spec => []SourceDeadlineTripsFirst
<1>1. Init => SourceDeadlineTripsFirst
  BY DEF Init, SourceDeadlineTripsFirst
<1>2. ASSUME IInv, SourceDeadlineTripsFirst, [Next]_vars PROVE SourceDeadlineTripsFirst'
  <2>0. TypeOK
    BY <1>2 DEF IInv
  <2> SUFFICES ASSUME NEW q \in Request PROVE answer'[q] # "timedOut"
    BY DEF SourceDeadlineTripsFirst
  <2>1. answer[q] # "timedOut"
    BY <1>2 DEF SourceDeadlineTripsFirst
  <2>2. ASSUME NEW r \in Request PROVE ~RequestTimesOut(r)
    BY <2>0, ConstantTypes DEF RequestTimesOut, TypeOK
  <2>3. ASSUME NEW r \in Request, Arrive(r) PROVE answer'[q] # "timedOut"
    BY <2>0, <2>1, <2>3 DEF Arrive, Deny, Admit, Limit, TypeOK
  <2>4. ASSUME NEW r \in Request, FetchEnds(r) PROVE answer'[q] # "timedOut"
    BY <2>1, <2>4 DEF FetchEnds, Deliver, Raise
  <2>5. ASSUME NEW r \in Request, Run(r) PROVE answer'[q] # "timedOut"
    BY <2>0, <2>1, <2>2, <2>5
    DEF Run, SourceTimesOut, Raise, Respond, Abort, JobStarts, JobPolls, JobEnds, TypeOK
  <2>6. CASE Restart \/ Tick \/ UNCHANGED vars
    BY <2>1, <2>6 DEF Restart, Tick, vars
  <2> QED BY <1>2, <2>3, <2>4, <2>5, <2>6 DEF Next
<1> QED BY <1>1, <1>2, AlwaysIInv, PTL DEF Spec

\* A step that only ends fetches of r, or cancels them, starts none.
LEMMA NoNewPending ==
  ASSUME TypeOK, NEW q \in Request, sources'[q] = sources[q],
         \A c \in Connector : fetch'[q][c] = "pending" => fetch[q][c] = "pending"
  PROVE  Pending(q)' \subseteq Pending(q)
  BY DEF Pending, TypeOK

\* What a step does to the fetches and to the waiting of a query.
LEMMA NextPending ==
  ASSUME IInv, [Next]_vars, NEW q \in Request
  PROVE  \/ Pending(q)' \subseteq Pending(q) /\ (Waits(q) => Waits(q)')
         \/ Pending(q)' \subseteq Pending(q) /\ (Pending(q) = {} \/ raised'[q] # "no")
         \/ Pending(q)' = {}
         \/ Waits(q)'
<1>0. TypeOK /\ TypeOK' /\ Phases /\ Fetches
  BY NextTypeOK DEF IInv
<1>1. ASSUME UNCHANGED <<fetch[q], sources[q], answer[q], job[q]>>
      PROVE  Pending(q)' \subseteq Pending(q) /\ (Waits(q) => Waits(q)')
  BY <1>1 DEF Pending, Waits
<1>2. CASE Restart
  BY <1>0, <1>2 DEF Restart, Pending, TypeOK
<1>3. CASE Tick
  BY <1>1, <1>3 DEF Tick
<1>4. ASSUME NEW r \in Request, Deny(r) \/ \E S \in Query : Limit(r, S)
      PROVE  Pending(q)' \subseteq Pending(q) /\ (Waits(q) => Waits(q)')
  <2>1. CASE q = r
    <3>1. fetch[q] = Idle /\ UNCHANGED fetch /\ answer[q] = "unsent" /\ job[q] = "none"
      BY <1>0, <1>4, <2>1 DEF Deny, Limit, Phases, Phase, exec
    <3>2. sources'[q] \subseteq Connector
      BY <1>0 DEF TypeOK
    <3> QED BY <3>1, <3>2 DEF Idle, Pending, Waits
  <2>2. CASE q # r
    BY ZenonT(60), <1>0, <1>1, <1>4, <2>2 DEF Deny, Limit, exec, TypeOK
  <2> QED BY <2>1, <2>2
<1>5. ASSUME NEW r \in Request, NEW S \in Query, Admit(r, S)
      PROVE  \/ Waits(q)'
             \/ Pending(q)' \subseteq Pending(q) /\ (Waits(q) => Waits(q)')
  <2>1. CASE q = r
    BY <1>0, <1>5, <2>1 DEF Admit, Waits, TypeOK
  <2>2. CASE q # r
    BY <1>0, <1>1, <1>5, <2>2 DEF Admit, Execute, TypeOK
  <2> QED BY <2>1, <2>2
<1>6. ASSUME NEW r \in Request, NEW c \in Connector,
             Deliver(r, c) \/ Raise(r, c) \/ SourceTimesOut(r, c)
      PROVE  Pending(q)' \subseteq Pending(q) /\ (Waits(q) => Waits(q)')
  <2>1. PICK end \in {"ok", "stale", "raised", "timeout"} :
          fetch' = [fetch EXCEPT ![r][c] = end]
    BY <1>6 DEF Deliver, Raise, SourceTimesOut
  <2>2. UNCHANGED <<sources, answer, job>>
    BY <1>6 DEF Deliver, Raise, SourceTimesOut
  <2>3. \A d \in Connector : fetch'[q][d] = "pending" => fetch[q][d] = "pending"
    BY <1>0, <2>1 DEF TypeOK
  <2> QED BY <1>0, <2>2, <2>3, NoNewPending DEF Waits
<1>7. ASSUME NEW r \in Request, Respond(r) \/ Abort(r) \/ JobEnds(r)
      PROVE  \/ Pending(q)' \subseteq Pending(q) /\ (Waits(q) => Waits(q)')
             \/ Pending(q)' \subseteq Pending(q) /\ (Pending(q) = {} \/ raised'[q] # "no")
  <2>1. CASE q = r
    <3>1. Pending(q)' = Pending(q) /\ (Pending(q) = {} \/ raised'[q] # "no")
      BY <1>7, <2>1 DEF Respond, Abort, JobEnds, Complete, Pending, exec
    <3> QED BY <3>1
  <2>2. CASE q # r
    BY <1>0, <1>1, <1>7, <2>2 DEF Respond, Abort, JobEnds, exec, TypeOK
  <2> QED BY <2>1, <2>2
<1>8. ASSUME NEW r \in Request, RequestTimesOut(r)
      PROVE  \/ Pending(q)' \subseteq Pending(q) /\ (Waits(q) => Waits(q)')
             \/ Pending(q)' = {}
  <2>1. CASE q = r
    BY <1>0, <1>8, <2>1 DEF RequestTimesOut, Pending, TypeOK
  <2>2. CASE q # r
    BY <1>0, <1>1, <1>8, <2>2 DEF RequestTimesOut, TypeOK
  <2> QED BY <2>1, <2>2
<1>9. ASSUME NEW r \in Request, JobStarts(r) \/ JobPolls(r)
      PROVE  \/ Pending(q)' \subseteq Pending(q) /\ (Waits(q) => Waits(q)')
             \/ Waits(q)'
  <2>1. UNCHANGED <<sources, answer>> /\ job[r] \in {"queued", "polling"}
    BY <1>9 DEF JobStarts, JobPolls
  <2>2. PICK w : Poll(r, w)
    BY <1>9 DEF JobStarts, JobPolls
  <2>3. CASE Execute(r, sources[r]) /\ job' = [job EXCEPT ![r] = "executing"]
    <3>1. CASE q = r
      BY <1>0, <2>3, <3>1 DEF Waits, TypeOK
    <3>2. CASE q # r
      BY <1>0, <1>1, <2>1, <2>3, <3>2 DEF Execute, TypeOK
    <3> QED BY <3>1, <3>2
  <2>4. CASE UNCHANGED fetch /\ \E v : job' = [job EXCEPT ![r] = v]
    <3>1. Waits(q) => Waits(q)'
      BY <1>0, <2>1, <2>4 DEF Waits, TypeOK
    <3> QED BY <1>0, <2>1, <2>4, <3>1, NoNewPending
  <2> QED BY <1>0, <2>1, <2>2, <2>3, <2>4, PollSteps
<1>10. CASE UNCHANGED vars
  BY <1>1, <1>10 DEF vars, exec
<1> QED BY <1>2, <1>3, <1>4, <1>5, <1>6, <1>7, <1>8, <1>9, <1>10
        DEF Next, Arrive, FetchEnds, Run

\* An exception that was raised is not forgotten.
LEMMA RaisedSticks ==
  ASSUME TypeOK, [Next]_vars, NEW q \in Request, raised[q] # "no"
  PROVE  raised'[q] # "no"
<1>1. ASSUME NEW r \in Request, NEW w, Poll(r, w) PROVE raised' = raised
  BY <1>1 DEF Poll, Execute, exec
<1>2. ASSUME NEW r \in Request, Arrive(r) PROVE raised' = raised
  BY <1>2 DEF Arrive, Deny, Admit, Limit, Execute, exec
<1>3. ASSUME NEW r \in Request, NEW c \in Connector, Raise(r, c) PROVE raised'[q] # "no"
  BY <1>3 DEF Raise, TypeOK
<1>4. ASSUME NEW r \in Request, Run(r) PROVE raised'[q] # "no"
  BY <1>1, <1>3, <1>4
  DEF Run, SourceTimesOut, Respond, Abort, RequestTimesOut, JobStarts, JobPolls, JobEnds, exec
<1>5. ASSUME NEW r \in Request, FetchEnds(r) PROVE raised'[q] # "no"
  BY <1>3, <1>5 DEF FetchEnds, Deliver
<1> QED BY <1>2, <1>4, <1>5 DEF Next, Restart, Tick, vars, exec

\* Only an exception leaves fetches behind that nobody waits for: answers, jobs,
\* deadlines and restarts do not.
THEOREM OrphansNeedException == Spec => []OrphansOnlyAfterException
<1>1. Init => OrphansOnlyAfterException
  BY DEF Init, OrphansOnlyAfterException, Pending
<1>2. ASSUME IInv, OrphansOnlyAfterException, [Next]_vars PROVE OrphansOnlyAfterException'
  <2> SUFFICES ASSUME NEW q \in Request, Pending(q)' # {}
               PROVE  Waits(q)' \/ raised'[q] # "no"
    BY DEF OrphansOnlyAfterException, Pending, Waits
  <2>1. Pending(q) # {} => Waits(q) \/ raised[q] # "no"
    BY <1>2 DEF OrphansOnlyAfterException
  <2>2. raised[q] # "no" => raised'[q] # "no"
    BY <1>2, RaisedSticks DEF IInv
  <2> QED BY <1>2, <2>1, <2>2, NextPending
<1> QED BY <1>1, <1>2, AlwaysIInv, PTL DEF Spec

\* The ends of the fetches of a query whose rows were merged.
MergedRows(r) ==
  /\ answer[r] \in {"ok", "partial"} \/ job[r] = "done"
       => \A c \in sources[r] : fetch[r][c] \in {"ok", "stale", "timeout"}
  /\ answer[r] = "ok" => \A c \in sources[r] : fetch[r][c] # "timeout"
  /\ answer[r] = "partial" => \E c \in sources[r] : fetch[r][c] = "timeout"

LEMMA CompleteEnds ==
  ASSUME IInv, NEW r \in Request, Complete(r)
  PROVE  \A c \in sources[r] : fetch[r][c] \in {"ok", "stale", "timeout"}
<1> SUFFICES ASSUME NEW c \in sources[r] PROVE fetch[r][c] \in {"ok", "stale", "timeout"}
  OBVIOUS
<1>1. TypeOK /\ Phase(r) /\ FetchesOf(r) /\ c \in Connector
  BY DEF IInv, Phases, Fetches, TypeOK
<1>2. fetch[r][c] # "pending" /\ raised[r] = "no" /\ Waits(r)
  BY DEF Complete, Pending
<1>3. fetch[r] # Idle
  BY <1>1, <1>2 DEF Waits, Phase
<1>4. fetch[r][c] \notin {"idle", "raised", "cancelled"}
  BY <1>1, <1>2, <1>3 DEF FetchesOf
<1> QED BY <1>1, <1>2, <1>4 DEF TypeOK

LEMMA NextMerged ==
  ASSUME IInv, [Next]_vars, NEW q \in Request, MergedRows(q)
  PROVE  MergedRows(q)'
<1>0. TypeOK /\ Phases /\ Phase(q)
  BY DEF IInv, Phases
<1>1. ASSUME UNCHANGED <<fetch[q], sources[q]>>,
             answer'[q] = answer[q] \/ answer'[q] \notin {"ok", "partial"},
             job'[q] = job[q] \/ job'[q] # "done"
      PROVE  MergedRows(q)'
  BY <1>1 DEF MergedRows
<1>2. ASSUME answer'[q] \notin {"ok", "partial"}, job'[q] # "done" PROVE MergedRows(q)'
  BY <1>2 DEF MergedRows
<1>3. CASE Restart
  <2>1. CASE answer[q] \in {"ok", "partial"}
    <3>1. \A c \in sources[q] : fetch[q][c] # "pending" /\ c \in Connector
      BY <1>0, <2>1 DEF MergedRows, TypeOK
    <3>2. \A c \in sources[q] : fetch'[q][c] = fetch[q][c]
      BY <1>3, <3>1 DEF Restart
    <3> QED BY <1>0, <1>3, <2>1, <3>2 DEF Restart, MergedRows, Phase
  <2>2. CASE answer[q] \notin {"ok", "partial"}
    BY <1>2, <1>3, <2>2 DEF Restart
  <2> QED BY <2>1, <2>2
<1>4. CASE Tick
  BY <1>1, <1>4 DEF Tick
<1>5. ASSUME NEW r \in Request,
             Deny(r) \/ \E S \in Query : Admit(r, S) \/ Limit(r, S)
      PROVE  MergedRows(q)'
  <2>1. CASE q = r
    <3>1. /\ answer'[q] \in {"denied", "crashed", "open", "limited", "accepted"}
          /\ answer[q] = "unsent"
      BY <1>0, <1>5, <2>1 DEF Deny, Admit, Limit, TypeOK
    <3>2. job[q] = "none" /\ job'[q] \in {"none", "queued"}
      BY <1>0, <1>5, <2>1, <3>1 DEF Deny, Admit, Limit, Phase, TypeOK
    <3> QED BY <1>2, <3>1, <3>2
  <2>2. CASE q # r
    BY <1>0, <1>1, <1>5, <2>2 DEF Deny, Admit, Limit, Execute, exec, TypeOK
  <2> QED BY <2>1, <2>2
<1>6. ASSUME NEW r \in Request, NEW c \in Connector,
             Deliver(r, c) \/ Raise(r, c) \/ SourceTimesOut(r, c)
      PROVE  MergedRows(q)'
  <2>1. UNCHANGED <<sources, answer, job>> /\ c \in sources[r] /\ fetch[r][c] = "pending"
    BY <1>6 DEF Deliver, Raise, SourceTimesOut, Pending
  <2>2. CASE q = r
    BY <1>2, <2>1, <2>2 DEF MergedRows
  <2>3. CASE q # r
    BY <1>0, <1>1, <1>6, <2>1, <2>3 DEF Deliver, Raise, SourceTimesOut, TypeOK
  <2> QED BY <2>2, <2>3
<1>7. ASSUME NEW r \in Request, Respond(r) PROVE MergedRows(q)'
  <2>1. CASE q = r
    <3>1. \A c \in sources[q] : fetch[q][c] \in {"ok", "stale", "timeout"}
      BY <1>7, <2>1, CompleteEnds DEF Respond
    <3>2. \/ answer'[q] =
                IF \E c \in sources[q] : fetch[q][c] = "timeout" THEN "partial" ELSE "ok"
          \/ answer'[q] = "crashed"
      BY <1>0, <1>7, <2>1 DEF Respond, TypeOK
    <3> QED BY <1>0, <1>7, <2>1, <3>1, <3>2 DEF Respond, MergedRows, Phase, exec
  <2>2. CASE q # r
    BY <1>0, <1>1, <1>7, <2>2 DEF Respond, exec, TypeOK
  <2> QED BY <2>1, <2>2
<1>8. ASSUME NEW r \in Request, Abort(r) PROVE MergedRows(q)'
  BY <1>0, <1>1, <1>8 DEF Abort, exec, TypeOK
<1>9. ASSUME NEW r \in Request, RequestTimesOut(r) PROVE MergedRows(q)'
  <2>1. CASE q = r
    BY <1>0, <1>2, <1>9, <2>1 DEF RequestTimesOut, Phase, TypeOK
  <2>2. CASE q # r
    BY <1>0, <1>1, <1>9, <2>2 DEF RequestTimesOut, TypeOK
  <2> QED BY <2>1, <2>2
<1>10. ASSUME NEW r \in Request, JobStarts(r) \/ JobPolls(r) PROVE MergedRows(q)'
  <2>1. UNCHANGED <<sources, answer>> /\ job[r] \in {"queued", "polling"}
    BY <1>10 DEF JobStarts, JobPolls
  <2>2. PICK w : Poll(r, w)
    BY <1>10 DEF JobStarts, JobPolls
  <2>3. PICK v \in {"executing", "failed", "polling"} : job' = [job EXCEPT ![r] = v]
    BY <1>0, <2>1, <2>2, PollSteps
  <2>4. CASE q = r
    <3>1. answer'[q] = "accepted" /\ job'[q] # "done"
      BY <1>0, <2>1, <2>3, <2>4 DEF Phase, TypeOK
    <3> QED BY <1>2, <3>1
  <2>5. CASE q # r
    <3>1. UNCHANGED fetch \/ fetch' = [fetch EXCEPT ![r] = Started(sources[r])]
      BY <1>0, <2>1, <2>2, PollSteps DEF Execute
    <3>2. UNCHANGED <<fetch[q], job[q]>>
      BY <1>0, <2>3, <2>5, <3>1 DEF TypeOK
    <3> QED BY <1>1, <2>1, <3>2
  <2> QED BY <2>4, <2>5
<1>11. ASSUME NEW r \in Request, JobEnds(r) PROVE MergedRows(q)'
  <2>1. CASE q = r
    <3>1. UNCHANGED <<sources, answer, fetch>> /\ answer[q] = "accepted"
      BY <1>0, <1>11, <2>1 DEF JobEnds, Phase, exec
    <3>2. CASE Complete(r)
      BY <2>1, <3>1, <3>2, CompleteEnds DEF MergedRows
    <3>3. CASE job' = [job EXCEPT ![r] = "failed"]
      BY <1>0, <1>2, <2>1, <3>1, <3>3 DEF TypeOK
    <3> QED BY <1>11, <3>2, <3>3 DEF JobEnds
  <2>2. CASE q # r
    BY <1>0, <1>1, <1>11, <2>2 DEF JobEnds, exec, TypeOK
  <2> QED BY <2>1, <2>2
<1>12. CASE UNCHANGED vars
  BY <1>1, <1>12 DEF vars, exec
<1> QED BY <1>3, <1>4, <1>5, <1>6, <1>7, <1>8, <1>9, <1>10, <1>11, <1>12
        DEF Next, Arrive, FetchEnds, Run

\* Rows are merged only from sources that all ended and of which none failed, and
\* a result says that it is partial if and only if one of them was too late, also
\* after the other fetches, jobs and restarts that follow (executor.py:111-138).
THEOREM MergedFromEnded == Spec => []RowsFromEndedSources
<1> DEFINE Merged == \A r \in Request : MergedRows(r)
<1>1. Init => Merged
  BY DEF Init, MergedRows
<1>2. IInv /\ Merged /\ [Next]_vars => Merged'
  BY NextMerged
<1>3. Merged => RowsFromEndedSources
  BY DEF MergedRows, RowsFromEndedSources
<1> QED BY <1>1, <1>2, <1>3, AlwaysIInv, PTL DEF Spec

-----------------------------------------------------------------------------
(* Giving up.                                                              *)

GaveUp(r) == job[r] = "failed" /\ fetch[r] = Idle => contended[r]

\* After a minute's wait that nobody disturbed, every bucket of a job has a token.
LEMMA WaitIsEnough ==
  ASSUME Minute <= MaxWait, IInv, NEW r \in Request, job[r] = "polling", waited[r] > MaxWait,
         ~contended[r]
  PROVE  B!CanGrant(level, Keys(sources[r], r))
<1> SUFFICES ASSUME NEW k \in Keys(sources[r], r) PROVE level[k] >= Minute
  BY DEF B!CanGrant
<1>1. k \in Key /\ waited[r] \in Nat
  BY KeysInKey, TypesOfRequest DEF IInv
<1>2. level[k] >= B!AtMost(Cap[k], waited[r]) /\ level[k] \in Nat
  BY <1>1 DEF IInv, WaitInv, Wait, TypeOK
<1> QED BY <1>1, <1>2, RateAndCap, ConstantTypes DEF B!AtMost

LEMMA NextGaveUp ==
  ASSUME Minute <= MaxWait, IInv, [Next]_vars, NEW q \in Request, GaveUp(q)
  PROVE  GaveUp(q)'
<1>0. TypeOK /\ Phases /\ Phase(q)
  BY DEF IInv, Phases
<1>1. ASSUME contended[q] => contended'[q],
             job'[q] = "failed" => job[q] = "failed",
             fetch'[q] = Idle => fetch[q] = Idle
      PROVE  GaveUp(q)'
  BY <1>1 DEF GaveUp, Idle
<1>2. CASE Restart
  BY <1>2 DEF Restart, GaveUp
<1>3. CASE Tick
  BY <1>1, <1>3 DEF Tick
<1>4. ASSUME NEW r \in Request, Deny(r) \/ Respond(r) \/ Abort(r) PROVE GaveUp(q)'
  BY <1>1, <1>4 DEF Deny, Respond, Abort, exec, observer
<1>5. ASSUME NEW r \in Request, NEW S \in Query, Acquire(r, S), Execute(r, S)
      PROVE  /\ contended[q] => contended'[q]
             /\ fetch'[q] = Idle => fetch[q] = Idle
  BY <1>0, <1>5, StartedShape DEF Acquire, Execute, TypeOK
<1>6. ASSUME NEW r \in Request, NEW S \in Query, Admit(r, S) PROVE GaveUp(q)'
  BY <1>1, <1>5, <1>6 DEF Admit
<1>7. ASSUME NEW r \in Request, NEW S \in Query, Limit(r, S) PROVE GaveUp(q)'
  <2>1. job'[q] = "failed" => job[q] = "failed"
    BY <1>0, <1>7 DEF Limit, TypeOK
  <2> QED BY <1>1, <1>7, <2>1 DEF Limit, exec, observer
<1>8. ASSUME NEW r \in Request, NEW c \in Connector,
             Deliver(r, c) \/ Raise(r, c) \/ SourceTimesOut(r, c)
      PROVE  GaveUp(q)'
  <2>1. PICK end \in {"ok", "stale", "raised", "timeout"} :
          fetch' = [fetch EXCEPT ![r][c] = end]
    BY <1>8 DEF Deliver, Raise, SourceTimesOut
  <2>2. fetch[r][c] # "idle" /\ UNCHANGED <<job, contended>>
    BY <1>8 DEF Deliver, Raise, SourceTimesOut, Pending, observer
  <2>3. fetch'[q] = Idle => fetch[q] = Idle
    BY <1>0, <2>1, <2>2, EndedFetchShape
  <2> QED BY <1>1, <2>2, <2>3
<1>9. ASSUME NEW r \in Request, RequestTimesOut(r) PROVE GaveUp(q)'
  <2>1. fetch'[q] = Idle => fetch[q] = Idle
    <3>1. CASE q = r
      <4>1. fetch'[r] = [c \in Connector |->
              IF fetch[r][c] = "pending" THEN "cancelled" ELSE fetch[r][c]]
        BY <1>0, <1>9 DEF RequestTimesOut, TypeOK
      <4> QED BY <1>0, <3>1, <4>1, CancelledShape
    <3>2. CASE q # r
      BY <1>0, <1>9, <3>2 DEF RequestTimesOut, TypeOK
    <3> QED BY <3>1, <3>2
  <2> QED BY <1>1, <1>9, <2>1 DEF RequestTimesOut, observer
<1>10. ASSUME NEW r \in Request, JobStarts(r) \/ JobPolls(r) PROVE GaveUp(q)'
  <2>1. PICK w : /\ Poll(r, w) /\ job[r] \in {"queued", "polling"}
                 /\ \/ w = 0
                    \/ w = waited[r] /\ job[r] = "polling"
    BY <1>10 DEF JobStarts, JobPolls
  <2>2. CASE /\ sources[r] \in Query /\ Acquire(r, sources[r]) /\ Execute(r, sources[r])
             /\ job' = [job EXCEPT ![r] = "executing"]
    <3>1. job'[q] = "failed" => job[q] = "failed"
      BY <1>0, <2>2 DEF TypeOK
    <3> QED BY <1>1, <1>5, <2>2, <3>1
  <2>3. CASE /\ w > MaxWait /\ ~B!CanGrant(level, Keys(sources[r], r))
             /\ job' = [job EXCEPT ![r] = "failed"]
             /\ UNCHANGED <<fetch, contended>>
    <3>1. contended[r]
      BY <2>1, <2>3, WaitIsEnough, ConstantTypes
    <3>2. job'[q] = "failed" => job[q] = "failed" \/ q = r
      BY <1>0, <2>3 DEF TypeOK
    <3> QED BY <2>3, <3>1, <3>2 DEF GaveUp, Idle
  <2>4. CASE /\ job' = [job EXCEPT ![r] = "polling"]
             /\ UNCHANGED <<fetch, contended>>
    <3>1. job'[q] = "failed" => job[q] = "failed"
      BY <1>0, <2>4 DEF TypeOK
    <3> QED BY <1>1, <2>4, <3>1
  <2> QED BY <1>0, <2>1, <2>2, <2>3, <2>4, PollSteps
<1>11. ASSUME NEW r \in Request, JobEnds(r) PROVE GaveUp(q)'
  <2>1. CASE q = r
    BY <1>0, <1>11, <2>1 DEF JobEnds, Phase, GaveUp, Idle, exec
  <2>2. CASE q # r
    BY <1>0, <1>1, <1>11, <2>2 DEF JobEnds, exec, observer, TypeOK
  <2> QED BY <2>1, <2>2
<1>12. CASE UNCHANGED vars
  BY <1>1, <1>12 DEF vars, exec, observer
<1> QED BY <1>2, <1>3, <1>4, <1>6, <1>7, <1>8, <1>9, <1>10, <1>11, <1>12
        DEF Next, Arrive, FetchEnds, Run

\* With a window of at least a minute (_MAX_WAIT_S is one), a job gives up only if
\* another call drew on its buckets while it waited (jobs.py:20 and 58-65).
THEOREM GivesUpIfContended ==
  ASSUME Minute <= MaxWait
  PROVE  Spec => []GivesUpOnlyIfContended
<1> DEFINE AllGaveUp == \A r \in Request : GaveUp(r)
<1>1. Init => AllGaveUp
  BY DEF Init, GaveUp
<1>2. IInv /\ AllGaveUp /\ [Next]_vars => AllGaveUp'
  BY NextGaveUp
<1>3. AllGaveUp => GivesUpOnlyIfContended
  BY DEF GaveUp, GivesUpOnlyIfContended
<1> QED BY <1>1, <1>2, <1>3, AlwaysIInv, PTL DEF Spec

-----------------------------------------------------------------------------
(* What the client sees.                                                   *)

\* The refinement mapping of Gateway!Client, for one request.
SeenAnswer(r) ==
  IF answer[r] \in {"unsent", "open", "accepted", "lost"} THEN answer[r] ELSE "final"
SeenJob(r) == IF job[r] \in {"polling", "executing"} THEN "running" ELSE job[r]

seenAnswer == [r \in Request |-> SeenAnswer(r)]
seenJob == [r \in Request |-> SeenJob(r)]

\* A change of one answer or of one job is seen as such.
LEMMA SeenAnswerChange ==
  ASSUME TypeOK, NEW r \in Request, NEW a, answer' = [answer EXCEPT ![r] = a]
  PROVE  seenAnswer' = [seenAnswer EXCEPT ![r] =
           IF a \in {"unsent", "open", "accepted", "lost"} THEN a ELSE "final"]
  BY DEF TypeOK, seenAnswer, SeenAnswer

LEMMA SeenJobChange ==
  ASSUME TypeOK, NEW r \in Request, NEW j, job' = [job EXCEPT ![r] = j]
  PROVE  seenJob' = [seenJob EXCEPT ![r] =
           IF j \in {"polling", "executing"} THEN "running" ELSE j]
  BY DEF TypeOK, seenJob, SeenJob

LEMMA SeenSame ==
  /\ UNCHANGED answer => UNCHANGED seenAnswer
  /\ UNCHANGED job => UNCHANGED seenJob
  BY DEF seenAnswer, SeenAnswer, seenJob, SeenJob

SeenNext ==
  \/ Client!Crash
  \/ \E r \in Request : \/ Client!Send(r) \/ Client!Final(r) \/ Client!Accept(r)
                        \/ Client!RunJob(r) \/ Client!EndJob(r)
  \/ UNCHANGED <<seenAnswer, seenJob>>

LEMMA SeenSteps ==
  ASSUME IInv, [Next]_vars
  PROVE  [Client!Next]_(Client!view)
<1> SUFFICES SeenNext
  BY DEF SeenNext, Client!Next, Client!view, seenAnswer, SeenAnswer, seenJob, SeenJob
<1>0. TypeOK /\ Phases
  BY DEF IInv
<1> USE DEF SeenNext
<1>1. CASE Restart
  <2>1. seenAnswer' = [r \in Request |->
          IF seenAnswer[r] = "open" THEN "lost" ELSE seenAnswer[r]]
    BY <1>0, <1>1 DEF Restart, seenAnswer, SeenAnswer, TypeOK
  <2>2. seenJob' = [r \in Request |-> IF seenJob[r] = "none" THEN "none" ELSE "lost"]
    BY <1>0, <1>1 DEF Restart, seenJob, SeenJob, TypeOK
  <2> QED BY <2>1, <2>2 DEF Client!Crash, seenAnswer, SeenAnswer, seenJob, SeenJob
<1>2. ASSUME NEW r \in Request,
             answer' = [answer EXCEPT ![r] = answer'[r]],
             answer[r] \in {"unsent", "open"},
             answer'[r] \notin {"unsent", "open", "accepted", "lost"}, UNCHANGED job
      PROVE  Client!Final(r)
  <2>1. seenAnswer' = [seenAnswer EXCEPT ![r] = "final"] /\ UNCHANGED seenJob
    BY <1>0, <1>2, SeenAnswerChange, SeenSame
  <2>2. seenAnswer[r] \in {"unsent", "open"}
    BY <1>2 DEF seenAnswer, SeenAnswer
  <2> QED BY <2>1, <2>2
          DEF Client!Final, Client!MayAnswer, seenAnswer, SeenAnswer, seenJob, SeenJob
<1>3. ASSUME UNCHANGED <<answer, job>> PROVE SeenNext
  BY <1>3, SeenSame
<1>4. ASSUME NEW r \in Request, Deny(r) \/ Respond(r) \/ Abort(r) \/ RequestTimesOut(r)
      PROVE  SeenNext
  <2>1. /\ answer' = [answer EXCEPT ![r] = answer'[r]] /\ UNCHANGED job
        /\ answer[r] \in {"unsent", "open"}
        /\ answer'[r] \in {"denied", "ok", "partial", "failed", "crashed", "timedOut"}
    BY <1>0, <1>4 DEF Deny, Respond, Abort, RequestTimesOut, TypeOK
  <2> QED BY <1>2, <2>1
<1>5. ASSUME NEW r \in Request, NEW S \in Query, Admit(r, S) PROVE SeenNext
  <2>1. seenAnswer' = [seenAnswer EXCEPT ![r] = "open"] /\ UNCHANGED seenJob
    BY <1>0, <1>5, SeenAnswerChange, SeenSame DEF Admit
  <2>2. seenAnswer[r] = "unsent"
    BY <1>5 DEF Admit, seenAnswer, SeenAnswer
  <2> QED BY <2>1, <2>2 DEF Client!Send, seenAnswer, SeenAnswer, seenJob, SeenJob
<1>6. ASSUME NEW r \in Request, NEW S \in Query, Limit(r, S) PROVE SeenNext
  <2>1. CASE answer' = [answer EXCEPT ![r] = "limited"] /\ UNCHANGED job
    BY <1>0, <1>2, <1>6, <2>1 DEF Limit, TypeOK
  <2>2. CASE /\ answer' = [answer EXCEPT ![r] = "accepted"]
             /\ job' = [job EXCEPT ![r] = "queued"]
    <3>1. /\ seenAnswer' = [seenAnswer EXCEPT ![r] = "accepted"]
          /\ seenJob' = [seenJob EXCEPT ![r] = "queued"]
      BY <1>0, <2>2, SeenAnswerChange, SeenJobChange
    <3>2. seenAnswer[r] = "unsent"
      BY <1>6 DEF Limit, seenAnswer, SeenAnswer
    <3> QED BY <3>1, <3>2
            DEF Client!Accept, Client!MayAnswer, seenAnswer, SeenAnswer, seenJob, SeenJob
  <2> QED BY <1>6, <2>1, <2>2 DEF Limit
<1>7. ASSUME NEW r \in Request, JobStarts(r) \/ JobPolls(r) PROVE SeenNext
  <2>0. PICK w : /\ Poll(r, w) /\ job[r] \in {"queued", "polling"}
                 /\ job[r] = "queued" => w = 0
    BY <1>7 DEF JobStarts, JobPolls
  <2>1. UNCHANGED answer /\ UNCHANGED seenAnswer
    BY <1>7, SeenSame DEF JobStarts, JobPolls
  <2>2. ASSUME NEW j \in {"executing", "polling"}, job' = [job EXCEPT ![r] = j] PROVE SeenNext
    <3>1. seenJob' = [seenJob EXCEPT ![r] = "running"]
      BY <1>0, <2>2, SeenJobChange
    <3>2. CASE job[r] = "queued"
      <4>1. seenJob[r] = "queued"
        BY <3>2 DEF seenJob, SeenJob
      <4> QED BY <2>1, <3>1, <4>1
              DEF Client!RunJob, seenAnswer, SeenAnswer, seenJob, SeenJob
    <3>3. CASE job[r] = "polling"
      <4>1. seenJob[r] = "running"
        BY <3>3 DEF seenJob, SeenJob
      <4>2. UNCHANGED seenJob
        BY <3>1, <4>1 DEF seenJob
      <4> QED BY <2>1, <4>2
    <3> QED BY <2>0, <3>2, <3>3
  <2>3. ASSUME w > MaxWait, job' = [job EXCEPT ![r] = "failed"] PROVE SeenNext
    <3>1. seenJob' = [seenJob EXCEPT ![r] = "failed"]
      BY <1>0, <2>3, SeenJobChange
    <3>2. seenJob[r] = "running"
      BY <2>0, <2>3, ConstantTypes DEF seenJob, SeenJob
    <3> QED BY <2>1, <3>1, <3>2
            DEF Client!EndJob, seenAnswer, SeenAnswer, seenJob, SeenJob
  <2> QED BY <1>0, <2>0, <2>2, <2>3, PollSteps
<1>8. ASSUME NEW r \in Request, JobEnds(r) PROVE SeenNext
  <2>1. PICK j \in {"done", "failed"} : job' = [job EXCEPT ![r] = j]
    BY <1>8 DEF JobEnds
  <2>2. seenJob' = [seenJob EXCEPT ![r] = j] /\ UNCHANGED seenAnswer
    BY <1>0, <1>8, <2>1, SeenJobChange, SeenSame DEF JobEnds
  <2>3. seenJob[r] = "running"
    BY <1>8 DEF JobEnds, seenJob, SeenJob
  <2> QED BY ZenonT(60), <2>2, <2>3 DEF Client!EndJob, seenAnswer, SeenAnswer, seenJob, SeenJob
<1>9. ASSUME Tick \/ UNCHANGED vars PROVE SeenNext
  BY <1>3, <1>9 DEF Tick, vars
<1>10. ASSUME NEW r \in Request, NEW c \in Connector,
              Deliver(r, c) \/ Raise(r, c) \/ SourceTimesOut(r, c)
       PROVE  SeenNext
  BY <1>3, <1>10 DEF Deliver, Raise, SourceTimesOut
<1> QED BY <1>1, <1>4, <1>5, <1>6, <1>7, <1>8, <1>9, <1>10 DEF Next, Arrive, FetchEnds, Run

\* Step by step, the gateway is what the client is promised: no query is answered
\* twice, no job starts again, ends twice or comes back, whatever the interleaving
\* of its polls with other queries and with restarts (main.py:403-462, jobs.py:45-74).
THEOREM StepsAsPromised == Spec => Client!Init /\ [][Client!Next]_(Client!view)
<1>1. Init => Client!Init
  BY DEF Init, Client!Init
<1> QED BY <1>1, SeenSteps, AlwaysIInv, PTL DEF Spec
==============================================================================
