------------------------------ MODULE Gateway -------------------------------
(***************************************************************************)
(* The life of a query: POST /v1/query (main.py), the fan-out to its       *)
(* sources (executor.py) and the asynchronous jobs (jobs.py), over the     *)
(* rate limiter, of which only the contract is used (Budget).              *)
(*                                                                         *)
(* Everything runs on one event loop.  A handler is atomic between awaits: *)
(* from the arrival of a query to the start of its fetches or its answer,  *)
(* from the last of its fetches to its answer, and one poll of a job.      *)
(* Time is a tick that no timer or ready callback outlives: the loop is    *)
(* taken to run them on time.                                              *)
(*                                                                         *)
(* A request r is one POST; its job, if it is queued, has the same name,   *)
(* and at most one of the two ever executes, so there is one execution     *)
(* (fetch, elapsed, raised) for each r.                                    *)
(***************************************************************************)
EXTENDS Integers, Sequences, FiniteSets

CONSTANTS
  Request,
  Connector,
  Env,             \* the environment variables that are set
  TenantOf, UserOf, \* TenantOf[r], UserOf[r]: the caller of request r
  Rpm,             \* Rpm[c][s]: tokens a minute of connector c at scope s
  Minute,          \* ticks in a minute, and units in a token
  BurstUnits,      \* burst_multiplier * Minute
  SourceTimeout,   \* SOURCE_TIMEOUT_MS
  RequestTimeout,  \* REQUEST_TIMEOUT_MS
  MaxWait,         \* _MAX_WAIT_S
  PollInterval,    \* _POLL_INTERVAL_S
  MaxRestarts      \* bound: how often the process restarts

Scope == {"c", "t", "u"}

\* get_registry: the connectors that have an instance.  JIRA_API_VERSION is not set
\* to "3", its default, for which Jira needs a login.
Registered ==
  {"github", "jira", "linear"}
  \cup {c \in {"gh_live"} : {"GITHUB_TOKEN", "GITHUB_REPOS"} \subseteq Env}
  \cup {c \in {"jira_live"} :
          /\ "JIRA_BASE_URL" \in Env
          /\ "JIRA_API_VERSION" \in Env \/ {"JIRA_EMAIL", "JIRA_API_TOKEN"} \subseteq Env}

ASSUME GatewayAssumption ==
  /\ Rpm \in [Connector -> [Scope -> Nat \ {0}]]
  /\ {Minute, SourceTimeout, RequestTimeout, PollInterval} \subseteq Nat \ {0}
  /\ {MaxWait, MaxRestarts} \subseteq Nat
  /\ BurstUnits \in Nat /\ BurstUnits >= Minute

VARIABLES
  level,    \* the rate limiter's buckets (Budget)
  sources,  \* sources[r]: the connectors its plan touches
  answer,   \* answer[r]: what the client was answered, see Answers
  job,      \* job[r]: none, queued, polling, executing, done or failed
  fetch,    \* fetch[r][c]: how the fetch from c ended, idle or pending
  raised,   \* raised[r]: the first exception that a fetch raised
  elapsed,  \* elapsed[r]: ticks since its fetches started
  waited,   \* waited[r]: ticks since its job started to wait for budget
  sleep,    \* sleep[r]: ticks until its job polls again
  audit,    \* audit[r]: the events that audit.record was given for it
  charged,  \* an observer: how often r was granted its tokens
  contended, \* an observer: whether another call drew on r's buckets while its
             \* job waited
  restarts  \* how often the process has restarted

exec == <<fetch, raised, elapsed>>
timer == <<waited, sleep>>
observer == <<charged, contended>>
vars == <<level, sources, answer, job, exec, timer, audit, observer, restarts>>

-----------------------------------------------------------------------------

Keys(S, r) ==
  UNION {{<<"c", c>>, <<"t", c, TenantOf[r]>>, <<"u", c, TenantOf[r], UserOf[r]>>} :
           c \in S}

Key == UNION {Keys(Connector, r) : r \in Request}
Rate == [k \in Key |-> Rpm[k[2]][k[1]]]
Cap == [k \in Key |-> Rate[k] * BurstUnits]
Query == (SUBSET Connector) \ {{}}

B == INSTANCE Budget WITH
       Token <- Minute,
       Demand <- {Keys(S, r) : S \in Query, r \in Request}

Answers ==
  {"unsent", "open",
   "denied",    \* 4xx of a QueryError raised before the rate limit
   "limited",   \* 429
   "accepted",  \* 202 with a job
   "ok", "partial",  \* 200
   "timedOut",  \* 200 REQUEST_TIMEOUT
   "failed",    \* the status of a QueryError that a connector raised
   "crashed",   \* 500: any other exception
   "lost"}      \* the connection broke

Idle == [c \in Connector |-> "idle"]
Started(S) == [c \in Connector |-> IF c \in S THEN "pending" ELSE "idle"]

Pending(r) == {c \in sources[r] : fetch[r][c] = "pending"}
Waits(r) == answer[r] = "open" \/ job[r] = "executing"

\* Slip: the first fetch that ends completes the query.
CompleteAtFirst(r) ==
  Waits(r) /\ raised[r] = "no" /\ Pending(r) # sources[r]

\* gather returns: every fetch ended and none raised.
Complete(r) == Waits(r) /\ Pending(r) = {} /\ raised[r] = "no"

Record(r, event) == audit' = [audit EXCEPT ![r] = Append(@, event)]

\* Slip: the tokens are taken without being checked.
AcquireUnchecked(r, S) ==
  /\ level' = B!Charged(level, Keys(S, r))
  /\ charged' = [charged EXCEPT ![r] = @ + 1]
  /\ UNCHANGED contended

\* try_acquire_many grants r the tokens of its sources S.
Acquire(r, S) ==
  /\ B!Grant(Keys(S, r))
  /\ charged' = [charged EXCEPT ![r] = @ + 1]
  /\ contended' = [q \in Request |->
       \/ contended[q]
       \/ q # r /\ job[q] = "polling" /\ Keys(sources[q], q) \cap Keys(S, r) # {}]

\* execute_plan creates all the fetches at once.
Execute(r, S) ==
  /\ fetch' = [fetch EXCEPT ![r] = Started(S)]
  /\ elapsed' = [elapsed EXCEPT ![r] = 0]
  /\ UNCHANGED raised

-----------------------------------------------------------------------------

Init ==
  /\ B!Init
  /\ sources = [r \in Request |-> {}]
  /\ answer = [r \in Request |-> "unsent"]
  /\ job = [r \in Request |-> "none"]
  /\ fetch = [r \in Request |-> Idle]
  /\ raised = [r \in Request |-> "no"]
  /\ elapsed = [r \in Request |-> 0]
  /\ waited = [r \in Request |-> 0]
  /\ sleep = [r \in Request |-> 0]
  /\ audit = [r \in Request |-> <<>>]
  /\ charged = [r \in Request |-> 0]
  /\ contended = [r \in Request |-> FALSE]
  /\ restarts = 0

\* Authentication, planning or entitlements raise: a QueryError, or what nobody
\* catches, such as the ValueError of a LIMIT that is not a number.
Deny(r) ==
  /\ answer[r] = "unsent"
  /\ \/ answer' = [answer EXCEPT ![r] = "denied"] /\ Record(r, "query.denied")
     \/ answer' = [answer EXCEPT ![r] = "crashed"] /\ UNCHANGED audit
  /\ UNCHANGED <<level, sources, job, exec, timer, observer>>

\* The query is granted its tokens and its fetches start.
Admit(r, S) ==
  /\ answer[r] = "unsent"
  /\ Acquire(r, S)
  /\ Execute(r, S)
  /\ sources' = [sources EXCEPT ![r] = S]
  /\ answer' = [answer EXCEPT ![r] = "open"]
  /\ UNCHANGED <<job, timer, audit>>

\* A bucket lacks a token: 429, or with async_ok a job and a 202.
Limit(r, S) ==
  /\ answer[r] = "unsent"
  /\ ~B!CanGrant(level, Keys(S, r))
  /\ Record(r, "query.rate_limited")
  /\ sources' = [sources EXCEPT ![r] = S]
  /\ \/ /\ answer' = [answer EXCEPT ![r] = "limited"]
        /\ UNCHANGED job
     \/ /\ answer' = [answer EXCEPT ![r] = "accepted"]
        /\ job' = [job EXCEPT ![r] = "queued"]
  /\ UNCHANGED <<level, exec, timer, observer>>

\* The cache or the source delivers, live or stale.
Deliver(r, c) ==
  /\ c \in Pending(r) /\ c \in Registered
  /\ \E outcome \in {"ok", "stale"} : fetch' = [fetch EXCEPT ![r][c] = outcome]
  /\ UNCHANGED <<level, sources, answer, job, raised, elapsed, timer, audit, observer>>

\* The fetch raises: a QueryError (ConnectorAuthFailure), or anything else, such
\* as the KeyError of a connector that is not registered.
Raise(r, c) ==
  /\ c \in Pending(r)
  /\ fetch' = [fetch EXCEPT ![r][c] = "raised"]
  /\ \E e \in {"QueryError", "Exception"} :
       /\ e = "QueryError" => c \in Registered
       /\ raised' = [raised EXCEPT ![r] = IF @ = "no" THEN e ELSE @]
  /\ UNCHANGED <<level, sources, answer, job, elapsed, timer, audit, observer>>

\* Slip: the deadline of the request in the place of the source's.
SourceIsLateLater(r) == elapsed[r] = SourceTimeout + RequestTimeout

\* wait_for's deadline of a source: all fetches of r started together.
SourceIsLate(r) == elapsed[r] = SourceTimeout

\* Slip: only the fetches of a query that is still open have a deadline.
SourceTimesOutIfOpen(r, c) ==
  /\ c \in Pending(r) /\ SourceIsLate(r) /\ answer[r] = "open"
  /\ fetch' = [fetch EXCEPT ![r][c] = "timeout"]
  /\ UNCHANGED <<level, sources, answer, job, raised, elapsed, timer, audit, observer>>

\* The source misses its own deadline and its rows are left out.
SourceTimesOut(r, c) ==
  /\ c \in Pending(r) /\ SourceIsLate(r)
  /\ fetch' = [fetch EXCEPT ![r][c] = "timeout"]
  /\ UNCHANGED <<level, sources, answer, job, raised, elapsed, timer, audit, observer>>

\* Slip: a partial result is returned before it is audited.
RespondUnaudited(r) ==
  LET partial == \E c \in sources[r] : fetch[r][c] = "timeout"
  IN  /\ answer[r] = "open" /\ Complete(r)
      /\ answer' = [answer EXCEPT ![r] = IF partial THEN "partial" ELSE "ok"]
      /\ IF partial THEN UNCHANGED audit ELSE Record(r, "query.execute")
      /\ UNCHANGED <<level, sources, job, exec, timer, observer>>

\* The result is merged, audited and returned; or the merge raises, over rows that
\* its sort cannot compare or whose columns it does not find.
Respond(r) ==
  /\ answer[r] = "open" /\ Complete(r)
  /\ \/ /\ answer' = [answer EXCEPT ![r] =
            IF \E c \in sources[r] : fetch[r][c] = "timeout" THEN "partial" ELSE "ok"]
        /\ Record(r, "query.execute")
     \/ answer' = [answer EXCEPT ![r] = "crashed"] /\ UNCHANGED audit
  /\ UNCHANGED <<level, sources, job, exec, timer, observer>>

\* The first exception ends the query; its other fetches are not cancelled.  A
\* QueryError is audited by its handler, any other is a 500.
Abort(r) ==
  /\ answer[r] = "open" /\ raised[r] # "no"
  /\ \/ /\ raised[r] = "QueryError"
        /\ answer' = [answer EXCEPT ![r] = "failed"]
        /\ Record(r, "query.denied")
     \/ /\ raised[r] = "Exception"
        /\ answer' = [answer EXCEPT ![r] = "crashed"]
        /\ UNCHANGED audit
  /\ UNCHANGED <<level, sources, job, exec, timer, observer>>

\* Slip: the fetches are left running (shield).
RequestTimesOutShielded(r) ==
  /\ answer[r] = "open"
  /\ elapsed[r] = RequestTimeout
  /\ answer' = [answer EXCEPT ![r] = "timedOut"]
  /\ UNCHANGED <<level, sources, job, exec, timer, audit, observer>>

\* The deadline of the whole query: its fetches are cancelled and it is answered
\* without rows.
RequestTimesOut(r) ==
  /\ answer[r] = "open"
  /\ elapsed[r] = RequestTimeout
  /\ answer' = [answer EXCEPT ![r] = "timedOut"]
  /\ fetch' = [fetch EXCEPT ![r] =
       [c \in Connector |-> IF @[c] = "pending" THEN "cancelled" ELSE @[c]]]
  /\ UNCHANGED <<level, sources, job, raised, elapsed, timer, audit, observer>>

\* Slip: the job executes on the tokens its refusal did not take.
PollWithoutTokens(r, w) ==
  IF B!CanGrant(level, Keys(sources[r], r))
  THEN /\ Execute(r, sources[r])
       /\ job' = [job EXCEPT ![r] = "executing"]
       /\ UNCHANGED <<level, sleep, observer>>
  ELSE /\ IF w > MaxWait
          THEN job' = [job EXCEPT ![r] = "failed"] /\ UNCHANGED sleep
          ELSE /\ job' = [job EXCEPT ![r] = "polling"]
               /\ sleep' = [sleep EXCEPT ![r] = PollInterval]
       /\ UNCHANGED <<level, exec, observer>>

\* Slip: the window is checked before the last attempt.
PollDeadlineFirst(r, w) ==
  \/ /\ w < MaxWait
     /\ Acquire(r, sources[r])
     /\ Execute(r, sources[r])
     /\ job' = [job EXCEPT ![r] = "executing"]
     /\ UNCHANGED sleep
  \/ /\ w < MaxWait => ~B!CanGrant(level, Keys(sources[r], r))
     /\ IF w >= MaxWait
        THEN job' = [job EXCEPT ![r] = "failed"] /\ UNCHANGED sleep
        ELSE /\ job' = [job EXCEPT ![r] = "polling"]
             /\ sleep' = [sleep EXCEPT ![r] = PollInterval]
     /\ UNCHANGED <<level, exec, observer>>

\* One round of the job's loop: take the tokens, give up, or sleep.
Poll(r, w) ==
  \/ /\ Acquire(r, sources[r])
     /\ Execute(r, sources[r])
     /\ job' = [job EXCEPT ![r] = "executing"]
     /\ UNCHANGED sleep
  \/ /\ ~B!CanGrant(level, Keys(sources[r], r))
     /\ IF w > MaxWait
        THEN job' = [job EXCEPT ![r] = "failed"] /\ UNCHANGED sleep
        ELSE /\ job' = [job EXCEPT ![r] = "polling"]
             /\ sleep' = [sleep EXCEPT ![r] = PollInterval]
     /\ UNCHANGED <<level, exec, observer>>

\* The task of the job starts, polls at once, and then at every interval.
JobStarts(r) ==
  /\ job[r] = "queued"
  /\ Poll(r, 0)
  /\ waited' = [waited EXCEPT ![r] = 0]
  /\ UNCHANGED <<sources, answer, audit>>

JobPolls(r) ==
  /\ job[r] = "polling" /\ sleep[r] = 0
  /\ Poll(r, waited[r])
  /\ UNCHANGED <<sources, answer, audit, waited>>

\* Slip: an exception kills the task of the job and leaves it running.
JobEndsUncaught(r) ==
  /\ job[r] = "executing"
  /\ Complete(r) /\ job' = [job EXCEPT ![r] = "done"]
  /\ UNCHANGED <<level, sources, answer, exec, timer, audit, observer>>

\* The job's execution ends, with a result, or with the text of the exception of a
\* fetch or of the merge.
JobEnds(r) ==
  /\ job[r] = "executing"
  /\ \/ Complete(r) /\ job' = [job EXCEPT ![r] = "done"]
     \/ (Complete(r) \/ raised[r] # "no") /\ job' = [job EXCEPT ![r] = "failed"]
  /\ UNCHANGED <<level, sources, answer, exec, timer, audit, observer>>

\* What is due now: it happens before time passes.
Due(r) ==
  \/ Pending(r) \ Registered # {}
  \/ Pending(r) # {} /\ SourceIsLate(r)
  \/ answer[r] = "open" /\ elapsed[r] = RequestTimeout
  \/ Complete(r)
  \/ Waits(r) /\ raised[r] # "no"
  \/ job[r] = "queued"
  \/ job[r] = "polling" /\ sleep[r] = 0

Tick ==
  /\ \A r \in Request : ~Due(r)
  /\ B!Elapse
  /\ elapsed' = [r \in Request |-> IF Pending(r) # {} THEN elapsed[r] + 1 ELSE elapsed[r]]
  /\ waited' = [r \in Request |-> IF job[r] = "polling" THEN waited[r] + 1 ELSE waited[r]]
  /\ sleep' = [r \in Request |-> IF job[r] = "polling" THEN sleep[r] - 1 ELSE sleep[r]]
  /\ UNCHANGED <<sources, answer, job, fetch, raised, audit, charged, contended>>

\* What the event loop does for request r once it is due.
Run(r) ==
  \/ \E c \in Connector : SourceTimesOut(r, c)
  \/ \E c \in Connector \ Registered : Raise(r, c)
  \/ Respond(r) \/ Abort(r) \/ RequestTimesOut(r)
  \/ JobStarts(r) \/ JobPolls(r) \/ JobEnds(r)

\* What clients and sources do when they like.
Arrive(r) == Deny(r) \/ \E S \in Query : Admit(r, S) \/ Limit(r, S)
FetchEnds(r) == \E c \in Connector : Deliver(r, c) \/ Raise(r, c)

\* The process ends, and starts anew: buckets, jobs and fetches were all in its
\* memory; the connections of the queries that it was working on break.
Restart ==
  /\ restarts < MaxRestarts
  /\ restarts' = restarts + 1
  /\ B!Reset
  /\ answer' = [r \in Request |-> IF answer[r] = "open" THEN "lost" ELSE answer[r]]
  /\ job' = [r \in Request |-> IF job[r] = "none" THEN "none" ELSE "lost"]
  /\ fetch' = [r \in Request |->
       [c \in Connector |-> IF fetch[r][c] = "pending" THEN "cancelled" ELSE fetch[r][c]]]
  /\ UNCHANGED <<sources, raised, elapsed, timer, audit, observer>>

Next ==
  \/ Restart
  \/ /\ Tick \/ \E r \in Request : Arrive(r) \/ FetchEnds(r) \/ Run(r)
     /\ UNCHANGED restarts

\* Time goes on, and the event loop runs what is due; no source has to answer, and
\* the process need not restart.
Fairness ==
  /\ WF_vars(Tick /\ UNCHANGED restarts)
  /\ \A r \in Request : WF_vars(Run(r) /\ UNCHANGED restarts)

Spec == Init /\ [][Next]_vars /\ Fairness

-----------------------------------------------------------------------------

TypeOK ==
  /\ level \in [Key -> Nat] /\ \A k \in Key : level[k] <= Cap[k]
  /\ sources \in [Request -> SUBSET Connector]
  /\ answer \in [Request -> Answers]
  /\ job \in [Request -> {"none", "queued", "polling", "executing", "done", "failed", "lost"}]
  /\ fetch \in [Request -> [Connector ->
       {"idle", "pending", "ok", "stale", "timeout", "raised", "cancelled"}]]
  /\ raised \in [Request -> {"no", "QueryError", "Exception"}]
  /\ elapsed \in [Request -> 0..SourceTimeout]
  /\ waited \in [Request -> 0..(MaxWait + PollInterval)]
  /\ sleep \in [Request -> 0..PollInterval]
  /\ audit \in [Request -> Seq({"query.denied", "query.rate_limited", "query.execute"})]
  /\ charged \in [Request -> Nat]
  /\ contended \in [Request -> BOOLEAN]
  /\ restarts \in 0..MaxRestarts

\* The trail and the answer agree: one event for a query, of the kind of its
\* answer, and none for a query that crashed or hit the request's deadline.
Trail ==
  [a \in Answers |->
     CASE a \in {"denied", "failed"} -> <<"query.denied">>
       [] a \in {"limited", "accepted"} -> <<"query.rate_limited">>
       [] a \in {"ok", "partial"} -> <<"query.execute">>
       [] OTHER -> <<>>]

\* Whatever happens between a query's arrival and its end, or its job's, it is
\* audited once at most, as what it was answered (main.py:308-325, 381-388, 445).
AuditAgrees == \A r \in Request : audit[r] = Trail[answer[r]]

\* No source is asked for a query or a job without a grant, and no query pays
\* twice, not for its refusal and then for its job (jobs.py:58-67).
ChargedOnce ==
  \A r \in Request : charged[r] = IF fetch[r] = Idle THEN 0 ELSE 1

\* A job that gives up lost its tokens to somebody else: left alone, a minute's
\* wait frees a token of every bucket (_MAX_WAIT_S, jobs.py:20 and 58-65).
GivesUpOnlyIfContended ==
  \A r \in Request : job[r] = "failed" /\ fetch[r] = Idle => contended[r]

\* "per-source deadlines normally trip first" (main.py:416): with a source
\* deadline below the request's, no query is answered REQUEST_TIMEOUT.
SourceDeadlineTripsFirst == \A r \in Request : answer[r] # "timedOut"

\* A 200 with rows is merged from sources that all ended, of which none failed:
\* it is complete, or it says that it is partial (executor.py:111-138).
RowsFromEndedSources ==
  \A r \in Request :
    LET ends == {fetch[r][c] : c \in sources[r]}
    IN  /\ answer[r] \in {"ok", "partial"} \/ job[r] = "done" => ends \subseteq {"ok", "stale", "timeout"}
        /\ answer[r] = "ok" => "timeout" \notin ends
        /\ answer[r] = "partial" => "timeout" \in ends

\* A fetch outlives its query only when another fetch of the query raised: the
\* deadlines leave none behind (gather cancels on cancellation, not on errors).
OrphansOnlyAfterException ==
  \A r \in Request : Pending(r) # {} => Waits(r) \/ raised[r] # "no"

\* Every fetch ends, also those of queries that were already answered.
FetchesEnd == \A r \in Request : Pending(r) # {} ~> Pending(r) = {}

\* The contract of ClientView: every query is answered once, and every job that
\* was accepted runs and ends, in that order and never again, unless a restart
\* breaks off all that is open and forgets all jobs.
Client == INSTANCE ClientView WITH
  answer <- [r \in Request |->
    IF answer[r] \in {"unsent", "open", "accepted", "lost"} THEN answer[r] ELSE "final"],
  job <- [r \in Request |->
    IF job[r] \in {"polling", "executing"} THEN "running" ELSE job[r]]

ImplementsClientView == Client!Spec

-----------------------------------------------------------------------------
(* What the repository says of the gateway and the code does not do.       *)

\* "Every call is audited" (main.py:336): every one that reached its sources is,
\* once it is answered.
EveryCallAudited ==
  \A r \in Request : fetch[r] # Idle /\ answer[r] # "open" => audit[r] # <<>>

\* An unregistered connector "returns a clear CONNECTOR_AUTH_FAILURE rather than
\* a server error" (get_registry, connectors/jira_mock.py): a query of one crashes
\* only if another of its sources raised.
UnregisteredFailsClearly ==
  \A r \in Request : answer[r] = "crashed" =>
    \/ sources[r] \subseteq Registered
    \/ \E c \in sources[r] \cap Registered : fetch[r][c] = "raised"

=============================================================================
