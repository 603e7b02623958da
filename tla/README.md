# Universal SQL, in TLA+

A verification project for the Universal SQL prototype: a gateway that answers a
SQL `SELECT` (or a plan document) from the REST APIs of several applications.
The modules model the code in `src/` (paths below are relative to it), TLC checks
them on small instances, and TLAPS proves for every instance the invariants of the
limiter, the cache, the gateway, the data path, telemetry, paging and the console.

## 1. The system

One process, one asyncio event loop, no thread of its own and nothing on disk. A
query takes this way:

```
 client ── POST /v1/query ──> main.query
             verify_token ── plan_query / plan_from_dict ── apply_entitlements
             LIMITER.try_acquire_many ── refused ──> 429, or STORE.enqueue and 202
                      │ granted                             │ polls the limiter
                      v                                     v
               execute_plan  <──────────────────────── JobStore._run
                 gather: one _fetch_with_deadline for each source
                      CACHE.fetch ── connector.execute ── source
                 post-filter, hash join, projection and masks, order, slice
             audit.record ──> 200
 client ── GET /v1/jobs/{id} ──> JobStore.get
```

Everything between two `await`s is atomic. The awaits that matter are
`wait_for(execute_plan)`, `gather` over the sources, `wait_for(_fetch_source)`,
`connector.execute`, and the job's `sleep`.

| Component | Code | State | Operations | What makes it correct |
|---|---|---|---|---|
| Rate limiter | `src/ratelimit.py` | one bucket per key, created on demand | `try_acquire_many`, `reset` | never more than burst and refill in any window; all buckets of a call or none; a refusal is free; its hint is exact |
| Freshness cache | `src/freshness.py` | entries by (tenant, connector, fingerprint) | `fetch`, `clear` | rows are as fresh as they are said to be, whatever overlaps the await |
| Gateway | `src/main.py` | none besides the others' | `query`, error handler, read endpoints | one answer for each query, audited as answered |
| Executor | `src/executor.py` | the outcomes of one query | fan-out, merge | deadlines hold, partial answers say so, the merge is the query's meaning |
| Jobs | `src/jobs.py` | job records, for ever | `enqueue`, `_run`, `get` | charged once, and ends |
| Planner | `src/planner.py` | a parse cache | `plan_query`, `plan_from_dict` | refuses what it cannot plan; the split of predicates does not change the query |
| Plan | `src/plan.py` | none | `matches`, `fingerprint` | one key, one fetch |
| Entitlements | `src/entitlements.py`, `policy.yaml` | none | `apply_entitlements`, masks | nobody is shown what the role may not see |
| Mock connectors | `src/connectors/*_mock.py` | fixtures | `execute` | return what matches, github answers 304 |
| Live connectors | `src/connectors/*_live.py` | none | `execute` (pages over HTTP) | return what matches, and enough of it, while the source changes |
| Registry | `get_registry` in `jira_mock.py` | connectors with credentials | | a connector that is missing is told apart |
| Audit | `src/audit.py` | ring of 1000 events | `record`, `recent` | a tenant's last events are in it, and nobody else's are shown |
| Traces and metrics | `src/observability.py` | 50 traces, counters | `on_end`, `latest_query_trace` | the trace in use stays; the tenant's last query is found; counters agree with the trail |
| Authentication | `src/auth.py` | none | `mint_token`, `verify_token` | |
| Console | `web/app.js` | the page, the runs in flight | `runQuery`, `handleAsync` | every run ends; no old result beside a new run |
| Load and deployment | `load/`, `scripts/`, `infra/`, `ops/` | | | |

What is hard here: interleavings at the awaits (overlapping misses of one cache
key; jobs and newcomers competing for tokens), two nested deadlines with
cancellation, fetches that fail one by one, a clock read before an await and used
after it, a data path whose predicates are applied in four places, pages read from
a source that moves, bounded rings shared by the tenants, a restart that forgets
everything, and a console whose runs overlap. Each is a row of `hazards` in `PROJECT.json`, at its line, with the properties that cover it.

## 2. Modules

| Module | Models | Uses |
|---|---|---|
| `Budget` | the limiter's promise: buckets that refill by themselves | |
| `TokenBuckets` | `ratelimit.py` | refines `Budget` |
| `FreshnessCache` | `freshness.py` in time: one key, overlapping fetches | |
| `ClientView` | what a client may rely on: query and job life cycles | |
| `Gateway` | `main.query`, fan-out of `executor.py`, `jobs.py`, `get_registry`, a restart | `Budget` for the limiter; refines `ClientView` |
| `Selection` | what filtering a list gives, by the places that are kept | |
| `Predicates` | `plan.py`: predicates and the cache's key | `Selection` |
| `Planner` | `planner.py` and `entitlements.py`: from a query and a role to source plans, or a refusal | `Predicates` |
| `Sources` | `connectors/`: what `execute` returns over a source that stays as it is | `Predicates` |
| `Federation` | the data path as a state machine: cache, merge of `executor.py`, against a reference | `Planner`, `Sources` |
| `LivePaging` | the page loops of the live connectors over a source that changes | `Sources` |
| `Telemetry` | `audit.py`, `observability.py`, and the endpoints that read them | `Selection` |
| `Console` | `web/app.js` | `ClientView` for the service |
| `MC*` | constants, symmetry and views for TLC | |
| `SelectionLemmas` | lemmas on sequences, least elements, selections from sequences, and counting places | |
| `TokenBucketsProofs`, `FreshnessCacheProofs`, `GatewayProofs`, `TelemetryProofs`, `LivePagingProofs`, `FederationProofs`, `ConsoleProofs` | theorems about the module of that name | the lemmas |

The system is cut at contracts. `TokenBuckets` implements `Budget` (checked
and proved), so `Gateway` uses `Budget` for the limiter. `Gateway` implements
`ClientView` (checked; its steps are also proved), so `Console` runs against
`ClientView`. A still source makes `LivePaging` return what `Sources` says (checked
and proved), so `Federation` uses
`Sources` for the connectors. `FreshnessCache` says how
old the rows of a fetch are and `Federation` which rows they are: the first has
one key and abstracts rows to the version of the source; the second has every key,
fixed sources, and leaves open whether an entry is fresh.

Operators named "Slip" are faulty variants of the definition after them. No
specification uses them; each shows that one of the properties would notice.

### TokenBuckets

`buckets` is `RateLimiter._buckets` with missing keys mapped to `Absent`; a
bucket's `tokens` and `last` are the code's. Time is in ticks, `Minute` of them to
a minute, amounts in 1/`Minute` of a token, so `rpm` units are gained in a tick
and all is integer (in the code a tick is a millisecond). `TryAcquireMany` is the
whole call, which does not await: `Acquire` refills and consumes from all buckets;
`Refuse` creates all, refills them in the code's order up to the first that lacks
a token, and returns its hint. `windowStart` and `inWindow` are an observer that
may start to count at any time, so a statement about them is about every window;
`refusal` remembers the last refusal while nothing is taken from its buckets.

### FreshnessCache

`Call` runs `fetch` up to `await connector.execute`: a `Hit` returns, a `Miss`
captures the entry and the clock. `Return304`, `Return200`, `Fail` and `Cancel`
are the ways on. Entries are objects (`objects`), the table points to one
(`entry`): a 304 refreshes the captured object, which may not be in the table any
more. `Read` is the moment at which a live connector gets a page, before it stamps
its rows. It awaits its pages one by one, so that a result may be of several
moments: the properties of this module are then about any one of its rows, and the
pages together are `LivePaging`'s. `clear` has no caller but tests. `since` is the history of the source, so that "these rows were true
at some moment since tick n" can be stated (`CurrentSince`).

### Gateway

A request is one POST; `answer` and `job` are the two things a client sees.
`Admit`, `Deny` and `Limit` run the handler up to its first await or its answer;
planning may also raise what nobody catches, which is a 500 without an event.
The fetches of a request start together and end one by one (`Deliver`, `Raise`,
`SourceTimesOut`); `Respond`, `Abort` and `RequestTimesOut` end the handler, where
`Abort` leaves the other fetches running, as `gather` does, and `RequestTimesOut`
cancels them, as `wait_for` does. With every fetch ended, `Respond` audits and
answers, unless the merge raises. `JobStarts`, `JobPolls` and `JobEnds` are `_run`,
which turns an exception of a fetch or of the merge into the status of the job. `Tick` waits for whatever is due: the event loop is taken to be on time.
`charged` and `contended` only observe. A query with two sources of one
connector is taken to have one. `Registered` is `get_registry`, given the
environment variables that are set (`Env`). `Restart` ends the process and starts
it anew: open queries lose their connection, jobs are forgotten, fetches end, and
the buckets are full again.

### Predicates, Planner, Sources and Federation

A query is what sqlglot made of the text, or a plan document: tables with aliases,
a WHERE tree of comparisons, IN lists, AND and parentheses (anything else is
"other"), given as the sequence of its nodes, each after its own, the columns of ON, select items, order, limit and offset. What
a planner refuses for its form is there as a part that is empty or missing. `p.*` is a
column of that name in SQL, which no row has, and all of the table in a plan document
(`IsStar`); an IN over a subquery has no values, as in the code, and matches nothing. `Planner`
holds both planners and the policy as operators: `SqlError`, `DocumentError` and
`EntitlementError` give the first error in the code's order (`Refusal`),
`SourcePlan` the plan of a source with the role's filter, masks and limit.

`Refuse` and `Execute` are whole queries; `cache` maps (source, fingerprint) to
rows, and an execution may be served any of its sources from it. `FetchRows` is
`execute` of each connector: the mocks filter everything; `GitHubRows` and
`JiraRows` translate what the live ones translate, stop paging at the plan's limit,
and filter what came back. `Merge` is the executor. `Holds`, `Matched`, `View` and
`IsWindow` are a second, independent definition of what the query means, on the
tree itself and over the sources themselves, and the properties compare; `IsWindow`
counts by the first output column under the order's label. `Text` is
what a fingerprint holds of a predicate: its column, its operator and how its value
is written, without its kind. The code joins these texts with `|` and nothing around
them, so that a value with an operator or a bar in it may give yet another
predicate's key (`plan.py:75-76`); this is left out.

### LivePaging

A step is one request of the loop (`GitHubPage`, `JiraPage`), its failure or
cancellation (`Fail`), or a change of the source: a row comes first, goes, or is
updated, which moves it to the front (GitHub sorts by update; Jira's order is its
own, so it may also stay). `kind`, `most` (how much a Jira server returns at most)
and `plan` are chosen at the start. A row is told by its repo and id, as the number of
a pull request counts within its repo. The observer keeps what was
listed all the time, and which rows have moved to a lower or higher place.

### Telemetry

`ring` and `traces` are `_RING` and `_traces`; `log` and `ended` are everything
that was ever recorded or ended, as the log and an exporter have it, and the
properties compare the bounded with the unbounded. How a query goes is cut down
from `Gateway`: what matters here is when its spans end and its event is recorded,
relative to those of others, or that neither is (`Crashes`). A job's fetches run in the trace of its request and
end after its root. `LatestFor` and `Recent` are what the two endpoints return.

### Console

Run `i` is one call of `runQuery`, from `Start` to one of `Ends`; the service is
`ClientView`. `Answered` is the rest of `runQuery` after its `fetch`, `Poll` and
`Polled` are the two halves of a turn of `handleAsync`, which goes on beside later
runs. `Told` is what `GET /v1/jobs/{id}` may say, 401 and 404 included.

## 3. Runs

| Run | Instance | Shows |
|---|---|---|
| `limiter` | 2 users of a tenant, 2 connectors, a minute of 3 ticks, a burst of 4, clock up to 2 | the seven properties of the limiter |
| `cache` | 2 fetches, clock to 5, 3 versions, each kind of connector | what is served is as fresh as it says |
| `fan_out` | 2 requests, 2 sources, one restart, source deadline < request deadline | answers, audit, deadlines, liveness |
| `jobs` | 3 requests of one user, 1 source, one restart, request deadline < source deadline | jobs are charged once and lose only to others |
| `federation` | 4 tables of 3 to 5 rows, 4 roles, 12 SQL queries and 11 refused ones, 10 plan documents of which 6 are refused, 6 queries of live sources, 3 cache entries | entitled, complete, paged answers |
| `paging` | 5 rows in 2 repos or a project, pages of 2, at most 3 of them, 6 plans, 2 changes | rows repeated or missed only if they moved |
| `telemetry` | 3 queries of 2 tenants, ring and collector of 2 places, up to 7 spans | evictions, what admins see, agreement of trail, traces and counters |
| `console` | 2 runs, 2 polls | every run ends as it should |

The properties, by what they would catch:

* `BucketBounds`, `WindowBound`, `ImplementsBudget`: a refill or a check that
  gives more than the budget. `NestedAccounting`: scopes that are not charged
  alike. `RejectionConsumesNothing`: a refusal that costs. `RetryHintExact`: a
  hint off by a tick, for the bucket that it is about.
* `StampWithinLag`, `HitWithinTolerance`, `LiveDuringCall`, `ReportedAgeBounds`:
  rows older than the stamp, the client's tolerance, the call, or the reported
  `freshness_ms` and the error window allow. `CacheNeverGoesBack`: a late result.
* `AuditAgrees`: a path of the handler that audits twice, not at all, or as
  something else (the paths that the code leaves out are in `Trail`).
  `RowsFromEndedSources`: rows merged too early, or an unmarked partial answer.
  `SourceDeadlineTripsFirst`, `OrphansOnlyAfterException`: deadlines and
  cancellation; `fan_out` has the exceptions, `jobs` the request's timeout. `ChargedOnce`, `GivesUpOnlyIfContended`: jobs and tokens.
  `FetchesEnd`, `ImplementsClientView`: everything ends, or is lost in a restart.
* `OnlyEntitledMatches`: rows of another role's cache entry, a mask that is
  missing, a match that is repeated. `AnswersQuery`: a predicate lost between
  source and executor, a join that depends on its build side, a wrong window.
  `PagesPartition`: pages that overlap or skip. Its pages are cut from the window of
  the answer, which the planners clamp to `MaxRows`; a query that reads one cache
  entry twice, as a self-join may, is left out, since its two halves can have been
  served from two fetches, of which the cache keeps the later.
* `ReadOnceUnlessMoved`: paging by what was asked for instead of what came, a page
  read twice.
  `StillSourceIsFetchRows`: loops that stop too early or too late.
* `DropsTheMostSilent`: eviction in the wrong order, or of a trace in use.
  `LatestIsTheTenantsLast`, `RecentAreTheTenantsLast`: an admin who is shown
  nothing, too little or an older thing, for any other reason than those the code
  has. `TrailInTraceOrder`, `CountersAgreeWithTrail`: paths that record too early,
  twice, or as something else.
* `TimedOutOnlyIfUnanswered`: a job's end that is overlooked.
  `OldResultsOnlyIfOverlapped`: results left over from an earlier run.
  `RunsEnd`: a loop that an answer keeps going.

Bounds. `limiter`: within 2 ticks a user's bucket of github (burst 4/3 of a token)
empties and gains its token back, the tenant's runs out by the two users together,
a rate of 2 leaves deficits that it does not divide, and a call on both connectors
meets every combination of short buckets; longer histories are the proofs'. `cache`: two overlapping fetches
are enough for every pair of await and return; the clock lets an entry live
through tolerance (0 or 1), window (2) and a fetch's duration (2), and three
versions let an older and a newer one race past a held one. `fan_out` and `jobs`:
every deadline and interval is one or two ticks and all their ends coincide in
some behaviour, which is where order matters; three requests are a job, its rival
and a second job; one restart falls between any two steps. `federation`: every
clause and refusal of the planners, both sides of the join larger in some query,
null and duplicate join keys, ties and nulls in the order, negative limits, windows
that end before, at and after the rows; three cache entries let one query's rows
meet another's, and each query its own. `paging`: a repo of two pages and one of
one, listings shorter and longer than the page limit allows, and two changes, so
that a row can go and come back, or two rows trade places, between any two
requests. `telemetry`: two places are the least in which order of eviction
matters; three queries of two tenants compete for them, one with two fetches.
`console`: two runs overlap or follow each other; the second of two polls is the
last.

Symmetry is used in the safety runs only: users of one tenant, fetches, and
requests of one user are interchangeable. The view of `cache` drops entries that
nothing refers to any more. Deadlock is checked in every run but `telemetry` and
`console`, where all queries and runs come to an end; requests of `Gateway`
that all ended still let time pass. In `cache` and `limiter` some client can
always call, and in `paging` a call that is over stays so.

Fairness. `Gateway`: time goes on (`WF(Tick)`) and the event loop runs what is
due for each request (`WF(Run(r))`): timers fire, ready tasks run. No fairness is
given to clients, to sources nor to restarts: a source may never answer, which is
what the deadlines are for. `Console`: the page's timers fire and its requests are
answered or fail, which the browser sees to, and the service answers queries,
which is what `Gateway` shows; jobs need not end, and the service may crash. The
other modules claim safety only.

## 4. Where the code and its words differ

Each is a run whose one property states the words and which TLC refutes;
`findings` in `PROJECT.json` quotes them.

| Run | Words | Code |
|---|---|---|
| `call_audit` | "Every call is audited" | not those that hit the request deadline or crash in a source, in the merge or, before either, in planning |
| `unregistered` | "a clear CONNECTOR_AUTH_FAILURE" | `KeyError`, 500, after charging |
| `enough_rows` | "Sources must fetch enough rows" | the limit cuts the sources before filter and join |
| `cached_rows` | "always the rows the source would return" | rows cut at another query's limit |

Met while modelling, without a run of their own: the 429's "Retry in ~N ms"
(`main.py:404`) is about the first empty bucket, a later one may need longer
(`ratelimit.py:94`); stale rows are served "within the configured window"
(`freshness.py:72`) counted from before the failed fetch, so they may be older by
its duration; a job fails with "budget did not free within window" (`jobs.py:63`)
although it may have, between two polls; `GET /v1/trace/latest` answers 404 "No
recent trace for the caller's tenant" (`main.py:268`) while the tenant's trace is
kept but a later query of another tenant, or one without a token, hides it (the
second case of `LatestIsTheTenantsLast`); the console stops after 30 s where a job
waits up to 60 s, takes 401 and 404 for "not yet", and a poll that fails ends
without a word (`app.js:183`); `gh_live` only sees open pull
requests unless `state =` is given (`github_live.py:121`), where the README's table
says post-filter; `_build_jql` orders by update only when it has no clause
(`jira_live.py:78`), so pages of any other JQL come in Jira's own order; ORDER BY a
column that is not selected is ignored
(`executor.py:103`); a repeated alias replaces a source (`planner.py:109`), and the
two planners differ in what becomes of its predicates; a join on an unknown alias
is a `KeyError` after charging (`executor.py:145`); null join keys match each other;
the fingerprint drops the kind of a value (`plan.py:75`), so that within the tolerance
`created_at > '2024'` is served the rows of `created_at > 2024`, which are none; a negative limit of a plan
document counts from the end; so does `limit` of `/v1/audit`, where 0 is all
(`audit.py:35`); an entry stamped in the same millisecond is a hit
for `max_staleness_ms: 0`, "forces a live fetch" (`main.py:57`); rows of a live
connector are stamped at the end of the fetch, not "when data was produced"
(`base.py:41`); single-flight (`design_doc.md:420`) is not implemented; what a job
reads is not audited.

## 5. Proofs

TLAPS checks the theorems for all values of the constants that the modules'
assumptions allow: any sets of requests, tasks, connectors, tenants and users, any
deadlines, sizes of rings and pages, sources and numbers of changes, and clocks
without a bound. The runs show the same properties on small instances, TLC
evaluates the assumptions there, and the inductive invariants were run before they
were proved.

| Theorem | Shows | Under |
|---|---|---|
| **`TokenBucketsProofs`** | | |
| `TypeCorrect`, `BoundsCorrect` | `TypeOK`, `BucketBounds` | |
| `WindowBoundCorrect` | `WindowBound` | |
| `RetryHintCorrect`, `RejectionIsFree` | `RetryHintExact`, `RejectionConsumesNothing` | |
| `ScopesAccountAlike` | `NestedAccounting` | tenants and users finitely many, and some |
| `BucketsImplementBudget` | `ImplementsBudget`, a refinement | |
| **`FreshnessCacheProofs`** | | |
| `CacheTypes`, `StampsAreTrue` | `TypeOK`, `StampWithinLag` | |
| `HitsAreTolerable`, `LiveAnswersAreLive` | `HitWithinTolerance`, `LiveDuringCall` | |
| `ReportedAgesBound`, `NeverGoesBack` | `ReportedAgeBounds`, `CacheNeverGoesBack` | |
| **`GatewayProofs`** | | |
| `GatewayTypes`, `TrailAgrees`, `PaysOnce` | `TypeOK`, `AuditAgrees`, `ChargedOnce` | |
| `MergedFromEnded`, `OrphansNeedException` | `RowsFromEndedSources`, `OrphansOnlyAfterException` | |
| `SourcesTimeOutFirst` | `SourceDeadlineTripsFirst` | `SourceTimeout < RequestTimeout` |
| `GivesUpIfContended` | `GivesUpOnlyIfContended` | `Minute <= MaxWait` |
| `StepsAsPromised` | each step is one of `ClientView`, or none | |
| **`TelemetryProofs`** | | |
| `TelemetryTypes`, `CountersAgree` | `TypeOK`, `CountersAgreeWithTrail` | |
| `DropsTheLongestSilent`, `LatestIsTheLast` | `DropsTheMostSilent`, `LatestIsTheTenantsLast` | |
| `RecentAreTheLast`, `TrailIsInOrder` | `RecentAreTheTenantsLast`, `TrailInTraceOrder` | |
| **`LivePagingProofs`** | | |
| `PagingTypes`, `StillSourceIsRead` | `TypeOK`, `StillSourceIsFetchRows` | |
| `ReadsOnceUnlessMoved` | `ReadOnceUnlessMoved` | no repo is configured twice |
| **`FederationProofs`** | | |
| `TypesAreKept`, `PagesArePartition` | `TypeOK`, `PagesPartition` | |
| `OnlyEntitledIsAnswered` | `OnlyEntitledMatches` | `NoRepoTwice`, `TextsTell` |
| `AnswersAreComplete` | `AnswersQuery` | `TextsTell` |
| **`ConsoleProofs`** | | |
| `PageTypes`, `ToldEndsAreShown` | `TypeOK`, `TimedOutOnlyIfUnanswered` | |
| `OldResultsOverlapped` | `OldResultsOnlyIfOverlapped` | |

The hypotheses are the code's own. The deadlines of the sources are below the
request's unless they are configured otherwise, and `jobs` is an instance where they
are not. A job waits for a minute (`_MAX_WAIT_S`, `jobs.py:20`): within less a bucket
need not gain a token, and a job would give up although nobody else drew on it.
`GITHUB_REPOS` is split without dropping repetitions (`github_live.py:85-90`), and a
repo that is named twice is read twice: once more by paging, and its matches are
answered twice (`NoRepoTwice`). The key of the cache does not tell 1 from '1'; if
queries compare a column with both, one is served the other's rows (section 4), be
they its matches or not, so `TextsTell` supposes that no two values for one table are
written alike and differ. TLC evaluates both suppositions on the queries of each run of
`MCFederation` (`AsSupposed`). `PlannerAssumption` and `FederationAssumption` say what a query, a policy
and a table are: the nodes of a tree come in order (`IsTree`); SQL has one WHERE, a
plan document one list of predicates for each table, and what it selects is listed
with its tables (`IsQuery`); a row filter is about its own table (`IsRowFilter`); a value is
a kind and what it is (`IsValue`), and those of a column are of one kind or None (`OneKind`),
without which Python's sort would raise a `TypeError`. Other assumptions on constants are named in
the modules: rates are positive, `BurstUnits >= Minute` since the multiplier is 1.5,
sizes of pages and rings are not 0, listed rows are distinct.

The arguments, by module:

* `TokenBucketsProofs`. All turns on `Level(k)`, what bucket `k` would hold if it were
  refilled now. `OneMoreRefill`: refilling later, or in two steps, gives the same as
  refilling at every tick; from it each action's effect on the levels follows
  (`AcquireLevels`, `RefuseLevels`, `TickLevels`, `ResetLevels`), which are also the
  steps of `Budget`. `WindowBound` is not inductive, as after a grant it could only be
  kept if what is left in the bucket were known; `WindowInv` adds the level to what
  was given, and a grant moves a token from one to the other. `RetryHintExact` needs
  `HintInv`, what the named bucket held at the refusal. `NestedAccounting` is a sum
  over sets that changes by one in one term (`SumOneMore`).
* `FreshnessCacheProofs`. A call that awaits its connector holds an entry and a clock
  of before the await. `CallsOnTime` says that it has not waited beyond its deadline,
  and that what it has read was true since the call began; with `StampWithinLag` for
  all entries, those included that only a call still holds, every way to return keeps
  the bound. The ages are arithmetic on it.
* `GatewayProofs`. `Phases` ties a request's answer, its job and its fetches: none of
  the three is written by one action alone, so no property of them is inductive by
  itself. `Fetches` says which ends of a fetch an open query can see (none is
  cancelled while the query is waited for), and `WaitInv` that buckets nobody drew
  on have gained at least a unit for each tick of a job's wait, so they hold a token
  after a minute. `StepsAsPromised` goes action by action through the same invariant.
* `TelemetryProofs`. `DropsTheMostSilent` counts, while `on_end` moves one trace at a
  time: `Collected` says in terms of everything that ever ended what the collector
  is, in its order; the trace at place `i` has as many others after it as were heard of
  since its last span. A step shifts the places before the moved trace and no others.
  `RingIsLast` does the same for the ring. `InTraceOrder` adds each event and its root
  in one step.
* `LivePagingProofs`. For `ReadOnceUnlessMoved`, `Progress` adds what is still ahead:
  while the loop is paging, an id that was read and did not go back is behind the next
  page, and one that was always listed, did not come forward and was not read is ahead
  of it. For `StillSourceIsFetchRows`, `SoFar`: while paging, the rows are those of the
  repos before and whole pages of this one, neither all of it nor as many as are
  wanted. `LastPage` is the arithmetic of the last one.
* `FederationProofs`. The rows of an answer are followed back through what made them,
  each a part of the one before with none of it taken twice (`IsPart`): the slice
  (`SliceIsPart`), the order (`ListedIs`: places count who precedes, so they are a
  permutation), the join (`RecordsAre`: each pair of rows once, whichever side is
  built), the post-filter and the source (`PostedScoped`, `FetchIsScoped`). Different
  places of an answer thus come from different matches, which bounds how often a row is
  repeated (`NoMoreThanMatches`). The invariant is `CacheScoped`: what the cache keeps
  under a key are rows of that table, none twice, that match all predicates the key
  stands for, the role's filter among them. That rows which passed source and
  post-filter satisfy the WHERE tree is `WhereHolds`: a tree holds if the conditions it
  is flattened to do (`TreeHolds`), and each of them was given to the source or to the
  post-filter of its alias (`PlanAsks`). `PagesPartition` needs only that the order
  is total on a column (`PrecedesIs`, with `OneKind`), so pages of it can be cut
  anywhere (`SliceParts`).
  `AnswersQuery` is the other direction, that no match is lost, and needs an invariant
  of its own: `CacheWhole`, that what is kept under the key of a plan for a mock source
  is the very fetch of that plan. Two plans of one key ask the same of a row
  (`OneKeyAsks`), so whoever finds the entry finds his own fetch (`OneKeyOneFetch`).
  From there each step is shown to drop nothing. The rows of a match satisfy the
  conditions of WHERE and row filter one by one (`TreeTells`, `WhereTells`,
  `FilterTells`), so source and post-filter keep them (`PlanAsksNoMore`,
  `PostedIsAsked`); the join makes a record of each match (`MatchIsRecord`); and the
  list before the slice is a bijection with the matches (`ListedAreMatches`). What
  remains is to count: in a sorted list the rows that tie with one lie between those
  before and those after them (`KeysInOrder`), of which the slice takes as many as
  `IsWindow` says (`TiesInSlice`, `SliceIsWindow`).
* `ConsoleProofs`. `EndIsShown`: a run that was told its job's end is about to show it,
  or has. `OthersOverlapped` speaks of the runs that are still going on besides those
  whose result is on the page, since they are the ones that may yet show something.

Filtered sequences are `Selected` in the modules that are proved about: the
library's `SelectSeq` is recursive and its values can not be reasoned about, while
`Selected(seq, S)` has its `k`-th element at the place in `S` with `k - 1` others
before it. Inductions over sequences, sets and repos look at a least counterexample
(`LeastSet`, `MinIsFirst`), as the theorems on induction take an operator.

Only model-checked:

* Liveness, which the prover does not reach: `FetchesEnd`, `RunsEnd`, and the fairness
  half of `ImplementsClientView`, whose steps are `StepsAsPromised`.
* The findings of section 4, each a counterexample.

## 6. What is not modelled

* The text of SQL and its parse, the text of JQL and URLs, HTTP, pydantic, JWT.
* Floats: the limiter's are exact here, so rounding of tokens is out of view.
* Wall clocks that step back; several worker processes, each with its own buckets,
  cache and jobs (`uvicorn --workers`), which multiplies every budget.
* Tenants in `Federation`: the key holds the tenant, and nothing else is shared.
* Of the metrics: label values, observed durations, per-connector latency, and
  `RATE_LIMIT_EXHAUSTED`, which grows with the duration of each limited query. Of the
  collector: exporters. Of an audit event: its fields but trace, type and tenant.
* Of the console: minting, the health lamp, the examples, how rows are shown, and the
  remark that a result is partial, which is shown with its rows.
* The mapping of GitHub's and Jira's JSON to columns.
* `/v1/connectors`, `/health` and `/metrics`, which render what nothing changes or
  what other endpoints show; load generators, `snapshot.py` and deployment, which
  keep no state of the service.
* A rate of zero, which divides by zero in the code.

## 7. Plan

1. Done: `Budget`, `TokenBuckets`, `FreshnessCache`, `ClientView`, `Gateway` with
   restarts, `Predicates`, `Planner`, `Sources`, `Federation`, `LivePaging`,
   `Telemetry`, `Console`; the proofs of section 5.
2. A clock that steps back, as a variant of `FreshnessCache`; workers with buckets and
   caches of their own.
