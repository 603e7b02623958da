--------------------------- MODULE FreshnessCache ---------------------------
(***************************************************************************)
(* src/freshness.py: FreshnessCache.fetch for one cache key (tenant,       *)
(* connector, fingerprint), called by concurrent queries, over the         *)
(* connector's execute.  Keys share no state, so one is enough.            *)
(*                                                                         *)
(* fetch runs on one event loop: it is atomic up to its only await, the    *)
(* connector's execute, and atomic again from there to its return.  What   *)
(* the model keeps of that is                                              *)
(*   - the entry object captured before the await and used after it: the   *)
(*     table may point to another object by then, and the captured one may *)
(*     have been refreshed by another query's 304;                         *)
(*   - the clock read before the await and used after it;                  *)
(*   - when the rows were produced and when they were stamped: the mock    *)
(*     connectors do both at once at the end of execute, the live ones     *)
(*     read pages over the network and stamp after the last.               *)
(*                                                                         *)
(* Rows are the version of the source they were read from.  A live         *)
(* connector awaits its pages one by one, so this is the version of any    *)
(* one page: for it the properties are about each row of a result, not     *)
(* about the result as a whole, whose pages may differ (LivePaging).       *)
(* Ticks stand for the milliseconds of time.time(), which is taken not to  *)
(* go back.                                                                *)
(***************************************************************************)
EXTENDS Integers, Sequences

CONSTANTS
  Task,          \* the fetches that may run at the same time
  MaxStaleness,  \* the values of max_staleness_ms clients send
  DefaultTtl, MinFreshness, StaleIfError,  \* FreshnessPolicy
  SourceTimeout, \* SOURCE_TIMEOUT_MS
  MaxClock, MaxVersion,  \* bounds on the clock and on the source's changes
  NoEntry, Unset, Idle, NoAnswer

ASSUME PolicyAssumption ==
  /\ MaxStaleness \subseteq Nat
  /\ {DefaultTtl, MinFreshness, StaleIfError} \subseteq Nat
  /\ SourceTimeout \in Nat \ {0}

ASSUME MarkerAssumption == NoEntry \notin Nat /\ Unset \notin Nat

VARIABLES
  connector, \* the key's: "etag" (the github mock), "plain" (the other mocks)
             \* or "live" (gh_live, jira_live); it never changes
  now,
  since,   \* the source: since[v] is the tick at which its version v appeared
  objects, \* every CacheEntry ever made: [rows, fetchedAt]
  entry,   \* _entries[key]: an index of objects, or NoEntry
  fetch,   \* the suspended call of each task, or Idle
  answer   \* what the last step returned to its caller, if it returned

vars == <<connector, now, since, objects, entry, fetch, answer>>

version == Len(since)

AtLeast(a, b) == IF a < b THEN b ELSE a

\* The client's tolerance, or the source's default, floored by its minimum.
Tolerance(asked) ==
  AtLeast(MinFreshness, IF asked = Unset THEN DefaultTtl ELSE asked)

\* Suspended in connector.execute: calledAt is the local variable now, held the
\* local variable entry, read the version the source has produced so far.
Waiting == [calledAt |-> now, held |-> entry, read |-> Unset]

\* A FetchOutcome (live, hit, stale), an exception (failed) or a cancellation.
Outcome(kind, asked, calledAt, rows, freshness) ==
  [kind |-> kind, asked |-> asked, calledAt |-> calledAt,
   rows |-> rows, freshness |-> freshness]

IsWaiting(t) == fetch[t] # Idle

\* The call of task t ends: with rows of the age freshness, or with none.
Return(t, kind, rows, freshness) ==
  /\ fetch' = [fetch EXCEPT ![t] = Idle]
  /\ answer' = Outcome(kind, Unset, fetch[t].calledAt, rows, freshness)

-----------------------------------------------------------------------------

Init ==
  /\ connector \in {"etag", "plain", "live"}
  /\ now = 0
  /\ since = <<0>>
  /\ objects = <<>>
  /\ entry = NoEntry
  /\ fetch = [t \in Task |-> Idle]
  /\ answer = NoAnswer

\* Slip: the stale-if-error window in the place of the client's tolerance.
HitInErrorWindow(asked) ==
  LET age == now - objects[entry].fetchedAt
  IN  /\ entry # NoEntry
      /\ age <= StaleIfError
      /\ answer' = Outcome("hit", asked, now, objects[entry].rows, age)
      /\ UNCHANGED fetch

\* The entry is young enough: it is served without a source call.
Hit(asked) ==
  LET age == now - objects[entry].fetchedAt
  IN  /\ entry # NoEntry
      /\ age <= Tolerance(asked)
      /\ answer' = Outcome("hit", asked, now, objects[entry].rows, age)
      /\ UNCHANGED fetch

\* Otherwise the source is called and the call awaits it.
Miss(t, asked) ==
  /\ entry # NoEntry => now - objects[entry].fetchedAt > Tolerance(asked)
  /\ fetch' = [fetch EXCEPT ![t] = Waiting]
  /\ answer' = NoAnswer

Call(t) ==
  /\ ~IsWaiting(t)
  /\ \E asked \in MaxStaleness \cup {Unset} : Hit(asked) \/ Miss(t, asked)
  /\ UNCHANGED <<connector, now, since, objects, entry>>

\* A live connector gets the page in question; it still has to get those after it
\* and to return.
Read(t) ==
  /\ connector = "live"
  /\ IsWaiting(t) /\ fetch[t].read = Unset
  /\ fetch' = [fetch EXCEPT ![t].read = version]
  /\ answer' = NoAnswer
  /\ UNCHANGED <<connector, now, since, objects, entry>>

\* The version that execute returns: read earlier, or now.
Produced(t) == IF connector = "live" THEN fetch[t].read ELSE version

\* Slip: any answer to a conditional request is taken for a 304.
NotModifiedUnchecked(t) == connector = "etag" /\ fetch[t].held # NoEntry

\* The If-None-Match that was sent is the ETag of what the source produces.
NotModified(t) ==
  /\ connector = "etag"
  /\ fetch[t].held # NoEntry
  /\ objects[fetch[t].held].rows = Produced(t)

\* 304: the captured entry is refreshed, wherever the table points by now.
Return304(t) ==
  /\ IsWaiting(t) /\ NotModified(t)
  /\ objects' = [objects EXCEPT ![fetch[t].held].fetchedAt = now]
  /\ Return(t, "live", objects[fetch[t].held].rows, 0)
  /\ UNCHANGED <<connector, now, since, entry>>

\* Slip: the entry is stamped with its expiry.
Return200Expiry(t) ==
  /\ IsWaiting(t) /\ Produced(t) # Unset /\ ~NotModified(t)
  /\ objects' = Append(objects, [rows |-> Produced(t), fetchedAt |-> now + DefaultTtl])
  /\ entry' = Len(objects')
  /\ Return(t, "live", Produced(t), 0)
  /\ UNCHANGED <<connector, now, since>>

\* Slip: the entry is stamped with the clock read before the await.
Return200CallTime(t) ==
  /\ IsWaiting(t) /\ Produced(t) # Unset /\ ~NotModified(t)
  /\ objects' = Append(objects, [rows |-> Produced(t), fetchedAt |-> fetch[t].calledAt])
  /\ entry' = Len(objects')
  /\ Return(t, "live", Produced(t), 0)
  /\ UNCHANGED <<connector, now, since>>

\* 200: the rows are stored under the key, whatever is there by now.
Return200(t) ==
  /\ IsWaiting(t) /\ Produced(t) # Unset /\ ~NotModified(t)
  /\ objects' = Append(objects, [rows |-> Produced(t), fetchedAt |-> now])
  /\ entry' = Len(objects')
  /\ Return(t, "live", Produced(t), 0)
  /\ UNCHANGED <<connector, now, since>>

\* Slip: any entry is served after an error.
FailWithoutWindow(t) ==
  LET held == fetch[t].held
  IN  /\ IsWaiting(t)
      /\ IF held # NoEntry
         THEN Return(t, "stale", objects[held].rows,
                     fetch[t].calledAt - objects[held].fetchedAt)
         ELSE Return(t, "failed", Unset, Unset)
      /\ UNCHANGED <<connector, now, since, objects, entry>>

\* execute raises: the captured entry is served if it is inside the window, its
\* age counted with the clock read before the await; otherwise re-raise.
Fail(t) ==
  LET held == fetch[t].held
      age == fetch[t].calledAt - objects[held].fetchedAt
  IN  /\ IsWaiting(t)
      /\ IF held # NoEntry /\ age <= StaleIfError
         THEN Return(t, "stale", objects[held].rows, age)
         ELSE Return(t, "failed", Unset, Unset)
      /\ UNCHANGED <<connector, now, since, objects, entry>>

\* The source's or the request's deadline, or the client's disconnection: the
\* cancellation passes through fetch, which does not catch it.
Cancel(t) ==
  /\ IsWaiting(t)
  /\ Return(t, "cancelled", Unset, Unset)
  /\ UNCHANGED <<connector, now, since, objects, entry>>

\* clear(), which no endpoint calls: the table is emptied, whatever is waiting.
Clear ==
  /\ entry' = NoEntry /\ answer' = NoAnswer
  /\ UNCHANGED <<connector, now, since, objects, fetch>>

\* Somebody edits the source.
Change ==
  /\ version < MaxVersion
  /\ since' = Append(since, now) /\ answer' = NoAnswer
  /\ UNCHANGED <<connector, now, objects, entry, fetch>>

\* Time passes, but not beyond a deadline: wait_for cancels at SourceTimeout.
Tick ==
  /\ now < MaxClock
  /\ \A t \in Task : IsWaiting(t) => now - fetch[t].calledAt < SourceTimeout
  /\ now' = now + 1 /\ answer' = NoAnswer
  /\ UNCHANGED <<connector, since, objects, entry, fetch>>

Next ==
  \/ \E t \in Task : \/ Call(t) \/ Read(t) \/ Return304(t) \/ Return200(t)
                     \/ Fail(t) \/ Cancel(t)
  \/ Clear \/ Change \/ Tick

Spec == Init /\ [][Next]_vars

-----------------------------------------------------------------------------

Entry == [rows : 1..version, fetchedAt : 0..now]
Ref == DOMAIN objects \cup {NoEntry}

WaitingCall ==
  [calledAt : 0..now, held : Ref, read : 1..version \cup {Unset}]

Answer ==
  [kind : {"live", "hit", "stale", "failed", "cancelled"},
   asked : MaxStaleness \cup {Unset}, calledAt : 0..now,
   rows : 1..version \cup {Unset}, freshness : Int \cup {Unset}]

TypeOK ==
  /\ connector \in {"etag", "plain", "live"}
  /\ now \in Nat
  /\ since \in Seq(0..now) /\ version >= 1
  /\ objects \in Seq(Entry)
  /\ entry \in Ref
  /\ fetch \in [Task -> {Idle} \cup WaitingCall]
  /\ answer \in {NoAnswer} \cup Answer

\* Version v was what the source held at some moment of tick n or later.
CurrentSince(v, n) == v = version \/ since[v + 1] >= n

\* A live connector's rows may be as old as its fetch when they are stamped.
Lag == IF connector = "live" THEN SourceTimeout ELSE 0

\* The call that returns now answers in this way.
Answered(kinds) == answer # NoAnswer /\ answer.kind \in kinds

\* Whatever fetches, refreshes, failures and clears overlap, the rows of a
\* cached entry were the source's at the moment of its stamp, give or take the
\* duration of a fetch (freshness.py:80-87).
StampWithinLag ==
  \A i \in DOMAIN objects :
    CurrentSince(objects[i].rows, objects[i].fetchedAt - Lag)

\* The staleness a client accepted is the staleness it gets: a cache hit serves
\* rows that were the source's within its tolerance (freshness.py:50-62).
HitWithinTolerance ==
  Answered({"hit"}) => CurrentSince(answer.rows, now - Tolerance(answer.asked) - Lag)

\* A live answer, with or without a 304, was true at some moment of the call:
\* no entry of another query and no earlier one of its own can slip in.
LiveDuringCall ==
  Answered({"live"}) => CurrentSince(answer.rows, answer.calledAt)

\* The freshness_ms of any answer bounds the age of its rows.  What a failed fetch
\* serves is older than it says, and than stale_if_error_ms, by at most the duration
\* of that fetch (freshness.py:69-78).
ReportedAgeBounds ==
  /\ Answered({"live", "hit", "stale"}) =>
       LET wait == IF answer.kind = "stale" THEN SourceTimeout ELSE 0
       IN  CurrentSince(answer.rows, now - answer.freshness - wait - Lag)
  /\ Answered({"stale"}) =>
       CurrentSince(answer.rows, now - StaleIfError - SourceTimeout - Lag)

\* The table never goes back: the entry that replaces another is of the same or
\* a later version and has a later stamp (mock connectors only).
CacheNeverGoesBack ==
  [][connector # "live" /\ entry # NoEntry /\ entry' # NoEntry =>
       /\ objects'[entry'].rows >= objects[entry].rows
       /\ objects'[entry'].fetchedAt >= objects[entry].fetchedAt]_vars
=============================================================================
