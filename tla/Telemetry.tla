------------------------------ MODULE Telemetry ------------------------------
(***************************************************************************)
(* What the gateway leaves behind of a query: the ring of audit events     *)
(* (audit.py), the finished spans grouped by trace (observability.py), the *)
(* counters, and what GET /v1/audit and GET /v1/trace/latest make of them. *)
(*                                                                         *)
(* How a query goes is Gateway's; here it has fetches that end in any      *)
(* order, and is a trace: its spans are "query", the root, which ends with *)
(* the handler, "plan_and_entitle", and one "connector.execute" a fetch.   *)
(* The fetches of its job, and those left behind by an exception, end      *)
(* after the root, in the same trace.                                      *)
(***************************************************************************)
EXTENDS Selection, SequencesExt, FiniteSetsExt

CONSTANTS
  Request,
  TenantOf,    \* TenantOf[r]: the tenant of its token
  NoTenant,    \* the tenant of an event, or a trace, without an identity
  RingSize,    \* maxlen of _RING
  MaxTraces,   \* max_traces of the collector
  Fetches,     \* Fetches[r]: the number of its sources
  MaxSpans,    \* bound: how many spans end
  MaxReads     \* bound: how often a read is refused

ASSUME TelemetryAssumption ==
  /\ {RingSize, MaxTraces} \subseteq Nat \ {0} /\ {MaxSpans, MaxReads} \subseteq Nat
  /\ Fetches \in [Request -> Nat \ {0}]
  /\ NoTenant \notin {TenantOf[r] : r \in Request} \cup Request

VARIABLES
  phase,    \* new, fetching, raised, queued (202), closed or crashed (500)
  running,  \* running[r]: the fetches of r, or of its job, that have not ended
  ring,     \* _RING
  traces,   \* _traces: the traces with their spans, the last moved at the end
  errors,   \* QUERY_ERRORS
  durations, \* the count of QUERY_DURATION, by status; partial answers are "ok"
  log,      \* the audit log: every event ever recorded
  ended     \* the span exporter's output: every span that ever ended

vars == <<phase, running, ring, traces, errors, durations, log, ended>>

Tenant == {TenantOf[r] : r \in Request}
Status == {"ok", "rate_limited", "request_timeout"}

-----------------------------------------------------------------------------
(* The collector.                                                          *)

Span(r, name, tenant) == [trace |-> r, name |-> name, tenant |-> tenant]

\* Slip: a trace that is known stays in its place.
OnEndInPlace(ts, span) ==
  LET i == SelectInSeq(ts, LAMBDA t : t.trace = span.trace)
      all == IF i = 0 THEN Append(ts, [trace |-> span.trace, spans |-> <<span>>])
             ELSE [ts EXCEPT ![i].spans = Append(@, span)]
  IN  IF Len(all) > MaxTraces THEN Tail(all) ELSE all

\* A span joins its trace, which moves to the end.
Joined(ts, span) ==
  LET i == SelectInSeq(ts, LAMBDA t : t.trace = span.trace)
  IN  IF i = 0 THEN Append(ts, [trace |-> span.trace, spans |-> <<span>>])
      ELSE Append(RemoveAt(ts, i), [trace |-> span.trace, spans |-> Append(ts[i].spans, span)])

\* Slip: room is made before the span has joined.
OnEndEvictsFirst(ts, span) == Joined(IF Len(ts) > MaxTraces THEN Tail(ts) ELSE ts, span)

\* on_end: the first trace goes if there are too many.
OnEnd(ts, span) ==
  LET all == Joined(ts, span)
  IN  IF Len(all) > MaxTraces THEN Tail(all) ELSE all

\* A span ends; two do, one after the other.
End(span) ==
  /\ traces' = OnEnd(traces, span)
  /\ ended' = Append(ended, span)
  /\ Len(ended') <= MaxSpans

EndBoth(first, second) ==
  /\ traces' = OnEnd(OnEnd(traces, first), second)
  /\ ended' = Append(Append(ended, first), second)
  /\ Len(ended') <= MaxSpans

IsRoot(span) == span.name = "query"
HasRoot(t) == \E i \in DOMAIN t.spans : IsRoot(t.spans[i])

\* Slip: the last trace is taken if it has a root.
LatestOfAll ==
  IF traces # << >> /\ HasRoot(Last(traces)) THEN <<Last(traces)>> ELSE << >>

\* latest_query_trace: none, or the last trace with a root.
Latest ==
  LET i == SelectLastInSeq(traces, HasRoot)
  IN  IF i = 0 THEN << >> ELSE <<traces[i]>>

RootOf(t) == t.spans[SelectInSeq(t.spans, IsRoot)]

\* GET /v1/trace/latest for an admin of the tenant; none: 404.
LatestFor(tenant) ==
  IF Latest # << >> /\ RootOf(Latest[1]).tenant = tenant THEN Latest ELSE << >>

-----------------------------------------------------------------------------
(* The audit trail.                                                        *)

Event(r, type, tenant) == [trace |-> r, type |-> type, tenant |-> tenant]

LastOf(n, seq) == SubSeq(seq, Max({1, Len(seq) - n + 1}), Len(seq))

\* record: a deque drops its first event when it is full.
Record(event) ==
  /\ ring' = LastOf(RingSize, Append(ring, event))
  /\ log' = Append(log, event)

\* Slip: the ring is cut before the tenant's events are picked.
RecentCutFirst(limit, tenant) ==
  LET last == IF limit > 0 THEN LastOf(limit, ring) ELSE SubSeq(ring, 1 - limit, Len(ring))
  IN  Selected(last, {i \in DOMAIN last : last[i].tenant = tenant})

\* GET /v1/audit for an admin of the tenant: events[-limit:], where 0 is all and a
\* negative limit drops the first ones.
Recent(limit, tenant) ==
  LET mine == Selected(ring, {i \in DOMAIN ring : ring[i].tenant = tenant})
  IN  IF limit > 0 THEN LastOf(limit, mine) ELSE SubSeq(mine, 1 - limit, Len(mine))

-----------------------------------------------------------------------------
(* The handlers.                                                           *)

Init ==
  /\ phase = [r \in Request |-> "new"]
  /\ running = [r \in Request |-> 0]
  /\ ring = << >> /\ log = << >>
  /\ traces = << >> /\ ended = << >>
  /\ errors = 0
  /\ durations = [s \in Status |-> 0]

Goes(r, from, to) == phase[r] = from /\ phase' = [phase EXCEPT ![r] = to]
Root(r) == Span(r, "query", TenantOf[r])
Planned(r) == Span(r, "plan_and_entitle", NoTenant)

\* query_error_handler; the root has ended with the exception.
Denied(r, tenant) ==
  /\ Record(Event(r, "query.denied", tenant))
  /\ errors' = errors + 1
  /\ UNCHANGED durations

Observed(status) ==
  /\ durations' = [durations EXCEPT ![status] = @ + 1]
  /\ UNCHANGED errors

\* verify_token refuses, before the request has an identity.
Unauthenticated(r) ==
  /\ Goes(r, "new", "closed")
  /\ End(Span(r, "query", NoTenant))
  /\ Denied(r, NoTenant)
  /\ UNCHANGED running

\* Nothing is recorded of an exception that no handler expects.
Crashes(r, from) == Goes(r, from, "crashed") /\ UNCHANGED <<ring, errors, durations, log>>

\* Planning or the entitlements raise, a QueryError or anything else.
Deny(r) ==
  /\ \/ Goes(r, "new", "closed") /\ Denied(r, TenantOf[r])
     \/ Crashes(r, "new")
  /\ EndBoth(Planned(r), Root(r))
  /\ UNCHANGED running

\* 429, or 202 and a job.
Limit(r) ==
  /\ Goes(r, "new", "closed") \/ Goes(r, "new", "queued")
  /\ EndBoth(Planned(r), Root(r))
  /\ Record(Event(r, "query.rate_limited", TenantOf[r]))
  /\ Observed("rate_limited")
  /\ UNCHANGED running

Starts(r) == running' = [running EXCEPT ![r] = Fetches[r]]

\* Slip: the query is audited before it is executed.
AdmitAudited(r) ==
  /\ Goes(r, "new", "fetching")
  /\ Starts(r)
  /\ End(Planned(r))
  /\ Record(Event(r, "query.execute", TenantOf[r]))
  /\ UNCHANGED <<errors, durations>>

Admit(r) ==
  /\ Goes(r, "new", "fetching")
  /\ Starts(r)
  /\ End(Planned(r))
  /\ UNCHANGED <<ring, errors, durations, log>>

\* The job has its budget; nothing but the spans of its fetches tells of it.
JobExecutes(r) ==
  /\ Goes(r, "queued", "closed")
  /\ Starts(r)
  /\ UNCHANGED <<ring, traces, errors, durations, log, ended>>

\* A fetch ends, with rows, cancelled at a deadline, or with an exception; one whose
\* connector is not registered has no span.
FetchEnds(r) ==
  /\ running[r] > 0
  /\ running' = [running EXCEPT ![r] = @ - 1]
  /\ \/ End(Span(r, "connector.execute", NoTenant)) /\ UNCHANGED phase
     \/ /\ End(Span(r, "connector.execute", NoTenant)) \/ UNCHANGED <<traces, ended>>
        /\ phase' = [phase EXCEPT ![r] = IF @ = "fetching" THEN "raised" ELSE @]
  /\ UNCHANGED <<ring, errors, durations, log>>

\* All fetches have ended: the result is audited, then the root ends.
Respond(r) ==
  /\ running[r] = 0
  /\ Goes(r, "fetching", "closed")
  /\ End(Root(r))
  /\ Record(Event(r, "query.execute", TenantOf[r]))
  /\ Observed("ok")
  /\ UNCHANGED running

\* Slip: an empty answer is counted as any other.
RequestTimesOutAsOk(r) ==
  /\ running[r] = 0
  /\ Goes(r, "fetching", "closed")
  /\ End(Root(r))
  /\ Observed("ok")
  /\ UNCHANGED <<running, ring, log>>

\* The request's deadline has cancelled the fetches.
RequestTimesOut(r) ==
  /\ running[r] = 0
  /\ Goes(r, "fetching", "closed")
  /\ End(Root(r))
  /\ Observed("request_timeout")
  /\ UNCHANGED <<running, ring, log>>

\* gather has raised, a QueryError or anything else, and other fetches run on; or all
\* have ended and the merge raises.
Abort(r) ==
  /\ \/ Goes(r, "raised", "closed") /\ Denied(r, TenantOf[r])
     \/ Crashes(r, "raised")
     \/ running[r] = 0 /\ Crashes(r, "fetching")
  /\ End(Root(r))
  /\ UNCHANGED running

Reads == {i \in DOMAIN log : log[i].trace = NoTenant}

\* A read without a token, or not by an admin: an event without trace or tenant.
\* The other reads leave nothing behind.
ReadDenied ==
  /\ Cardinality(Reads) < MaxReads
  /\ Denied(NoTenant, NoTenant)
  /\ UNCHANGED <<phase, running, traces, ended>>

Handler(r) ==
  \/ Unauthenticated(r) \/ Deny(r) \/ Limit(r) \/ Admit(r) \/ JobExecutes(r)
  \/ FetchEnds(r) \/ Respond(r) \/ RequestTimesOut(r) \/ Abort(r)

Next == ReadDenied \/ \E r \in Request : Handler(r)

Spec == Init /\ [][Next]_vars

-----------------------------------------------------------------------------

TypeOK ==
  /\ phase \in [Request -> {"new", "fetching", "raised", "queued", "closed", "crashed"}]
  /\ \A r \in Request : running[r] \in 0..Fetches[r]
  /\ Len(ring) <= RingSize
  /\ Len(traces) <= MaxTraces
  /\ \A i, j \in DOMAIN traces : traces[i].trace = traces[j].trace => i = j
  /\ errors \in Nat /\ durations \in [Status -> Nat]

\* The last span of the trace of r up to the k-th of all.
LastEnd(r, k) == Max({0} \cup {i \in 1..k : ended[i].trace = r})

\* The i-th span of all is kept unless so many other traces ended a span, one after
\* another without one of its own trace, that it was the oldest.
Kept(i) ==
  \A k \in i..Len(ended) :
    LET r == ended[i].trace
    IN  Cardinality({ended[j].trace : j \in (LastEnd(r, k) + 1)..k}) < MaxTraces

\* The collector drops the trace that was silent for the longest, and only when
\* MaxTraces others were heard of since: a trace in use keeps all its spans, and a
\* late span of a dropped one starts it anew, without its root (on_end,
\* observability.py:55-67).
DropsTheMostSilent ==
  \A r \in Request :
    LET kept == {i \in DOMAIN ended : ended[i].trace = r /\ Kept(i)}
        mine == {i \in DOMAIN traces : traces[i].trace = r}
    IN  IF kept = {} THEN mine = {}
        ELSE \E i \in mine : traces[i].spans = Selected(ended, kept)

\* GET /v1/trace/latest shows an admin its tenant's query that finished last, or one
\* of the tenant of which a span ended since (a job's, or one left behind).  It is a
\* 404 only if the query was dropped, or a span of one that is not the tenant's, or
\* had no identity, ended since and hides it (observability.py:75-80, main.py:274-281).
LatestIsTheTenantsLast ==
  \A t \in Tenant :
    LET roots == {i \in DOMAIN ended : IsRoot(ended[i])}
        last == Max({0} \cup {i \in roots : ended[i].tenant = t})
        others == {ended[i].trace : i \in {j \in roots : ended[j].tenant # t}}
    IN  last > 0 =>
          IF LatestFor(t) = << >>
          THEN ~Kept(last) \/ \E i \in last..Len(ended) : ended[i].trace \in others
          ELSE LET r == LatestFor(t)[1].trace
               IN  r = ended[last].trace \/ LastEnd(r, Len(ended)) > last

\* An admin who asks for the last n > 0 events gets that many of the tenant, as long
\* as they are among the last RingSize of all tenants: nobody else's, and none older
\* in the place of a newer one (recent, audit.py:31-35).
RecentAreTheTenantsLast ==
  \A t \in Tenant, n \in 1..RingSize :
    LET mine == {i \in DOMAIN log : log[i].tenant = t /\ i > Len(log) - RingSize}
        last == {i \in mine : Cardinality({j \in mine : j > i}) < n}
    IN  Recent(n, t) = Selected(log, last)

\* The trail is in the order in which the queries' handlers end, so it can be read
\* beside the traces: an event is there once the root of its trace has ended
\* (main.py:308-325, 381, 445).
TrailInTraceOrder ==
  LET queries == {i \in DOMAIN log : log[i].trace # NoTenant}
      audited == {log[i].trace : i \in queries}
      roots == {i \in DOMAIN ended : IsRoot(ended[i]) /\ ended[i].trace \in audited}
      TracesOf(seq) == [k \in DOMAIN seq |-> seq[k].trace]
  IN  TracesOf(Selected(log, queries)) = TracesOf(Selected(ended, roots))

Count(type) == Cardinality({i \in DOMAIN log : log[i].type = type})

\* The counters and the trail tell the same: errors are the denied events, those of
\* refused reads among them, durations the others; and every query that is over is
\* counted once, unless it crashed (main.py:308-325, 377-388, 422-427, 441-445).
CountersAgreeWithTrail ==
  LET over == {r \in Request : phase[r] \in {"queued", "closed"}}
  IN  /\ errors = Count("query.denied")
      /\ durations["ok"] = Count("query.execute")
      /\ durations["rate_limited"] = Count("query.rate_limited")
      /\ Cardinality(over) = errors - Cardinality(Reads) + durations["ok"]
                               + durations["rate_limited"] + durations["request_timeout"]
=============================================================================
