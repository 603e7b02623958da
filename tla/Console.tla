------------------------------- MODULE Console -------------------------------
(***************************************************************************)
(* The query console (web/app.js) in front of the service that ClientView  *)
(* describes.  Run i is one call of runQuery, with its request i.          *)
(*                                                                         *)
(* The page has one thread: a function goes on without interruption to its *)
(* next await.  runQuery returns handleAsync's promise without awaiting    *)
(* it, so the polling of a job goes on beside later runs; the button does  *)
(* not keep Ctrl+Enter, nor the reroute of a 429, from starting one.       *)
(***************************************************************************)
EXTENDS Integers, Sequences, SequencesExt

CONSTANTS
  Run,
  MaxPolls   \* the polls of a job

ASSUME ConsoleAssumption == MaxPolls \in Nat \ {0}

VARIABLES
  answer, job, \* the service (ClientView)
  phase,     \* idle, posting, sleeping, polling, or how the run ended, see Ends
  polls,     \* polls[i]: the polls that run i has begun
  seen,      \* seen[i]: what the service said to the poll that is awaited
  valid,     \* valid[i]: the token that run i was started with is good
  disabled,  \* the run button is
  table,     \* whose result the page shows, none or <<i>>
  banners,   \* its banners, the newest first
  answered,  \* an observer: the runs of which a poll was told the job's end
  starts     \* an observer: the runs in turn, with those that went on beside their start

server == <<answer, job>>
page == <<phase, polls, disabled, table, banners>>
vars == <<server, page, seen, valid, answered, starts>>

Server == INSTANCE ClientView WITH Request <- Run

Ends ==
  {"shown",     \* a result
   "error",     \* an error, a 429, or the job's failure
   "network",   \* the request got no answer
   "timedOut",  \* the job was polled too often
   "silent"}    \* a poll got no answer: the promise is rejected, nobody is told

Going == {i \in Run : phase[i] \in {"posting", "sleeping", "polling"}}

-----------------------------------------------------------------------------
(* The page.                                                               *)

Becomes(i, to) == phase' = [phase EXCEPT ![i] = to]
Banner(kind, i) == banners' = <<[kind |-> kind, run |-> i]>> \o banners

\* A run's result, or its error, is shown below the banners of all before.
ShowResult(i) == Becomes(i, "shown") /\ table' = <<i>> /\ UNCHANGED banners
ShowBanner(i, end) == Becomes(i, end) /\ Banner(end, i) /\ UNCHANGED table

\* Slip: the last result stays until the next one comes.
StartUncleared(i) ==
  /\ phase[i] = "idle"
  /\ Becomes(i, "posting")
  /\ disabled' = TRUE
  /\ starts' = Append(starts, [run |-> i, beside |-> Going])
  /\ Server!Send(i)
  /\ UNCHANGED <<polls, table, banners, seen, valid, answered>>

\* runQuery: the page is cleared and the query sent.
Start(i) ==
  /\ phase[i] = "idle"
  /\ Becomes(i, "posting")
  /\ disabled' = TRUE /\ table' = << >> /\ banners' = << >>
  /\ starts' = Append(starts, [run |-> i, beside |-> Going])
  /\ Server!Send(i)
  /\ UNCHANGED <<polls, seen, valid, answered>>

\* Slip: the button is freed after the answer, not in a finally block.
AnsweredWithoutFinally(i) ==
  /\ phase[i] = "posting" /\ answer[i] # "open"
  /\ \/ answer[i] = "final" /\ (ShowResult(i) \/ ShowBanner(i, "error")) /\ disabled' = FALSE
     \/ ShowBanner(i, "network") /\ UNCHANGED disabled
  /\ UNCHANGED <<server, polls, seen, valid, answered, starts>>

\* The answer, if there is one; the button is free again whatever it is.
Answered(i) ==
  /\ phase[i] = "posting" /\ answer[i] # "open"
  /\ \/ answer[i] = "final" /\ (ShowResult(i) \/ ShowBanner(i, "error"))
     \/ answer[i] = "accepted" /\ Becomes(i, "sleeping") /\ Banner("queued", i) /\ UNCHANGED table
     \/ answer[i] = "lost" /\ ShowBanner(i, "network")
  /\ disabled' = FALSE
  /\ UNCHANGED <<server, polls, seen, valid, answered, starts>>

\* The request breaks off before it is answered.
Unreached(i) ==
  /\ phase[i] = "posting"
  /\ ShowBanner(i, "network")
  /\ disabled' = FALSE
  /\ UNCHANGED <<server, polls, seen, valid, answered, starts>>

\* What GET /v1/jobs/{id} answers: nothing (the network), 401, 404, or the job's state.
Told(i) ==
  {"unreachable"} \cup {IF ~valid[i] THEN "unauthorized" ELSE job[i]}

\* Slip: a poll that is refused does not count.
CountAccepted(i) == polls' = [polls EXCEPT ![i] = IF valid[i] THEN @ + 1 ELSE @]
Count(i) == polls' = [polls EXCEPT ![i] = @ + 1]

\* A poll is sent and served.
Poll(i) ==
  /\ phase[i] = "sleeping"
  /\ Becomes(i, "polling")
  /\ Count(i)
  /\ \E said \in Told(i) :
       /\ seen' = [seen EXCEPT ![i] = said]
       /\ answered' = IF said \in {"done", "failed"} THEN answered \cup {i} ELSE answered
  /\ UNCHANGED <<server, disabled, table, banners, valid, starts>>

\* The loop goes on after any answer that is not the job's end, a 401 and a 404
\* (the job was lost) among them, until it has polled often enough.
Again(i) ==
  IF polls[i] < MaxPolls
  THEN Becomes(i, "sleeping") /\ UNCHANGED <<table, banners>>
  ELSE ShowBanner(i, "timedOut")

\* Slip: a failed job is polled on like one that is not done.
TellsFailureNever(i) == FALSE
TellsFailure(i) == seen[i] = "failed"

\* The poll's answer arrives.
Polled(i) ==
  /\ phase[i] = "polling"
  /\ CASE seen[i] = "done" -> ShowResult(i)
       [] TellsFailure(i) -> ShowBanner(i, "error")
       [] seen[i] = "unreachable" -> Becomes(i, "silent") /\ UNCHANGED <<table, banners>>
       [] OTHER -> Again(i)
  /\ seen' = [seen EXCEPT ![i] = "none"]
  /\ UNCHANGED <<server, polls, disabled, valid, answered, starts>>

-----------------------------------------------------------------------------

\* The token of a run expires; a new one is for later runs.
Expire(i) ==
  /\ phase[i] # "idle" /\ valid[i]
  /\ valid' = [valid EXCEPT ![i] = FALSE]
  /\ UNCHANGED <<server, page, seen, answered, starts>>

Serve(i) == Server!Answered(i) \/ Server!RunJob(i) \/ Server!EndJob(i)

Service ==
  /\ Server!Crash \/ \E i \in Run : Serve(i)
  /\ UNCHANGED <<page, seen, valid, answered, starts>>

Init ==
  /\ Server!Init
  /\ phase = [i \in Run |-> "idle"] /\ polls = [i \in Run |-> 0]
  /\ seen = [i \in Run |-> "none"] /\ valid = [i \in Run |-> TRUE]
  /\ disabled = FALSE /\ table = << >> /\ banners = << >>
  /\ answered = {} /\ starts = << >>

Goes(i) == Answered(i) \/ Poll(i) \/ Polled(i)

Next == Service \/ \E i \in Run : Start(i) \/ Goes(i) \/ Unreached(i) \/ Expire(i)

\* The page's timers fire, its polls are answered or fail, and so are its queries once
\* the service has answered them, as it does.  Nobody has to start a run; no job has
\* to end, and the service may crash.
Fairness ==
  \A i \in Run :
    /\ WF_vars(Goes(i))
    /\ WF_vars(Server!Answered(i) /\ UNCHANGED <<page, seen, valid, answered, starts>>)

Spec == Init /\ [][Next]_vars /\ Fairness

-----------------------------------------------------------------------------

TypeOK ==
  /\ phase \in [Run -> {"idle", "posting", "sleeping", "polling"} \cup Ends]
  /\ polls \in [Run -> 0..MaxPolls]
  /\ valid \in [Run -> BOOLEAN] /\ disabled \in BOOLEAN
  /\ ToSet(table) \subseteq Run /\ Len(table) <= 1
  /\ \A i \in Run : (job[i] # "none") => answer[i] = "accepted"
  /\ disabled => \E i \in Run : phase[i] = "posting"

\* "Job poll timed out after 30s" is said of a job only if no poll was told its end:
\* a job that ended while it was polled is shown, as its rows or as its error
\* (handleAsync, web/app.js:179-198).
TimedOutOnlyIfUnanswered == \A i \in Run : phase[i] = "timedOut" => i \notin answered

\* What the page shows of an earlier run, its rows or a banner, is there only beside a
\* later one that was started while the earlier one was still going on
\* (web/app.js:63-65, 161 and 209-212).
OldResultsOnlyIfOverlapped ==
  LET shown == ToSet(table) \cup {banners[k].run : k \in DOMAIN banners}
  IN  \A m, n \in DOMAIN starts :
        m < n /\ starts[m].run \in shown => starts[m].run \in starts[n].beside

\* Every run ends, whatever becomes of the service, its job, or the token.
RunsEnd == \A i \in Run : i \in Going ~> i \notin Going
=============================================================================
