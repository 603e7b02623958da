----------------------------- MODULE ClientView -----------------------------
(***************************************************************************)
(* What a client of POST /v1/query and GET /v1/jobs/{id} is promised,      *)
(* without how the gateway does it: every query is answered, once; a 202   *)
(* creates a job with it; the job is seen queued, then running, then done  *)
(* or failed, and it ends.  Nothing outlives the process: its restart      *)
(* breaks off the queries that are open and forgets every job.             *)
(***************************************************************************)
CONSTANT Request

VARIABLES
  answer,  \* answer[r]: "unsent", "open", "accepted" (202), "final" or "lost"
  job      \* job[r]: "none", "queued", "running", "done", "failed" or "lost"

view == <<answer, job>>

Init == answer = [r \in Request |-> "unsent"] /\ job = [r \in Request |-> "none"]

Send(r) ==
  /\ answer[r] = "unsent"
  /\ answer' = [answer EXCEPT ![r] = "open"]
  /\ UNCHANGED job

\* Some answers are given as soon as the query arrives.
MayAnswer(r) == answer[r] \in {"unsent", "open"}

Final(r) ==
  /\ MayAnswer(r)
  /\ answer' = [answer EXCEPT ![r] = "final"]
  /\ UNCHANGED job

Accept(r) ==
  /\ MayAnswer(r)
  /\ answer' = [answer EXCEPT ![r] = "accepted"]
  /\ job' = [job EXCEPT ![r] = "queued"]

RunJob(r) ==
  /\ job[r] = "queued"
  /\ job' = [job EXCEPT ![r] = "running"]
  /\ UNCHANGED answer

EndJob(r) ==
  /\ job[r] = "running"
  /\ job' \in {[job EXCEPT ![r] = end] : end \in {"done", "failed"}}
  /\ UNCHANGED answer

Crash ==
  /\ answer' = [r \in Request |-> IF answer[r] = "open" THEN "lost" ELSE answer[r]]
  /\ job' = [r \in Request |-> IF job[r] = "none" THEN "none" ELSE "lost"]

Next == Crash \/ \E r \in Request : Send(r) \/ Final(r) \/ Accept(r) \/ RunJob(r) \/ EndJob(r)

Answered(r) == answer[r] = "open" /\ (Final(r) \/ Accept(r))

Fairness ==
  \A r \in Request : /\ WF_view(Answered(r))
                     /\ WF_view(RunJob(r)) /\ WF_view(EndJob(r))

Spec == Init /\ [][Next]_view /\ Fairness
=============================================================================
