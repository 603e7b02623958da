----------------------------- MODULE ConsoleProofs -----------------------------
(***************************************************************************)
(* What is proved of the query console, for any number of runs that        *)
(* overlap in any way, any number of polls, and any behaviour of the       *)
(* service, its crashes included: the types, that a job whose end was seen *)
(* is never called timed out, and that nothing an earlier run left on the  *)
(* page stays beside a later one unless the two overlapped.                *)
(***************************************************************************)
EXTENDS Console, SequenceTheorems, TLAPS

-----------------------------------------------------------------------------
(* The inductive invariant.                                                *)

Note == [kind : {"queued"} \cup Ends, run : Run]
StartOfRun == [run : Run, beside : SUBSET Run]

\* Whose result or banner is on the page.
Shown == ToSet(table) \cup {banners[k].run : k \in DOMAIN banners}

\* The types of what TypeOK leaves open.
Types ==
  /\ TypeOK
  /\ answer \in [Run -> {"unsent", "open", "accepted", "final", "lost"}]
  /\ job \in [Run -> {"none", "queued", "running", "done", "failed", "lost"}]
  /\ seen \in [Run -> {"none", "unreachable", "unauthorized", "queued", "running",
                       "done", "failed", "lost"}]
  /\ table \in Seq(Run) /\ banners \in Seq(Note) /\ starts \in Seq(StartOfRun)
  /\ answered \subseteq Run

\* A run that sleeps has a poll left.
PollLeft(i) ==
  /\ phase[i] \in {"idle", "posting"} => polls[i] = 0
  /\ phase[i] = "sleeping" => polls[i] < MaxPolls

\* A run that was told its job's end is about to show it, or has.
EndIsShown(i) ==
  i \in answered => \/ phase[i] = "polling" /\ seen[i] \in {"done", "failed"}
                    \/ phase[i] \in {"shown", "error"}

\* Only a run that was going on at a start is, or is shown, after it.
OthersOverlapped ==
  /\ \A n \in DOMAIN starts : phase[starts[n].run] # "idle"
  /\ \A m, n \in DOMAIN starts :
       m < n /\ starts[m].run \in Shown \cup Going => starts[m].run \in starts[n].beside

IInv ==
  Types /\ (\A i \in Run : PollLeft(i) /\ EndIsShown(i)) /\ OthersOverlapped

-----------------------------------------------------------------------------
(* The service and the page, step by step.                                 *)

\* What the service does keeps its types, and that only a query accepted has a job.
LEMMA ServerTypes ==
  ASSUME answer \in [Run -> {"unsent", "open", "accepted", "final", "lost"}],
         job \in [Run -> {"none", "queued", "running", "done", "failed", "lost"}],
         \A i \in Run : (job[i] # "none") => answer[i] = "accepted",
         \/ Server!Crash
         \/ \E i \in Run : Serve(i) \/ Server!Send(i)
         \/ UNCHANGED server
  PROVE  /\ answer' \in [Run -> {"unsent", "open", "accepted", "final", "lost"}]
         /\ job' \in [Run -> {"none", "queued", "running", "done", "failed", "lost"}]
         /\ \A i \in Run : (job'[i] # "none") => answer'[i] = "accepted"
<1>1. CASE Server!Crash
  BY <1>1 DEF Server!Crash
<1>2. ASSUME NEW i \in Run, Server!Send(i)
      PROVE  /\ answer' \in [Run -> {"unsent", "open", "accepted", "final", "lost"}]
             /\ job' \in [Run -> {"none", "queued", "running", "done", "failed", "lost"}]
             /\ \A r \in Run : (job'[r] # "none") => answer'[r] = "accepted"
  BY <1>2 DEF Server!Send
<1>3. ASSUME NEW i \in Run, Server!Answered(i)
      PROVE  /\ answer' \in [Run -> {"unsent", "open", "accepted", "final", "lost"}]
             /\ job' \in [Run -> {"none", "queued", "running", "done", "failed", "lost"}]
             /\ \A r \in Run : (job'[r] # "none") => answer'[r] = "accepted"
  <2>1. CASE Server!Final(i)
    BY <1>3, <2>1 DEF Server!Answered, Server!Final
  <2>2. CASE Server!Accept(i)
    BY <1>3, <2>2 DEF Server!Answered, Server!Accept
  <2> QED BY <1>3, <2>1, <2>2 DEF Server!Answered
<1>4. ASSUME NEW i \in Run, Server!RunJob(i)
      PROVE  /\ answer' \in [Run -> {"unsent", "open", "accepted", "final", "lost"}]
             /\ job' \in [Run -> {"none", "queued", "running", "done", "failed", "lost"}]
             /\ \A r \in Run : (job'[r] # "none") => answer'[r] = "accepted"
  BY <1>4 DEF Server!RunJob
<1>5. ASSUME NEW i \in Run, Server!EndJob(i)
      PROVE  /\ answer' \in [Run -> {"unsent", "open", "accepted", "final", "lost"}]
             /\ job' \in [Run -> {"none", "queued", "running", "done", "failed", "lost"}]
             /\ \A r \in Run : (job'[r] # "none") => answer'[r] = "accepted"
  BY <1>5 DEF Server!EndJob
<1>6. CASE UNCHANGED server
  BY <1>6 DEF server
<1> QED BY <1>1, <1>2, <1>3, <1>4, <1>5, <1>6 DEF Serve

\* A result takes the page's one place for results.
LEMMA ResultOnPage ==
  ASSUME Types, NEW i \in Run, ShowResult(i)
  PROVE  /\ table' \in Seq(Run) /\ banners' \in Seq(Note)
         /\ ToSet(table') \subseteq Run /\ Len(table') <= 1
         /\ phase' = [phase EXCEPT ![i] = "shown"]
         /\ Shown' \subseteq Shown \cup {i}
<1>1. ToSet(table') = {i} /\ Len(table') = 1 /\ table' \in Seq(Run)
  BY DEF ShowResult, ToSet
<1>2. banners' = banners
  BY DEF ShowResult
<1> QED BY <1>1, <1>2 DEF ShowResult, Becomes, Types, Shown

\* A banner joins those that are there.
LEMMA BannerOnPage ==
  ASSUME Types, NEW i \in Run, NEW kind \in {"queued"} \cup Ends, Banner(kind, i),
         UNCHANGED table
  PROVE  /\ table' \in Seq(Run) /\ banners' \in Seq(Note)
         /\ ToSet(table') \subseteq Run /\ Len(table') <= 1
         /\ Shown' \subseteq Shown \cup {i}
<1> DEFINE note == [kind |-> kind, run |-> i]
<1>1. note \in Note /\ <<note>> \in Seq(Note) /\ banners \in Seq(Note)
  BY DEF Note, Types
<1>2. banners' = <<note>> \o banners
  BY DEF Banner
<1>3. /\ banners' \in Seq(Note)
      /\ Len(banners') = 1 + Len(banners)
      /\ \A k \in 1..Len(banners') :
           banners'[k] = IF k <= 1 THEN <<note>>[k] ELSE banners[k - 1]
  BY <1>1, <1>2, ConcatProperties
<1>4. ASSUME NEW k \in DOMAIN banners'
      PROVE  banners'[k].run \in {i} \cup {banners[j].run : j \in DOMAIN banners}
  <2>1. DOMAIN banners' = 1..Len(banners') /\ DOMAIN banners = 1..Len(banners)
    BY <1>1, <1>3, LenProperties
  <2>2. Len(banners) \in Nat /\ k \in 1..(1 + Len(banners))
    BY <1>1, <1>3, <1>4, <2>1, LenProperties
  <2>3. CASE k = 1
    BY <1>3, <2>1, <2>3
  <2>4. CASE k # 1
    <3>1. k - 1 \in DOMAIN banners /\ banners'[k] = banners[k - 1]
      BY <1>3, <2>1, <2>2, <2>4
    <3> QED BY <3>1
  <2> QED BY <2>3, <2>4
<1>5. Shown' \subseteq Shown \cup {i}
  BY <1>4 DEF Shown
<1>6. table' = table /\ ToSet(table) \subseteq Run /\ Len(table) <= 1 /\ table \in Seq(Run)
  BY DEF Types, TypeOK
<1> QED BY <1>3, <1>5, <1>6

\* What a step of a run that is not its start does to the page: the run goes on or
\* ends, and nobody else comes into view.
PageStep(i) ==
  /\ phase' \in {[phase EXCEPT ![i] = to] : to \in {"sleeping", "polling"} \cup Ends}
  /\ table' \in Seq(Run) /\ banners' \in Seq(Note)
  /\ ToSet(table') \subseteq Run /\ Len(table') <= 1
  /\ Shown' \subseteq Shown \cup {i}
  /\ phase[i] \in {"posting", "sleeping", "polling"}
  /\ UNCHANGED <<server, valid, starts>>

LEMMA GoesSteps ==
  ASSUME Types, NEW i \in Run, Goes(i) \/ Unreached(i)
  PROVE  PageStep(i)
<1>1. UNCHANGED <<server, valid, starts>> /\ phase[i] \in {"posting", "sleeping", "polling"}
  BY DEF Goes, Answered, Poll, Polled, Unreached
<1>2. CASE ShowResult(i)
  BY <1>1, <1>2, ResultOnPage DEF PageStep, Ends
<1>3. ASSUME NEW end \in Ends, ShowBanner(i, end)
      PROVE  PageStep(i)
  <2>1. Banner(end, i) /\ UNCHANGED table /\ phase' = [phase EXCEPT ![i] = end]
    BY <1>3 DEF ShowBanner, Becomes
  <2> QED BY <1>1, <2>1, BannerOnPage DEF PageStep
<1>4. CASE Becomes(i, "sleeping") /\ Banner("queued", i) /\ UNCHANGED table
  BY <1>1, <1>4, BannerOnPage DEF PageStep, Becomes
<1>5. ASSUME NEW to \in {"sleeping", "polling", "silent"}, Becomes(i, to),
             UNCHANGED <<table, banners>>
      PROVE  PageStep(i)
  BY <1>1, <1>5 DEF PageStep, Becomes, Types, TypeOK, Shown, Ends
<1>6. CASE Unreached(i)
  BY <1>3, <1>6 DEF Unreached, Ends
<1>7. CASE Answered(i)
  BY <1>2, <1>3, <1>4, <1>7 DEF Answered, Ends
<1>8. CASE Poll(i)
  BY <1>5, <1>8 DEF Poll
<1>9. CASE Polled(i)
  <2>1. ShowResult(i) \/ ShowBanner(i, "error") \/ Again(i)
        \/ (Becomes(i, "silent") /\ UNCHANGED <<table, banners>>)
    BY <1>9 DEF Polled
  <2> QED BY <1>2, <1>3, <1>5, <2>1 DEF Again, Ends
<1> QED BY <1>6, <1>7, <1>8, <1>9 DEF Goes

\* The phase of a run that goes on, and of the others.
LEMMA MovesOn ==
  ASSUME Types, NEW i \in Run, Goes(i) \/ Unreached(i)
  PROVE  /\ phase'[i] \in {"sleeping", "polling"} \cup Ends
         /\ \A j \in Run : j # i => phase'[j] = phase[j]
<1>1. PageStep(i)
  BY GoesSteps
<1>2. PICK to \in {"sleeping", "polling"} \cup Ends : phase' = [phase EXCEPT ![i] = to]
  BY <1>1 DEF PageStep
<1> QED BY <1>2 DEF Types, TypeOK

\* What the service does, and a token that expires, leave the page as it is.
PageStill == UNCHANGED <<page, seen, answered, starts>>

LEMMA OtherSteps ==
  ASSUME Next
  PROVE  \/ \E i \in Run : Start(i)
         \/ \E i \in Run : Goes(i) \/ Unreached(i)
         \/ PageStill
  BY DEF Next, Service, Expire, PageStill

-----------------------------------------------------------------------------
(* Types.                                                                  *)

LEMMA InitIInv == Init => IInv
<1> SUFFICES ASSUME Init PROVE IInv
  OBVIOUS
<1>1. /\ table \in Seq(Run) /\ banners \in Seq(Note) /\ starts \in Seq(StartOfRun)
      /\ ToSet(table) = {} /\ Len(table) = 0
  BY DEF Init, ToSet
<1>2. /\ answer \in [Run -> {"unsent", "open", "accepted", "final", "lost"}]
      /\ job \in [Run -> {"none", "queued", "running", "done", "failed", "lost"}]
      /\ \A i \in Run : job[i] = "none"
  BY DEF Init, Server!Init
<1>3. phase \in [Run -> {"idle"}] /\ polls \in [Run -> {0}] /\ seen \in [Run -> {"none"}]
      /\ valid \in [Run -> BOOLEAN] /\ disabled = FALSE /\ answered = {}
  BY DEF Init
<1>4. Types
  <2>1. TypeOK
    <3>1. phase \in [Run -> {"idle", "posting", "sleeping", "polling"} \cup Ends]
      BY <1>3
    <3>2. polls \in [Run -> 0..MaxPolls]
      BY <1>3, ConsoleAssumption
    <3>3. disabled \in BOOLEAN /\ (disabled => \E i \in Run : phase[i] = "posting")
      BY <1>3
    <3>4. ToSet(table) \subseteq Run /\ Len(table) <= 1
      BY <1>1
    <3> QED BY <1>2, <1>3, <3>1, <3>2, <3>3, <3>4 DEF TypeOK
  <2>2. seen \in [Run -> {"none", "unreachable", "unauthorized", "queued", "running",
                          "done", "failed", "lost"}]
    BY <1>3
  <2> QED BY <1>1, <1>2, <1>3, <2>1, <2>2 DEF Types
<1>5. \A i \in Run : PollLeft(i) /\ EndIsShown(i)
  BY <1>3 DEF PollLeft, EndIsShown
<1>6. OthersOverlapped
  BY DEF Init, OthersOverlapped
<1> QED BY <1>4, <1>5, <1>6 DEF IInv

\* The service in any step: it goes on, a query reaches it, or nothing happens to it.
LEMMA NextServer ==
  ASSUME Types, [Next]_vars
  PROVE  /\ answer' \in [Run -> {"unsent", "open", "accepted", "final", "lost"}]
         /\ job' \in [Run -> {"none", "queued", "running", "done", "failed", "lost"}]
         /\ \A i \in Run : (job'[i] # "none") => answer'[i] = "accepted"
<1>1. \/ Server!Crash
      \/ \E i \in Run : Serve(i) \/ Server!Send(i)
      \/ UNCHANGED server
  BY DEF Next, vars, Service, Start, Goes, Answered, Poll, Polled, Unreached, Expire
<1> QED BY <1>1, ServerTypes DEF Types, TypeOK

\* How the variables of one run change when it goes on.
LEMMA GoesTypes ==
  ASSUME Types, NEW i \in Run, PollLeft(i), Goes(i) \/ Unreached(i)
  PROVE  /\ polls' \in [Run -> 0..MaxPolls]
         /\ seen' \in [Run -> {"none", "unreachable", "unauthorized", "queued", "running",
                               "done", "failed", "lost"}]
         /\ answered' \subseteq Run
         /\ disabled' \in BOOLEAN
         /\ disabled' => disabled /\ phase[i] # "posting"
<1>1. CASE Answered(i)
  BY <1>1 DEF Answered, Types, TypeOK
<1>2. CASE Unreached(i)
  BY <1>2 DEF Unreached, Types, TypeOK
<1>3. CASE Polled(i)
  BY <1>3 DEF Polled, Types, TypeOK
<1>4. CASE Poll(i)
  <2>1. PICK said \in Told(i) :
             /\ seen' = [seen EXCEPT ![i] = said]
             /\ answered' = IF said \in {"done", "failed"} THEN answered \cup {i} ELSE answered
    BY <1>4 DEF Poll
  <2>2. said \in {"none", "unreachable", "unauthorized", "queued", "running",
                  "done", "failed", "lost"}
    BY <2>1 DEF Told, Types
  <2>3. phase[i] = "sleeping" /\ polls[i] + 1 \in 0..MaxPolls
    BY <1>4, ConsoleAssumption DEF Poll, PollLeft, Types, TypeOK
  <2>4. polls' \in [Run -> 0..MaxPolls]
    BY <1>4, <2>3 DEF Poll, Count, Types, TypeOK
  <2> QED BY <1>4, <2>1, <2>2, <2>3, <2>4 DEF Poll, Types, TypeOK
<1> QED BY <1>1, <1>2, <1>3, <1>4 DEF Goes

LEMMA NextTypes == IInv /\ [Next]_vars => Types'
<1> SUFFICES ASSUME IInv, [Next]_vars PROVE Types'
  OBVIOUS
<1> USE DEF IInv
<1>1. /\ answer' \in [Run -> {"unsent", "open", "accepted", "final", "lost"}]
      /\ job' \in [Run -> {"none", "queued", "running", "done", "failed", "lost"}]
      /\ \A i \in Run : (job'[i] # "none") => answer'[i] = "accepted"
  BY NextServer
<1>2. ASSUME NEW i \in Run, Start(i)
      PROVE  Types'
  <2>1. /\ phase' = [phase EXCEPT ![i] = "posting"] /\ disabled' = TRUE
        /\ table' = << >> /\ banners' = << >>
        /\ starts' = Append(starts, [run |-> i, beside |-> Going])
        /\ UNCHANGED <<polls, seen, valid, answered>>
    BY <1>2 DEF Start, Becomes
  <2>2. starts' \in Seq(StartOfRun)
    <3>1. [run |-> i, beside |-> Going] \in StartOfRun /\ starts \in Seq(StartOfRun)
      BY DEF StartOfRun, Going, Types
    <3> QED BY <2>1, <3>1, AppendProperties
  <2>3. phase' \in [Run -> {"idle", "posting", "sleeping", "polling"} \cup Ends]
        /\ phase'[i] = "posting"
    BY <2>1 DEF Types, TypeOK
  <2>4. ToSet(table') = {} /\ Len(table') = 0 /\ table' \in Seq(Run) /\ banners' \in Seq(Note)
    BY <2>1 DEF ToSet
  <2>5. TypeOK'
    BY <1>1, <2>1, <2>3, <2>4 DEF Types, TypeOK
  <2> QED BY <1>1, <2>1, <2>2, <2>4, <2>5 DEF Types
<1>3. ASSUME NEW i \in Run, Goes(i) \/ Unreached(i)
      PROVE  Types'
  <2>1. PageStep(i)
    BY <1>3, GoesSteps
  <2>2. phase' \in [Run -> {"idle", "posting", "sleeping", "polling"} \cup Ends]
        /\ \A j \in Run : j # i => phase'[j] = phase[j]
    BY <2>1 DEF PageStep, Types, TypeOK
  <2>3. /\ polls' \in [Run -> 0..MaxPolls]
        /\ seen' \in [Run -> {"none", "unreachable", "unauthorized", "queued", "running",
                              "done", "failed", "lost"}]
        /\ answered' \subseteq Run /\ disabled' \in BOOLEAN
        /\ disabled' => disabled /\ phase[i] # "posting"
    BY <1>3, GoesTypes
  <2>4. disabled' => \E j \in Run : phase'[j] = "posting"
    BY <2>2, <2>3 DEF Types, TypeOK
  <2>5. TypeOK'
    BY <1>1, <2>1, <2>2, <2>3, <2>4 DEF PageStep, Types, TypeOK
  <2> QED BY <1>1, <2>1, <2>3, <2>5 DEF PageStep, Types
<1>4. CASE PageStill /\ (valid' = valid \/ \E i \in Run : Expire(i))
  <2>1. valid' \in [Run -> BOOLEAN]
    BY <1>4 DEF Expire, Types, TypeOK
  <2> QED BY <1>1, <1>4, <2>1 DEF PageStill, page, Types, TypeOK
<1>5. CASE UNCHANGED vars
  BY <1>4, <1>5 DEF vars, PageStill
<1>6. CASE Service \/ \E i \in Run : Expire(i)
  BY <1>4, <1>6 DEF Service, Expire, PageStill
<1> QED BY <1>2, <1>3, <1>5, <1>6 DEF Next

-----------------------------------------------------------------------------
(* A job's end that a poll was told is shown.                              *)

LEMMA NextEnds ==
  ASSUME IInv, [Next]_vars, NEW i \in Run
  PROVE  PollLeft(i)' /\ EndIsShown(i)'
<1> USE DEF IInv
<1>1. CASE phase'[i] = phase[i] /\ polls'[i] = polls[i] /\ seen'[i] = seen[i]
           /\ (i \in answered' => i \in answered)
  BY <1>1 DEF PollLeft, EndIsShown
<1>2. ASSUME NEW j \in Run, j # i, Start(j) \/ Goes(j) \/ Unreached(j)
      PROVE  phase'[i] = phase[i] /\ polls'[i] = polls[i] /\ seen'[i] = seen[i]
             /\ (i \in answered' => i \in answered)
  <2>1. CASE Start(j)
    BY <1>2, <2>1 DEF Start, Becomes, Types, TypeOK
  <2>2. CASE Goes(j) \/ Unreached(j)
    <3>1. phase'[i] = phase[i]
      BY <1>2, <2>2, GoesSteps DEF PageStep, Types, TypeOK
    <3>2. CASE Poll(j)
      BY <1>2, <3>1, <3>2 DEF Poll, Count, Types, TypeOK
    <3>3. CASE Answered(j) \/ Polled(j) \/ Unreached(j)
      BY <1>2, <3>1, <3>3 DEF Answered, Polled, Unreached, Types, TypeOK
    <3> QED BY <2>2, <3>2, <3>3 DEF Goes
  <2> QED BY <1>2, <2>1, <2>2
<1>3. CASE Start(i)
  <2>1. phase[i] = "idle" /\ phase'[i] = "posting" /\ polls' = polls /\ answered' = answered
    BY <1>3 DEF Start, Becomes, Types, TypeOK
  <2>2. i \notin answered
    BY <2>1 DEF EndIsShown
  <2> QED BY <2>1, <2>2 DEF PollLeft, EndIsShown
<1>4. CASE Answered(i) \/ Unreached(i)
  <2>1. phase[i] = "posting" /\ polls' = polls /\ answered' = answered
    BY <1>4 DEF Answered, Unreached
  <2>2. i \notin answered /\ polls[i] = 0
    BY <2>1 DEF EndIsShown, PollLeft
  <2>3. phase'[i] \in {"sleeping", "polling"} \cup Ends
    BY <1>4, MovesOn DEF Goes
  <2>4. phase'[i] # "idle" /\ phase'[i] # "posting"
    BY <2>3 DEF Ends
  <2> QED BY <2>1, <2>2, <2>4, ConsoleAssumption DEF PollLeft, EndIsShown
<1>5. CASE Poll(i)
  <2>1. phase[i] = "sleeping" /\ phase'[i] = "polling"
    BY <1>5 DEF Poll, Becomes, Types, TypeOK
  <2>2. i \notin answered
    BY <2>1 DEF EndIsShown
  <2>3. i \in answered' => seen'[i] \in {"done", "failed"}
    BY <1>5, <2>2 DEF Poll, Types
  <2> QED BY <2>1, <2>3 DEF PollLeft, EndIsShown
<1>6. CASE Polled(i)
  <2>1. phase[i] = "polling" /\ polls' = polls /\ answered' = answered
    BY <1>6 DEF Polled
  <2>2. CASE i \in answered
    <3>1. seen[i] = "done" \/ seen[i] = "failed"
      BY <2>1, <2>2 DEF EndIsShown
    <3>2. ShowResult(i) \/ ShowBanner(i, "error")
      BY <1>6, <3>1 DEF Polled, TellsFailure
    <3>3. phase'[i] \in {"shown", "error"}
      BY <3>2 DEF ShowResult, ShowBanner, Becomes, Types, TypeOK
    <3> QED BY <2>1, <3>3 DEF PollLeft, EndIsShown
  <2>3. CASE i \notin answered
    <3>1. phase'[i] \in {"sleeping", "polling"} \cup Ends
      BY <1>6, MovesOn DEF Goes
    <3>2. phase'[i] = "sleeping" => polls[i] < MaxPolls
      BY <1>6 DEF Polled, Again, ShowResult, ShowBanner, Becomes, Types, TypeOK
    <3>3. phase'[i] # "idle" /\ phase'[i] # "posting"
      BY <3>1 DEF Ends
    <3> QED BY <2>1, <2>3, <3>2, <3>3 DEF PollLeft, EndIsShown
  <2> QED BY <2>2, <2>3
<1>7. CASE PageStill \/ UNCHANGED vars
  BY <1>1, <1>7 DEF PageStill, page, vars
<1>8. CASE Next
  <2>1. CASE \E j \in Run : Start(j)
    BY <1>1, <1>2, <1>3, <2>1
  <2>2. CASE \E j \in Run : Goes(j) \/ Unreached(j)
    BY <1>1, <1>2, <1>4, <1>5, <1>6, <2>2 DEF Goes
  <2> QED BY <1>7, <1>8, <2>1, <2>2, OtherSteps
<1> QED BY <1>7, <1>8

-----------------------------------------------------------------------------
(* Old results.                                                            *)

LEMMA NextOverlapped == IInv /\ [Next]_vars => OthersOverlapped'
<1> SUFFICES ASSUME IInv, [Next]_vars PROVE OthersOverlapped'
  OBVIOUS
<1> USE DEF IInv
<1>1. /\ DOMAIN starts = 1..Len(starts) /\ Len(starts) \in Nat
      /\ \A n \in DOMAIN starts : starts[n].run \in Run
  <2>1. starts \in Seq(StartOfRun)
    BY DEF Types
  <2>2. DOMAIN starts = 1..Len(starts) /\ Len(starts) \in Nat
    BY <2>1, LenProperties
  <2>3. ASSUME NEW n \in DOMAIN starts
        PROVE  starts[n] \in StartOfRun
    BY <2>1, <2>2, <2>3, ElementOfSeq
  <2> QED BY <2>2, <2>3 DEF StartOfRun
<1>2. ASSUME NEW i \in Run, Start(i)
      PROVE  OthersOverlapped'
  <2> DEFINE start == [run |-> i, beside |-> Going]
             last == Len(starts) + 1
  <2>1. start \in StartOfRun /\ starts \in Seq(StartOfRun)
    BY DEF StartOfRun, Going, Types
  <2>2. /\ phase[i] = "idle" /\ phase'[i] = "posting"
        /\ \A j \in Run : j # i => phase'[j] = phase[j]
        /\ Shown' = {}
    BY <1>2 DEF Start, Becomes, Shown, ToSet, Types, TypeOK
  <2>3. starts' = Append(starts, start)
    BY <1>2 DEF Start
  <2>4. /\ DOMAIN starts' = 1..last
        /\ starts'[last] = start
        /\ \A n \in 1..Len(starts) : starts'[n] = starts[n]
    BY <2>1, <2>3, AppendProperties, LenProperties
  <2>5. ASSUME NEW n \in DOMAIN starts'
        PROVE  phase'[starts'[n].run] # "idle"
    <3>1. CASE n = last
      BY <2>2, <2>4, <3>1
    <3>2. CASE n # last
      <4>1. n \in DOMAIN starts /\ starts'[n] = starts[n]
        BY <1>1, <2>4, <3>2
      <4> QED BY <1>1, <2>2, <4>1 DEF OthersOverlapped
    <3> QED BY <3>1, <3>2
  <2>6. ASSUME NEW m \in DOMAIN starts', NEW n \in DOMAIN starts', m < n,
               starts'[m].run \in (Shown \cup Going)'
        PROVE  starts'[m].run \in starts'[n].beside
    <3>1. m \in DOMAIN starts /\ starts'[m] = starts[m]
      BY <1>1, <2>4, <2>6
    <3>2. starts[m].run \in Run /\ starts[m].run # i
      BY <1>1, <2>2, <3>1 DEF OthersOverlapped
    <3>3. starts[m].run \in Going
      BY <2>2, <2>6, <3>1, <3>2 DEF Going
    <3>4. CASE n = last
      BY <2>4, <3>1, <3>3, <3>4
    <3>5. CASE n # last
      <4>1. n \in DOMAIN starts /\ starts'[n] = starts[n]
        BY <1>1, <2>4, <3>5
      <4> QED BY <2>6, <3>1, <3>3, <4>1 DEF OthersOverlapped
    <3> QED BY <3>4, <3>5
  <2> QED BY <2>5, <2>6 DEF OthersOverlapped
<1>3. ASSUME starts' = starts, (Shown \cup Going)' \subseteq Shown \cup Going,
             \A j \in Run : phase[j] # "idle" => phase'[j] # "idle"
      PROVE  OthersOverlapped'
  BY <1>1, <1>3 DEF OthersOverlapped
<1>4. ASSUME NEW i \in Run, Goes(i) \/ Unreached(i)
      PROVE  OthersOverlapped'
  <2>1. PageStep(i)
    BY <1>4, GoesSteps
  <2>2. i \in Going /\ phase'[i] # "idle" /\ \A j \in Run : j # i => phase'[j] = phase[j]
    BY <2>1 DEF PageStep, Going, Types, TypeOK, Ends
  <2>3. Going' \subseteq Going
    BY <2>2 DEF Going
  <2> QED BY <1>3, <2>1, <2>2, <2>3 DEF PageStep
<1>5. CASE PageStill \/ UNCHANGED vars
  BY <1>3, <1>5 DEF PageStill, page, vars, Shown, Going
<1> QED BY <1>2, <1>4, <1>5, OtherSteps

-----------------------------------------------------------------------------
(* The theorems.                                                           *)

LEMMA NextIInv == IInv /\ [Next]_vars => IInv'
  BY NextTypes, NextEnds, NextOverlapped DEF IInv

LEMMA AlwaysIInv == Spec => []IInv
  BY InitIInv, NextIInv, PTL DEF Spec

\* The page is always in one of its states: a run has its phases, a job belongs to a
\* query that was accepted, there is one result at most, and the button is disabled only
\* while a query is being sent (runQuery and handleAsync, web/app.js).
THEOREM PageTypes == Spec => []TypeOK
<1>1. IInv => TypeOK
  BY DEF IInv, Types
<1> QED BY <1>1, AlwaysIInv, PTL

\* "Job poll timed out" is never said of a job whose end a poll was told, however many
\* polls there are, whatever came between them, and whatever other runs do
\* (handleAsync, web/app.js:179-198).
THEOREM ToldEndsAreShown == Spec => []TimedOutOnlyIfUnanswered
<1>1. IInv => TimedOutOnlyIfUnanswered
  BY DEF IInv, EndIsShown, TimedOutOnlyIfUnanswered
<1> QED BY <1>1, AlwaysIInv, PTL

\* With any number of runs, what the page shows of one is there beside a later one only
\* if that one was started while the first was going on: runQuery clears the page
\* (web/app.js:63-65), and a promise that is not awaited is all that can write to it later.
THEOREM OldResultsOverlapped == Spec => []OldResultsOnlyIfOverlapped
<1>1. IInv => OldResultsOnlyIfOverlapped
  BY DEF IInv, OthersOverlapped, OldResultsOnlyIfOverlapped, Shown
<1> QED BY <1>1, AlwaysIInv, PTL

=============================================================================
