----------------------------- MODULE LivePaging ------------------------------
(***************************************************************************)
(* One execute of a live connector (github_live.py, jira_live.py), page by *)
(* page, over a source that may change between two pages.  Sources says    *)
(* what the call returns when it does not.                                 *)
(*                                                                         *)
(* A row is told by its repo and id, whatever else changes of it.  GitHub  *)
(* lists by "updated", newest first; the order that Jira gives a JQL       *)
(* without ORDER BY is its own, so an update may leave an issue in its     *)
(* place or move it to the front.                                          *)
(***************************************************************************)
EXTENDS Sources

CONSTANTS
  Plan,        \* the source plans that are executed
  Version,     \* the rows that the source may come to hold
  Listed,      \* the sequences of rows it may hold at the call
  ServerMax,   \* the most issues that a Jira server returns to a request
  MaxChanges   \* bound: how often the source changes during the call

\* The number of a pull request counts within its repo; an issue has none.
Id(row) == <<Get(row, "repo_name"), row["id"]>>
Distinct(src) == \A i, j \in DOMAIN src : Id(src[i]) = Id(src[j]) => i = j

ASSUME LivePagingAssumption ==
  /\ ServerMax \subseteq Nat \ {0} /\ MaxChanges \in Nat
  /\ Repos \in Seq(ToSet(Repos)) /\ \A sp \in Plan : sp.limit \in Int
  /\ \A src \in Listed : src \in Seq(Version) /\ Distinct(src)

VARIABLES
  kind,     \* the connector, "github" or "jira"
  most,     \* jira: the most issues that the server returns to a request
  plan,     \* the source plan
  rows,     \* the source's rows, in its order
  repo,     \* github: the index of the repo that is paged ...
  next,     \* ... and the number of its next page; jira: startAt + 1
  pages,    \* pages read, github: of this repo
  got,      \* the rows read
  status,   \* paging, done, failed or cancelled
  result,   \* the rows returned
  changes,  \* an observer: how often the source has changed
  present,  \* an observer: the ids listed at every moment of the call,
  forward, backward, \* and those whose place became a lower, or a higher, one
  cut       \* an observer: paging stopped with pages left to read

input == <<kind, most, plan>>
call == <<repo, next, pages, got, status, result, cut>>
observer == <<changes, present, forward, backward>>
vars == <<input, call, rows, observer>>

-----------------------------------------------------------------------------

\* What the source lists of a repo (Jira has but one list).
ListingOf(r, src) ==
  IF kind = "github" THEN GitHubListing(plan, r, src) ELSE JiraListing(plan, src)
Lists(p) == IF kind = "github" THEN GitHubRepos(p) ELSE << <<"jira", 0>> >>

\* The ids listed in a repo, and the place of each.
Ids(r, src) == {Id(row) : row \in ToSet(ListingOf(r, src))}
Place(id, r, src) == CHOOSE i \in DOMAIN ListingOf(r, src) : Id(ListingOf(r, src)[i]) = id

AllIds(src) == UNION {Ids(r, src) : r \in ToSet(Lists(plan))}

\* The rows i..j of a list, as far as it goes.
Cut(list, i, j) == SubSeq(list, i, Min({j, Len(list)}))

Init ==
  /\ kind \in {"github", "jira"} /\ most \in ServerMax
  /\ plan \in Plan /\ rows \in Listed
  /\ repo = 1 /\ next = 1 /\ pages = 0
  /\ got = << >> /\ result = << >>
  /\ status = "paging"
  /\ cut = FALSE
  /\ changes = 0
  /\ present = AllIds(rows)
  /\ forward = {} /\ backward = {}

\* The page is added to the rows; the filters are applied at the end.
Take(page) == got' = got \o page
Enough == Len(got') >= Target(plan)

\* The rows that match are returned; nothing is awaited after the last page.
Finish ==
  /\ status' = "done"
  /\ result' = Filter(got', ServerFilters(plan))

\* Slip: enough rows end the paging of the repo only.
GitHubPageBreaksOnce ==
  LET list == GitHubListing(plan, GitHubRepos(plan)[repo], rows)
      more == next * PageSize < Len(list)
      last == repo = Len(GitHubRepos(plan))
  IN  /\ Take(Cut(list, (next - 1) * PageSize + 1, next * PageSize))
      /\ IF ~Enough /\ more /\ pages + 1 < PageLimit
         THEN /\ next' = next + 1 /\ pages' = pages + 1
              /\ UNCHANGED <<repo, status, result, cut>>
         ELSE /\ cut' = (cut \/ more)
              /\ IF last
                 THEN Finish /\ UNCHANGED <<repo, next, pages>>
                 ELSE /\ repo' = repo + 1 /\ next' = 1 /\ pages' = 0
                      /\ UNCHANGED <<status, result>>

\* A page of the repo; its Link header says whether there is a next one.
GitHubPage ==
  LET list == GitHubListing(plan, GitHubRepos(plan)[repo], rows)
      more == next * PageSize < Len(list)
      last == repo = Len(GitHubRepos(plan))
  IN  /\ Take(Cut(list, (next - 1) * PageSize + 1, next * PageSize))
      /\ IF ~Enough /\ more /\ pages + 1 < PageLimit
         THEN /\ next' = next + 1 /\ pages' = pages + 1
              /\ UNCHANGED <<repo, status, result, cut>>
         ELSE /\ cut' = (cut \/ more \/ (Enough /\ ~last))
              /\ IF Enough \/ last
                 THEN Finish /\ UNCHANGED <<repo, next, pages>>
                 ELSE /\ repo' = repo + 1 /\ next' = 1 /\ pages' = 0
                      /\ UNCHANGED <<status, result>>

\* maxResults: no more than are still wanted; the server may return fewer.
Ask == Min({PageSize, Max({Target(plan) - Len(got), 1})})

\* The issues of an answer to a request from startAt on.
Issues == Cut(JiraListing(plan, rows), next, next + Min({Ask, most}) - 1)

\* A request, after which startAt is start; the answer's total says whether there
\* are more.
JiraStep(start, atLimit) ==
  LET total == Len(JiraListing(plan, rows))
  IN  /\ Take(Issues)
      /\ pages' = pages + 1
      /\ next' = start
      /\ IF start > total \/ Issues = << >> \/ Enough \/ atLimit
         THEN Finish /\ cut' = (start <= total)
         ELSE UNCHANGED <<status, result, cut>>
      /\ UNCHANGED repo

\* Slips: startAt goes on by what was asked for, not by what came; the number of
\* pages has no limit.
JiraPageByAsked == JiraStep(next + Ask, pages + 1 = PageLimit)
JiraPageUnlimited == JiraStep(next + Len(Issues), FALSE)

JiraPage == JiraStep(next + Len(Issues), pages + 1 = PageLimit)

\* A request is answered with a page.
Page ==
  /\ status = "paging" /\ Lists(plan) # << >>
  /\ IF kind = "github" THEN GitHubPage ELSE JiraPage
  /\ UNCHANGED <<input, rows, observer>>

\* No configured repo is asked for: there is nothing to request.
NoRepo ==
  /\ status = "paging" /\ Lists(plan) = << >>
  /\ got' = got /\ Finish
  /\ UNCHANGED <<input, rows, repo, next, pages, cut, observer>>

\* 401 or 403 (ConnectorAuthFailure), any other status, a request's own timeout;
\* or the deadline of the source cancels the call.  The pages read are lost.
Fail ==
  /\ status = "paging" /\ Lists(plan) # << >>
  /\ status' \in {"failed", "cancelled"}
  /\ UNCHANGED <<input, rows, repo, next, pages, got, result, cut, observer>>

-----------------------------------------------------------------------------
(* The source.                                                             *)

Without(i) == SubSeq(rows, 1, i - 1) \o SubSeq(rows, i + 1, Len(rows))

\* The ids whose place became a lower one when old became new.
Lower(old, new) ==
  UNION {{id \in Ids(r, old) \cap Ids(r, new) : Place(id, r, new) < Place(id, r, old)} :
           r \in ToSet(Lists(plan))}

\* What becomes of the lists when the source's rows become src.
Observe(src) ==
  /\ rows' = src
  /\ changes' = changes + 1
  /\ present' = present \cap AllIds(src)
  /\ forward' = forward \cup Lower(rows, src)
  /\ backward' = backward \cup Lower(src, rows) \cup (AllIds(src) \ AllIds(rows))

\* A new row comes first.
Insert(row) ==
  /\ \A i \in DOMAIN rows : Id(rows[i]) # Id(row)
  /\ Observe(<<row>> \o rows)

Delete(i) == Observe(Without(i))

Update(i, row) ==
  /\ Id(row) = Id(rows[i]) /\ row # rows[i]
  /\ \/ Observe(<<row>> \o Without(i))
     \/ kind = "jira" /\ Observe([rows EXCEPT ![i] = row])

Change ==
  /\ status = "paging" /\ changes < MaxChanges
  /\ \/ \E row \in Version : Insert(row)
     \/ \E i \in DOMAIN rows : Delete(i)
     \/ \E i \in DOMAIN rows, row \in Version : Update(i, row)
  /\ UNCHANGED <<input, call>>

\* The call is over.
Over == status # "paging" /\ UNCHANGED vars

Next == Page \/ NoRepo \/ Fail \/ Change \/ Over

Spec == Init /\ [][Next]_vars

-----------------------------------------------------------------------------

TypeOK ==
  /\ plan \in Plan
  /\ status \in {"paging", "done", "failed", "cancelled"}
  /\ repo \in 1..Max({1, Len(Lists(plan))}) /\ next \in Nat \ {0}
  /\ pages \in 0..PageLimit
  /\ ToSet(rows) \cup ToSet(got) \subseteq Version
  /\ ToSet(result) \subseteq ToSet(got)
  /\ result # << >> => status = "done"

\* Over a source that stays as it is, the pages are put together to what Sources
\* says of the call; with a server that does not give fewer issues than it is asked for.
StillSourceIsFetchRows ==
  status = "done" /\ changes = 0 /\ most >= PageSize =>
    result = FetchRows(kind, plan, rows)

\* Each row once, although the pages are of several moments (the loops of
\* github_live.py:115 and jira_live.py:163).  A row is read twice only if its place
\* became a higher one (a row came, or was updated, in front of it), and one that
\* was listed all the time is read unless its place became a lower one (a row
\* before it went, or it was updated) or paging was cut.
ReadOnceUnlessMoved ==
  /\ \A i, j \in DOMAIN got : i # j /\ Id(got[i]) = Id(got[j]) => Id(got[i]) \in backward
  /\ status = "done" /\ ~cut => present \ forward \subseteq {Id(row) : row \in ToSet(got)}
=============================================================================
