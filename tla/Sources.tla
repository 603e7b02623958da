------------------------------- MODULE Sources -------------------------------
(***************************************************************************)
(* What execute of each connector returns for a source plan, given the     *)
(* rows of its source (connectors/).  The sources do not change here;      *)
(* LivePaging is about sources that change while they are paged.           *)
(***************************************************************************)
EXTENDS Predicates

CONSTANTS
  Repos,      \* GITHUB_REPOS
  Projects,   \* JIRA_PROJECTS
  PageSize, PageLimit

ASSUME SourcesAssumption == {PageSize, PageLimit} \subseteq Nat \ {0}

Open == <<"str", 1>>

\* The live connectors stop paging at this many rows.
Target(sp) == IF sp.limit # 0 THEN Max({sp.limit, 1}) ELSE PageLimit * PageSize

\* The values that a set of = and IN predicates on a column asks for.
Wanted(filters, col) ==
  UNION {ToSet(filters[i].value) :
           i \in {j \in DOMAIN filters : filters[j].column = col /\ filters[j].op \in {"=", "IN"}}}

\* The repos to page, in turn.
GitHubRepos(sp) ==
  LET wanted == Wanted(ServerFilters(sp), "repo_name")
  IN  Selected(Repos, {i \in DOMAIN Repos : wanted = {} \/ Repos[i] \in wanted})

\* The state that is asked for with "=", the last one, else open.
State(sp) ==
  LET states == SelectSeq(ServerFilters(sp), LAMBDA p :
                  p.column = "state" /\ p.op = "=" /\ p.value[1][1] = "str")
  IN  IF states = << >> THEN Open ELSE Last(states).value[1]

\* What GitHub lists of a repo: the pull requests of one state.
GitHubListing(sp, repo, rows) ==
  Selected(rows, {i \in DOMAIN rows :
                    Get(rows[i], "repo_name") = repo /\ rows[i]["state"] = State(sp)})

\* The pages of a repo that give n rows, as far as the repo and the page limit go.
WholePages(listed, n) ==
  LET asked == ((n + PageSize - 1) \div PageSize) * PageSize
  IN  SubSeq(listed, 1, Min({Len(listed), asked, PageLimit * PageSize}))

\* With the pages of a repo, unless there are enough rows.
WithRepo(sp, rows, repo, got) ==
  IF Len(got) >= Target(sp) THEN got
  ELSE got \o WholePages(GitHubListing(sp, repo, rows), Target(sp) - Len(got))

\* The rows read of the first n repos.
GitHubGot(sp, rows) ==
  LET got[n \in 0..Len(GitHubRepos(sp))] ==
        IF n = 0 THEN << >> ELSE WithRepo(sp, rows, GitHubRepos(sp)[n], got[n - 1])
  IN  got

GitHubRows(sp, rows) == GitHubGot(sp, rows)[Len(GitHubRepos(sp))]

\* What Jira finds: = and IN on four fields become JQL; without any predicate on
\* the project, the configured projects do.
Finds(sp, row) ==
  LET filters == ServerFilters(sp)
      jql == SelectSeq(filters, LAMBDA p :
               /\ p.column \in {"id", "project_key", "status", "assignee"}
               /\ p.op \in {"=", "IN"})
      scoped == Projects = {} \/ \E i \in DOMAIN filters : filters[i].column = "project_key"
  IN  MatchesAll(row, jql) /\ (scoped \/ row["project_key"] \in Projects)

JiraListing(sp, rows) == Selected(rows, {i \in DOMAIN rows : Finds(sp, rows[i])})

JiraRows(sp, rows) ==
  LET listed == JiraListing(sp, rows)
  IN  SubSeq(listed, 1, Min({Len(listed), Target(sp), PageLimit * PageSize}))

\* execute: the rows that match what the source is to filter.
FetchRows(kind, sp, rows) ==
  Filter(CASE kind = "mock" -> rows
           [] kind = "github" -> GitHubRows(sp, rows)
           [] kind = "jira" -> JiraRows(sp, rows),
         ServerFilters(sp))
=============================================================================
