---------------------------- MODULE MCFederation -----------------------------
(* Four small sources, the roles of policy.yaml and two that are not in it, and a query   *)
(* for every clause and every refusal.                                                    *)
EXTENDS Federation

Str(n) == <<"str", n>>
Num(n) == <<"int", n>>
Closed == Str(2)
Api == Str(3)
Web == Str(4)
ENG == Str(5)
OPS == Str(6)
Mail(n) == Str(10 + n)

MCEmails == [v \in {Mail(1), Mail(2), Mail(3)} |-> Str(IF v = Mail(2) THEN 22 ELSE 21)]

PR(id, state, repo, mail) ==
  [id |-> Num(id), state |-> state, repo_name |-> repo, author_email |-> mail]
Issue(id, project, pr) ==
  [id |-> Num(id), project_key |-> project, linked_pr_id |-> pr,
   internal_notes |-> Str(30 + id)]
LivePR(id, state, repo, key) ==
  [id |-> Num(id), state |-> state, repo_name |-> repo, linked_issue_key |-> key]
LiveIssue(key, project) == [id |-> key, project_key |-> project]
IssueKey(n) == Str(50 + n)

MCSource == {"github", "jira", "gh_live", "jira_live"}
MCKind == [github |-> "mock", jira |-> "mock", gh_live |-> "github", jira_live |-> "jira"]
MCData ==
  [github |-> <<PR(1, Open, Api, Mail(1)), PR(2, Closed, Web, Mail(2)),
                PR(3, Open, Api, Null), PR(4, Open, Web, Mail(3))>>,
   jira |-> <<Issue(1, ENG, Num(1)), Issue(2, OPS, Num(1)), Issue(3, ENG, Null),
              Issue(4, ENG, Num(3)), Issue(5, OPS, Num(2))>>,
   gh_live |-> <<LivePR(7, Open, Web, IssueKey(8)), LivePR(6, Open, Api, IssueKey(5)),
                 LivePR(5, Closed, Api, Null), LivePR(4, Open, Web, IssueKey(9))>>,
   jira_live |-> <<LiveIssue(IssueKey(8), OPS), LiveIssue(IssueKey(9), ENG),
                   LiveIssue(IssueKey(5), ENG)>>]
MCPushable ==
  [github |-> {"state", "repo_name"}, jira |-> {"project_key"},
   gh_live |-> {"state", "repo_name"}, jira_live |-> {"project_key", "id"}]

MCCatalog ==
  [github |-> <<"id", "state", "repo_name", "author_email">>,
   jira |-> <<"id", "project_key", "linked_pr_id", "internal_notes">>,
   gh_live |-> <<"id", "state", "repo_name", "linked_issue_key">>,
   jira_live |-> <<"id", "project_key">>]

\* WHERE trees: each node after its own.
Col(a, c) == <<"col", a, c>>
Lit(v) == <<"lit", v>>
Negative == <<"neg", 1>>
Cmp(l, op, r) == <<[node |-> "cmp", left |-> l, op |-> op, right |-> r]>>
Among(c, values) == <<[node |-> "in", this |-> c, values |-> values]>>
And(t, u) == t \o u \o <<[node |-> "and", right |-> Len(u)]>>
Paren(t) == t \o <<[node |-> "paren"]>>
Or == <<[node |-> "other"]>>
Is(a, c, v) == Cmp(Col(a, c), "=", Lit(v))

Grant(filter, masks, blocked) == [filter |-> filter, masks |-> masks, blocked |-> blocked]
Anything == Grant(<< >>, << >>, {})
\* The roles of policy.yaml, and one whose entries are wrong.
MCPolicy ==
  [eng |-> [github |-> Grant(Paren(Among(Col("", "repo_name"), <<Lit(Api)>>)),
                             [author_email |-> "mask_email"], {}),
            jira |-> Grant(Is("", "project_key", ENG), << >>, {"internal_notes"}),
            gh_live |-> Anything, jira_live |-> Anything],
   admin |-> [s \in MCSource |-> Anything],
   odd |-> [github |-> Grant(<< >>, [author_email |-> "redact"], {}),
            jira |-> Grant(Or, << >>, {})]]

-----------------------------------------------------------------------------

From(a, s) == [alias |-> a, source |-> s, where |-> << >>]
Sql(from, where, join, select, order, limit, offset) ==
  [form |-> "sql", from |-> from, where |-> where, join |-> join, select |-> select,
   order |-> order, limit |-> limit, offset |-> offset]
On(la, lc, ra, rc) == <<[left |-> <<la, lc>>, right |-> <<ra, rc>>]>>
By(a, col, desc) == <<[by |-> <<a, col>>, desc |-> desc]>>

Pulls == <<From("p", "github")>>
Issues == <<From("i", "jira")>>
Both == Pulls \o Issues
PullId == <<"p", "id">>
IssueId == <<"i", "id">>
Star == <<"", "*">>
Linked == On("p", "id", "i", "linked_pr_id")
NotClosed == Cmp(Col("", "state"), "!=", Lit(Closed))

SqlQueries ==
  {Sql(Pulls, << >>, << >>, <<PullId, <<"", "author_email">> >>, By("p", "author_email", TRUE), 3, 0),
   Sql(Pulls, Is("p", "state", Open), << >>, <<PullId>>, << >>, 9, 0),
   Sql(Pulls, Cmp(Col("", "state"), "!=", Lit(Open)), << >>, <<Star>>, << >>, 9, 0),
   Sql(Pulls, And(Paren(And(NotClosed, Among(Col("p", "repo_name"), <<Lit(Api), Lit(Web)>>))),
                  Cmp(Col("", "id"), ">", Lit(Num(1)))),
       << >>, << <<"", "id", "n">> >>, By("", "n", FALSE), 2, 1),
   Sql(Both, << >>, Linked, <<PullId, <<"i", "*">>, IssueId>>, By("p", "id", FALSE), 3, 1),
   Sql(Both, And(Cmp(Col("p", "author_email"), "<=", Lit(Mail(1))), Cmp(Col("i", "id"), "<", Lit(Num(5)))),
       Linked, <<IssueId, <<"p", "author_email">> >>, By("i", "id", TRUE), 99, 0),
   Sql(Both, Is("", "author_email", Null), Linked, <<IssueId, PullId>>, By("", "id", TRUE), 9, 0),
   Sql(<<From("i", "jira"), From("j", "jira")>>, << >>,
       On("i", "linked_pr_id", "j", "linked_pr_id"), <<IssueId, <<"j", "id">> >>, << >>, 9, 0),
   Sql(<<From("issues", "jira"), From("issues", "jira")>>, << >>, On("issues", "id", "issues", "id"),
       << <<"issues", "id">> >>, << >>, 9, 0),
   Sql(Issues, << >>, << >>, <<Star>>, << >>, 9, 0),
   Sql(Pulls, Among(Col("", "repo_name"), << >>), << >>, <<PullId>>, << >>, 9, 0),
   Sql(Both, << >>, On("p", "id", "x", "id"), <<PullId>>, << >>, 9, 0)}

\* Each is refused by a check of its own.
BadSql ==
  {Sql(<<From("p", "asana")>>, << >>, << >>, <<PullId>>, << >>, 9, 0),
   Sql(Both \o Pulls, << >>, Linked, <<PullId>>, << >>, 9, 0),
   Sql(Both, << >>, << >>, <<PullId>>, << >>, 9, 0),
   Sql(Both, << >>, Linked, <<Star>>, << >>, 9, 0),
   Sql(Pulls, And(NotClosed, Or), << >>, <<PullId>>, << >>, 9, 0),
   Sql(Pulls, Cmp(Col("", "id"), ">", Negative), << >>, <<PullId>>, << >>, 9, 0),
   Sql(Pulls, Is("x", "id", Num(1)), << >>, <<PullId>>, << >>, 9, 0),
   Sql(Pulls, << >>, << >>, <<PullId>>, By("p", "id", TRUE) \o By("p", "state", TRUE), 9, 0),
   Sql(Pulls, << >>, << >>, <<PullId, << >> >>, << >>, 9, 0),
   Sql(Pulls, << >>, << >>, <<PullId>>, << [by |-> << >>, desc |-> FALSE] >>, 9, 0),
   Sql(Pulls, << >>, << >>, <<PullId>>, << >>, -2, 0)}

Document(from, join, select, order, limit, offset) ==
  [Sql(from, << >>, join, select, order, limit, offset) EXCEPT !.form = "plan"]
Pred(col, op, value) == [column |-> col, op |-> op, value |-> value]
Asking(a, s, preds) == [alias |-> a, source |-> s, where |-> preds]

Documents ==
  {Document(<<Asking("p", "github", <<Pred("state", "=", <<Open>>)>>)>>, << >>, <<PullId>>, << >>, -2, 1),
   Document(<<Asking("i", "jira", <<Pred("id", ">=", <<Num(2)>>)>>)>>, << >>,
            <<IssueId, <<"i", "internal_notes">> >>, By("", "id", TRUE), 3, 0),
   Document(<<Asking("p", "github", <<Pred("state", "=", <<Closed>>)>>), From("p", "jira")>>,
            On("p", "id", "p", "linked_pr_id"), <<PullId>>, << >>, 9, 0),
   Document(Both, << >>, <<PullId, IssueId>>, << >>, 9, 0),
   Document(<<Asking("p", "github", <<Pred("state", "LIKE", <<Open>>)>>)>>, << >>, <<PullId>>, << >>, 9, 0),
   Document(Both, <<[left |-> PullId]>>, <<PullId, IssueId>>, << >>, 9, 0),
   Document(Pulls, << >>, <<PullId>>, << >>, 9, -1),
   Document(Both \o Pulls, << >>, <<PullId>>, << >>, 9, 0),
   Document(<<From("p", "asana")>>, << >>, <<PullId>>, << >>, 9, 0),
   Document(<< >>, << >>, << >>, << >>, 9, 0)}

OneSource ==
  {Sql(<<From("l", "gh_live")>>, Is("l", "repo_name", Api), << >>,
       << <<"l", "id">> >>, << >>, limit, 0) : limit \in {1, 3}}
  \cup {Sql(<<From("l", "gh_live")>>, << >>, << >>, << <<"l", "id">> >>, << >>, 1, offset) :
          offset \in {0, 1}}

\* The README's join of the live sources.
LiveJoin ==
  {Sql(<<From("l", "gh_live"), From("k", "jira_live")>>,
       Cmp(Col("k", "project_key"), op, Lit(OPS)), On("l", "linked_issue_key", "k", "id"),
       << <<"l", "id">>, <<"k", "id">> >>, << >>, 1, 0) : op \in {"=", "!="}}

MCProjects == {ENG, OPS}
MCRepos == <<Api, Web>>
MCQuery == SqlQueries \cup BadSql \cup Documents \cup OneSource \cup LiveJoin

\* As the theorem about the answers supposes (FederationProofs).
ASSUME AsSupposed == NoRepoTwice /\ TextsTell
=============================================================================
