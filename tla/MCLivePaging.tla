---------------------------- MODULE MCLivePaging -----------------------------
(* Two repos of up to four pull requests, in pages of two; or a Jira project likewise.  *)
EXTENDS LivePaging

Str(n) == <<"str", n>>
Closed == Str(2)
Api == Str(3)
Web == Str(4)

\* Rows 1 to 4 are in one repo, 5 is number 1 of the other; the status of 1 and 3 changes.
PR(n, s) == [id |-> <<"int", IF n < 5 THEN n ELSE 1>>, state |-> s, repo_name |-> IF n < 5 THEN Api ELSE Web,
             project_key |-> IF n < 5 THEN Api ELSE Web]
MCVersion == {PR(n, Open) : n \in 1..5} \cup {PR(n, Closed) : n \in {1, 3}}
MCListed == {<<PR(5, Open), PR(4, Open), PR(3, Open), PR(2, Open), PR(1, Open)>>,
             <<PR(3, Closed), PR(1, Open), PR(2, Open), PR(4, Open)>>}

Want(preds, limit) == [pushed |-> preds, rls |-> << >>, limit |-> limit]
Pred(col, op, value) == [column |-> col, op |-> op, value |-> value]
MCPlan ==
  {Want(<< >>, n) : n \in {0, 2, 3}}
  \cup {Want(<<Pred("repo_name", "IN", <<Web, Api>>), Pred("id", "!=", << <<"int", 2>> >>)>>, 9),
        Want(<<Pred("project_key", "=", <<Api>>)>>, 9),
        Want(<<Pred("repo_name", "=", <<Str(9)>>)>>, 9)}
MCRepos == <<Api, Web>>
MCProjects == {Api, Web}
=============================================================================
