------------------------------- MODULE Planner -------------------------------
(***************************************************************************)
(* From a query to the plans of its sources: planner.py, and the role's    *)
(* policy that entitlements.py bakes into them.                            *)
(*                                                                         *)
(* A query is what sqlglot parsed, or a plan document:                     *)
(*   form    "sql" or "plan"                                               *)
(*   from    its tables, with alias, and the predicates that a plan        *)
(*           document gives each of them                                   *)
(*   where   none, or the nodes of one WHERE tree, each after its own      *)
(*           (PlannerAssumption): and, paren, cmp, in, or other (OR, NOT,  *)
(*           LIKE ...); operands are columns, literals or expressions, and *)
(*           an IN over a subquery has no values                           *)
(*   join    none, or the two columns of ON; none, too, if ON is anything  *)
(*           but an equality of columns; a plan document may lack parts    *)
(*   select  columns <<alias, name>> or <<alias, name, AS>>, where alias   *)
(*           "" is none given, a star (IsStar), or << >>, any other        *)
(*           expression                                                    *)
(*   order   by columns, or by << >>, any other expression                 *)
(*   limit, offset                                                         *)
(***************************************************************************)
EXTENDS Predicates

CONSTANTS
  Source,     \* the tables of the schema catalog
  Catalog,    \* Catalog[s]: their columns
  Pushable,   \* Pushable[s]: the columns in pushable_filters
  Policy,     \* Policy[role][s]: filter (as where), masks and blocked
  Emails,     \* the values with an "@", and their masked form
  MaxRows

MaskNames == {"mask_email"}

\* The root of a tree is its last node; that of an operand, which comes before, is
\* the last of the operand's.
IsTree(tree) ==
  /\ tree \in Only(tree)
  /\ \A i \in DOMAIN tree :
       /\ tree[i].node = "and" => tree[i].right \in 1..i - 2
       /\ tree[i].node = "paren" => i > 1

ASSUME PlannerAssumption ==
  /\ MaxRows \in Nat \ {0} /\ IsFiniteSet(Source)
  /\ DOMAIN Catalog = Source /\ DOMAIN Pushable = Source
  /\ \A s \in Source : Catalog[s] \in Only(Catalog[s])
  /\ \A r \in DOMAIN Policy :
       /\ DOMAIN Policy[r] \subseteq Source
       /\ \A s \in DOMAIN Policy[r] : IsTree(Policy[r][s].filter)

-----------------------------------------------------------------------------
(* WHERE trees (planner.py), of queries and of the policy's row filters.   *)

IsColumn(node) == node[1] = "col"
IsLiteral(node) == node[1] = "lit"

\* The roots of the operands of an "and": the right one has so many nodes.
LeftOf(tree, i) == i - 1 - tree[i].right
RightOf(tree, i) == i - 1

\* The conditions under each node of a tree.
Flattened(tree) ==
  LET under[i \in DOMAIN tree] ==
        CASE tree[i].node = "and" -> under[LeftOf(tree, i)] \o under[RightOf(tree, i)]
          [] tree[i].node = "paren" -> under[RightOf(tree, i)]
          [] OTHER -> <<tree[i]>>
  IN  under

Flatten(tree) == IF tree = << >> THEN << >> ELSE Flattened(tree)[Len(tree)]

\* The predicate of a condition and the alias it names; none: InvalidSQL.
Parse(cond) ==
  CASE /\ cond.node = "in"
       /\ IsColumn(cond.this)
       /\ \A i \in DOMAIN cond.values : IsLiteral(cond.values[i])
         -> <<[alias |-> cond.this[2],
               pred |-> [column |-> cond.this[3], op |-> "IN",
                         value |-> [i \in DOMAIN cond.values |-> cond.values[i][2]]]]>>
    [] cond.node = "cmp" /\ IsColumn(cond.left) /\ IsLiteral(cond.right)
         -> <<[alias |-> cond.left[2],
               pred |-> [column |-> cond.left[3], op |-> cond.op, value |-> <<cond.right[2]>>]]>>
    [] OTHER -> << >>

\* The conditions of a tree, parsed one by one.
Parsed(where) == [i \in DOMAIN Flatten(where) |-> Parse(Flatten(where)[i])]

Unsupported(where) == \E i \in DOMAIN Parsed(where) : Parsed(where)[i] = << >>

-----------------------------------------------------------------------------
(* The plan (planner.py).                                                  *)

Aliases(q) == {q.from[i].alias : i \in DOMAIN q.from}

\* The last table of an alias takes the place of the others.
EntryOf(q, a) == q.from[Max({i \in DOMAIN q.from : q.from[i].alias = a})]
SourceOf(q, a) == EntryOf(q, a).source

\* A column without an alias is the first table's.
Resolve(q, a) == IF a = "" THEN q.from[1].alias ELSE a

Label(q, a, col) == IF q.join # << >> /\ a # "" THEN <<a, col>> ELSE <<"", col>>

\* SELECT *, or a table of a plan document that selects none of its columns.  To SQL
\* p.* is a column of that name, which no row has.
IsStar(q, item) == item[2] = "*" /\ (item[1] = "" \/ q.form = "plan")

\* The output columns, stars expanded.
Columns(q) ==
  FlattenSeq([i \in DOMAIN q.select |->
    LET item == q.select[i]
        a == Resolve(q, item[1])
        names == IF IsStar(q, item) THEN Catalog[SourceOf(q, a)] ELSE <<item[2]>>
    IN  [k \in DOMAIN names |->
          [alias |-> a, column |-> names[k],
           label |-> IF Len(item) = 3 THEN <<"", item[3]>> ELSE Label(q, item[1], names[k])]]])

\* plan_query's errors, in its order.
SqlError(q) ==
  CASE q.from[1].source \notin Source -> "INVALID_SQL"
    [] Len(q.from) > 2 -> "QUERY_TOO_COMPLEX"
    [] \/ \E i \in DOMAIN q.from : q.from[i].source \notin Source
       \/ Len(q.from) = 2 /\ q.join = << >>
       \/ Unsupported(q.where)
       \/ \E i \in DOMAIN Parsed(q.where) : Resolve(q, Parsed(q.where)[i][1].alias) \notin Aliases(q)
       \/ \E i \in DOMAIN q.select :
            \/ q.select[i] = << >>
            \/ Resolve(q, q.select[i][1]) \notin Aliases(q)
            \/ IsStar(q, q.select[i]) /\ q.join # << >>
         -> "INVALID_SQL"
    [] Len(q.order) > 1 -> "QUERY_TOO_COMPLEX"
    [] \/ \E i \in DOMAIN q.order : q.order[i].by = << >>
       \/ q.limit < 0 \/ q.offset < 0
         -> "INVALID_SQL"
    [] OTHER -> "no"

\* The operators of _OP_MAP, and IN.
Ops == {"=", "!=", ">", "<", ">=", "<=", "IN"}

\* plan_from_dict's: a limit may be negative there, and two tables unjoined.  A
\* predicate that lacks a part has no operator of Ops.
DocumentError(q) ==
  CASE q.from = << >> -> "INVALID_SQL"
    [] Len(q.from) > 2 -> "QUERY_TOO_COMPLEX"
    [] \/ \E i \in DOMAIN q.from :
            \/ q.from[i].source \notin Source
            \/ \E k \in DOMAIN q.from[i].where : q.from[i].where[k].op \notin Ops
       \/ q.join # << >> /\ DOMAIN q.join[1] # {"left", "right"}
       \/ q.offset < 0
         -> "INVALID_SQL"
    [] OTHER -> "no"

\* The predicates of alias a: those of a table whose alias is taken again stay
\* with the alias (SQL) or are lost with the table (plan document).
PredicatesOf(q, a) ==
  IF q.form = "plan" THEN EntryOf(q, a).where
  ELSE LET parsed == Parsed(q.where)
           mine == Selected(parsed, {i \in DOMAIN parsed : Resolve(q, parsed[i][1].alias) = a})
       IN  [i \in DOMAIN mine |-> mine[i][1].pred]

\* "Sources must fetch enough rows to satisfy offset+limit".
SourceLimit(q) == Min({MaxRows, q.offset + Min({q.limit, MaxRows})})

-----------------------------------------------------------------------------
(* The policy (entitlements.py).                                           *)

RowFilter(role, s) ==
  LET preds == Parsed(Policy[role][s].filter)
  IN  [i \in DOMAIN preds |-> preds[i][1].pred]

\* The error of one table of the query.
TableError(role, s) ==
  CASE s \notin DOMAIN Policy[role] -> "ENTITLEMENT_DENIED"
    [] Unsupported(Policy[role][s].filter) -> "INVALID_SQL"
    [] Range(Policy[role][s].masks) \ MaskNames # {} -> "ENTITLEMENT_DENIED"
    [] OTHER -> "no"

\* apply_entitlements: its tables in turn, then the columns.
EntitlementError(q, role) ==
  LET Error(i) == TableError(role, SourceOf(q, q.from[i].alias))
      refused == {i \in DOMAIN q.from : Error(i) # "no"}
  IN  CASE role \notin DOMAIN Policy -> "ENTITLEMENT_DENIED"
        [] refused # {} -> Error(Min(refused))
        [] \E c \in ToSet(Columns(q)) : c.column \in Policy[role][SourceOf(q, c.alias)].blocked
             -> "ENTITLEMENT_DENIED"
        [] OTHER -> "no"

\* The error that a query is refused with at plan time.
Refusal(q, role) ==
  LET error == IF q.form = "sql" THEN SqlError(q) ELSE DocumentError(q)
  IN  IF error # "no" THEN error ELSE EntitlementError(q, role)

\* The plan of the source of alias a, with the role's policy baked in.
SourcePlan(q, role, a) ==
  LET s == SourceOf(q, a)
      preds == PredicatesOf(q, a)
  IN  [source |-> s,
       pushed |-> Selected(preds, {i \in DOMAIN preds : preds[i].column \in Pushable[s]}),
       post |-> Selected(preds, {i \in DOMAIN preds : preds[i].column \notin Pushable[s]}),
       rls |-> RowFilter(role, s),
       masks |-> Policy[role][s].masks,
       limit |-> SourceLimit(q)]

Hidden == <<"str", 0>>
MaskEmail(v) == IF v \in DOMAIN Emails THEN Emails[v] ELSE Hidden
=============================================================================
