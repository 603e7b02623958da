----------------------------- MODULE Federation ------------------------------
(***************************************************************************)
(* What a query answers: the plan of its sources (Planner), their rows,    *)
(* live or cached (Sources, freshness.py), and the merge (executor.py).    *)
(*                                                                         *)
(* The sources are fixed here, and whether a cached entry is fresh is left *)
(* open: FreshnessCache is about time, this module about data.  There is   *)
(* one tenant; sources are tables (each connector has one).                *)
(***************************************************************************)
EXTENDS Planner, Sources

CONSTANTS
  Data,       \* Data[s]: the rows of table s
  Kind,       \* Kind[s]: "mock", or the live connector "github" or "jira"
  Role,
  Query,      \* the queries that are asked
  MaxEntries  \* bound: how many entries the cache may come to hold

\* A plan document selects of its own tables, and asks each of them what it asks;
\* SQL has its one WHERE.
IsQuery(q) ==
  /\ DOMAIN q = {"form", "from", "where", "join", "select", "order", "limit", "offset"}
  /\ q.form \in {"sql", "plan"} /\ q.limit \in Int /\ q.offset \in Int
  /\ q.from \in Only(q.from) /\ q.select \in Only(q.select) /\ IsTree(q.where)
  /\ \A i \in DOMAIN q.from : q.from[i].where \in Only(q.from[i].where)
  /\ q.form = "sql" => q.from # << >> /\ \A i \in DOMAIN q.from : q.from[i].where = << >>
  /\ q.form = "plan" =>
       /\ \A i \in DOMAIN q.select : Resolve(q, q.select[i][1]) \in Aliases(q)
       /\ q.where = << >>

\* A row filter is about its table, which it may call t (entitlements.py).
IsRowFilter(tree) ==
  \A i \in DOMAIN Parsed(tree) : Parsed(tree)[i] # << >> => Parsed(tree)[i][1].alias \in {"", "t"}

\* The values of a column are of one kind, or None.
OneKind(rows) ==
  \A i, j \in DOMAIN rows : \A c \in DOMAIN rows[i] \cap DOMAIN rows[j] :
    /\ IsValue(rows[i][c])
    /\ rows[i][c] # Null /\ rows[j][c] # Null => rows[i][c][1] = rows[j][c][1]

ASSUME FederationAssumption ==
  /\ MaxEntries \in Nat \ {0} /\ Repos \in Only(Repos)
  /\ DOMAIN Kind = Source /\ \A s \in Source : Kind[s] \in {"mock", "github", "jira"}
  /\ DOMAIN Data = Source /\ \A s \in Source : Data[s] \in Only(Data[s]) /\ OneKind(Data[s])
  /\ \A r \in DOMAIN Policy : \A s \in DOMAIN Policy[r] : IsRowFilter(Policy[r][s].filter)
  /\ \A v \in DOMAIN Emails : IsValue(Emails[v]) /\ Emails[v][1] = "str"
  /\ \A q \in Query : IsQuery(q)

VARIABLES
  cache,   \* the freshness cache: rows by <<source, fingerprint>>
  asked,   \* the query being answered, with the role of its caller
  answer   \* ... and its answer

vars == <<cache, asked, answer>>

CacheKey(sp) == <<sp.source, Fingerprint(sp)>>
Fetched(sp) == FetchRows(Kind[sp.source], sp, Data[sp.source])

-----------------------------------------------------------------------------
(* Executor.                                                               *)

\* The record of two rows; under one alias the second is left.
Record(bAlias, b, pAlias, p) == [a \in {bAlias, pAlias} |-> IF a = pAlias THEN p ELSE b]

\* Slip: the hash table keeps the last row of a key.
HashJoinLastWins(build, bAlias, bCol, probe, pAlias, pCol) ==
  FlattenSeq([i \in DOMAIN probe |->
    LET hits == Selected(build, {j \in DOMAIN build : Get(build[j], bCol) = Get(probe[i], pCol)})
    IN  IF hits = <<>> THEN <<>> ELSE <<Record(bAlias, Last(hits), pAlias, probe[i])>>])

\* Every probe row, in turn, with every row of the hash table under its key.
HashJoin(build, bAlias, bCol, probe, pAlias, pCol) ==
  FlattenSeq([i \in DOMAIN probe |->
    LET hits == Selected(build, {j \in DOMAIN build : Get(build[j], bCol) = Get(probe[i], pCol)})
    IN  [k \in DOMAIN hits |-> Record(bAlias, hits[k], pAlias, probe[i])]])

\* The alias-keyed records; the smaller side of a join is the one built.
Records(q, rows) ==
  IF q.join = <<>>
  THEN LET a == q.from[1].alias
       IN  [i \in DOMAIN rows[a] |-> [b \in {a} |-> rows[a][i]]]
  ELSE LET l == q.join[1].left
           r == q.join[1].right
       IN  IF Len(rows[l[1]]) <= Len(rows[r[1]])
           THEN HashJoin(rows[l[1]], l[1], l[2], rows[r[1]], r[1], r[2])
           ELSE HashJoin(rows[r[1]], r[1], r[2], rows[l[1]], l[1], l[2])

\* The cell of a record under an output column.
Cell(rec, c) == IF c.alias \in DOMAIN rec THEN Get(rec[c.alias], c.column) ELSE Null

\* Slip: the column that the rows are to be sorted by is left in them.
ShownWithSortKey(q, plans, rec) ==
  LET cols == Columns(q)
  IN  [i \in DOMAIN cols |-> Cell(rec, cols[i])] \o [i \in DOMAIN q.order |-> Null]

\* The output row of a record.
Shown(q, plans, rec) ==
  LET cols == Columns(q)
  IN  [i \in DOMAIN cols |->
        LET value == Cell(rec, cols[i])
        IN  IF cols[i].column \in DOMAIN plans[cols[i].alias].masks THEN MaskEmail(value) ELSE value]

\* The output columns under the label to sort by, if any; a plan document gives
\* the label itself.
OrderedBy(q) ==
  IF q.order = << >> THEN {}
  ELSE LET by == q.order[1].by
           label == IF q.form = "sql" THEN Label(q, by[1], by[2]) ELSE by
           cols == Columns(q)
       IN  {i \in DOMAIN cols : cols[i].label = label}

\* key=(is None, value), reverse=desc.
SortsBefore(q, v, w) ==
  LET After(x, y) == x # y /\ (x = Null \/ (y # Null /\ Less(y, x)))
  IN  IF q.order[1].desc THEN After(v, w) ELSE After(w, v)

\* list.sort is stable, also in reverse.
Precedes(q, rows, i, j) ==
  LET c == Min(OrderedBy(q))
  IN  \/ SortsBefore(q, rows[i][c], rows[j][c])
      \/ i < j /\ ~SortsBefore(q, rows[j][c], rows[i][c])

\* The place that row j is moved to.
Place(q, rows, j) == Cardinality({i \in DOMAIN rows \ {j} : Precedes(q, rows, i, j)}) + 1

Sorted(q, rows) ==
  IF OrderedBy(q) = {} THEN rows
  ELSE [k \in DOMAIN rows |-> rows[CHOOSE j \in DOMAIN rows : Place(q, rows, j) = k]]

\* Slip: the limit counts from the first row, not from the offset.
SliceFromStart(q, rows) == SubSeq(rows, q.offset + 1, Min({Len(rows), q.limit, MaxRows}))

\* rows[offset : offset + limit], where a negative end counts from the last.
Slice(q, rows) ==
  LET end == q.offset + Min({q.limit, MaxRows})
  IN  SubSeq(rows, q.offset + 1, Min({Len(rows), IF end < 0 THEN Len(rows) + end ELSE end}))

\* post_predicates, then the join, the projection, the order and the slice.
Merge(q, plans, fetched) ==
  LET rows == [a \in Aliases(q) |-> Filter(fetched[a], plans[a].post)]
      recs == Records(q, rows)
  IN  Slice(q, Sorted(q, [i \in DOMAIN recs |-> Shown(q, plans, recs[i])]))

\* _hash_join finds its sides by alias: KeyError.
JoinsUnknown(q) ==
  q.join # <<>> /\ {q.join[1].left[1], q.join[1].right[1]} \ Aliases(q) # {}

-----------------------------------------------------------------------------

Plans(q, role) == [a \in Aliases(q) |-> SourcePlan(q, role, a)]

None == [status |-> "none", rows |-> << >>]

Init == cache = << >> /\ asked = << >> /\ answer = None

\* The query is refused at plan time.
Refuse(role, q) ==
  /\ answer = None /\ Refusal(q, role) # "no"
  /\ asked' = <<role, q>>
  /\ answer' = [status |-> Refusal(q, role), rows |-> << >>]
  /\ UNCHANGED cache

\* The query is executed; any of its sources whose rows are cached may be served
\* from the cache, the others are fetched and stored.
Execute(role, q) ==
  /\ answer = None /\ Refusal(q, role) = "no"
  /\ LET plans == Plans(q, role)
         key == [a \in Aliases(q) |-> CacheKey(plans[a])]
     IN  \E hits \in SUBSET {a \in Aliases(q) : key[a] \in DOMAIN cache} :
           LET misses == Aliases(q) \ hits
               fetched == [a \in Aliases(q) |->
                 IF a \in hits THEN cache[key[a]] ELSE Fetched(plans[a])]
           IN  /\ cache' = [k \in DOMAIN cache \cup {key[a] : a \in misses} |->
                             IF \E a \in misses : key[a] = k
                             THEN fetched[CHOOSE a \in misses : key[a] = k]
                             ELSE cache[k]]
               /\ Cardinality(DOMAIN cache') <= MaxEntries
               /\ answer' = IF JoinsUnknown(q)
                            THEN [status |-> "crashed", rows |-> << >>]
                            ELSE [status |-> "ok", rows |-> Merge(q, plans, fetched)]
  /\ asked' = <<role, q>>

\* The answer is sent.
Return ==
  /\ answer # None
  /\ asked' = << >> /\ answer' = None
  /\ UNCHANGED cache

Next == Return \/ \E role \in Role, q \in Query : Refuse(role, q) \/ Execute(role, q)

Spec == Init /\ [][Next]_vars

-----------------------------------------------------------------------------
(* The reference: what a query means, over the sources themselves.         *)

\* A condition on a match, given as rows by alias; every column is of one of them.
\* It is about the conditions that Unsupported leaves.
Satisfies(cond, q, rec) ==
  \/ /\ cond.node = "in"
     /\ cond.this[3] \in DOMAIN rec[Resolve(q, cond.this[2])]
     /\ \E i \in DOMAIN cond.values :
          rec[Resolve(q, cond.this[2])][cond.this[3]] = cond.values[i][2]
  \/ /\ cond.node = "cmp"
     /\ Matches([column |-> cond.left[3], op |-> cond.op, value |-> <<cond.right[2]>>],
                rec[Resolve(q, cond.left[2])])

\* A tree on a match.
Holds(tree, q, rec) ==
  LET holds[i \in DOMAIN tree] ==
        CASE tree[i].node = "and" -> holds[LeftOf(tree, i)] /\ holds[RightOf(tree, i)]
          [] tree[i].node = "paren" -> holds[RightOf(tree, i)]
          [] OTHER -> Satisfies(tree[i], q, rec)
  IN  tree # << >> => holds[Len(tree)]

RowOf(q, a, i) == Data[SourceOf(q, a)][i]

\* The tables whose rows make a match: both of a join, else the first.
Joined(q) == IF q.join = << >> THEN {q.from[1].alias} ELSE {q.join[1].left[1], q.join[1].right[1]}

\* The rows of a table that the role may see and a plan document asks for.
Seen(q, role, a) ==
  {i \in DOMAIN Data[SourceOf(q, a)] :
     /\ Holds(Policy[role][SourceOf(q, a)].filter,
              [from |-> <<[alias |-> "t"]>>], [t \in {"t"} |-> RowOf(q, a, i)])
     /\ MatchesAll(RowOf(q, a, i), EntryOf(q, a).where)}

\* The matches of a query: row numbers by alias.  A null equals a null, as None
\* does.
Matched(q, role) ==
  {m \in [Joined(q) -> 1..Max({Len(Data[s]) : s \in Source})] :
     /\ \A a \in Joined(q) : m[a] \in Seen(q, role, a)
     /\ Holds(q.where, q, [a \in Joined(q) |-> RowOf(q, a, m[a])])
     /\ q.join # << >> =>
          LET l == q.join[1].left
              r == q.join[1].right
          IN  Get(RowOf(q, l[1], m[l[1]]), l[2]) = Get(RowOf(q, r[1], m[r[1]]), r[2])}

\* What the role is shown of a match: masked columns never as they are.
View(q, role, m) ==
  LET cols == Columns(q)
  IN  [k \in DOMAIN cols |->
        LET a == cols[k].alias
            col == cols[k].column
            cell == IF a \in DOMAIN m THEN Get(RowOf(q, a, m[a]), col) ELSE Null
        IN  IF col \notin DOMAIN Policy[role][SourceOf(q, a)].masks THEN cell
            ELSE IF cell \in DOMAIN Emails THEN Emails[cell] ELSE Hidden]

\* Every table of the query keeps its alias, and the join relates two of them.
WellFormed(q) ==
  /\ Cardinality(Aliases(q)) = Len(q.from)
  /\ q.limit >= 0
  /\ q.join # << >> => q.join[1].left[1] # q.join[1].right[1]

WindowSize(q, role) ==
  Max({0, Min({q.limit, MaxRows, Cardinality(Matched(q, role)) - q.offset})})

Count(S, P(_)) == Cardinality({x \in S : P(x)})

\* With an order on an output column (the first under its label), the window holds of
\* each value of the column as many rows as its place among all the matches allows.
IsWindow(q, role, rows) ==
  OrderedBy(q) # {} =>
    LET c == Min(OrderedBy(q))
        all == Matched(q, role)
        key(m) == View(q, role, m)[c]
    IN  /\ \A i, j \in DOMAIN rows : i < j => ~SortsBefore(q, rows[j][c], rows[i][c])
        /\ \A v \in {key(m) : m \in all} :
             LET before == Count(all, LAMBDA m : SortsBefore(q, key(m), v))
                 upTo == before + Count(all, LAMBDA m : key(m) = v)
             IN  Count(DOMAIN rows, LAMBDA i : rows[i][c] = v)
                   = Max({0, Min({upTo, q.offset + Min({q.limit, MaxRows})}) - Max({before, q.offset})})

-----------------------------------------------------------------------------

Answered == answer.status = "ok" /\ WellFormed(asked[2])

TypeOK ==
  /\ \A k \in DOMAIN cache : k[1] \in Source /\ ToSet(cache[k]) \subseteq ToSet(Data[k[1]])
  /\ answer.status \in {"none", "ok", "crashed", "INVALID_SQL", "QUERY_TOO_COMPLEX",
                        "ENTITLEMENT_DENIED"}
  /\ \A i \in DOMAIN answer.rows : Len(answer.rows[i]) = Len(Columns(asked[2]))

\* No repo is configured twice: its rows would be answered twice.
NoRepoTwice == \A i, j \in DOMAIN Repos : Repos[i] = Repos[j] => i = j

\* No column is compared with two values of one text, as 1 and '1' are: they would
\* share an entry.
TextsTell ==
  \A q, r \in Query, role, other \in Role :
    Refusal(q, role) = "no" /\ Refusal(r, other) = "no" =>
      \A a \in Aliases(q), b \in Aliases(r) : SourceOf(q, a) = SourceOf(r, b) =>
        \A p \in ToSet(ServerFilters(SourcePlan(q, role, a))),
           o \in ToSet(ServerFilters(SourcePlan(r, other, b))) :
          Text(p) = Text(o) => p.value = o.value

\* Whatever was cached, and for whom, a row that is answered is what this role may
\* see of a match of this query, no match is answered twice and no column, not even
\* of a star, is one that the role may not select ("no
\* cross-tenant/cross-role cache bleed", README.md:304).
OnlyEntitledMatches ==
  Answered =>
    LET role == asked[1]
        q == asked[2]
    IN  /\ \A c \in ToSet(Columns(q)) : c.column \notin Policy[role][SourceOf(q, c.alias)].blocked
        /\ \A v \in ToSet(answer.rows) :
          Count(DOMAIN answer.rows, LAMBDA i : answer.rows[i] = v)
            <= Count(Matched(q, role), LAMBDA m : View(q, role, m) = v)

\* Over sources that are not paged the answer is complete: the split between
\* source and executor, the cache and the side of the join that is built make no
\* difference to the query's window (planner.py, executor.py).
AnswersQuery ==
  Answered /\ (\A a \in Aliases(asked[2]) : Kind[SourceOf(asked[2], a)] = "mock") =>
    /\ Len(answer.rows) = WindowSize(asked[2], asked[1])
    /\ IsWindow(asked[2], asked[1], answer.rows)

\* Tables with entries of their own in the cache: those of one entry may have been
\* served from two fetches of it.
OwnEntries(q, role) ==
  \A a, b \in Aliases(q) :
    CacheKey(SourcePlan(q, role, a)) = CacheKey(SourcePlan(q, role, b)) => a = b

\* Asked page by page, over the entries that it left in the cache, a query answers
\* the same rows in the same order: pages neither overlap nor skip
\* (tests/test_pagination.py).
PagesPartition ==
  Answered /\ OwnEntries(asked[2], asked[1]) =>
    LET q == asked[2]
        plans == Plans(q, asked[1])
        cached == [a \in Aliases(q) |-> cache[CacheKey(plans[a])]]
        limit == Min({q.limit, MaxRows})
        Page(offset, n) ==
          Merge([q EXCEPT !.offset = offset, !.limit = n], plans, cached)
    IN  \A k \in 1..limit : answer.rows = Page(q.offset, k) \o Page(q.offset + k, limit - k)

-----------------------------------------------------------------------------

(* What the repository says of the data path and the code does not do.     *)

\* "Sources must fetch enough rows to satisfy offset+limit before slicing"
\* (planner.py:207): an answer is short only when the matches are.
SourcesFetchEnough ==
  Answered => Len(answer.rows) = WindowSize(asked[2], asked[1])


=============================================================================
