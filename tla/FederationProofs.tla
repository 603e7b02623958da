--------------------------- MODULE FederationProofs ---------------------------
(***************************************************************************)
(* What holds of every answer, whatever the queries, the policy, the       *)
(* tables and the connectors are:                                          *)
(*                                                                         *)
(*   TypesAreKept            TypeOK                                        *)
(*   PagesArePartition       PagesPartition                                *)
(*   OnlyEntitledIsAnswered  OnlyEntitledMatches                           *)
(*   AnswersAreComplete      AnswersQuery                                  *)
(*                                                                         *)
(* The rows of an answer are followed back through what made them: slice   *)
(* (SliceIsPart), order (ListedIs), join (RecordsAre), post-filter and     *)
(* source (PostedScoped, FetchIsScoped), each of which takes some of the   *)
(* rows and none twice (IsPart).  A fetch is scoped when all of its rows   *)
(* match what its plan has the source filter; that the cache keeps such    *)
(* fetches under their keys (CacheScoped) is the invariant behind          *)
(* OnlyEntitledIsAnswered.                                                 *)
(*                                                                         *)
(* The last theorem goes the other way: nothing that the query asks for is *)
(* left out.  Over sources that are not paged an entry is the fetch itself *)
(* (CacheWhole); the rows of a match pass what plan and row filter ask     *)
(* (MatchAsks), the post-filter keeps them (PostedIsAsked) and the join    *)
(* makes a record of them (MatchIsRecord), so the list before the slice is *)
(* one of all the matches (Lists), and the slice is counted                *)
(* (SliceIsWindow).                                                        *)
(***************************************************************************)
EXTENDS Federation, SelectionLemmas

-----------------------------------------------------------------------------
(* Sequences, whatever of.                                                 *)

\* A sequence over T is one over its own elements, which are of T.
LEMMA OnlyIs ==
  ASSUME NEW T, NEW s \in Seq(T)
  PROVE  s \in Only(s) /\ ToSet(s) \subseteq T
<1>1. Len(s) \in Nat /\ DOMAIN s = 1..Len(s) /\ s \in [1..Len(s) -> T]
  BY LenProperties
<1>2. \A k \in 1..Len(s) : s[k] \in ToSet(s)
  BY <1>1 DEF ToSet
<1>3. s = [k \in 1..Len(s) |-> s[k]]
  BY <1>1
<1>4. s \in Seq(ToSet(s))
  BY <1>1, <1>2, <1>3, IsASeq
<1>5. ToSet(s) \subseteq T
  BY <1>1 DEF ToSet
<1> QED BY <1>4, <1>5 DEF Only

\* What a sequence over its own elements is.
LEMMA OnlyGives ==
  ASSUME NEW s, s \in Only(s)
  PROVE  /\ Len(s) \in Nat /\ DOMAIN s = 1..Len(s) /\ s \in Seq(ToSet(s))
         /\ \A i \in DOMAIN s : s[i] \in ToSet(s)
BY LenProperties DEF Only, ToSet

\* A function on 1..n is a sequence.
LEMMA MadeOnly ==
  ASSUME NEW n \in Nat, NEW s, s = [k \in 1..n |-> s[k]]
  PROVE  s \in Only(s) /\ Len(s) = n /\ DOMAIN s = 1..n
<1>1. DOMAIN s = 1..n
  OBVIOUS
<1>2. \A k \in 1..n : s[k] \in ToSet(s)
  BY <1>1 DEF ToSet
<1>3. s \in Seq(ToSet(s))
  BY <1>2, IsASeq
<1>4. Len(s) \in Nat /\ DOMAIN s = 1..Len(s)
  BY <1>3, LenProperties
<1>5. Len(s) = n
  <2>1. CASE n = 0
    <3>1. ~(1 \in 1..Len(s))
      BY <1>1, <1>4, <2>1
    <3> QED BY <1>4, <2>1, <3>1
  <2>2. CASE n > 0
    <3>1. n \in 1..Len(s) /\ (Len(s) > 0 => Len(s) \in 1..n)
      BY <1>1, <1>4, <2>2
    <3> QED BY <1>4, <2>2, <3>1
  <2> QED BY <2>1, <2>2
<1> QED BY <1>1, <1>3, <1>5 DEF Only

\* What is put together from sequences is one, of their elements.
LEMMA FlattenOnly ==
  ASSUME NEW n \in Nat, NEW seqs, seqs = [i \in 1..n |-> seqs[i]],
         \A i \in 1..n : seqs[i] \in Only(seqs[i])
  PROVE  /\ FlattenSeq(seqs) \in Only(FlattenSeq(seqs))
         /\ \A x \in ToSet(FlattenSeq(seqs)) : \E i \in 1..n : x \in ToSet(seqs[i])
<1> DEFINE T == UNION {ToSet(seqs[i]) : i \in 1..n}
<1>1. ASSUME NEW i \in 1..n
      PROVE  seqs[i] \in Seq(T)
  <2>1. seqs[i] \in Seq(ToSet(seqs[i]))
    BY DEF Only
  <2>2. Len(seqs[i]) \in Nat /\ seqs[i] \in [1..Len(seqs[i]) -> ToSet(seqs[i])]
    BY <2>1, LenProperties
  <2>3. ToSet(seqs[i]) \subseteq T
    OBVIOUS
  <2> HIDE DEF T
  <2>4. seqs[i] = [k \in 1..Len(seqs[i]) |-> seqs[i][k]] /\ \A k \in 1..Len(seqs[i]) : seqs[i][k] \in T
    BY <2>2, <2>3
  <2> QED BY <2>2, <2>4, IsASeq
<1>2. \A x \in T : \E i \in 1..n : x \in ToSet(seqs[i])
  OBVIOUS
<1> HIDE DEF T
<1>3. seqs \in Seq(Seq(T))
  BY <1>1, IsASeq
<1>4. FlattenSeq(seqs) \in Seq(T)
  BY <1>3, FlattenType
<1> DEFINE all == FlattenSeq(seqs)
<1> HIDE DEF all
<1>5. all \in Only(all) /\ ToSet(all) \subseteq T
  BY <1>4, OnlyIs DEF all
<1> QED BY <1>2, <1>5 DEF all

\* A filter leaves rows of the table.
LEMMA FilterOnly ==
  ASSUME NEW T, NEW rows \in Seq(T), NEW preds
  PROVE  Filter(rows, preds) \in Seq(T)
<1> DEFINE S == {i \in DOMAIN rows : MatchesAll(rows[i], preds)}
<1>1. S \in SUBSET (DOMAIN rows)
  OBVIOUS
<1> HIDE DEF S
<1>2. Selected(rows, S) \in Seq(T)
  BY <1>1, SelectedType
<1> QED BY <1>2 DEF Filter, S

-----------------------------------------------------------------------------
(* What a source returns.                                                  *)

\* The sizes of pages.
LEMMA SizesAre == PageSize \in Nat \ {0} /\ PageLimit \in Nat \ {0}
BY SourcesAssumption

\* A product of naturals is one.
LEMMA TimesIs ==
  ASSUME NEW i \in Nat, NEW j \in Nat
  PROVE  i * j \in Nat
OBVIOUS

\* The beginning of a list, as far as there is any.
LEMMA FrontIs ==
  ASSUME NEW T, NEW list \in Seq(T), NEW i \in Int, NEW j \in Int
  PROVE  SubSeq(list, 1, Min({Len(list), i, j})) \in Seq(T)
<1> DEFINE n == Len(list)
           e == Min({n, i, j})
<1>1. n \in Nat /\ n \in Int
  BY LenProperties
<1> HIDE DEF n
<1>2. e \in {n, i, j} /\ e <= n
  BY <1>1, LeastOfThree
<1>3. e \in Int
  BY <1>1, <1>2
<1> HIDE DEF e
<1>4. e <= Len(list) /\ 1 \in Nat \ {0}
  BY <1>2 DEF n
<1>5. SubSeq(list, 1, e) \in Seq(T)
  BY <1>3, <1>4, PartIs
<1> QED BY <1>5 DEF e, n

\* How many rows a live fetch aims at.
LEMMA TargetIs ==
  ASSUME NEW sp, sp.limit \in Int
  PROVE  Target(sp) \in Int
<1> DEFINE l == sp.limit
<1>1. l \in Int /\ 1 \in Int
  OBVIOUS
<1>2. PageLimit * PageSize \in Nat
  BY SizesAre, TimesIs
<1> HIDE DEF l
<1>3. Max({l, 1}) \in {l, 1}
  BY <1>1, LesserOfTwo
<1> QED BY <1>1, <1>2, <1>3 DEF Target, l

\* One repo more: rows of the table still.
LEMMA WithRepoType ==
  ASSUME NEW T, NEW rows \in Seq(T), NEW sp, sp.limit \in Int, NEW r, NEW got \in Seq(T)
  PROVE  WithRepo(sp, rows, r, got) \in Seq(T)
<1> DEFINE S == {i \in DOMAIN rows : Get(rows[i], "repo_name") = r /\ rows[i]["state"] = State(sp)}
           list == GitHubListing(sp, r, rows)
           n == Target(sp) - Len(got)
           size == ((n + PageSize - 1) \div PageSize) * PageSize
           most == PageLimit * PageSize
<1>1. list \in Seq(T)
  <2>1. S \in SUBSET (DOMAIN rows)
    OBVIOUS
  <2> HIDE DEF S
  <2>2. Selected(rows, S) \in Seq(T)
    BY <2>1, SelectedType
  <2> QED BY <2>2 DEF GitHubListing, S
<1>2. n \in Int
  BY TargetIs, LenProperties
<1> HIDE DEF n, list
<1>3. size \in Int /\ most \in Int
  <2>1. (n + PageSize - 1) \div PageSize \in Int
    BY <1>2, SizesAre
  <2>2. most \in Nat
    BY SizesAre, TimesIs
  <2> QED BY <2>1, <2>2, SizesAre
<1> HIDE DEF size, most
<1>4. SubSeq(list, 1, Min({Len(list), size, most})) \in Seq(T)
  BY <1>1, <1>3, FrontIs
<1>5. WholePages(list, n) \in Seq(T)
  BY <1>4 DEF WholePages, size, most
<1>6. got \o WholePages(list, n) \in Seq(T)
  BY <1>5, ConcatProperties
<1> QED BY <1>6 DEF WithRepo, list, n

\* f[n] is what is read of the first n repos.
GotBy(f, T, sp, rows) ==
  LET m == Len(GitHubRepos(sp))
  IN  /\ m \in Nat /\ f \in [0..m -> Seq(T)] /\ f[0] = << >>
      /\ \A n \in 1..m : f[n] = WithRepo(sp, rows, GitHubRepos(sp)[n], f[n - 1])
      /\ GitHubRows(sp, rows) = f[m]

\* The rows got after each repo, as a function with the recursion that Sources states.
LEMMA GitHubGotIs ==
  ASSUME NEW T, NEW rows \in Seq(T), NEW sp, sp.limit \in Int
  PROVE  \E f : GotBy(f, T, sp, rows)
<1> DEFINE repos == GitHubRepos(sp)
           m == Len(repos)
           step == [n \in 1..m |-> [x \in Seq(T) |-> WithRepo(sp, rows, repos[n], x)]]
           Is(h) == h = [n \in 0..m |-> IF n = 0 THEN << >> ELSE WithRepo(sp, rows, repos[n], h[n - 1])]
<1>1. m \in Nat
  <2> DEFINE S == {i \in DOMAIN Repos : Wanted(ServerFilters(sp), "repo_name") = {} \/ Repos[i] \in Wanted(ServerFilters(sp), "repo_name")}
  <2>1. S \in SUBSET (DOMAIN Repos) /\ Repos \in Seq(ToSet(Repos))
    BY FederationAssumption DEF Only
  <2>2. repos = Selected(Repos, S)
    BY DEF GitHubRepos
  <2> HIDE DEF S, repos
  <2>3. repos \in Seq(ToSet(Repos))
    BY <2>1, <2>2, SelectedType
  <2> QED BY <2>3, LenProperties
<1>2. GitHubRows(sp, rows) = (CHOOSE h : Is(h))[m]
  BY DEF GitHubRows, GitHubGot
<1> HIDE DEF repos, m
<1>3. step \in [1..m -> [Seq(T) -> Seq(T)]]
  BY WithRepoType
<1>4. PICK f \in [0..m -> Seq(T)] : f[0] = << >> /\ \A n \in 1..m : f[n] = step[n][f[n - 1]]
  <2>1. << >> \in Seq(T)
    BY EmptySeq
  <2> HIDE DEF Is, step
  <2>2. \E f : Steps(f, Seq(T), << >>, m, step)
    BY <1>1, <1>3, <2>1, StepsExist
  <2> QED BY <2>2 DEF Steps
<1>5. ASSUME NEW n \in 1..m
      PROVE  f[n] = WithRepo(sp, rows, repos[n], f[n - 1])
  <2>1. n - 1 \in 0..m
    BY <1>1
  <2>2. f[n - 1] \in Seq(T)
    BY <2>1
  <2> QED BY <1>4, <2>2
<1> HIDE DEF step
<1>6. Is(f)
  <2>1. \A n \in 0..m : n # 0 => n \in 1..m
    BY <1>1
  <2>2. \A n \in 0..m : f[n] = IF n = 0 THEN << >> ELSE WithRepo(sp, rows, repos[n], f[n - 1])
    BY <1>4, <1>5, <2>1
  <2> QED BY <2>2
<1> DEFINE h == CHOOSE x : Is(x)
<1>7. Is(h)
  <2> HIDE DEF Is
  <2> QED BY <1>6
<1>8. \A n \in 0..m : f[n] = h[n]
  <2>1. f[0] = h[0]
    <3>1. 0 \in 0..m
      BY <1>1
    <3> QED BY <1>4, <1>7, <3>1
  <2>2. ASSUME NEW n \in 1..m, f[n - 1] = h[n - 1]
        PROVE  f[n] = h[n]
    <3>1. n \in 0..m /\ n # 0
      BY <1>1
    <3>2. h[n] = WithRepo(sp, rows, repos[n], h[n - 1])
      BY <1>7, <3>1
    <3> QED BY <1>5, <2>2, <3>2
  <2>3. GoOnAlike(f, h, m)
    BY <2>2 DEF GoOnAlike
  <2> HIDE DEF Is, h
  <2>4. AlikeTo(f, h, m)
    BY <1>1, <2>1, <2>3, StepwiseSame
  <2> QED BY <2>4 DEF AlikeTo
<1>9. m \in 0..m
  BY <1>1
<1>10. GitHubRows(sp, rows) = f[m]
  BY <1>2, <1>8, <1>9
<1>11. GotBy(f, T, sp, rows)
  BY <1>1, <1>4, <1>5, <1>10 DEF GotBy, m, repos
<1> QED BY <1>11

\* A GitHub fetch has rows of the table.
LEMMA GitHubType ==
  ASSUME NEW T, NEW rows \in Seq(T), NEW sp, sp.limit \in Int
  PROVE  GitHubRows(sp, rows) \in Seq(T)
<1>1. PICK f : GotBy(f, T, sp, rows)
  BY GitHubGotIs
<1>2. Len(GitHubRepos(sp)) \in 0..Len(GitHubRepos(sp))
  BY <1>1 DEF GotBy
<1> QED BY <1>1, <1>2 DEF GotBy

\* A Jira fetch has rows of the table.
LEMMA JiraType ==
  ASSUME NEW T, NEW rows \in Seq(T), NEW sp, sp.limit \in Int
  PROVE  JiraRows(sp, rows) \in Seq(T)
<1> DEFINE S == {i \in DOMAIN rows : Finds(sp, rows[i])}
           list == JiraListing(sp, rows)
           i == Target(sp)
           j == PageLimit * PageSize
<1>1. list \in Seq(T)
  <2>1. S \in SUBSET (DOMAIN rows)
    OBVIOUS
  <2> HIDE DEF S
  <2>2. Selected(rows, S) \in Seq(T)
    BY <2>1, SelectedType
  <2> QED BY <2>2 DEF JiraListing, S
<1>2. i \in Int /\ j \in Int
  <2>1. j \in Nat
    BY SizesAre, TimesIs
  <2> QED BY <2>1, TargetIs
<1> HIDE DEF list, i, j
<1>3. SubSeq(list, 1, Min({Len(list), i, j})) \in Seq(T)
  BY <1>1, <1>2, FrontIs
<1> QED BY <1>3 DEF JiraRows, list, i, j

\* A fetch returns rows of its table.
LEMMA FetchedIs ==
  ASSUME NEW sp, sp.source \in Source, sp.limit \in Int
  PROVE  Fetched(sp) \in Seq(ToSet(Data[sp.source]))
<1> DEFINE rows == Data[sp.source]
           T == ToSet(rows)
           kind == Kind[sp.source]
<1>1. rows \in Seq(T) /\ kind \in {"mock", "github", "jira"}
  BY FederationAssumption DEF Only
<1> HIDE DEF rows, T, kind
<1> DEFINE got == CASE kind = "mock" -> rows
                    [] kind = "github" -> GitHubRows(sp, rows)
                    [] kind = "jira" -> JiraRows(sp, rows)
<1>2. got \in Seq(T)
  BY <1>1, GitHubType, JiraType
<1> HIDE DEF got
<1>3. Filter(got, ServerFilters(sp)) \in Seq(T)
  BY <1>2, FilterOnly
<1> QED BY <1>3 DEF Fetched, FetchRows, got, rows, kind, T

-----------------------------------------------------------------------------
(* A query that is not refused.                                            *)

Refusals == {"INVALID_SQL", "QUERY_TOO_COMPLEX", "ENTITLEMENT_DENIED"}

\* The ways in which a query may be refused (errors.py).
LEMMA RefusalIs ==
  ASSUME NEW q, NEW role
  PROVE  Refusal(q, role) \in Refusals \cup {"no"}
<1>1. SqlError(q) \in Refusals \cup {"no"}
  BY DEF SqlError, Refusals
<1>2. DocumentError(q) \in Refusals \cup {"no"}
  BY DEF DocumentError, Refusals
<1>3. \A s : TableError(role, s) \in Refusals \cup {"no"}
  BY DEF TableError, Refusals
<1>4. EntitlementError(q, role) \in Refusals \cup {"no"}
  BY <1>3 DEF EntitlementError, Refusals
<1> QED BY <1>1, <1>2, <1>4 DEF Refusal

\* What the planners and the policy see to before anything is fetched.
LEMMA NotRefused ==
  ASSUME NEW q \in Query, NEW role, Refusal(q, role) = "no"
  PROVE  /\ q.from # << >> /\ \A i \in DOMAIN q.from : q.from[i].source \in Source
         /\ q.offset \in Nat
         /\ \A i \in DOMAIN q.select : Resolve(q, q.select[i][1]) \in Aliases(q)
         /\ EntitlementError(q, role) = "no"
<1>1. IsQuery(q)
  BY FederationAssumption
<1>2. CASE q.form = "sql"
  <2>1. SqlError(q) = "no" /\ EntitlementError(q, role) = "no"
    BY <1>2 DEF Refusal
  <2>2. /\ \A i \in DOMAIN q.from : q.from[i].source \in Source
        /\ \A i \in DOMAIN q.select : Resolve(q, q.select[i][1]) \in Aliases(q)
        /\ ~(q.limit < 0 \/ q.offset < 0)
    BY <2>1 DEF SqlError
  <2> QED BY <1>1, <1>2, <2>1, <2>2 DEF IsQuery
<1>3. CASE q.form # "sql"
  <2>1. DocumentError(q) = "no" /\ EntitlementError(q, role) = "no"
    BY <1>3 DEF Refusal
  <2>2. /\ q.from # << >> /\ \A i \in DOMAIN q.from : q.from[i].source \in Source
        /\ ~(q.offset < 0)
    BY <2>1 DEF DocumentError
  <2> QED BY <1>1, <1>3, <2>1, <2>2 DEF IsQuery
<1> QED BY <1>2, <1>3

\* The entry of an alias is one of the query's.
LEMMA EntryIs ==
  ASSUME NEW q \in Query, NEW a \in Aliases(q)
  PROVE  \E i \in DOMAIN q.from : q.from[i].alias = a /\ EntryOf(q, a) = q.from[i]
<1> DEFINE S == {i \in DOMAIN q.from : q.from[i].alias = a}
<1>1. q.from \in Only(q.from)
  BY FederationAssumption DEF IsQuery
<1>2. DOMAIN q.from = 1..Len(q.from) /\ Len(q.from) \in Nat
  BY <1>1, OnlyGives
<1>3. S \in SUBSET (1..Len(q.from)) /\ IsFiniteSet(1..Len(q.from))
  BY <1>2, FS_Interval
<1>4. S # {}
  BY DEF Aliases
<1> HIDE DEF S
<1>5. S \in SUBSET Int /\ IsFiniteSet(S)
  <2>1. \A i \in 1..Len(q.from) : i \in Int
    BY <1>2
  <2>2. S \in SUBSET Int
    BY <1>3, <2>1
  <2> QED BY <1>3, <2>2, FS_Subset
<1>6. Max(S) \in S
  BY <1>4, <1>5, MaxIsLast
<1> QED BY <1>6 DEF EntryOf, S

\* A plan is about a table of the schema.
LEMMA PlanIs ==
  ASSUME NEW q \in Query, NEW role, Refusal(q, role) = "no", NEW a \in Aliases(q)
  PROVE  /\ SourceOf(q, a) \in Source /\ SourcePlan(q, role, a).source = SourceOf(q, a)
         /\ SourcePlan(q, role, a).limit \in Int
<1>1. SourceOf(q, a) \in Source
  BY EntryIs, NotRefused DEF SourceOf
<1>2. SourceLimit(q) \in Int
  <2> DEFINE l == q.limit
             o == q.offset
             least == Min({l, MaxRows})
             sum == o + least
  <2>1. l \in Int /\ o \in Int /\ MaxRows \in Int
    BY FederationAssumption, PlannerAssumption DEF IsQuery
  <2> HIDE DEF l, o
  <2>2. least \in {l, MaxRows}
    BY <2>1, LesserOfTwo
  <2>3. sum \in Int
    BY <2>1, <2>2
  <2> HIDE DEF sum
  <2>4. Min({MaxRows, sum}) \in {MaxRows, sum}
    BY <2>1, <2>3, LesserOfTwo
  <2> QED BY <2>1, <2>3, <2>4 DEF SourceLimit, sum, least, l, o
<1> QED BY <1>1, <1>2 DEF SourcePlan

\* The output columns are of the query's tables.
LEMMA ColumnsAre ==
  ASSUME NEW q \in Query, NEW role, Refusal(q, role) = "no"
  PROVE  /\ Columns(q) \in Only(Columns(q))
         /\ \A c \in ToSet(Columns(q)) : c.alias \in Aliases(q)
<1> DEFINE A(i) == Resolve(q, q.select[i][1])
           N(i) == IF IsStar(q, q.select[i]) THEN Catalog[SourceOf(q, A(i))] ELSE <<q.select[i][2]>>
           C(i, k) == [alias |-> A(i), column |-> N(i)[k],
                       label |-> IF Len(q.select[i]) = 3 THEN <<"", q.select[i][3]>>
                                 ELSE Label(q, q.select[i][1], N(i)[k])]
           n == Len(q.select)
           seqs == [i \in DOMAIN q.select |-> [k \in DOMAIN N(i) |-> C(i, k)]]
<1>1. Columns(q) = FlattenSeq(seqs)
  BY DEF Columns
<1>2. n \in Nat /\ DOMAIN q.select = 1..n
  <2>1. q.select \in Only(q.select)
    BY FederationAssumption DEF IsQuery
  <2> QED BY <2>1, OnlyGives
<1>3. \A i \in 1..n : A(i) \in Aliases(q)
  BY <1>2, NotRefused
<1>4. ASSUME NEW i \in 1..n
      PROVE  \E l \in Nat : DOMAIN N(i) = 1..l
  <2>1. SourceOf(q, A(i)) \in Source
    BY <1>3, PlanIs
  <2>2. Catalog[SourceOf(q, A(i))] \in Only(Catalog[SourceOf(q, A(i))])
    BY <2>1, PlannerAssumption
  <2>3. CASE IsStar(q, q.select[i])
    BY <2>2, <2>3, OnlyGives
  <2>4. CASE ~IsStar(q, q.select[i])
    <3>1. DOMAIN <<q.select[i][2]>> = 1..1
      OBVIOUS
    <3> QED BY <2>4, <3>1
  <2> QED BY <2>3, <2>4
<1>5. \A i, k : C(i, k).alias = A(i)
  OBVIOUS
<1> HIDE DEF n, A, N, C
<1>6. seqs = [i \in 1..n |-> seqs[i]] /\ \A i \in 1..n : seqs[i] = [k \in DOMAIN N(i) |-> C(i, k)]
  BY <1>2
<1> HIDE DEF seqs
<1>7. ASSUME NEW i \in 1..n
      PROVE  seqs[i] \in Only(seqs[i]) /\ \A c \in ToSet(seqs[i]) : c.alias = A(i)
  <2>1. PICK l \in Nat : DOMAIN N(i) = 1..l
    BY <1>4
  <2>2. seqs[i] = [k \in 1..l |-> seqs[i][k]] /\ \A k \in 1..l : seqs[i][k] = C(i, k)
    BY <1>6, <2>1
  <2>3. seqs[i] \in Only(seqs[i]) /\ DOMAIN seqs[i] = 1..l
    BY <2>2, MadeOnly
  <2> QED BY <1>5, <2>2, <2>3 DEF ToSet
<1>8. /\ FlattenSeq(seqs) \in Only(FlattenSeq(seqs))
      /\ \A x \in ToSet(FlattenSeq(seqs)) : \E i \in 1..n : x \in ToSet(seqs[i])
  BY <1>2, <1>6, <1>7, FlattenOnly
<1> QED BY <1>1, <1>3, <1>7, <1>8

-----------------------------------------------------------------------------
(* The merge.                                                              *)

\* A join gives a sequence.
LEMMA HashJoinOnly ==
  ASSUME NEW build, build \in Only(build), NEW probe, probe \in Only(probe),
         NEW bAlias, NEW bCol, NEW pAlias, NEW pCol
  PROVE  LET recs == HashJoin(build, bAlias, bCol, probe, pAlias, pCol) IN recs \in Only(recs)
<1> DEFINE S(i) == {j \in DOMAIN build : Get(build[j], bCol) = Get(probe[i], pCol)}
           hits(i) == Selected(build, S(i))
           R(i, k) == Record(bAlias, hits(i)[k], pAlias, probe[i])
           seqs == [i \in DOMAIN probe |-> [k \in DOMAIN hits(i) |-> R(i, k)]]
           n == Len(probe)
<1>1. HashJoin(build, bAlias, bCol, probe, pAlias, pCol) = FlattenSeq(seqs)
  BY DEF HashJoin
<1>2. n \in Nat /\ DOMAIN probe = 1..n
  BY OnlyGives
<1>3. ASSUME NEW i \in 1..n
      PROVE  \E l \in Nat : DOMAIN hits(i) = 1..l
  <2>1. S(i) \in SUBSET (DOMAIN build) /\ build \in Seq(ToSet(build))
    BY DEF Only
  <2> HIDE DEF S
  <2>2. hits(i) \in Seq(ToSet(build))
    BY <2>1, SelectedType
  <2> HIDE DEF hits
  <2> QED BY <2>2, LenProperties
<1> HIDE DEF n, hits, R
<1>4. seqs = [i \in 1..n |-> seqs[i]] /\ \A i \in 1..n : seqs[i] = [k \in DOMAIN hits(i) |-> R(i, k)]
  BY <1>2
<1> HIDE DEF seqs
<1>5. ASSUME NEW i \in 1..n
      PROVE  seqs[i] \in Only(seqs[i])
  <2>1. PICK l \in Nat : DOMAIN hits(i) = 1..l
    BY <1>3
  <2>2. seqs[i] = [k \in 1..l |-> seqs[i][k]]
    BY <1>4, <2>1
  <2> QED BY <2>2, MadeOnly
<1>6. FlattenSeq(seqs) \in Only(FlattenSeq(seqs))
  BY <1>2, <1>4, <1>5, FlattenOnly
<1> QED BY <1>1, <1>6

\* ... and so does what a query puts together.
LEMMA RecordsOnly ==
  ASSUME NEW q, q.from # << >>, q.from \in Only(q.from), ~JoinsUnknown(q),
         NEW rows, \A a \in Aliases(q) : rows[a] \in Only(rows[a])
  PROVE  Records(q, rows) \in Only(Records(q, rows))
<1>1. CASE q.join = << >>
  <2> DEFINE a == q.from[1].alias
             r == rows[a]
             recs == [i \in DOMAIN r |-> [b \in {a} |-> r[i]]]
  <2>1. 1 \in DOMAIN q.from
    <3>1. Len(q.from) \in Nat /\ DOMAIN q.from = 1..Len(q.from) /\ q.from \in Seq(ToSet(q.from))
      BY OnlyGives
    <3>2. Len(q.from) # 0
      BY <3>1, EmptySeq
    <3> QED BY <3>1, <3>2
  <2>2. a \in Aliases(q)
    BY <2>1 DEF Aliases
  <2>3. r \in Only(r)
    BY <2>2
  <2>4. Records(q, rows) = recs
    BY <1>1 DEF Records
  <2> HIDE DEF r
  <2>5. Len(r) \in Nat /\ DOMAIN r = 1..Len(r)
    BY <2>3, OnlyGives
  <2>6. recs = [i \in 1..Len(r) |-> recs[i]]
    BY <2>5
  <2> HIDE DEF recs
  <2> QED BY <2>4, <2>5, <2>6, MadeOnly
<1>2. CASE q.join # << >>
  <2> DEFINE l == q.join[1].left
             r == q.join[1].right
             s == rows[l[1]]
             t == rows[r[1]]
  <2>1. l[1] \in Aliases(q) /\ r[1] \in Aliases(q)
    BY <1>2 DEF JoinsUnknown
  <2>2. s \in Only(s) /\ t \in Only(t)
    BY <2>1
  <2>3. Records(q, rows) = IF Len(s) <= Len(t) THEN HashJoin(s, l[1], l[2], t, r[1], r[2])
                           ELSE HashJoin(t, r[1], r[2], s, l[1], l[2])
    BY <1>2 DEF Records
  <2> HIDE DEF s, t, l, r
  <2> QED BY <2>2, <2>3, HashJoinOnly
<1> QED BY <1>1, <1>2

\* An order changes neither kind nor number of the rows.
LEMMA SortedOnly ==
  ASSUME NEW q, NEW rows, rows \in Only(rows)
  PROVE  Sorted(q, rows) \in Only(Sorted(q, rows)) /\ Len(Sorted(q, rows)) = Len(rows)
<1> DEFINE out == Sorted(q, rows)
           n == Len(rows)
<1>1. n \in Nat /\ DOMAIN rows = 1..n
  BY OnlyGives
<1>2. CASE OrderedBy(q) = {}
  BY <1>2 DEF Sorted
<1>3. CASE OrderedBy(q) # {}
  <2>1. out = [k \in DOMAIN rows |-> rows[CHOOSE j \in DOMAIN rows : Place(q, rows, j) = k]]
    BY <1>3 DEF Sorted
  <2>2. out = [k \in 1..n |-> out[k]]
    BY <1>1, <2>1
  <2> HIDE DEF out, n
  <2>3. out \in Only(out) /\ Len(out) = n
    BY <1>1, <2>2, MadeOnly
  <2> QED BY <2>3 DEF out, n
<1> QED BY <1>2, <1>3

-----------------------------------------------------------------------------
(* Sorting.                                                                *)

\* The values that the rows are sorted by have an order, but for None.
Sortable(q, rows) ==
  LET c == Min(OrderedBy(q))
  IN  \A i, j \in DOMAIN rows :
        /\ IsValue(rows[i][c])
        /\ rows[i][c] # Null /\ rows[j][c] # Null => rows[i][c][1] = rows[j][c][1]

\* Among values of one kind, or None, the order is a weak one.
LEMMA OrderIs ==
  ASSUME NEW q, NEW x, NEW y, NEW z,
         x[2] \in Int, y[2] \in Int, z[2] \in Int,
         x # Null /\ y # Null => x[1] = y[1],
         x # Null /\ z # Null => x[1] = z[1],
         y # Null /\ z # Null => y[1] = z[1]
  PROVE  /\ SortsBefore(q, x, y) => ~SortsBefore(q, y, x)
         /\ SortsBefore(q, x, z) => SortsBefore(q, x, y) \/ SortsBefore(q, y, z)
<1> DEFINE After(v, w) == v # w /\ (v = Null \/ (w # Null /\ Less(w, v)))
<1>1. \A v, w : SortsBefore(q, v, w) <=> IF q.order[1].desc THEN After(v, w) ELSE After(w, v)
  BY DEF SortsBefore
<1>2. After(x, y) => ~After(y, x)
  BY DEF Less
<1>3. After(y, x) => ~After(x, y)
  BY DEF Less
<1>4. After(x, z) => After(x, y) \/ After(y, z)
  <2>1. SUFFICES ASSUME After(x, z), ~After(x, y)
                 PROVE  After(y, z)
    OBVIOUS
  <2> QED BY <2>1 DEF Less
<1>5. After(z, x) => After(y, x) \/ After(z, y)
  <2>1. SUFFICES ASSUME After(z, x), ~After(y, x)
                 PROVE  After(z, y)
    OBVIOUS
  <2> QED BY <2>1 DEF Less
<1> HIDE DEF After
<1> QED BY <1>1, <1>2, <1>3, <1>4, <1>5

\* Only a value itself is neither before nor after it.
LEMMA TieIs ==
  ASSUME NEW q, NEW x, NEW y, IsValue(x), IsValue(y), x # Null /\ y # Null => x[1] = y[1],
         ~SortsBefore(q, x, y), ~SortsBefore(q, y, x)
  PROVE  x = y
<1> SUFFICES ASSUME x # y PROVE FALSE
  OBVIOUS
<1> DEFINE After(v, w) == v # w /\ (v = Null \/ (w # Null /\ Less(w, v)))
<1>1. \A v, w : SortsBefore(q, v, w) <=> IF q.order[1].desc THEN After(v, w) ELSE After(w, v)
  BY DEF SortsBefore
<1>2. ~After(x, y) /\ ~After(y, x)
  BY <1>1
<1>3. x # Null /\ y # Null /\ ~Less(y, x) /\ ~Less(x, y)
  BY <1>2
<1>4. x[1] = y[1] /\ x[2] \in Int /\ y[2] \in Int /\ ~(x[2] < y[2]) /\ ~(y[2] < x[2])
  BY <1>3 DEF Less, IsValue
<1>5. x[1] = y[1] /\ x[2] = y[2]
  BY <1>4
<1> QED BY <1>5 DEF IsValue

\* Rows with values that can be compared come in a total order, either way round.
LEMMA PrecedesIs ==
  ASSUME NEW q, NEW rows, rows \in Only(rows), Sortable(q, rows),
         NEW i \in DOMAIN rows, NEW j \in DOMAIN rows, NEW k \in DOMAIN rows
  PROVE  /\ i # j => Precedes(q, rows, i, j) \/ Precedes(q, rows, j, i)
         /\ i # j /\ Precedes(q, rows, i, j) => ~Precedes(q, rows, j, i)
         /\ i # j /\ j # k /\ Precedes(q, rows, i, j) /\ Precedes(q, rows, j, k)
              => i # k /\ Precedes(q, rows, i, k)
<1> DEFINE c == Min(OrderedBy(q))
           B(x, y) == SortsBefore(q, rows[x][c], rows[y][c])
<1>1. i \in Int /\ j \in Int /\ k \in Int
  BY OnlyGives
<1>2. \A x, y, z \in DOMAIN rows :
        (B(x, y) => ~B(y, x)) /\ (B(x, z) => B(x, y) \/ B(y, z))
  <2> SUFFICES ASSUME NEW x \in DOMAIN rows, NEW y \in DOMAIN rows, NEW z \in DOMAIN rows
               PROVE  (B(x, y) => ~B(y, x)) /\ (B(x, z) => B(x, y) \/ B(y, z))
    OBVIOUS
  <2> DEFINE u == rows[x][c]
             v == rows[y][c]
             w == rows[z][c]
  <2>1. /\ u[2] \in Int /\ v[2] \in Int /\ w[2] \in Int
        /\ u # Null /\ v # Null => u[1] = v[1]
        /\ u # Null /\ w # Null => u[1] = w[1]
        /\ v # Null /\ w # Null => v[1] = w[1]
    BY DEF Sortable, IsValue
  <2> HIDE DEF u, v, w
  <2>2. /\ SortsBefore(q, u, v) => ~SortsBefore(q, v, u)
        /\ SortsBefore(q, u, w) => SortsBefore(q, u, v) \/ SortsBefore(q, v, w)
    BY <2>1, OrderIs
  <2> QED BY <2>2 DEF u, v, w
<1>3. \A x, y : Precedes(q, rows, x, y) <=> B(x, y) \/ (x < y /\ ~B(y, x))
  BY DEF Precedes
<1> HIDE DEF B, c
<1>4. i # j => Precedes(q, rows, i, j) \/ Precedes(q, rows, j, i)
  <2>1. i # j => i < j \/ j < i
    BY <1>1
  <2> QED BY <1>3, <2>1
<1>5. i # j /\ Precedes(q, rows, i, j) => ~Precedes(q, rows, j, i)
  <2>1. i < j => ~(j < i)
    BY <1>1
  <2>2. (B(i, j) => ~B(j, i)) /\ (B(j, i) => ~B(i, j))
    BY <1>2
  <2> QED BY <1>3, <2>1, <2>2
<1>6. i # j /\ j # k /\ Precedes(q, rows, i, j) /\ Precedes(q, rows, j, k)
        => i # k /\ Precedes(q, rows, i, k)
  <2>1. SUFFICES ASSUME i # j, j # k, Precedes(q, rows, i, j), Precedes(q, rows, j, k)
                 PROVE  i # k /\ Precedes(q, rows, i, k)
    OBVIOUS
  <2>2. i # k
    BY <1>5, <2>1
  <2>3. (B(i, j) \/ (i < j /\ ~B(j, i))) /\ (B(j, k) \/ (j < k /\ ~B(k, j)))
    BY <1>3, <2>1
  <2>4. /\ B(i, j) => ~B(j, i)
        /\ B(j, k) => ~B(k, j)
        /\ B(k, i) => B(k, j) \/ B(j, i)
        /\ B(i, j) => B(i, k) \/ B(k, j)
        /\ B(j, k) => B(j, i) \/ B(i, k)
    BY <1>2
  <2>5. B(i, k) \/ (i < j /\ j < k /\ ~B(k, i))
    BY <2>3, <2>4
  <2>6. i < j /\ j < k => i < k
    BY <1>1
  <2> QED BY <1>3, <2>2, <2>5, <2>6
<1> QED BY <1>4, <1>5, <1>6

\* Every row has a place of its own, after those of the rows that precede it, and every
\* place a row.
LEMMA PlacesAre ==
  ASSUME NEW q, NEW rows, rows \in Only(rows), Sortable(q, rows)
  PROVE  /\ \A i, j \in DOMAIN rows : Place(q, rows, i) = Place(q, rows, j) => i = j
         /\ \A j \in DOMAIN rows : Place(q, rows, j) \in DOMAIN rows
         /\ \A k \in DOMAIN rows : \E j \in DOMAIN rows : Place(q, rows, j) = k
         /\ \A i, j \in DOMAIN rows :
              i # j /\ Precedes(q, rows, i, j) => Place(q, rows, i) < Place(q, rows, j)
<1> DEFINE n == Len(rows)
           D == DOMAIN rows
           P(i, j) == Precedes(q, rows, i, j)
           B(j) == {i \in D \ {j} : P(i, j)}
           f == [j \in D |-> Place(q, rows, j)]
<1>1. n \in Nat /\ D = 1..n /\ IsFiniteSet(D) /\ Cardinality(D) = n
  <2>1. n \in Nat /\ D = 1..n
    BY OnlyGives
  <2> HIDE DEF n
  <2>2. IsFiniteSet(1..n) /\ Cardinality(1..n) = n
    BY <2>1, FS_Interval
  <2> QED BY <2>1, <2>2
<1>2. /\ \A i, j \in D : i # j => P(i, j) \/ P(j, i)
      /\ \A i, j \in D : i # j /\ P(i, j) => ~P(j, i)
      /\ \A i, j, k \in D : i # j /\ j # k /\ P(i, j) /\ P(j, k) => i # k /\ P(i, k)
  BY PrecedesIs
<1>3. \A j \in D : Place(q, rows, j) = Cardinality(B(j)) + 1
  BY DEF Place
<1> HIDE DEF n, D, P
<1>4. ASSUME NEW j \in D
      PROVE  /\ IsFiniteSet(B(j)) /\ Cardinality(B(j)) \in Nat
             /\ Cardinality(B(j)) < n /\ j \notin B(j)
  <2> DEFINE S == B(j)
  <2>1. S \in SUBSET D /\ j \notin S
    OBVIOUS
  <2> HIDE DEF S
  <2>2. S # D
    BY <2>1
  <2>3. IsFiniteSet(S) /\ Cardinality(S) <= Cardinality(D) /\ Cardinality(S) # Cardinality(D)
    BY <1>1, <2>1, <2>2, FS_Subset
  <2>4. Cardinality(S) \in Nat
    BY <2>3, FS_CardinalityType
  <2>5. Cardinality(S) < n
    BY <1>1, <2>3, <2>4
  <2> QED BY <2>1, <2>3, <2>4, <2>5 DEF S
<1>5. ASSUME NEW i \in D, NEW j \in D, i # j, P(i, j)
      PROVE  Cardinality(B(i)) < Cardinality(B(j))
  <2> DEFINE S == B(i)
             T == B(j)
  <2>1. \A k \in S : k \in T
    BY <1>2, <1>5
  <2>2. i \in T /\ i \notin S
    BY <1>5
  <2>3. IsFiniteSet(T) /\ Cardinality(S) \in Nat /\ Cardinality(T) \in Nat
    BY <1>4
  <2> HIDE DEF S, T
  <2>4. S \in SUBSET T /\ S # T
    BY <2>1, <2>2
  <2>5. Cardinality(S) <= Cardinality(T) /\ Cardinality(S) # Cardinality(T)
    BY <2>3, <2>4, FS_Subset
  <2>6. Cardinality(S) < Cardinality(T)
    BY <2>3, <2>5
  <2> QED BY <2>6 DEF S, T
<1> HIDE DEF B
<1>6. f \in [D -> D]
  <2>1. ASSUME NEW j \in D
        PROVE  Place(q, rows, j) \in D
    <3>1. Place(q, rows, j) = Cardinality(B(j)) + 1
      BY <1>3
    <3>2. Cardinality(B(j)) \in Nat /\ Cardinality(B(j)) < n
      BY <1>4
    <3> QED BY <1>1, <3>1, <3>2
  <2> QED BY <2>1
<1>7. ASSUME NEW i \in D, NEW j \in D, Place(q, rows, i) = Place(q, rows, j)
      PROVE  i = j
  <2>1. SUFFICES ASSUME i # j PROVE FALSE
    OBVIOUS
  <2>2. Cardinality(B(i)) \in Nat /\ Cardinality(B(j)) \in Nat
    BY <1>4
  <2>3. Cardinality(B(i)) = Cardinality(B(j))
    BY <1>3, <1>7, <2>2
  <2>4. Cardinality(B(i)) < Cardinality(B(j)) \/ Cardinality(B(j)) < Cardinality(B(i))
    BY <1>2, <1>5, <2>1
  <2> QED BY <2>2, <2>3, <2>4
<1>8. f \in Injection(D, D)
  BY <1>6, <1>7 DEF Injection, IsInjective
<1>9. f \in Surjection(D, D)
  <2> HIDE DEF f
  <2> QED BY <1>1, <1>8, FS_Injection
<1>10. \A k \in D : \E j \in D : Place(q, rows, j) = k
  BY <1>9 DEF Surjection
<1>11. \A j \in D : Place(q, rows, j) \in D
  BY <1>6
<1>12. ASSUME NEW i \in D, NEW j \in D, i # j, P(i, j)
       PROVE  Place(q, rows, i) < Place(q, rows, j)
  <2>1. Cardinality(B(i)) \in Nat /\ Cardinality(B(j)) \in Nat
    BY <1>4
  <2>2. Cardinality(B(i)) < Cardinality(B(j))
    BY <1>5, <1>12
  <2> QED BY <1>3, <2>1, <2>2
<1> QED BY <1>7, <1>10, <1>11, <1>12 DEF D, P

\* No row's value in the column to sort by comes before that of an earlier row.
InOrder(q, rows) ==
  \A k, l \in DOMAIN rows :
    k < l => ~SortsBefore(q, rows[l][Min(OrderedBy(q))], rows[k][Min(OrderedBy(q))])

\* out is rows in another order, row from[k] of them at place k.
Moved(from, out, rows) ==
  /\ DOMAIN out = DOMAIN rows /\ from \in [DOMAIN rows -> DOMAIN rows]
  /\ \A k \in DOMAIN rows : out[k] = rows[from[k]]
  /\ \A k, l \in DOMAIN rows : from[k] = from[l] => k = l
  /\ \A j \in DOMAIN rows : \E k \in DOMAIN rows : from[k] = j

\* The sorted rows are the rows, each once, in order.
LEMMA SortedIs ==
  ASSUME NEW q, NEW rows, rows \in Only(rows), OrderedBy(q) # {} => Sortable(q, rows)
  PROVE  /\ \E from : Moved(from, Sorted(q, rows), rows)
         /\ OrderedBy(q) # {} => InOrder(q, Sorted(q, rows))
<1> DEFINE D == DOMAIN rows
           out == Sorted(q, rows)
<1>1. CASE OrderedBy(q) = {}
  <2> DEFINE from == [k \in D |-> k]
  <2>1. out = rows
    BY <1>1 DEF Sorted
  <2>2. Moved(from, out, rows)
    BY <2>1 DEF Moved
  <2> HIDE DEF from
  <2> QED BY <1>1, <2>2
<1>2. CASE OrderedBy(q) # {}
  <2> DEFINE from == [k \in D |-> CHOOSE j \in D : Place(q, rows, j) = k]
             c == Min(OrderedBy(q))
  <2>1. \A k \in D : from[k] \in D /\ Place(q, rows, from[k]) = k
    BY <1>2, PlacesAre
  <2>2. DOMAIN out = D /\ \A k \in D : out[k] = rows[from[k]]
    BY <1>2 DEF Sorted
  <2>3. from \in [D -> D]
    BY <2>1
  <2> HIDE DEF from, out
  <2>4. \A j \in D : \E k \in D : from[k] = j
    <3>1. \A j \in D : Place(q, rows, j) \in D
      BY <1>2, PlacesAre
    <3>2. \A i, j \in D : Place(q, rows, i) = Place(q, rows, j) => i = j
      BY <1>2, PlacesAre
    <3> QED BY <2>1, <3>1, <3>2
  <2>5. Moved(from, out, rows)
    BY <2>1, <2>2, <2>3, <2>4 DEF Moved
  <2>6. ASSUME NEW k \in D, NEW l \in D, k < l
        PROVE  ~SortsBefore(q, out[l][c], out[k][c])
    <3> DEFINE i == from[k]
               j == from[l]
    <3>1. i \in D /\ j \in D /\ Place(q, rows, i) = k /\ Place(q, rows, j) = l
      BY <2>1
    <3>2. k \in Int /\ l \in Int
      BY OnlyGives
    <3>3. out[k] = rows[i] /\ out[l] = rows[j]
      BY <2>2
    <3> HIDE DEF i, j
    <3>4. i # j
      BY <2>6, <3>1, <3>2
    <3>5. ~Precedes(q, rows, j, i)
      <4>1. Precedes(q, rows, j, i) => Place(q, rows, j) < Place(q, rows, i)
        BY <1>2, <3>1, <3>4, PlacesAre
      <4> QED BY <2>6, <3>1, <3>2, <4>1
    <3> QED BY <3>3, <3>5 DEF Precedes
  <2>7. InOrder(q, out)
    BY <2>2, <2>6 DEF InOrder
  <2> QED BY <2>5, <2>7 DEF out
<1> QED BY <1>1, <1>2

-----------------------------------------------------------------------------
(* Rows that are some of others, none of them twice.                       *)

IsPart(from, out, rows) ==
  /\ from \in [DOMAIN out -> DOMAIN rows]
  /\ \A x \in DOMAIN out : out[x] = rows[from[x]]
  /\ \A x, y \in DOMAIN out : from[x] = from[y] => x = y

\* A part of a part is a part.
LEMMA PartOfPart ==
  ASSUME NEW out, NEW mid, NEW rows, NEW f, NEW g, IsPart(f, out, mid), IsPart(g, mid, rows)
  PROVE  IsPart([x \in DOMAIN out |-> g[f[x]]], out, rows)
BY DEF IsPart

\* All rows are a part.
LEMMA PartSelf ==
  ASSUME NEW rows
  PROVE  IsPart([x \in DOMAIN rows |-> x], rows, rows)
BY DEF IsPart

\* The selected rows are a part, and all of the selection.
LEMMA PartSelected ==
  ASSUME NEW T, NEW rows \in Seq(T), NEW S \in SUBSET (DOMAIN rows)
  PROVE  \E from : /\ IsPart(from, Selected(rows, S), rows)
                   /\ \A x \in DOMAIN Selected(rows, S) : from[x] \in S
                   /\ \A i \in S : \E x \in DOMAIN Selected(rows, S) : from[x] = i
<1> DEFINE out == Selected(rows, S)
           from == [k \in 1..Cardinality(S) |-> CHOOSE i \in S : RankIn(S, i) = k]
<1>1. IsFiniteSet(S) /\ S \in SUBSET Int
  BY SelectedType
<1>2. DOMAIN out = 1..Cardinality(S)
  BY <1>1, SelectedAt
<1>3. ASSUME NEW k \in 1..Cardinality(S)
      PROVE  from[k] \in S /\ RankIn(S, from[k]) = k
  BY <1>1, RankIsOnto
<1>4. \A k \in 1..Cardinality(S) : out[k] = rows[from[k]]
  BY DEF Selected
<1>5. from = [k \in 1..Cardinality(S) |-> from[k]]
  OBVIOUS
<1> HIDE DEF out, from
<1>6. IsPart(from, out, rows)
  BY <1>2, <1>3, <1>4, <1>5 DEF IsPart
<1>7. \A i \in S : RankIn(S, i) \in DOMAIN out /\ from[RankIn(S, i)] = i
  BY <1>1, <1>2, <1>3, RankIsPlace, RankIsInjective
<1> QED BY <1>2, <1>3, <1>6, <1>7 DEF out

\* Neighbouring rows are a part.
LEMMA PartSubSeq ==
  ASSUME NEW T, NEW rows \in Seq(T), NEW i \in Nat \ {0}, NEW j \in Int, j <= Len(rows)
  PROVE  IsPart([x \in DOMAIN SubSeq(rows, i, j) |-> i + x - 1], SubSeq(rows, i, j), rows)
<1> DEFINE out == SubSeq(rows, i, j)
           from == [x \in DOMAIN out |-> i + x - 1]
<1>1. /\ out \in Seq(T) /\ Len(out) = IF i <= j THEN j - i + 1 ELSE 0
      /\ \A k \in 1..(j - i + 1) : out[k] = rows[i + k - 1]
  BY PartIs
<1> HIDE DEF out
<1>2. DOMAIN out = 1..Len(out) /\ DOMAIN rows = 1..Len(rows) /\ Len(rows) \in Nat
  BY <1>1, LenProperties
<1>3. ASSUME NEW x \in DOMAIN out
      PROVE  x \in 1..(j - i + 1) /\ i + x - 1 \in DOMAIN rows /\ x \in Int
  BY <1>1, <1>2
<1>4. \A x \in DOMAIN out : from[x] \in DOMAIN rows /\ out[x] = rows[from[x]]
  BY <1>1, <1>3
<1>5. \A x, y \in DOMAIN out : from[x] = from[y] => x = y
  BY <1>3
<1>6. from \in [DOMAIN out -> DOMAIN rows]
  BY <1>4
<1> HIDE DEF from
<1>7. IsPart(from, out, rows)
  BY <1>4, <1>5, <1>6 DEF IsPart
<1> QED BY <1>7 DEF out, from

\* Where the rows of a sequence that begins with a come from.
Joint(h, all, a, f, g) == h = [x \in DOMAIN all |-> IF x \in DOMAIN a THEN f[x] ELSE g[x - Len(a)]]

Apart(f, a, g, b) == \A x \in DOMAIN a, y \in DOMAIN b : f[x] # g[y]

\* Parts of the same rows that share none, put together.
LEMMA PartConcat ==
  ASSUME NEW T, NEW a \in Seq(T), NEW b \in Seq(T), NEW all, all = a \o b, NEW rows, NEW f, NEW g,
         IsPart(f, a, rows), IsPart(g, b, rows),
         Apart(f, a, g, b), NEW h, Joint(h, all, a, f, g)
  PROVE  /\ IsPart(h, all, rows)
         /\ \A x \in DOMAIN all : x \in DOMAIN a \/ x - Len(a) \in DOMAIN b
<1>1. Len(a) \in Nat /\ Len(b) \in Nat /\ DOMAIN a = 1..Len(a) /\ DOMAIN b = 1..Len(b)
  BY LenProperties
<1>2. /\ all \in Seq(T) /\ Len(all) = Len(a) + Len(b)
      /\ \A n \in 1..(Len(a) + Len(b)) : all[n] = IF n <= Len(a) THEN a[n] ELSE b[n - Len(a)]
  BY ConcatProperties
<1>3. DOMAIN all = 1..(Len(a) + Len(b))
  BY <1>2, LenProperties
<1>4. ASSUME NEW x \in DOMAIN all
      PROVE  /\ x \in Int
             /\ \/ x \in DOMAIN a /\ all[x] = a[x]
                \/ x \notin DOMAIN a /\ x - Len(a) \in DOMAIN b /\ all[x] = b[x - Len(a)]
  <2>1. CASE x <= Len(a)
    BY <1>1, <1>2, <1>3, <2>1
  <2>2. CASE ~(x <= Len(a))
    BY <1>1, <1>2, <1>3, <2>2
  <2> QED BY <1>3, <2>1, <2>2
<1>5. /\ \A x \in DOMAIN a : f[x] \in DOMAIN rows /\ a[x] = rows[f[x]]
      /\ \A x \in DOMAIN b : g[x] \in DOMAIN rows /\ b[x] = rows[g[x]]
      /\ \A x, y \in DOMAIN a : f[x] = f[y] => x = y
      /\ \A x, y \in DOMAIN b : g[x] = g[y] => x = y
      /\ \A x \in DOMAIN a, y \in DOMAIN b : f[x] # g[y]
  BY DEF IsPart, Apart
<1>0. h = [x \in DOMAIN all |-> IF x \in DOMAIN a THEN f[x] ELSE g[x - Len(a)]]
  BY DEF Joint
<1>6. \A x \in DOMAIN all : h[x] \in DOMAIN rows /\ all[x] = rows[h[x]]
  BY <1>0, <1>4, <1>5
<1>7. ASSUME NEW x \in DOMAIN all, NEW y \in DOMAIN all, h[x] = h[y]
      PROVE  x = y
  <2>1. CASE x \in DOMAIN a /\ y \in DOMAIN a
    BY <1>0, <1>5, <1>7, <2>1
  <2>2. CASE x \notin DOMAIN a /\ y \notin DOMAIN a
    <3>1. x - Len(a) = y - Len(a)
      BY <1>0, <1>4, <1>5, <1>7, <2>2
    <3> QED BY <1>1, <1>4, <3>1
  <2>3. CASE x \in DOMAIN a /\ y \notin DOMAIN a
    BY <1>0, <1>4, <1>5, <1>7, <2>3
  <2>4. CASE x \notin DOMAIN a /\ y \in DOMAIN a
    BY <1>0, <1>4, <1>5, <1>7, <2>4
  <2> QED BY <2>1, <2>2, <2>3, <2>4
<1>8. h \in [DOMAIN all -> DOMAIN rows]
  BY <1>0, <1>6
<1>9. IsPart(h, all, rows)
  BY <1>6, <1>7, <1>8 DEF IsPart
<1> QED BY <1>4, <1>9

-----------------------------------------------------------------------------
(* FlattenSeq, place by place.                                             *)

\* Element x of all is element at[x] of seqs[of[x]], and each of those is one of all.
Spread(all, seqs, n, of, at) ==
  /\ \A x \in DOMAIN all :
       of[x] \in 1..n /\ at[x] \in DOMAIN seqs[of[x]] /\ all[x] = seqs[of[x]][at[x]]
  /\ \A x, y \in DOMAIN all : of[x] = of[y] /\ at[x] = at[y] => x = y
  /\ \A i \in 1..n : \A k \in DOMAIN seqs[i] : \E x \in DOMAIN all : of[x] = i /\ at[x] = k

\* One sequence more is put at the end.
LEMMA SpreadGrows ==
  ASSUME NEW T, NEW seqs, NEW n \in Nat, seqs[n + 1] \in Seq(T), NEW a \in Seq(T), NEW of, NEW at,
         Spread(a, seqs, n, of, at), NEW all, all = a \o seqs[n + 1]
  PROVE  \E o, t : Spread(all, seqs, n + 1, o, t)
<1> DEFINE b == seqs[n + 1]
           o == [x \in DOMAIN all |-> IF x \in DOMAIN a THEN of[x] ELSE n + 1]
           t == [x \in DOMAIN all |-> IF x \in DOMAIN a THEN at[x] ELSE x - Len(a)]
<1>1. Len(a) \in Nat /\ Len(b) \in Nat /\ DOMAIN a = 1..Len(a) /\ DOMAIN b = 1..Len(b)
  BY LenProperties
<1>2. /\ all \in Seq(T) /\ Len(all) = Len(a) + Len(b)
      /\ \A k \in 1..(Len(a) + Len(b)) : all[k] = IF k <= Len(a) THEN a[k] ELSE b[k - Len(a)]
  BY ConcatProperties
<1>3. DOMAIN all = 1..(Len(a) + Len(b))
  BY <1>2, LenProperties
<1>4. ASSUME NEW x \in DOMAIN all
      PROVE  /\ x \in Int
             /\ \/ x \in DOMAIN a /\ all[x] = a[x] /\ o[x] = of[x] /\ t[x] = at[x]
                \/ x \notin DOMAIN a /\ x - Len(a) \in DOMAIN b /\ all[x] = b[x - Len(a)]
                   /\ o[x] = n + 1 /\ t[x] = x - Len(a)
  <2>1. CASE x <= Len(a)
    BY <1>1, <1>2, <1>3, <2>1
  <2>2. CASE ~(x <= Len(a))
    BY <1>1, <1>2, <1>3, <2>2
  <2> QED BY <1>3, <2>1, <2>2
<1>5. /\ \A x \in DOMAIN a : of[x] \in 1..n /\ at[x] \in DOMAIN seqs[of[x]] /\ a[x] = seqs[of[x]][at[x]]
      /\ \A x, y \in DOMAIN a : of[x] = of[y] /\ at[x] = at[y] => x = y
      /\ \A i \in 1..n : \A k \in DOMAIN seqs[i] : \E x \in DOMAIN a : of[x] = i /\ at[x] = k
  BY DEF Spread
<1> HIDE DEF o, t
<1>6. \A i \in 1..n : i \in 1..(n + 1) /\ i # n + 1
  OBVIOUS
<1>7. ASSUME NEW x \in DOMAIN all
      PROVE  o[x] \in 1..(n + 1) /\ t[x] \in DOMAIN seqs[o[x]] /\ all[x] = seqs[o[x]][t[x]]
  <2>1. n + 1 \in 1..(n + 1)
    OBVIOUS
  <2>2. CASE x \in DOMAIN a
    BY <1>4, <1>5, <1>6, <2>2
  <2>3. CASE x \notin DOMAIN a
    BY <1>4, <2>1, <2>3
  <2> QED BY <2>2, <2>3
<1>8. ASSUME NEW x \in DOMAIN all, NEW y \in DOMAIN all, o[x] = o[y], t[x] = t[y]
      PROVE  x = y
  <2>1. CASE x \in DOMAIN a /\ y \in DOMAIN a
    <3>1. o[x] = of[x] /\ t[x] = at[x] /\ o[y] = of[y] /\ t[y] = at[y]
      BY <1>4, <2>1
    <3> QED BY <1>5, <1>8, <2>1, <3>1
  <2>2. CASE x \notin DOMAIN a /\ y \notin DOMAIN a
    <3>1. x - Len(a) = y - Len(a)
      BY <1>4, <1>8, <2>2
    <3> QED BY <1>1, <1>4, <3>1
  <2>3. CASE x \in DOMAIN a /\ y \notin DOMAIN a
    BY <1>4, <1>5, <1>6, <1>8, <2>3
  <2>4. CASE x \notin DOMAIN a /\ y \in DOMAIN a
    BY <1>4, <1>5, <1>6, <1>8, <2>4
  <2> QED BY <2>1, <2>2, <2>3, <2>4
<1>9. ASSUME NEW i \in 1..(n + 1), NEW k \in DOMAIN seqs[i]
      PROVE  \E x \in DOMAIN all : o[x] = i /\ t[x] = k
  <2>1. CASE i = n + 1
    <3>1. k \in 1..Len(b)
      BY <1>1, <2>1
    <3> DEFINE x == Len(a) + k
    <3>2. x \in DOMAIN all /\ x \notin DOMAIN a /\ x - Len(a) = k
      BY <1>1, <1>3, <3>1
    <3> HIDE DEF x
    <3>3. o[x] = n + 1 /\ t[x] = k
      BY <1>4, <3>2
    <3> QED BY <2>1, <3>2, <3>3
  <2>2. CASE i # n + 1
    <3>1. i \in 1..n
      BY <2>2
    <3>2. PICK x \in DOMAIN a : of[x] = i /\ at[x] = k
      BY <1>5, <3>1
    <3>3. x \in DOMAIN all
      BY <1>1, <1>3, <3>2
    <3> QED BY <1>4, <3>2, <3>3
  <2> QED BY <2>1, <2>2
<1>10. Spread(all, seqs, n + 1, o, t)
  BY <1>7, <1>8, <1>9 DEF Spread
<1> QED BY <1>10

\* Each element of a flattened sequence has its place in one of the sequences, and each
\* of those its own.
LEMMA FlattenSpread ==
  ASSUME NEW T, NEW seqs \in Seq(Seq(T))
  PROVE  \E of, at : Spread(FlattenSeq(seqs), seqs, Len(seqs), of, at)
<1> DEFINE m == Len(seqs)
<1>1. m \in Nat /\ \A n \in 1..m : seqs[n] \in Seq(T)
  BY LenProperties, ElementOfSeq
<1>2. CASE seqs = << >>
  <2>1. m = 0 /\ FlattenSeq(seqs) = << >>
    BY <1>2 DEF FlattenSeq
  <2>2. DOMAIN FlattenSeq(seqs) = {}
    <3>1. << >> = [x \in {} |-> {}]
      OBVIOUS
    <3> QED BY <2>1, <3>1
  <2>3. \A of, at : Spread(FlattenSeq(seqs), seqs, Len(seqs), of, at)
    <3>1. 1..Len(seqs) = {}
      BY <2>1
    <3> QED BY <2>2, <3>1 DEF Spread
  <2> HIDE DEF m
  <2> QED BY <2>3
<1>3. CASE seqs # << >>
  <2>1. PICK f \in [0..m -> Seq(T)] :
          /\ f[0] = << >> /\ \A n \in 1..m : f[n] = f[n - 1] \o seqs[n]
          /\ FlattenSeq(seqs) = f[m]
    BY <1>3, FlattenIs
  <2> DEFINE Bad == {n \in 0..m : ~ \E of, at : Spread(f[n], seqs, n, of, at)}
  <2> HIDE DEF m
  <2>2. ASSUME Bad # {} PROVE FALSE
    <3>1. Bad \in SUBSET Int /\ IsFiniteSet(Bad)
      <4>1. m \in Int /\ Bad \in SUBSET (0..m)
        BY <1>1
      <4>2. IsFiniteSet(0..m)
        BY <4>1, FS_Interval
      <4>3. Bad \in SUBSET Int
        BY <4>1
      <4> QED BY <4>1, <4>2, <4>3, FS_Subset
    <3>2. PICK k \in Bad : \A i \in Bad : k <= i
      <4> HIDE DEF Bad
      <4> QED BY <2>2, <3>1, MinIsFirst
    <3>3. k \in 0..m /\ ~ \E of, at : Spread(f[k], seqs, k, of, at)
      OBVIOUS
    <3>4. k # 0
      <4>0. << >> = [x \in {} |-> {}]
        OBVIOUS
      <4>1. DOMAIN f[0] = {}
        BY <2>1, <4>0
      <4>2. \A of, at : Spread(f[0], seqs, 0, of, at)
        <5>1. 1..0 = {}
          OBVIOUS
        <5> QED BY <4>1, <5>1 DEF Spread
      <4> QED BY <3>3, <4>2
    <3> DEFINE n == k - 1
    <3>5. n \in 0..m /\ n \in Nat /\ n + 1 = k /\ k \in 1..m /\ ~(k <= n)
      BY <1>1, <3>3, <3>4
    <3>6. n \notin Bad
      BY <3>2, <3>5
    <3>7. PICK of, at : Spread(f[n], seqs, n, of, at)
      BY <3>5, <3>6
    <3>8. f[k] = f[n] \o seqs[k]
      BY <2>1, <3>5
    <3> HIDE DEF n
    <3>9. f[n] \in Seq(T) /\ seqs[n + 1] \in Seq(T) /\ f[k] = f[n] \o seqs[n + 1]
      BY <1>1, <2>1, <3>5, <3>8
    <3>10. \E o, t : Spread(f[k], seqs, n + 1, o, t)
      BY <3>5, <3>7, <3>9, SpreadGrows
    <3> QED BY <3>3, <3>5, <3>10
  <2>3. m \in 0..m
    BY <1>1
  <2>4. \E of, at : Spread(f[m], seqs, m, of, at)
    BY <2>2, <2>3
  <2> QED BY <2>1, <2>4 DEF m
<1> QED BY <1>2, <1>3

-----------------------------------------------------------------------------
(* Pages.                                                                  *)

\* The rows that a query's slice is taken of.
Listed(q, plans, fetched) ==
  LET rows == [a \in Aliases(q) |-> Filter(fetched[a], plans[a].post)]
      recs == Records(q, rows)
  IN  Sorted(q, [i \in DOMAIN recs |-> Shown(q, plans, recs[i])])

\* The merge is a slice of the list that does not depend on the page.
LEMMA MergeIs ==
  ASSUME NEW q, NEW plans, NEW fetched
  PROVE  Merge(q, plans, fetched) = Slice(q, Listed(q, plans, fetched))
BY DEF Merge, Listed

\* Queries that differ in the page they ask for only.
SameButPage(q, r) ==
  /\ q.form = r.form /\ q.from = r.from /\ q.join = r.join
  /\ q.select = r.select /\ q.order = r.order

\* ... so queries that differ in their page only share the list.
LEMMA ListedSame ==
  ASSUME NEW q, NEW r, SameButPage(q, r), NEW plans, NEW fetched
  PROVE  Listed(q, plans, fetched) = Listed(r, plans, fetched)
<1>1. /\ q.form = r.form /\ q.from = r.from /\ q.join = r.join
      /\ q.select = r.select /\ q.order = r.order
  BY DEF SameButPage
<1>2. Aliases(q) = Aliases(r)
  BY <1>1 DEF Aliases
<1>3. \A a : Resolve(q, a) = Resolve(r, a)
  BY <1>1 DEF Resolve
<1>4. \A a, c : Label(q, a, c) = Label(r, a, c)
  BY <1>1 DEF Label
<1>5. \A a : SourceOf(q, a) = SourceOf(r, a)
  BY <1>1 DEF SourceOf, EntryOf
<1>6. Columns(q) = Columns(r)
  <2> DEFINE A(i) == Resolve(q, q.select[i][1])
             N(i) == IF IsStar(q, q.select[i]) THEN Catalog[SourceOf(q, A(i))] ELSE <<q.select[i][2]>>
             C(i, k) == [alias |-> A(i), column |-> N(i)[k],
                         label |-> IF Len(q.select[i]) = 3 THEN <<"", q.select[i][3]>>
                                   ELSE Label(q, q.select[i][1], N(i)[k])]
             B(i) == Resolve(r, r.select[i][1])
             M(i) == IF IsStar(r, r.select[i]) THEN Catalog[SourceOf(r, B(i))] ELSE <<r.select[i][2]>>
             D(i, k) == [alias |-> B(i), column |-> M(i)[k],
                         label |-> IF Len(r.select[i]) = 3 THEN <<"", r.select[i][3]>>
                                   ELSE Label(r, r.select[i][1], M(i)[k])]
             s == [i \in DOMAIN q.select |-> [k \in DOMAIN N(i) |-> C(i, k)]]
             t == [i \in DOMAIN r.select |-> [k \in DOMAIN M(i) |-> D(i, k)]]
  <2>1. Columns(q) = FlattenSeq(s) /\ Columns(r) = FlattenSeq(t)
    BY DEF Columns
  <2>2. \A i : A(i) = B(i)
    BY <1>1, <1>3
  <2>3. \A i : N(i) = M(i)
    <3>1. \A item : IsStar(q, item) <=> IsStar(r, item)
      BY <1>1 DEF IsStar
    <3> HIDE DEF A, B
    <3> QED BY <1>1, <1>5, <2>2, <3>1
  <2>4. \A i, k : C(i, k) = D(i, k)
    <3> HIDE DEF A, B, N, M
    <3> QED BY <1>1, <1>4, <2>2, <2>3
  <2>5. s = t
    <3> HIDE DEF A, B, N, M, C, D
    <3> QED BY <1>1, <2>3, <2>4
  <2> HIDE DEF s, t
  <2> QED BY <2>1, <2>5
<1>7. \A rec : Shown(q, plans, rec) = Shown(r, plans, rec)
  BY <1>6 DEF Shown
<1>8. \A rows : Records(q, rows) = Records(r, rows)
  BY <1>1 DEF Records
<1>9. OrderedBy(q) = OrderedBy(r)
  <2> DEFINE L(x) == IF x.form = "sql" THEN Label(x, x.order[1].by[1], x.order[1].by[2])
                     ELSE x.order[1].by
             S(x) == {i \in DOMAIN Columns(x) : Columns(x)[i].label = L(x)}
  <2>1. L(q) = L(r)
    BY <1>1, <1>4
  <2>2. S(q) = S(r)
    <3> HIDE DEF L
    <3> QED BY <1>6, <2>1
  <2>3. OrderedBy(q) = (IF q.order = << >> THEN {} ELSE S(q)) /\ OrderedBy(r) = (IF r.order = << >> THEN {} ELSE S(r))
    BY DEF OrderedBy
  <2> HIDE DEF S
  <2> QED BY <1>1, <2>2, <2>3
<1>10. \A v, w : SortsBefore(q, v, w) <=> SortsBefore(r, v, w)
  BY <1>1 DEF SortsBefore
<1>11. \A rows, i, j : Precedes(q, rows, i, j) <=> Precedes(r, rows, i, j)
  BY <1>9, <1>10 DEF Precedes
<1>12. \A rows, j : Place(q, rows, j) = Place(r, rows, j)
  BY <1>11 DEF Place
<1>13. \A rows : Sorted(q, rows) = Sorted(r, rows)
  BY <1>9, <1>12 DEF Sorted
<1> QED BY <1>2, <1>7, <1>8, <1>13 DEF Listed

\* A slice is a range of neighbouring rows.
LEMMA SliceIs ==
  ASSUME NEW q, NEW rows, q.offset \in Nat, NEW n \in Nat, Min({q.limit, MaxRows}) = n
  PROVE  Slice(q, rows) = SubSeq(rows, q.offset + 1, Min({Len(rows), q.offset + n}))
<1> DEFINE end == q.offset + n
           to == IF end < 0 THEN Len(rows) + end ELSE end
<1>1. Slice(q, rows) = SubSeq(rows, q.offset + 1, Min({Len(rows), to}))
  BY DEF Slice
<1>2. to = end
  OBVIOUS
<1> HIDE DEF end, to
<1>3. Slice(q, rows) = SubSeq(rows, q.offset + 1, Min({Len(rows), end}))
  BY <1>1, <1>2
<1> QED BY <1>3 DEF end

\* Two queries for the parts of a window that is cut after k rows.
Cuts(q, first, rest, o, m, k) ==
  /\ o \in Nat /\ q.offset = o /\ q.limit \in Int
  /\ m \in Int /\ Min({q.limit, MaxRows}) = m /\ k \in Int /\ 1 <= k /\ k <= m
  /\ first.offset = o /\ first.limit = k /\ rest.offset = o + k /\ rest.limit = m - k

\* Their slices together are the slice.
LEMMA SliceParts ==
  ASSUME NEW T, NEW rows \in Seq(T), NEW q, NEW first, NEW rest, NEW o, NEW m, NEW k,
         Cuts(q, first, rest, o, m, k)
  PROVE  Slice(q, rows) = Slice(first, rows) \o Slice(rest, rows)
<1> DEFINE n == Len(rows)
           a == Min({n, o + k})
           b == Min({n, o + m})
<1>0. /\ o \in Nat /\ q.offset = o /\ q.limit \in Int
      /\ m \in Int /\ Min({q.limit, MaxRows}) = m /\ k \in Int /\ 1 <= k /\ k <= m
      /\ first.offset = o /\ first.limit = k /\ rest.offset = o + k /\ rest.limit = m - k
  BY DEF Cuts
<1>1. n \in Nat /\ o \in Nat /\ MaxRows \in Nat \ {0} /\ q.limit \in Int
  BY <1>0, LenProperties, PlannerAssumption
<1>2. m \in Int /\ m <= MaxRows /\ k \in 1..m
  <2> DEFINE l == q.limit
  <2>1. l \in Int /\ MaxRows \in Int
    BY <1>1
  <2> HIDE DEF l
  <2>2. Min({l, MaxRows}) \in {l, MaxRows} /\ Min({l, MaxRows}) <= MaxRows
    BY <2>1, LesserOfTwo
  <2> QED BY <1>0, <2>1, <2>2 DEF l
<1> HIDE DEF n
<1>3. Min({k, MaxRows}) = k /\ Min({m - k, MaxRows}) = m - k
  <2> DEFINE x == m - k
  <2>1. x \in Int /\ k \in Int /\ MaxRows \in Int /\ x <= MaxRows /\ k <= MaxRows
    BY <1>1, <1>2
  <2> HIDE DEF x
  <2>2. \A y \in Int : y <= MaxRows => Min({y, MaxRows}) = y
    <3> SUFFICES ASSUME NEW y \in Int, y <= MaxRows
                 PROVE  Min({y, MaxRows}) = y
      OBVIOUS
    <3>1. Min({y, MaxRows}) \in {y, MaxRows} /\ Min({y, MaxRows}) <= y
      BY <2>1, LesserOfTwo
    <3> QED BY <2>1, <3>1
  <2> QED BY <2>1, <2>2 DEF x
<1>4. /\ a \in Int /\ a \in {n, o + k} /\ a <= n /\ a <= o + k
      /\ b \in Int /\ b \in {n, o + m} /\ b <= n /\ b <= o + m
  <2> DEFINE x == o + k
             y == o + m
  <2>1. x \in Int /\ y \in Int /\ n \in Int
    BY <1>1, <1>2
  <2> HIDE DEF x, y
  <2>2. /\ Min({n, x}) \in {n, x} /\ Min({n, x}) <= n /\ Min({n, x}) <= x
        /\ Min({n, y}) \in {n, y} /\ Min({n, y}) <= n /\ Min({n, y}) <= y
    BY <2>1, LesserOfTwo
  <2> QED BY <2>1, <2>2 DEF x, y
<1>5. Slice(q, rows) = SubSeq(rows, o + 1, b)
  <2>1. m \in Nat /\ Min({q.limit, MaxRows}) = m /\ q.offset \in Nat
    BY <1>0, <1>2
  <2>2. Slice(q, rows) = SubSeq(rows, q.offset + 1, Min({Len(rows), q.offset + m}))
    BY <2>1, SliceIs
  <2> QED BY <1>0, <2>2 DEF n
<1>6. Slice(first, rows) = SubSeq(rows, o + 1, a)
  <2>1. k \in Nat /\ Min({first.limit, MaxRows}) = k /\ first.offset \in Nat
    BY <1>0, <1>2, <1>3
  <2>2. Slice(first, rows) = SubSeq(rows, first.offset + 1, Min({Len(rows), first.offset + k}))
    BY <2>1, SliceIs
  <2> QED BY <1>0, <2>2 DEF n
<1>7. Slice(rest, rows) = SubSeq(rows, o + k + 1, b)
  <2>1. rest.offset = o + k /\ rest.limit = m - k
    BY <1>0
  <2> DEFINE l == m - k
  <2>2. l \in Nat /\ (o + k) + l = o + m /\ rest.offset \in Nat
    BY <1>1, <1>2, <2>1
  <2>3. Min({rest.limit, MaxRows}) = l
    BY <1>3, <2>1
  <2> HIDE DEF l
  <2>4. Slice(rest, rows) = SubSeq(rows, rest.offset + 1, Min({Len(rows), rest.offset + l}))
    BY <2>2, <2>3, SliceIs
  <2> QED BY <2>1, <2>2, <2>4 DEF n
<1> HIDE DEF a, b
<1> DEFINE i == o + 1
           c == o + k
<1>8. /\ i \in Nat \ {0} /\ c \in Int /\ a <= Len(rows) /\ b <= Len(rows) /\ c >= i - 1 /\ b >= a
      /\ a = c \/ (a = Len(rows) /\ a < c /\ b = a)
  BY <1>1, <1>2, <1>4 DEF n
<1> HIDE DEF i, c
<1>9. SubSeq(rows, i, b) = SubSeq(rows, i, a) \o SubSeq(rows, c + 1, b)
  <2>1. Meet(rows, i, a, b, c)
    BY <1>4, <1>8 DEF Meet
  <2>2. IsCut(rows, i, a, b, c)
    BY <2>1, PartsMeet
  <2> QED BY <2>2 DEF IsCut
<1> QED BY <1>5, <1>6, <1>7, <1>9 DEF i, c

-----------------------------------------------------------------------------
(* The records of a join.                                                  *)

\* Record x is of row f[x] of build and row g[x] of probe, no two of the same, and all
\* that agree make one.
JoinedBy(recs, build, bAlias, bCol, probe, pAlias, pCol, f, g) ==
  /\ \A x \in DOMAIN recs :
       /\ f[x] \in DOMAIN build /\ g[x] \in DOMAIN probe
       /\ recs[x] = Record(bAlias, build[f[x]], pAlias, probe[g[x]])
       /\ Get(build[f[x]], bCol) = Get(probe[g[x]], pCol)
  /\ \A x, y \in DOMAIN recs : f[x] = f[y] /\ g[x] = g[y] => x = y
  /\ \A j \in DOMAIN build, i \in DOMAIN probe :
       Get(build[j], bCol) = Get(probe[i], pCol) => \E x \in DOMAIN recs : f[x] = j /\ g[x] = i

\* A join has each pair of rows with equal keys at one place.
LEMMA HashJoinIs ==
  ASSUME NEW build, build \in Only(build), NEW probe, probe \in Only(probe),
         NEW bAlias, NEW bCol, NEW pAlias, NEW pCol,
         NEW recs, recs = HashJoin(build, bAlias, bCol, probe, pAlias, pCol)
  PROVE  \E f, g : JoinedBy(recs, build, bAlias, bCol, probe, pAlias, pCol, f, g)
<1> DEFINE S(i) == {j \in DOMAIN build : Get(build[j], bCol) = Get(probe[i], pCol)}
           hits(i) == Selected(build, S(i))
           R(i, k) == Record(bAlias, hits(i)[k], pAlias, probe[i])
           seqs == [i \in DOMAIN probe |-> [k \in DOMAIN hits(i) |-> R(i, k)]]
           n == Len(probe)
           T == {Record(bAlias, b, pAlias, p) : b \in ToSet(build), p \in ToSet(probe)}
           Fits(h, i) == /\ IsPart(h, hits(i), build) /\ \A x \in DOMAIN hits(i) : h[x] \in S(i)
                         /\ \A j \in S(i) : \E x \in DOMAIN hits(i) : h[x] = j
           from(i) == CHOOSE h : Fits(h, i)
<1>1. recs = FlattenSeq(seqs)
  BY DEF HashJoin
<1>2. n \in Nat /\ DOMAIN probe = 1..n /\ \A i \in 1..n : probe[i] \in ToSet(probe)
  BY OnlyGives
<1>3. ASSUME NEW i \in 1..n
      PROVE  hits(i) \in Seq(ToSet(build)) /\ Fits(from(i), i)
  <2>1. S(i) \in SUBSET (DOMAIN build) /\ build \in Seq(ToSet(build))
    BY DEF Only
  <2> HIDE DEF S
  <2>2. hits(i) \in Seq(ToSet(build))
    BY <2>1, SelectedType
  <2>3. \E h : Fits(h, i)
    BY <2>1, PartSelected
  <2> HIDE DEF Fits
  <2>4. Fits(from(i), i)
    BY <2>3
  <2> QED BY <2>2, <2>4
<1>4. \A j \in ToSet(build), i \in 1..n : Record(bAlias, j, pAlias, probe[i]) \in T
  BY <1>2
<1>5. \A i \in 1..n : \A j \in DOMAIN build : j \in S(i) <=> Get(build[j], bCol) = Get(probe[i], pCol)
  OBVIOUS
<1>6. \A i, k : R(i, k) = Record(bAlias, hits(i)[k], pAlias, probe[i])
  OBVIOUS
<1>7. seqs = [i \in 1..n |-> seqs[i]] /\ \A i \in 1..n : seqs[i] = [k \in DOMAIN hits(i) |-> R(i, k)]
  BY <1>2
<1>8. \A i \in 1..n : /\ IsPart(from(i), hits(i), build)
                      /\ \A x \in DOMAIN hits(i) : from(i)[x] \in S(i)
                      /\ \A j \in S(i) : \E x \in DOMAIN hits(i) : from(i)[x] = j
  BY <1>3
<1> HIDE DEF n, S, hits, R, T, Fits, from, seqs
<1>9. ASSUME NEW i \in 1..n
      PROVE  seqs[i] \in Seq(T) /\ DOMAIN seqs[i] = DOMAIN hits(i)
  <2>1. /\ Len(hits(i)) \in Nat /\ DOMAIN hits(i) = 1..Len(hits(i))
        /\ \A k \in 1..Len(hits(i)) : hits(i)[k] \in ToSet(build)
    BY <1>3, LenProperties, ElementOfSeq
  <2>2. seqs[i] = [k \in 1..Len(hits(i)) |-> R(i, k)] /\ \A k \in 1..Len(hits(i)) : R(i, k) \in T
    BY <1>4, <1>6, <1>7, <2>1
  <2> QED BY <2>1, <2>2, IsASeq
<1>10. seqs \in Seq(Seq(T)) /\ Len(seqs) = n
  <2>1. seqs \in Seq(Seq(T))
    BY <1>2, <1>7, <1>9, IsASeq
  <2>2. seqs \in Only(seqs) /\ Len(seqs) = n
    BY <1>2, <1>7, MadeOnly
  <2> QED BY <2>1, <2>2
<1>11. \E of, at : Spread(recs, seqs, n, of, at)
  BY <1>1, <1>10, FlattenSpread
<1>12. PICK of, at : Spread(recs, seqs, n, of, at)
  BY <1>11
<1> DEFINE f == [x \in DOMAIN recs |-> from(of[x])[at[x]]]
           g == [x \in DOMAIN recs |-> of[x]]
<1>13. ASSUME NEW x \in DOMAIN recs
       PROVE  /\ of[x] \in 1..n /\ at[x] \in DOMAIN hits(of[x]) /\ f[x] \in DOMAIN build
              /\ f[x] \in S(of[x]) /\ recs[x] = Record(bAlias, build[f[x]], pAlias, probe[of[x]])
  <2>1. of[x] \in 1..n /\ at[x] \in DOMAIN seqs[of[x]] /\ recs[x] = seqs[of[x]][at[x]]
    BY <1>12 DEF Spread
  <2>2. at[x] \in DOMAIN hits(of[x])
    BY <1>9, <2>1
  <2>3. recs[x] = Record(bAlias, hits(of[x])[at[x]], pAlias, probe[of[x]])
    BY <1>6, <1>7, <2>1, <2>2
  <2>4. hits(of[x])[at[x]] = build[f[x]] /\ f[x] \in DOMAIN build /\ f[x] \in S(of[x])
    BY <1>8, <2>1, <2>2 DEF IsPart
  <2> QED BY <2>1, <2>2, <2>3, <2>4
<1>14. ASSUME NEW x \in DOMAIN recs, NEW y \in DOMAIN recs, f[x] = f[y], g[x] = g[y]
       PROVE  x = y
  <2>1. of[x] = of[y]
    BY <1>14
  <2>2. from(of[x])[at[x]] = from(of[x])[at[y]]
    BY <1>14, <2>1
  <2>3. at[x] = at[y]
    BY <1>8, <1>13, <2>1, <2>2 DEF IsPart
  <2> QED BY <1>12, <2>1, <2>3 DEF Spread
<1>15. \A x \in DOMAIN recs : g[x] = of[x] /\ f[x] = from(of[x])[at[x]]
  OBVIOUS
<1> HIDE DEF f, g
<1>16. ASSUME NEW j \in DOMAIN build, NEW i \in 1..n, Get(build[j], bCol) = Get(probe[i], pCol)
       PROVE  \E x \in DOMAIN recs : f[x] = j /\ g[x] = i
  <2>1. PICK k \in DOMAIN hits(i) : from(i)[k] = j
    BY <1>5, <1>8, <1>16
  <2>2. k \in DOMAIN seqs[i]
    BY <1>9
  <2>3. PICK x \in DOMAIN recs : of[x] = i /\ at[x] = k
    BY <1>12, <2>2 DEF Spread
  <2> QED BY <1>15, <2>1, <2>3
<1>17. JoinedBy(recs, build, bAlias, bCol, probe, pAlias, pCol, f, g)
  BY <1>2, <1>5, <1>13, <1>14, <1>15, <1>16 DEF JoinedBy
<1> QED BY <1>17

\* Every row, or every two that agree, make a record.
AllRecords(q, rows, recs, at) ==
  IF q.join = << >>
  THEN LET a == q.from[1].alias
       IN  \A i \in DOMAIN rows[a] : \E x \in DOMAIN recs : at[x][a] = i
  ELSE LET l == q.join[1].left
           r == q.join[1].right
       IN  l[1] = r[1] \/ \A i \in DOMAIN rows[l[1]], j \in DOMAIN rows[r[1]] :
             Get(rows[l[1]][i], l[2]) = Get(rows[r[1]][j], r[2]) =>
               \E x \in DOMAIN recs : at[x][l[1]] = i /\ at[x][r[1]] = j

\* Record x is of row at[x][a] of each alias a.
RecordsOf(q, rows, recs, at) ==
  /\ at \in [DOMAIN recs -> [Joined(q) -> Nat]]
  /\ \A x \in DOMAIN recs :
       /\ DOMAIN recs[x] = Joined(q)
       /\ \A a \in Joined(q) : at[x][a] \in DOMAIN rows[a] /\ recs[x][a] = rows[a][at[x][a]]
  /\ \/ q.join = << >>
     \/ q.join[1].left[1] = q.join[1].right[1]
     \/ \A x \in DOMAIN recs :
          Get(recs[x][q.join[1].left[1]], q.join[1].left[2])
            = Get(recs[x][q.join[1].right[1]], q.join[1].right[2])
  /\ \/ q.join # << >> /\ q.join[1].left[1] = q.join[1].right[1]
     \/ \A x, y \in DOMAIN recs : at[x] = at[y] => x = y
  /\ AllRecords(q, rows, recs, at)

\* The tables of a match are of the query.
LEMMA JoinedIs ==
  ASSUME NEW q, q.from # << >>, q.from \in Only(q.from), ~JoinsUnknown(q)
  PROVE  Joined(q) \subseteq Aliases(q)
<1>1. 1 \in DOMAIN q.from
  <2>1. Len(q.from) \in Nat /\ DOMAIN q.from = 1..Len(q.from) /\ q.from \in Seq(ToSet(q.from))
    BY OnlyGives
  <2>2. Len(q.from) # 0
    BY <2>1, EmptySeq
  <2> QED BY <2>1, <2>2
<1>2. q.from[1].alias \in Aliases(q)
  BY <1>1 DEF Aliases
<1> QED BY <1>2 DEF JoinsUnknown, Joined

\* ... of a join of a.c and b.d.
PairsOf(recs, rows, a, c, b, d, at) ==
  /\ at \in [DOMAIN recs -> [{a, b} -> Nat]]
  /\ \A x \in DOMAIN recs :
       /\ DOMAIN recs[x] = {a, b}
       /\ \A e \in {a, b} : at[x][e] \in DOMAIN rows[e] /\ recs[x][e] = rows[e][at[x][e]]
  /\ a = b \/ \A x \in DOMAIN recs : Get(recs[x][a], c) = Get(recs[x][b], d)
  /\ a = b \/ \A x, y \in DOMAIN recs : at[x] = at[y] => x = y
  /\ a = b \/ \A i \in DOMAIN rows[a], j \in DOMAIN rows[b] :
       Get(rows[a][i], c) = Get(rows[b][j], d) => \E x \in DOMAIN recs : at[x][a] = i /\ at[x][b] = j

\* The sides of a join are interchangeable.
LEMMA SidesAre ==
  ASSUME NEW recs, NEW s, NEW t, NEW a, NEW b, NEW c, NEW d, NEW f, NEW g,
         JoinedBy(recs, s, a, c, t, b, d, f, g), DOMAIN s \subseteq Nat, DOMAIN t \subseteq Nat,
         NEW rows, rows[a] = s, rows[b] = t
  PROVE  \E at : PairsOf(recs, rows, a, c, b, d, at)
<1> DEFINE at == [x \in DOMAIN recs |-> [e \in {a, b} |-> IF e = b THEN g[x] ELSE f[x]]]
<1>1. /\ \A x \in DOMAIN recs :
           /\ f[x] \in DOMAIN s /\ g[x] \in DOMAIN t
           /\ recs[x] = Record(a, s[f[x]], b, t[g[x]])
           /\ Get(s[f[x]], c) = Get(t[g[x]], d)
      /\ \A x, y \in DOMAIN recs : f[x] = f[y] /\ g[x] = g[y] => x = y
      /\ \A i \in DOMAIN s, j \in DOMAIN t :
           Get(s[i], c) = Get(t[j], d) => \E x \in DOMAIN recs : f[x] = i /\ g[x] = j
  BY DEF JoinedBy
<1>2. \A x \in DOMAIN recs : recs[x] = [e \in {a, b} |-> IF e = b THEN t[g[x]] ELSE s[f[x]]]
  BY <1>1 DEF Record
<1>3. \A x \in DOMAIN recs : /\ DOMAIN recs[x] = {a, b} /\ recs[x][b] = t[g[x]]
                             /\ a # b => recs[x][a] = s[f[x]]
  BY <1>2
<1>4. \A x \in DOMAIN recs : at[x][b] = g[x] /\ (a # b => at[x][a] = f[x]) /\ at[x] \in [{a, b} -> Nat]
  BY <1>1
<1>5. at \in [DOMAIN recs -> [{a, b} -> Nat]]
  BY <1>4
<1> HIDE DEF at
<1>6. \A x \in DOMAIN recs :
        \A e \in {a, b} : at[x][e] \in DOMAIN rows[e] /\ recs[x][e] = rows[e][at[x][e]]
  BY <1>1, <1>3, <1>4
<1>7. a = b \/ \A x \in DOMAIN recs : Get(recs[x][a], c) = Get(recs[x][b], d)
  BY <1>1, <1>3
<1>8. a = b \/ \A x, y \in DOMAIN recs : at[x] = at[y] => x = y
  BY <1>1, <1>4
<1>9. a = b \/ \A i \in DOMAIN rows[a], j \in DOMAIN rows[b] :
        Get(rows[a][i], c) = Get(rows[b][j], d) => \E x \in DOMAIN recs : at[x][a] = i /\ at[x][b] = j
  BY <1>1, <1>4
<1>10. PairsOf(recs, rows, a, c, b, d, at)
  BY <1>3, <1>5, <1>6, <1>7, <1>8, <1>9 DEF PairsOf
<1> QED BY <1>10

\* ... and it does not matter which of them is named first.
LEMMA SidesTurn ==
  ASSUME NEW recs, NEW rows, NEW a, NEW b, NEW c, NEW d, NEW at, PairsOf(recs, rows, a, c, b, d, at)
  PROVE  PairsOf(recs, rows, b, d, a, c, at)
<1> DEFINE S == {a, b}
<1>1. S = {b, a}
  OBVIOUS
<1>2. /\ at \in [DOMAIN recs -> [S -> Nat]]
      /\ \A x \in DOMAIN recs :
           /\ DOMAIN recs[x] = S
           /\ \A e \in S : at[x][e] \in DOMAIN rows[e] /\ recs[x][e] = rows[e][at[x][e]]
  BY DEF PairsOf
<1> HIDE DEF S
<1>3. /\ b = a \/ \A x \in DOMAIN recs : Get(recs[x][b], d) = Get(recs[x][a], c)
      /\ b = a \/ \A x, y \in DOMAIN recs : at[x] = at[y] => x = y
  BY DEF PairsOf
<1>4. b = a \/ \A i \in DOMAIN rows[b], j \in DOMAIN rows[a] :
        Get(rows[b][i], d) = Get(rows[a][j], c) => \E x \in DOMAIN recs : at[x][b] = i /\ at[x][a] = j
  BY DEF PairsOf
<1> QED BY <1>1, <1>2, <1>3, <1>4 DEF PairsOf

\* Each record is put together from rows of the tables and, unless a table is joined with
\* itself under one alias, no two of them from the same rows.
LEMMA RecordsAre ==
  ASSUME NEW q, q.from # << >>, q.from \in Only(q.from), ~JoinsUnknown(q),
         NEW rows, \A a \in Aliases(q) : rows[a] \in Only(rows[a]),
         NEW recs, recs = Records(q, rows)
  PROVE  \E at : RecordsOf(q, rows, recs, at)
<1>1. Joined(q) \subseteq Aliases(q)
  BY JoinedIs
<1>2. CASE q.join = << >>
  <2> DEFINE a == q.from[1].alias
             r == rows[a]
             at == [x \in DOMAIN r |-> [b \in {a} |-> x]]
  <2>1. Joined(q) = {a} /\ r \in Only(r)
    BY <1>1, <1>2 DEF Joined
  <2>2. recs = [i \in DOMAIN r |-> [b \in {a} |-> r[i]]]
    BY <1>2 DEF Records
  <2>3. DOMAIN r \subseteq Nat
    <3>1. DOMAIN r = 1..Len(r) /\ Len(r) \in Nat
      BY <2>1, OnlyGives
    <3> QED BY <3>1
  <2> HIDE DEF a
  <2>4. /\ at \in [DOMAIN recs -> [{a} -> Nat]] /\ DOMAIN recs = DOMAIN r
        /\ \A x \in DOMAIN recs : DOMAIN recs[x] = {a} /\ recs[x][a] = r[x] /\ at[x][a] = x
    BY <2>2, <2>3
  <2> HIDE DEF at
  <2>5. \A x, y \in DOMAIN recs : at[x] = at[y] => x = y
    BY <2>4
  <2>6. \A x \in DOMAIN recs : at[x][a] \in DOMAIN rows[a] /\ recs[x][a] = rows[a][at[x][a]]
    BY <2>4
  <2>7. at \in [DOMAIN recs -> [{a} -> Nat]] /\ \A x \in DOMAIN recs : DOMAIN recs[x] = {a}
    BY <2>4
  <2>8. \A i \in DOMAIN rows[a] : i \in DOMAIN recs /\ at[i][a] = i
    BY <2>4
  <2> HIDE DEF r
  <2>9. AllRecords(q, rows, recs, at)
    BY <1>2, <2>8 DEF AllRecords, a
  <2>10. RecordsOf(q, rows, recs, at)
    BY <1>2, <2>1, <2>5, <2>6, <2>7, <2>9 DEF RecordsOf
  <2> QED BY <2>10
<1>3. CASE q.join # << >>
  <2> DEFINE l == q.join[1].left
             r == q.join[1].right
             s == rows[l[1]]
             t == rows[r[1]]
  <2>1. Joined(q) = {l[1], r[1]} /\ s \in Only(s) /\ t \in Only(t)
    BY <1>1, <1>3 DEF Joined
  <2>2. recs = IF Len(s) <= Len(t) THEN HashJoin(s, l[1], l[2], t, r[1], r[2])
               ELSE HashJoin(t, r[1], r[2], s, l[1], l[2])
    BY <1>3 DEF Records
  <2>3. DOMAIN s \subseteq Nat /\ DOMAIN t \subseteq Nat
    <3>1. \A n \in Nat : 1..n \subseteq Nat
      OBVIOUS
    <3> HIDE DEF s, t
    <3>2. DOMAIN s = 1..Len(s) /\ Len(s) \in Nat
      BY <2>1, OnlyGives
    <3>3. DOMAIN t = 1..Len(t) /\ Len(t) \in Nat
      BY <2>1, OnlyGives
    <3> QED BY <3>1, <3>2, <3>3
  <2>4. rows[l[1]] = s /\ rows[r[1]] = t
    OBVIOUS
  <2> HIDE DEF s, t
  <2>5. ASSUME Len(s) <= Len(t)
        PROVE  \E at : PairsOf(recs, rows, l[1], l[2], r[1], r[2], at)
    <3>1. recs = HashJoin(s, l[1], l[2], t, r[1], r[2])
      BY <2>2, <2>5
    <3> HIDE DEF l, r
    <3>2. \E f, g : JoinedBy(recs, s, l[1], l[2], t, r[1], r[2], f, g)
      BY <2>1, <3>1, HashJoinIs
    <3>3. PICK f, g : JoinedBy(recs, s, l[1], l[2], t, r[1], r[2], f, g)
      BY <3>2
    <3>4. \E at : PairsOf(recs, rows, l[1], l[2], r[1], r[2], at)
      BY <2>3, <2>4, <3>3, SidesAre
    <3> QED BY <3>4
  <2>6. ASSUME ~(Len(s) <= Len(t))
        PROVE  \E at : PairsOf(recs, rows, l[1], l[2], r[1], r[2], at)
    <3>1. recs = HashJoin(t, r[1], r[2], s, l[1], l[2])
      BY <2>2, <2>6
    <3> HIDE DEF l, r
    <3>2. \E f, g : JoinedBy(recs, t, r[1], r[2], s, l[1], l[2], f, g)
      BY <2>1, <3>1, HashJoinIs
    <3>3. PICK f, g : JoinedBy(recs, t, r[1], r[2], s, l[1], l[2], f, g)
      BY <3>2
    <3>4. \E at : PairsOf(recs, rows, r[1], r[2], l[1], l[2], at)
      BY <2>3, <2>4, <3>3, SidesAre
    <3>5. PICK at : PairsOf(recs, rows, r[1], r[2], l[1], l[2], at)
      BY <3>4
    <3>6. PairsOf(recs, rows, l[1], l[2], r[1], r[2], at)
      BY <3>5, SidesTurn
    <3> QED BY <3>6
  <2>7. PICK at : PairsOf(recs, rows, l[1], l[2], r[1], r[2], at)
    BY <2>5, <2>6
  <2>8. AllRecords(q, rows, recs, at)
    <3>1. l[1] = r[1] \/ \A i \in DOMAIN rows[l[1]], j \in DOMAIN rows[r[1]] :
            Get(rows[l[1]][i], l[2]) = Get(rows[r[1]][j], r[2]) =>
              \E x \in DOMAIN recs : at[x][l[1]] = i /\ at[x][r[1]] = j
      BY <2>7 DEF PairsOf
    <3> QED BY <1>3, <3>1 DEF AllRecords
  <2> DEFINE J == Joined(q)
  <2>9. /\ at \in [DOMAIN recs -> [J -> Nat]]
        /\ \A x \in DOMAIN recs :
             /\ DOMAIN recs[x] = J
             /\ \A a \in J : at[x][a] \in DOMAIN rows[a] /\ recs[x][a] = rows[a][at[x][a]]
    <3> DEFINE S == {l[1], r[1]}
    <3>1. /\ at \in [DOMAIN recs -> [S -> Nat]]
          /\ \A x \in DOMAIN recs :
               /\ DOMAIN recs[x] = S
               /\ \A a \in S : at[x][a] \in DOMAIN rows[a] /\ recs[x][a] = rows[a][at[x][a]]
      BY <2>7 DEF PairsOf
    <3>2. J = S
      BY <2>1
    <3> HIDE DEF J, S
    <3> QED BY <3>1, <3>2
  <2>10. /\ l[1] = r[1] \/ \A x \in DOMAIN recs : Get(recs[x][l[1]], l[2]) = Get(recs[x][r[1]], r[2])
         /\ l[1] = r[1] \/ \A x, y \in DOMAIN recs : at[x] = at[y] => x = y
    BY <2>7 DEF PairsOf
  <2>11. /\ \/ q.join = << >>
            \/ q.join[1].left[1] = q.join[1].right[1]
            \/ \A x \in DOMAIN recs :
                 Get(recs[x][q.join[1].left[1]], q.join[1].left[2])
                   = Get(recs[x][q.join[1].right[1]], q.join[1].right[2])
         /\ \/ q.join # << >> /\ q.join[1].left[1] = q.join[1].right[1]
            \/ \A x, y \in DOMAIN recs : at[x] = at[y] => x = y
    BY <1>3, <2>10
  <2> HIDE DEF l, r
  <2>12. RecordsOf(q, rows, recs, at)
    BY <2>8, <2>9, <2>11 DEF RecordsOf
  <2> QED BY <2>12
<1> QED BY <1>2, <1>3

-----------------------------------------------------------------------------
(* The listed rows.                                                        *)

\* Rows of every table that are some of its table's.
OfTables(q, fetched) == \A a \in Aliases(q) : fetched[a] \in Seq(ToSet(Data[SourceOf(q, a)]))

Posted(q, plans, fetched) == [a \in Aliases(q) |-> Filter(fetched[a], plans[a].post)]

\* A post-filter leaves rows of the table.
LEMMA PostedIs ==
  ASSUME NEW q, NEW plans, NEW fetched, OfTables(q, fetched), NEW a \in Aliases(q)
  PROVE  /\ Posted(q, plans, fetched)[a] \in Seq(ToSet(Data[SourceOf(q, a)]))
         /\ Posted(q, plans, fetched)[a] \in Only(Posted(q, plans, fetched)[a])
<1>1. Posted(q, plans, fetched)[a] = Filter(fetched[a], plans[a].post)
  BY DEF Posted
<1>2. fetched[a] \in Seq(ToSet(Data[SourceOf(q, a)]))
  BY DEF OfTables
<1>3. Posted(q, plans, fetched)[a] \in Seq(ToSet(Data[SourceOf(q, a)]))
  BY <1>1, <1>2, FilterOnly
<1> QED BY <1>3, OnlyIs

\* A query that is not refused has a table.
LEMMA FromIsNotEmpty ==
  ASSUME NEW q \in Query, NEW role, Refusal(q, role) = "no"
  PROVE  q.from # << >> /\ q.from \in Only(q.from)
BY NotRefused, FederationAssumption DEF IsQuery

\* The records of an execution, with the rows they are made of.
LEMMA RecordsExist ==
  ASSUME NEW q \in Query, NEW role, Refusal(q, role) = "no", ~JoinsUnknown(q),
         NEW plans, NEW fetched, OfTables(q, fetched),
         NEW rows, rows = Posted(q, plans, fetched), NEW recs, recs = Records(q, rows)
  PROVE  recs \in Only(recs) /\ \E at : RecordsOf(q, rows, recs, at)
<1>1. q.from # << >> /\ q.from \in Only(q.from)
  BY FromIsNotEmpty
<1>2. \A a \in Aliases(q) : rows[a] \in Only(rows[a])
  BY PostedIs
<1>3. recs \in Only(recs)
  BY <1>1, <1>2, RecordsOnly
<1>4. \E at : RecordsOf(q, rows, recs, at)
  BY <1>1, <1>2, RecordsAre
<1> QED BY <1>3, <1>4

\* A row of a record is one of its table.
LEMMA RecordHas ==
  ASSUME NEW q \in Query, NEW role, Refusal(q, role) = "no", ~JoinsUnknown(q),
         NEW plans, NEW fetched, OfTables(q, fetched), NEW x \in DOMAIN Records(q, Posted(q, plans, fetched)),
         NEW a \in DOMAIN Records(q, Posted(q, plans, fetched))[x]
  PROVE  /\ a \in Aliases(q)
         /\ Records(q, Posted(q, plans, fetched))[x][a] \in ToSet(Data[SourceOf(q, a)])
<1> DEFINE rows == Posted(q, plans, fetched)
           recs == Records(q, rows)
<1>1. q.from # << >> /\ q.from \in Only(q.from)
  BY FromIsNotEmpty
<1>2. PICK at : RecordsOf(q, rows, recs, at)
  BY RecordsExist
<1>3. a \in Joined(q) /\ at[x][a] \in DOMAIN rows[a] /\ recs[x][a] = rows[a][at[x][a]]
  BY <1>2 DEF RecordsOf
<1>4. a \in Aliases(q)
  BY <1>1, <1>3, JoinedIs
<1>5. rows[a] \in Seq(ToSet(Data[SourceOf(q, a)]))
  BY <1>4, PostedIs
<1> HIDE DEF rows
<1>6. rows[a][at[x][a]] \in ToSet(Data[SourceOf(q, a)])
  <2>1. DOMAIN rows[a] = 1..Len(rows[a])
    BY <1>5, LenProperties
  <2> QED BY <1>3, <1>5, <2>1, ElementOfSeq
<1> QED BY <1>3, <1>4, <1>6 DEF rows

\* Two cells of a column of a table.
LEMMA CellsAlike ==
  ASSUME NEW s \in Source, NEW col, NEW v, NEW w,
         v = Null \/ \E r \in ToSet(Data[s]) : v = Get(r, col),
         w = Null \/ \E r \in ToSet(Data[s]) : w = Get(r, col)
  PROVE  IsValue(v) /\ (v # Null /\ w # Null => v[1] = w[1])
<1> DEFINE rows == Data[s]
<1>1. IsValue(Null)
  BY DEF Null, IsValue
<1>2. OneKind(rows)
  BY FederationAssumption
<1>3. \A u \in {v, w} : u = Null \/ \E i \in DOMAIN rows : col \in DOMAIN rows[i] /\ u = rows[i][col]
  BY DEF ToSet, Get
<1> HIDE DEF rows
<1>4. v # Null => IsValue(v)
  BY <1>2, <1>3 DEF OneKind
<1>5. ASSUME v # Null, w # Null
      PROVE  v[1] = w[1]
  <2>1. PICK i \in DOMAIN rows : col \in DOMAIN rows[i] /\ v = rows[i][col]
    BY <1>3, <1>5
  <2>2. PICK j \in DOMAIN rows : col \in DOMAIN rows[j] /\ w = rows[j][col]
    BY <1>3, <1>5
  <2>3. col \in DOMAIN rows[i] \cap DOMAIN rows[j]
    BY <2>1, <2>2
  <2> QED BY <1>2, <1>5, <2>1, <2>2, <2>3 DEF OneKind
<1> QED BY <1>1, <1>4, <1>5

\* A mask gives a string.
LEMMA MaskedIs ==
  ASSUME NEW v
  PROVE  MaskEmail(v)[1] = "str" /\ IsValue(MaskEmail(v))
BY FederationAssumption DEF MaskEmail, Hidden, IsValue

\* A row has a cell for each output column.
LEMMA ShownIs ==
  ASSUME NEW q \in Query, NEW role, Refusal(q, role) = "no", NEW plans, NEW rec
  PROVE  /\ DOMAIN Shown(q, plans, rec) = DOMAIN Columns(q)
         /\ Len(Shown(q, plans, rec)) = Len(Columns(q))
<1> DEFINE cols == Columns(q)
           out == Shown(q, plans, rec)
<1>1. Len(cols) \in Nat /\ DOMAIN cols = 1..Len(cols)
  BY ColumnsAre, OnlyGives
<1>2. out = [i \in DOMAIN cols |-> out[i]]
  BY DEF Shown
<1> HIDE DEF cols, out
<1>3. Len(out) = Len(cols) /\ DOMAIN out = 1..Len(cols)
  <2>1. out = [i \in 1..Len(cols) |-> out[i]]
    BY <1>1, <1>2
  <2> QED BY <1>1, <2>1, MadeOnly
<1> QED BY <1>1, <1>3 DEF cols, out

\* Rows are ordered by one of their columns.
LEMMA OrderColumn ==
  ASSUME NEW q \in Query, NEW role, Refusal(q, role) = "no", OrderedBy(q) # {}
  PROVE  Min(OrderedBy(q)) \in DOMAIN Columns(q)
<1> DEFINE S == OrderedBy(q)
           n == Len(Columns(q))
<1>1. n \in Nat /\ DOMAIN Columns(q) = 1..n
  BY ColumnsAre, OnlyGives
<1>2. S \in SUBSET (DOMAIN Columns(q))
  BY DEF OrderedBy
<1> HIDE DEF S, n
<1>3. IsFiniteSet(1..n)
  BY <1>1, FS_Interval
<1>4. IsFiniteSet(S) /\ S \in SUBSET Int
  <2>1. \A i \in 1..n : i \in Int
    BY <1>1
  <2> QED BY <1>1, <1>2, <1>3, <2>1, FS_Subset
<1>5. Min(S) \in S
  <2>1. S # {}
    BY DEF S
  <2> QED BY <1>4, <2>1, MinIsFirst
<1> QED BY <1>2, <1>5 DEF S

\* The cells of that column can be compared, masked or not.
LEMMA ShownSortable ==
  ASSUME NEW q \in Query, NEW role, Refusal(q, role) = "no", ~JoinsUnknown(q), OrderedBy(q) # {},
         NEW plans, NEW fetched, OfTables(q, fetched),
         NEW recs, recs = Records(q, Posted(q, plans, fetched))
  PROVE  Sortable(q, [i \in DOMAIN recs |-> Shown(q, plans, recs[i])])
<1> DEFINE c == Min(OrderedBy(q))
           cols == Columns(q)
           a == cols[c].alias
           col == cols[c].column
           V(i) == Cell(recs[i], cols[c])
           masked == col \in DOMAIN plans[a].masks
           shown == [i \in DOMAIN recs |-> Shown(q, plans, recs[i])]
<1>1. c \in DOMAIN cols
  BY OrderColumn
<1>2. a \in Aliases(q)
  <2>1. cols \in Only(cols) /\ \A x \in ToSet(cols) : x.alias \in Aliases(q)
    BY ColumnsAre
  <2>2. cols[c] \in ToSet(cols)
    BY <1>1, <2>1, OnlyGives
  <2> QED BY <2>1, <2>2
<1>3. SourceOf(q, a) \in Source
  BY <1>2, PlanIs
<1>4. ASSUME NEW i \in DOMAIN recs
      PROVE  V(i) = Null \/ \E r \in ToSet(Data[SourceOf(q, a)]) : V(i) = Get(r, col)
  <2>1. CASE a \in DOMAIN recs[i]
    <3>1. recs[i][a] \in ToSet(Data[SourceOf(q, a)])
      BY <2>1, RecordHas
    <3>2. V(i) = Get(recs[i][a], col)
      BY <2>1 DEF Cell
    <3> QED BY <3>1, <3>2
  <2>2. CASE a \notin DOMAIN recs[i]
    BY <2>2 DEF Cell
  <2> QED BY <2>1, <2>2
<1>5. \A i \in DOMAIN recs : shown[i][c] = IF masked THEN MaskEmail(V(i)) ELSE V(i)
  BY <1>1 DEF Shown
<1>6. ASSUME NEW i \in DOMAIN recs, NEW j \in DOMAIN recs
      PROVE  IsValue(V(i)) /\ (V(i) # Null /\ V(j) # Null => V(i)[1] = V(j)[1])
  <2> DEFINE v == V(i)
             w == V(j)
             s == SourceOf(q, a)
  <2>1. /\ v = Null \/ \E r \in ToSet(Data[s]) : v = Get(r, col)
        /\ w = Null \/ \E r \in ToSet(Data[s]) : w = Get(r, col)
    BY <1>4
  <2>2. s \in Source
    BY <1>3
  <2> HIDE DEF v, w, s, col
  <2>3. IsValue(v) /\ (v # Null /\ w # Null => v[1] = w[1])
    BY <2>1, <2>2, CellsAlike
  <2> QED BY <2>3 DEF v, w
<1> HIDE DEF c, V, masked
<1>7. \A i, j \in DOMAIN recs :
        /\ IsValue(shown[i][c])
        /\ shown[i][c] # Null /\ shown[j][c] # Null => shown[i][c][1] = shown[j][c][1]
  <2>1. CASE masked
    <3>1. \A i \in DOMAIN recs : shown[i][c] = MaskEmail(V(i))
      BY <1>5, <2>1
    <3> HIDE DEF shown
    <3> QED BY <3>1, MaskedIs
  <2>2. CASE ~masked
    <3>1. \A i \in DOMAIN recs : shown[i][c] = V(i)
      BY <1>5, <2>2
    <3> HIDE DEF shown
    <3> QED BY <1>6, <3>1
  <2> QED BY <2>1, <2>2
<1>8. DOMAIN shown = DOMAIN recs
  OBVIOUS
<1> HIDE DEF shown
<1>9. Sortable(q, shown)
  BY <1>7, <1>8 DEF Sortable, c
<1> QED BY <1>9 DEF shown

\* Listed row k is record from[k], as it is shown.
ListedFrom(q, plans, recs, out, from) ==
  /\ from \in [DOMAIN out -> DOMAIN recs]
  /\ \A k \in DOMAIN out : out[k] = Shown(q, plans, recs[from[k]])
  /\ \A k, l \in DOMAIN out : from[k] = from[l] => k = l
  /\ \A x \in DOMAIN recs : \E k \in DOMAIN out : from[k] = x

\* The list before the slice is the records in the order asked for, each once.
LEMMA ListedIs ==
  ASSUME NEW q \in Query, NEW role, Refusal(q, role) = "no", ~JoinsUnknown(q),
         NEW plans, NEW fetched, OfTables(q, fetched),
         NEW recs, recs = Records(q, Posted(q, plans, fetched)),
         NEW out, out = Listed(q, plans, fetched)
  PROVE  /\ out \in Only(out)
         /\ \E from : ListedFrom(q, plans, recs, out, from)
         /\ OrderedBy(q) # {} => InOrder(q, out) /\ Sortable(q, out)
<1> DEFINE shown == [i \in DOMAIN recs |-> Shown(q, plans, recs[i])]
           n == Len(recs)
<1>1. out = Sorted(q, shown)
  BY DEF Listed, Posted
<1>2. recs \in Only(recs)
  BY RecordsExist
<1>3. shown \in Only(shown) /\ DOMAIN shown = DOMAIN recs
  <2>1. n \in Nat /\ DOMAIN recs = 1..n
    BY <1>2, OnlyGives
  <2>2. shown = [i \in 1..n |-> shown[i]]
    BY <2>1
  <2> HIDE DEF shown, n
  <2> QED BY <2>1, <2>2, MadeOnly
<1>4. OrderedBy(q) # {} => Sortable(q, shown)
  BY ShownSortable
<1>5. \A i \in DOMAIN recs : shown[i] = Shown(q, plans, recs[i])
  OBVIOUS
<1> HIDE DEF shown
<1>6. PICK from : Moved(from, out, shown)
  BY <1>1, <1>3, <1>4, SortedIs
<1>7. out \in Only(out) /\ Len(out) = Len(shown)
  BY <1>1, <1>3, SortedOnly
<1>8. ListedFrom(q, plans, recs, out, from)
  BY <1>3, <1>5, <1>6 DEF ListedFrom, Moved
<1>9. ASSUME OrderedBy(q) # {}
      PROVE  InOrder(q, out) /\ Sortable(q, out)
  <2>1. InOrder(q, out)
    BY <1>1, <1>3, <1>4, <1>9, SortedIs
  <2>2. \A k \in DOMAIN out : from[k] \in DOMAIN shown /\ out[k] = shown[from[k]]
    BY <1>6 DEF Moved
  <2>3. Sortable(q, out)
    BY <1>4, <1>9, <2>2 DEF Sortable
  <2> QED BY <2>1, <2>3
<1> QED BY <1>7, <1>8, <1>9

-----------------------------------------------------------------------------
(* Execute.                                                                *)

\* The entries of a table are some of its rows.
CacheShape == \A k \in DOMAIN cache : k[1] \in Source /\ cache[k] \in Seq(ToSet(Data[k[1]]))

\* Each table's rows are those of its entry or fetched, and an entry is as it was or
\* holds such rows.
Filled(role, q, fetched) ==
  /\ \A a \in Aliases(q) :
       \/ /\ CacheKey(Plans(q, role)[a]) \in DOMAIN cache
          /\ fetched[a] = cache[CacheKey(Plans(q, role)[a])]
       \/ fetched[a] = Fetched(Plans(q, role)[a])
  /\ \A k \in DOMAIN cache' :
       \/ k \in DOMAIN cache /\ cache'[k] = cache[k]
       \/ \E a \in Aliases(q) : CacheKey(Plans(q, role)[a]) = k /\ cache'[k] = fetched[a]

\* The query was executed, with those rows.
Executed(role, q, fetched) ==
  /\ OfTables(q, fetched) /\ Refusal(q, role) = "no"
  /\ asked' = <<role, q>>
  /\ answer' = IF JoinsUnknown(q)
               THEN [status |-> "crashed", rows |-> << >>]
               ELSE [status |-> "ok", rows |-> Merge(q, Plans(q, role), fetched)]
  /\ OwnEntries(q, role) =>
       \A a \in Aliases(q) : cache'[CacheKey(Plans(q, role)[a])] = fetched[a]
  /\ Filled(role, q, fetched)

\* An execution answers from rows of its tables, and leaves rows of their tables in the
\* cache.
LEMMA ExecuteGives ==
  ASSUME NEW role \in Role, NEW q \in Query, Execute(role, q), CacheShape
  PROVE  CacheShape' /\ \E fetched : Executed(role, q, fetched)
<1> DEFINE A == Aliases(q)
           plans == Plans(q, role)
           key == [a \in A |-> CacheKey(plans[a])]
<1>1. PICK hits \in SUBSET {a \in A : key[a] \in DOMAIN cache} :
        LET misses == A \ hits
            fetched == [a \in A |-> IF a \in hits THEN cache[key[a]] ELSE Fetched(plans[a])]
        IN  /\ cache' = [k \in DOMAIN cache \cup {key[a] : a \in misses} |->
                          IF \E a \in misses : key[a] = k
                          THEN fetched[CHOOSE a \in misses : key[a] = k]
                          ELSE cache[k]]
            /\ answer' = IF JoinsUnknown(q)
                         THEN [status |-> "crashed", rows |-> << >>]
                         ELSE [status |-> "ok", rows |-> Merge(q, plans, fetched)]
  BY DEF Execute
<1> DEFINE misses == A \ hits
           fetched == [a \in A |-> IF a \in hits THEN cache[key[a]] ELSE Fetched(plans[a])]
<1>2. /\ cache' = [k \in DOMAIN cache \cup {key[a] : a \in misses} |->
                    IF \E a \in misses : key[a] = k
                    THEN fetched[CHOOSE a \in misses : key[a] = k]
                    ELSE cache[k]]
      /\ answer' = IF JoinsUnknown(q)
                   THEN [status |-> "crashed", rows |-> << >>]
                   ELSE [status |-> "ok", rows |-> Merge(q, plans, fetched)]
  BY <1>1
<1>3. Refusal(q, role) = "no" /\ asked' = <<role, q>>
  BY DEF Execute
<1>4. ASSUME NEW a \in A
      PROVE  /\ key[a] = CacheKey(plans[a]) /\ key[a][1] = SourceOf(q, a)
             /\ SourceOf(q, a) \in Source /\ plans[a].source = SourceOf(q, a)
             /\ plans[a].limit \in Int /\ plans[a] = SourcePlan(q, role, a)
  <2>1. plans[a] = SourcePlan(q, role, a)
    BY DEF Plans
  <2> QED BY <1>3, <2>1, PlanIs DEF CacheKey
<1>5. ASSUME NEW a \in A
      PROVE  /\ fetched[a] = IF a \in hits THEN cache[key[a]] ELSE Fetched(plans[a])
             /\ fetched[a] \in Seq(ToSet(Data[SourceOf(q, a)]))
  <2>1. CASE a \in hits
    <3>1. key[a] \in DOMAIN cache
      BY <1>1, <2>1
    <3> QED BY <1>4, <2>1, <3>1 DEF CacheShape
  <2>2. CASE a \notin hits
    <3>1. Fetched(plans[a]) \in Seq(ToSet(Data[plans[a].source]))
      BY <1>4, FetchedIs
    <3> QED BY <1>4, <2>2, <3>1
  <2> QED BY <2>1, <2>2
<1> HIDE DEF key, plans, fetched
<1>6. OfTables(q, fetched)
  BY <1>5 DEF OfTables
<1>10. ASSUME NEW k \in DOMAIN cache'
       PROVE  \/ k \in DOMAIN cache /\ cache'[k] = cache[k]
              \/ \E a \in A : key[a] = k /\ cache'[k] = fetched[a]
  <2>1. k \in DOMAIN cache \/ \E a \in misses : key[a] = k
    BY <1>2
  <2>2. CASE \E a \in misses : key[a] = k
    <3> DEFINE b == CHOOSE a \in misses : key[a] = k
    <3>1. b \in misses /\ key[b] = k
      BY <2>2
    <3>2. cache'[k] = fetched[b]
      BY <1>2, <2>2
    <3> HIDE DEF b
    <3> QED BY <3>1, <3>2
  <2>3. CASE ~ \E a \in misses : key[a] = k
    BY <1>2, <2>1, <2>3
  <2> QED BY <2>2, <2>3
<1>7. CacheShape'
  <2> SUFFICES ASSUME NEW k \in DOMAIN cache'
               PROVE  k[1] \in Source /\ cache'[k] \in Seq(ToSet(Data[k[1]]))
    BY DEF CacheShape
  <2>1. CASE k \in DOMAIN cache /\ cache'[k] = cache[k]
    BY <2>1 DEF CacheShape
  <2>2. CASE \E a \in A : key[a] = k /\ cache'[k] = fetched[a]
    <3>1. PICK b \in A : key[b] = k /\ cache'[k] = fetched[b]
      BY <2>2
    <3> QED BY <1>4, <1>5, <3>1
  <2> QED BY <1>10, <2>1, <2>2
<1>8. ASSUME OwnEntries(q, role), NEW a \in A
      PROVE  cache'[key[a]] = fetched[a]
  <2>1. \A b \in A : key[b] = key[a] => b = a
    BY <1>4, <1>8 DEF OwnEntries
  <2>2. CASE a \in misses
    <3> DEFINE b == CHOOSE x \in misses : key[x] = key[a]
    <3>1. b \in misses /\ key[b] = key[a] /\ b = a
      BY <2>1, <2>2
    <3>2. cache'[key[a]] = fetched[b]
      BY <1>2, <2>2
    <3> HIDE DEF b
    <3> QED BY <3>1, <3>2
  <2>3. CASE a \notin misses
    <3>1. ~ \E x \in misses : key[x] = key[a]
      BY <2>1, <2>3
    <3>2. a \in hits /\ key[a] \in DOMAIN cache
      BY <1>1, <2>3
    <3>3. cache'[key[a]] = cache[key[a]]
      BY <1>2, <3>1, <3>2
    <3> QED BY <1>5, <3>2, <3>3
  <2> QED BY <2>2, <2>3
<1>9. Executed(role, q, fetched)
  <2>1. \A a \in Aliases(q) : key[a] = CacheKey(Plans(q, role)[a])
    BY <1>4 DEF plans
  <2>2. OwnEntries(q, role) => \A a \in Aliases(q) : cache'[CacheKey(Plans(q, role)[a])] = fetched[a]
    BY <1>8, <2>1
  <2>3. ASSUME NEW a \in Aliases(q)
        PROVE  \/ /\ CacheKey(Plans(q, role)[a]) \in DOMAIN cache
                  /\ fetched[a] = cache[CacheKey(Plans(q, role)[a])]
               \/ fetched[a] = Fetched(Plans(q, role)[a])
    <3>1. a \in hits => key[a] \in DOMAIN cache
      BY <1>1
    <3>2. Plans(q, role)[a] = plans[a]
      BY DEF plans
    <3> QED BY <1>5, <2>1, <3>1, <3>2
  <2>4. \A k \in DOMAIN cache' :
          \/ k \in DOMAIN cache /\ cache'[k] = cache[k]
          \/ \E a \in Aliases(q) : CacheKey(Plans(q, role)[a]) = k /\ cache'[k] = fetched[a]
    BY <1>10, <2>1
  <2>5. Filled(role, q, fetched)
    BY <2>3, <2>4 DEF Filled
  <2> QED BY <1>2, <1>3, <1>6, <2>2, <2>5 DEF Executed, plans
<1> QED BY <1>7, <1>9

-----------------------------------------------------------------------------
(* Types.                                                                  *)

\* The rows of a query have its columns.
AnswerShape ==
  /\ answer.status \in {"none", "ok", "crashed"} \cup Refusals
  /\ \A i \in DOMAIN answer.rows : Len(answer.rows[i]) = Len(Columns(asked[2]))

\* A page is a part of the list, whatever limit a plan document gives.
LEMMA SliceIsPart ==
  ASSUME NEW T, NEW rows \in Seq(T), NEW q, q.offset \in Nat, q.limit \in Int
  PROVE  \E from : IsPart(from, Slice(q, rows), rows)
<1> DEFINE n == Len(rows)
           l == q.limit
           m == Min({l, MaxRows})
           end == q.offset + m
           e == IF end < 0 THEN n + end ELSE end
           f == q.offset + 1
           to == Min({n, e})
<1>1. Slice(q, rows) = SubSeq(rows, f, to)
  BY DEF Slice
<1>2. l \in Int /\ MaxRows \in Int /\ n \in Int /\ f \in Nat \ {0}
  BY PlannerAssumption, LenProperties
<1> HIDE DEF l
<1>3. m \in Int
  BY <1>2, LesserOfTwo
<1> HIDE DEF m, n, f
<1>4. e \in Int
  BY <1>2, <1>3
<1> HIDE DEF e
<1>5. to \in Int /\ to <= n
  <2>1. Min({n, e}) \in {n, e} /\ Min({n, e}) <= n
    BY <1>2, <1>4, LesserOfTwo
  <2> QED BY <1>2, <1>4, <2>1
<1> HIDE DEF to
<1>6. to <= Len(rows)
  BY <1>5 DEF n
<1> DEFINE from == [x \in DOMAIN SubSeq(rows, f, to) |-> f + x - 1]
<1>7. IsPart(from, SubSeq(rows, f, to), rows)
  BY <1>2, <1>5, <1>6, PartSubSeq
<1> HIDE DEF from
<1>8. IsPart(from, Slice(q, rows), rows)
  BY <1>1, <1>7
<1> QED BY <1>8

\* Windows start at 0 or later.
LEMMA QueryIs ==
  ASSUME NEW q \in Query, NEW role, Refusal(q, role) = "no"
  PROVE  q.offset \in Nat /\ q.limit \in Int
BY NotRefused, FederationAssumption DEF IsQuery

\* The shape of cache and answer is inductive.
LEMMA TypesHold == Spec => [](CacheShape /\ AnswerShape)
<1>1. Init => CacheShape /\ AnswerShape
  <2> SUFFICES ASSUME Init PROVE CacheShape /\ AnswerShape
    OBVIOUS
  <2>1. << >> = [x \in {} |-> {}]
    OBVIOUS
  <2>2. DOMAIN << >> = {}
    BY <2>1
  <2>3. DOMAIN cache = {} /\ answer.status = "none" /\ DOMAIN answer.rows = {}
    BY <2>2 DEF Init, None
  <2> QED BY <2>3 DEF CacheShape, AnswerShape
<1>2. CacheShape /\ AnswerShape /\ [Next]_vars => (CacheShape /\ AnswerShape)'
  <2> SUFFICES ASSUME CacheShape, AnswerShape, [Next]_vars
               PROVE  CacheShape' /\ AnswerShape'
    OBVIOUS
  <2>0. DOMAIN << >> = {}
    <3>1. << >> = [x \in {} |-> {}]
      OBVIOUS
    <3> QED BY <3>1
  <2>1. CASE Return
    <3>1. cache' = cache /\ answer'.status = "none" /\ answer'.rows = << >>
      BY <2>1 DEF Return, None
    <3> QED BY <2>0, <3>1 DEF CacheShape, AnswerShape
  <2>2. ASSUME NEW role \in Role, NEW q \in Query, Refuse(role, q)
        PROVE  CacheShape' /\ AnswerShape'
    <3>1. cache' = cache /\ answer'.status = Refusal(q, role) /\ answer'.rows = << >> /\ Refusal(q, role) # "no"
      BY <2>2 DEF Refuse
    <3>2. answer'.status \in Refusals
      BY <3>1, RefusalIs
    <3> QED BY <2>0, <3>1, <3>2 DEF CacheShape, AnswerShape
  <2>3. ASSUME NEW role \in Role, NEW q \in Query, Execute(role, q)
        PROVE  CacheShape' /\ AnswerShape'
    <3>1. CacheShape' /\ \E fetched : Executed(role, q, fetched)
      BY <2>3, ExecuteGives
    <3>2. PICK fetched : Executed(role, q, fetched)
      BY <3>1
    <3>3. OfTables(q, fetched) /\ Refusal(q, role) = "no" /\ asked' = <<role, q>>
      BY <3>2 DEF Executed
    <3>4. CASE JoinsUnknown(q)
      <4>1. answer'.status = "crashed" /\ answer'.rows = << >>
        BY <3>2, <3>4 DEF Executed
      <4> QED BY <2>0, <3>1, <4>1 DEF AnswerShape
    <3>5. CASE ~JoinsUnknown(q)
      <4> DEFINE plans == Plans(q, role)
                 recs == Records(q, Posted(q, plans, fetched))
                 out == Listed(q, plans, fetched)
                 rows == Slice(q, out)
      <4>1. answer'.status = "ok" /\ answer'.rows = rows
        BY <3>2, <3>5, MergeIs DEF Executed
      <4> HIDE DEF plans
      <4>2. out \in Only(out) /\ \E from : ListedFrom(q, plans, recs, out, from)
        BY <3>3, <3>5, ListedIs
      <4>3. PICK from : ListedFrom(q, plans, recs, out, from)
        BY <4>2
      <4> HIDE DEF out, recs
      <4>4. PICK part : IsPart(part, rows, out)
        <5>1. out \in Seq(ToSet(out))
          BY <4>2 DEF Only
        <5> QED BY <3>3, <5>1, QueryIs, SliceIsPart
      <4> HIDE DEF rows
      <4>5. ASSUME NEW i \in DOMAIN rows
            PROVE  Len(rows[i]) = Len(Columns(q))
        <5>1. part[i] \in DOMAIN out /\ rows[i] = out[part[i]]
          BY <4>4 DEF IsPart
        <5>2. rows[i] = Shown(q, plans, recs[from[part[i]]])
          BY <4>3, <5>1 DEF ListedFrom
        <5> QED BY <3>3, <5>2, ShownIs
      <4> QED BY <3>1, <3>3, <4>1, <4>5 DEF AnswerShape
    <3> QED BY <3>4, <3>5
  <2>4. CASE UNCHANGED vars
    BY <2>4 DEF vars, CacheShape, AnswerShape
  <2> QED BY <2>1, <2>2, <2>3, <2>4 DEF Next
<1> QED BY <1>1, <1>2, PTL DEF Spec

\* The cache holds rows of its tables, and the rows of an answer have the query's
\* columns (freshness.py, executor.py).
THEOREM TypesAreKept == Spec => []TypeOK
<1>1. CacheShape /\ AnswerShape => TypeOK
  <2> SUFFICES ASSUME CacheShape, AnswerShape PROVE TypeOK
    OBVIOUS
  <2>1. \A k \in DOMAIN cache : k[1] \in Source /\ ToSet(cache[k]) \subseteq ToSet(Data[k[1]])
    BY OnlyIs DEF CacheShape
  <2> QED BY <2>1 DEF TypeOK, AnswerShape, Refusals
<1> QED BY <1>1, TypesHold, PTL

-----------------------------------------------------------------------------
(* Pages.                                                                  *)

\* The first k rows of a page, and the rest.
PagesMeet(q, plans, fetched, k) ==
  LET limit == Min({q.limit, MaxRows})
      Page(offset, n) == Merge([q EXCEPT !.offset = offset, !.limit = n], plans, fetched)
  IN  Merge(q, plans, fetched) = Page(q.offset, k) \o Page(q.offset + k, limit - k)

\* A list cut anywhere within the window gives the window back.
LEMMA PagesOfQuery ==
  ASSUME NEW q \in Query, NEW role, Refusal(q, role) = "no", ~JoinsUnknown(q),
         NEW plans, NEW fetched, OfTables(q, fetched), NEW k \in 1..Min({q.limit, MaxRows})
  PROVE  PagesMeet(q, plans, fetched, k)
<1> DEFINE limit == Min({q.limit, MaxRows})
           first == [q EXCEPT !.offset = q.offset, !.limit = k]
           rest == [q EXCEPT !.offset = q.offset + k, !.limit = limit - k]
           out == Listed(q, plans, fetched)
<1>1. DOMAIN q = {"form", "from", "where", "join", "select", "order", "limit", "offset"}
  BY FederationAssumption DEF IsQuery
<1>2. /\ first.form = q.form /\ first.from = q.from /\ first.join = q.join
      /\ first.select = q.select /\ first.order = q.order
      /\ first.offset = q.offset /\ first.limit = k
  BY <1>1
<1>3. /\ rest.form = q.form /\ rest.from = q.from /\ rest.join = q.join
      /\ rest.select = q.select /\ rest.order = q.order
      /\ rest.offset = q.offset + k /\ rest.limit = limit - k
  BY <1>1
<1> HIDE DEF first, rest
<1>4. SameButPage(first, q) /\ SameButPage(rest, q)
  BY <1>2, <1>3 DEF SameButPage
<1>5. Merge(q, plans, fetched) = Slice(q, out) /\ Merge(first, plans, fetched) = Slice(first, out)
      /\ Merge(rest, plans, fetched) = Slice(rest, out)
  BY <1>4, MergeIs, ListedSame
<1>6. out \in Seq(ToSet(out))
  <2> DEFINE recs == Records(q, Posted(q, plans, fetched))
  <2>1. out \in Only(out)
    BY ListedIs
  <2> QED BY <2>1 DEF Only
<1> HIDE DEF out
<1>7. q.offset \in Nat /\ q.limit \in Int
  BY QueryIs
<1>8. Slice(q, out) = Slice(first, out) \o Slice(rest, out)
  <2> DEFINE o == q.offset
  <2>1. o \in Nat /\ q.offset = o /\ first.offset = o /\ rest.offset = o + k /\ rest.limit = limit - k
    BY <1>2, <1>3, <1>7
  <2>2. Min({q.limit, MaxRows}) = limit /\ limit \in Int
    <3> DEFINE l == q.limit
    <3>1. l \in Int /\ MaxRows \in Int
      BY <1>7, PlannerAssumption
    <3> HIDE DEF l
    <3>2. Min({l, MaxRows}) \in {l, MaxRows}
      BY <3>1, LesserOfTwo
    <3> QED BY <3>1, <3>2 DEF l
  <2> HIDE DEF limit, o
  <2>3. k \in Int /\ 1 <= k /\ k <= limit
    BY <2>2 DEF limit
  <2>4. first.limit = k
    BY <1>2
  <2>5. Cuts(q, first, rest, o, limit, k)
    BY <1>7, <2>1, <2>2, <2>3, <2>4 DEF Cuts
  <2> QED BY <1>6, <2>5, SliceParts
<1> QED BY <1>5, <1>8 DEF PagesMeet, first, rest

\* A query that is asked page by page, over the same entries, answers each row once
\* and in the same order (executor.py:109, tests/test_pagination.py).
THEOREM PagesArePartition == Spec => []PagesPartition
<1>1. Init => PagesPartition
  BY DEF Init, None, PagesPartition, Answered
<1>2. CacheShape /\ PagesPartition /\ [Next]_vars => PagesPartition'
  <2> SUFFICES ASSUME CacheShape, PagesPartition, [Next]_vars PROVE PagesPartition'
    OBVIOUS
  <2>1. CASE Return
    BY <2>1 DEF Return, None, PagesPartition, Answered
  <2>2. ASSUME NEW role \in Role, NEW q \in Query, Refuse(role, q)
        PROVE  PagesPartition'
    <3>1. answer'.status = Refusal(q, role) /\ Refusal(q, role) # "no"
      BY <2>2 DEF Refuse
    <3>2. answer'.status # "ok"
      BY <3>1, RefusalIs DEF Refusals
    <3> QED BY <3>2 DEF PagesPartition, Answered
  <2>3. ASSUME NEW role \in Role, NEW q \in Query, Execute(role, q)
        PROVE  PagesPartition'
    <3>1. \E fetched : Executed(role, q, fetched)
      BY <2>3, ExecuteGives
    <3>2. PICK fetched : Executed(role, q, fetched)
      BY <3>1
    <3>3. OfTables(q, fetched) /\ Refusal(q, role) = "no" /\ asked' = <<role, q>>
      BY <3>2 DEF Executed
    <3>4. CASE JoinsUnknown(q)
      <4>1. answer'.status = "crashed"
        BY <3>2, <3>4 DEF Executed
      <4> QED BY <4>1 DEF PagesPartition, Answered
    <3>5. CASE ~JoinsUnknown(q)
      <4> DEFINE plans == Plans(q, role)
                 cached == [a \in Aliases(q) |-> cache'[CacheKey(plans[a])]]
                 limit == Min({q.limit, MaxRows})
                 Page(offset, n) == Merge([q EXCEPT !.offset = offset, !.limit = n], plans, cached)
      <4>1. answer'.rows = Merge(q, plans, fetched)
        BY <3>2, <3>5 DEF Executed
      <4>2. SUFFICES ASSUME OwnEntries(q, role), NEW k \in 1..limit
                     PROVE  answer'.rows = Page(q.offset, k) \o Page(q.offset + k, limit - k)
        BY <3>3 DEF PagesPartition
      <4>3. \A a \in Aliases(q) : cached[a] = fetched[a]
        BY <3>2, <4>2 DEF Executed
      <4>4. OfTables(q, cached)
        BY <3>3, <4>3 DEF OfTables
      <4>5. Merge(q, plans, cached) = Merge(q, plans, fetched)
        <5> HIDE DEF cached, plans
        <5>1. \A a \in Aliases(q) : Filter(cached[a], plans[a].post) = Filter(fetched[a], plans[a].post)
          BY <4>3
        <5>2. [a \in Aliases(q) |-> Filter(cached[a], plans[a].post)]
                = [a \in Aliases(q) |-> Filter(fetched[a], plans[a].post)]
          BY <5>1
        <5> QED BY <5>2 DEF Merge
      <4> HIDE DEF cached, plans
      <4>6. Merge(q, plans, cached) = Page(q.offset, k) \o Page(q.offset + k, limit - k)
        <5>1. PagesMeet(q, plans, cached, k)
          BY <3>3, <3>5, <4>4, PagesOfQuery
        <5> QED BY <5>1 DEF PagesMeet
      <4> QED BY <4>1, <4>5, <4>6
    <3> QED BY <3>4, <3>5
  <2>4. CASE UNCHANGED vars
    BY <2>4 DEF vars, PagesPartition, Answered
  <2> QED BY <2>1, <2>2, <2>3, <2>4 DEF Next
<1> QED BY <1>1, <1>2, TypesHold, PTL DEF Spec

-----------------------------------------------------------------------------
(* WHERE trees.                                                            *)

\* The operands of a node come before it.
LEMMA OperandsAre ==
  ASSUME NEW tree, IsTree(tree)
  PROVE  /\ Len(tree) \in Nat /\ DOMAIN tree = 1..Len(tree)
         /\ \A i \in DOMAIN tree :
              /\ i \in Int
              /\ tree[i].node = "and" => LeftOf(tree, i) \in 1..(i - 1) /\ RightOf(tree, i) \in 1..(i - 1)
              /\ tree[i].node = "paren" => RightOf(tree, i) \in 1..(i - 1)
<1>1. Len(tree) \in Nat /\ DOMAIN tree = 1..Len(tree)
  BY OnlyGives DEF IsTree
<1>2. ASSUME NEW i \in DOMAIN tree
      PROVE  /\ i \in Int
             /\ tree[i].node = "and" => LeftOf(tree, i) \in 1..(i - 1) /\ RightOf(tree, i) \in 1..(i - 1)
             /\ tree[i].node = "paren" => RightOf(tree, i) \in 1..(i - 1)
  <2>1. i \in Int /\ 1 <= i
    BY <1>1
  <2>2. /\ tree[i].node = "and" => tree[i].right \in 1..(i - 2)
        /\ tree[i].node = "paren" => i > 1
    BY DEF IsTree
  <2>3. ASSUME tree[i].node = "and"
        PROVE  LeftOf(tree, i) \in 1..(i - 1) /\ RightOf(tree, i) \in 1..(i - 1)
    <3> DEFINE r == tree[i].right
    <3>1. r \in 1..(i - 2)
      BY <2>2, <2>3
    <3> HIDE DEF r
    <3>2. i - 1 - r \in 1..(i - 1) /\ i - 1 \in 1..(i - 1)
      BY <2>1, <3>1
    <3> QED BY <3>2 DEF LeftOf, RightOf, r
  <2>4. tree[i].node = "paren" => RightOf(tree, i) \in 1..(i - 1)
    BY <2>1, <2>2 DEF RightOf
  <2> QED BY <2>1, <2>3, <2>4
<1> QED BY <1>1, <1>2

\* What holds of a place when it does of all before it.
LEMMA PlacesInTurn ==
  ASSUME NEW n \in Nat, NEW good,
         \A i \in 1..n : (\A j \in 1..(i - 1) : j \in good) => i \in good
  PROVE  \A i \in 1..n : i \in good
<1> DEFINE Bad == {i \in 1..n : i \notin good}
<1>1. SUFFICES ASSUME Bad # {} PROVE FALSE
  OBVIOUS
<1>2. Bad \in SUBSET Int /\ IsFiniteSet(Bad)
  <2>1. IsFiniteSet(1..n) /\ Bad \in SUBSET (1..n)
    BY FS_Interval
  <2> QED BY <2>1, FS_Subset
<1>3. PICK k \in Bad : \A i \in Bad : k <= i
  <2> HIDE DEF Bad
  <2> QED BY <1>1, <1>2, MinIsFirst
<1>4. ASSUME NEW j \in 1..(k - 1)
      PROVE  j \in good
  <2>1. j \in 1..n /\ ~(k <= j)
    OBVIOUS
  <2> QED BY <1>3, <2>1
<1> QED BY <1>4

\* The value of a node, of those of its operands.
NodeValue(f, tree, leaf, op, i) ==
  CASE tree[i].node = "and" -> op[<<f[LeftOf(tree, i)], f[RightOf(tree, i)]>>]
    [] tree[i].node = "paren" -> f[RightOf(tree, i)]
    [] OTHER -> leaf[i]

\* The value of a node is of the values' kind when those before it are,
LEMMA NodeValueIs ==
  ASSUME NEW tree, IsTree(tree), NEW i \in DOMAIN tree, NEW S, NEW leaf \in [DOMAIN tree -> S],
         NEW op \in [S \X S -> S], NEW f, \A j \in 1..(i - 1) : f[j] \in S
  PROVE  NodeValue(f, tree, leaf, op, i) \in S
<1> DEFINE l == LeftOf(tree, i)
           r == RightOf(tree, i)
<1>1. /\ tree[i].node = "and" => l \in 1..(i - 1) /\ r \in 1..(i - 1)
      /\ tree[i].node = "paren" => r \in 1..(i - 1)
  BY OperandsAre
<1>2. NodeValue(f, tree, leaf, op, i) = CASE tree[i].node = "and" -> op[<<f[l], f[r]>>]
                                          [] tree[i].node = "paren" -> f[r]
                                          [] OTHER -> leaf[i]
  BY DEF NodeValue
<1>3. leaf[i] \in S
  OBVIOUS
<1>4. \A x, y \in S : op[<<x, y>>] \in S
  OBVIOUS
<1> HIDE DEF l, r
<1> QED BY <1>1, <1>2, <1>3, <1>4

\* ... and depends on nothing but those before it.
LEMMA NodeValueSame ==
  ASSUME NEW tree, IsTree(tree), NEW i \in DOMAIN tree, NEW leaf, NEW op, NEW f, NEW g,
         \A j \in 1..(i - 1) : g[j] = f[j]
  PROVE  NodeValue(g, tree, leaf, op, i) = NodeValue(f, tree, leaf, op, i)
<1> DEFINE l == LeftOf(tree, i)
           r == RightOf(tree, i)
<1>1. /\ tree[i].node = "and" => l \in 1..(i - 1) /\ r \in 1..(i - 1)
      /\ tree[i].node = "paren" => r \in 1..(i - 1)
  BY OperandsAre
<1>2. \A x : NodeValue(x, tree, leaf, op, i) = CASE tree[i].node = "and" -> op[<<x[l], x[r]>>]
                                                 [] tree[i].node = "paren" -> x[r]
                                                 [] OTHER -> leaf[i]
  BY DEF NodeValue
<1> HIDE DEF l, r
<1> QED BY <1>1, <1>2

\* The table of the nodes' values.
IsTable(f, tree, leaf, op) == \A i \in DOMAIN tree : f[i] = NodeValue(f, tree, leaf, op, i)

\* So a recursive function over a tree has a value at every node.
LEMMA TableExists ==
  ASSUME NEW tree, IsTree(tree), NEW S, NEW leaf \in [DOMAIN tree -> S], NEW op \in [S \X S -> S]
  PROVE  \E f \in [DOMAIN tree -> S] : IsTable(f, tree, leaf, op)
<1> DEFINE n == Len(tree)
           V(f, i) == NodeValue(f, tree, leaf, op, i)
           Is(f, k) == \A i \in 1..k : f[i] = V(f, i)
           good == {k \in 1..n : \E f \in [1..k -> S] : Is(f, k)}
<1>1. n \in Nat /\ DOMAIN tree = 1..n
  BY OperandsAre
<1>2. CASE n = 0
  <2> DEFINE f == [i \in DOMAIN tree |-> leaf[i]]
  <2>1. f \in [DOMAIN tree -> S] /\ IsTable(f, tree, leaf, op)
    BY <1>1, <1>2 DEF IsTable
  <2> QED BY <2>1
<1> HIDE DEF n
<1>3. ASSUME NEW k \in 1..n, \A j \in 1..(k - 1) : j \in good
      PROVE  k \in good
  <2>1. \E f \in [1..(k - 1) -> S] : Is(f, k - 1)
    <3>1. CASE k = 1
      <4> DEFINE f == [i \in 1..(k - 1) |-> leaf[i]]
      <4>1. f \in [1..(k - 1) -> S] /\ \A i \in 1..(k - 1) : f[i] = V(f, i)
        BY <3>1
      <4> QED BY <4>1
    <3>2. CASE k # 1
      <4>1. k - 1 \in 1..(k - 1)
        BY <3>2
      <4>2. k - 1 \in good
        BY <1>3, <4>1
      <4> QED BY <4>2
    <3> QED BY <3>1, <3>2
  <2>2. PICK f \in [1..(k - 1) -> S] : Is(f, k - 1)
    BY <2>1
  <2> DEFINE e == V(f, k)
             g == [i \in 1..k |-> IF i = k THEN e ELSE f[i]]
  <2>3. k \in DOMAIN tree /\ \A j \in 1..(k - 1) : f[j] \in S
    BY <1>1
  <2>4. e \in S
    BY <2>3, NodeValueIs
  <2> HIDE DEF e
  <2>5. g \in [1..k -> S]
    <3>1. \A i \in 1..k : i # k => i \in 1..(k - 1)
      OBVIOUS
    <3> QED BY <2>4, <3>1
  <2>6. g[k] = e /\ \A j \in 1..(k - 1) : g[j] = f[j]
    OBVIOUS
  <2> HIDE DEF g
  <2>7. ASSUME NEW i \in 1..k
        PROVE  g[i] = V(g, i)
    <3>1. i \in DOMAIN tree /\ \A j \in 1..(i - 1) : j \in 1..(k - 1)
      BY <1>1
    <3>2. \A j \in 1..(i - 1) : f[j] \in S /\ g[j] = f[j]
      BY <2>6, <3>1
    <3>3. V(g, i) = V(f, i)
      BY <3>1, <3>2, NodeValueSame
    <3>4. g[i] = V(f, i)
      <4>1. CASE i = k
        BY <2>6, <4>1 DEF e
      <4>2. CASE i # k
        <5>1. i \in 1..(k - 1)
          BY <4>2
        <5> QED BY <2>2, <2>6, <5>1
      <4> QED BY <4>1, <4>2
    <3> QED BY <3>3, <3>4
  <2>8. Is(g, k)
    BY <2>7
  <2> HIDE DEF Is
  <2> QED BY <2>5, <2>8
<1>4. ASSUME n # 0 PROVE \E f \in [1..n -> S] : Is(f, n)
  <2>1. n \in 1..n
    BY <1>1, <1>4
  <2> HIDE DEF Is
  <2>2. \A i \in 1..n : (\A j \in 1..(i - 1) : j \in good) => i \in good
    BY <1>3
  <2> HIDE DEF good
  <2>3. n \in good
    BY <1>1, <2>1, <2>2, PlacesInTurn
  <2> QED BY <2>3 DEF good
<1>5. CASE n # 0
  BY <1>1, <1>4, <1>5 DEF IsTable
<1> QED BY <1>2, <1>5 DEF n

-----------------------------------------------------------------------------

\* The conditions under a node are those under its operands.
LEMMA FlattenedIs ==
  ASSUME NEW tree, IsTree(tree)
  PROVE  /\ Flattened(tree) \in [DOMAIN tree -> Seq(ToSet(tree))]
         /\ \A i \in DOMAIN tree :
              /\ tree[i].node = "and" =>
                   Flattened(tree)[i] = Flattened(tree)[LeftOf(tree, i)] \o Flattened(tree)[RightOf(tree, i)]
              /\ tree[i].node = "paren" => Flattened(tree)[i] = Flattened(tree)[RightOf(tree, i)]
              /\ tree[i].node \notin {"and", "paren"} => Flattened(tree)[i] = <<tree[i]>>
<1> DEFINE D == DOMAIN tree
           T == ToSet(tree)
           S == Seq(T)
           leaf == [i \in D |-> <<tree[i]>>]
           op == [p \in S \X S |-> p[1] \o p[2]]
           n == Len(tree)
           Under(h, i) == CASE tree[i].node = "and" -> h[LeftOf(tree, i)] \o h[RightOf(tree, i)]
                            [] tree[i].node = "paren" -> h[RightOf(tree, i)]
                            [] OTHER -> <<tree[i]>>
           Is(h) == h = [i \in D |-> Under(h, i)]
<1>1. Flattened(tree) = CHOOSE h : Is(h)
  BY DEF Flattened
<1>2. n \in Nat /\ D = 1..n
  BY OperandsAre
<1>3. leaf \in [D -> S]
  <2>1. \A i \in D : tree[i] \in T
    BY DEF ToSet
  <2> QED BY <2>1
<1>4. op \in [S \X S -> S]
  <2>1. \A p \in S \X S : p[1] \o p[2] \in S
    BY ConcatProperties
  <2> QED BY <2>1
<1>5. \A x, y \in S : op[<<x, y>>] = x \o y
  OBVIOUS
<1>6. \A i \in D : leaf[i] = <<tree[i]>>
  OBVIOUS
<1> HIDE DEF S, leaf, op
<1>7. PICK f \in [D -> S] : IsTable(f, tree, leaf, op)
  BY <1>3, <1>4, TableExists
<1>8. ASSUME NEW i \in D
      PROVE  f[i] = Under(f, i)
  <2>1. f[i] = NodeValue(f, tree, leaf, op, i)
    BY <1>7 DEF IsTable
  <2> DEFINE l == LeftOf(tree, i)
             r == RightOf(tree, i)
  <2>2. /\ tree[i].node = "and" => l \in 1..(i - 1) /\ r \in 1..(i - 1)
        /\ tree[i].node = "paren" => r \in 1..(i - 1)
        /\ \A j \in 1..(i - 1) : j \in D
    BY <1>2, OperandsAre
  <2> HIDE DEF D
  <2>3. tree[i].node = "and" => op[<<f[l], f[r]>>] = f[l] \o f[r]
    BY <1>5, <1>7, <2>2
  <2>4. leaf[i] = <<tree[i]>>
    BY <1>6
  <2> QED BY <2>1, <2>3, <2>4 DEF NodeValue
<1>9. Is(f)
  BY <1>7, <1>8
<1> DEFINE h == CHOOSE x : Is(x)
<1>10. Is(h)
  <2> HIDE DEF Is
  <2> QED BY <1>9
<1> HIDE DEF h
<1>11. \A i \in D : f[i] = Under(f, i) /\ h[i] = Under(h, i)
  BY <1>8, <1>10
<1>12. \A i \in D : f[i] = h[i]
  <2> DEFINE good == {i \in D : f[i] = h[i]}
  <2>1. ASSUME NEW i \in 1..n, \A j \in 1..(i - 1) : j \in good
        PROVE  i \in good
    <3> DEFINE l == LeftOf(tree, i)
               r == RightOf(tree, i)
    <3>1. /\ tree[i].node = "and" => l \in 1..(i - 1) /\ r \in 1..(i - 1)
          /\ tree[i].node = "paren" => r \in 1..(i - 1)
      BY <1>2, OperandsAre
    <3>2. /\ tree[i].node = "and" => f[l] = h[l] /\ f[r] = h[r]
          /\ tree[i].node = "paren" => f[r] = h[r]
      BY <2>1, <3>1
    <3>3. Under(f, i) = Under(h, i)
      BY <3>2
    <3> HIDE DEF Under
    <3> QED BY <1>2, <1>11, <3>3
  <2>2. \A i \in 1..n : (\A j \in 1..(i - 1) : j \in good) => i \in good
    BY <2>1
  <2> HIDE DEF good, n
  <2>3. \A i \in 1..n : i \in good
    BY <1>2, <2>2, PlacesInTurn
  <2> QED BY <1>2, <2>3 DEF good
<1>13. h \in [D -> S]
  <2>1. h = [i \in D |-> h[i]]
    BY <1>10
  <2> QED BY <1>7, <1>12, <2>1
<1> QED BY <1>1, <1>11, <1>13 DEF h, S

\* A tree on a match has a truth value at every node, given by its operands.
LEMMA HoldsIs ==
  ASSUME NEW tree, IsTree(tree), tree # << >>, NEW q, NEW rec
  PROVE  \E h \in [DOMAIN tree -> BOOLEAN] :
           /\ Holds(tree, q, rec) <=> h[Len(tree)]
           /\ \A i \in DOMAIN tree :
                /\ tree[i].node = "and" => (h[i] <=> h[LeftOf(tree, i)] /\ h[RightOf(tree, i)])
                /\ tree[i].node = "paren" => (h[i] <=> h[RightOf(tree, i)])
                /\ tree[i].node \notin {"and", "paren"} => (h[i] <=> Satisfies(tree[i], q, rec))
<1> DEFINE D == DOMAIN tree
           S == BOOLEAN
           leaf == [i \in D |-> Satisfies(tree[i], q, rec)]
           op == [p \in S \X S |-> p[1] /\ p[2]]
           n == Len(tree)
           Under(h, i) == CASE tree[i].node = "and" -> h[LeftOf(tree, i)] /\ h[RightOf(tree, i)]
                            [] tree[i].node = "paren" -> h[RightOf(tree, i)]
                            [] OTHER -> Satisfies(tree[i], q, rec)
           Is(h) == h = [i \in D |-> Under(h, i)]
<1>1. Holds(tree, q, rec) <=> (CHOOSE h : Is(h))[n]
  BY DEF Holds
<1>2. n \in Nat /\ D = 1..n
  BY OperandsAre
<1>3. leaf \in [D -> S]
  BY DEF Satisfies
<1>4. op \in [S \X S -> S]
  OBVIOUS
<1>5. \A x, y \in S : op[<<x, y>>] = (x /\ y)
  OBVIOUS
<1>6. \A i \in D : leaf[i] = Satisfies(tree[i], q, rec)
  OBVIOUS
<1> HIDE DEF S, leaf, op
<1>7. PICK f \in [D -> S] : IsTable(f, tree, leaf, op)
  BY <1>3, <1>4, TableExists
<1>8. ASSUME NEW i \in D
      PROVE  f[i] = Under(f, i)
  <2>1. f[i] = NodeValue(f, tree, leaf, op, i)
    BY <1>7 DEF IsTable
  <2> DEFINE l == LeftOf(tree, i)
             r == RightOf(tree, i)
  <2>2. /\ tree[i].node = "and" => l \in 1..(i - 1) /\ r \in 1..(i - 1)
        /\ tree[i].node = "paren" => r \in 1..(i - 1)
        /\ \A j \in 1..(i - 1) : j \in D
    BY <1>2, OperandsAre
  <2> HIDE DEF D
  <2>3. tree[i].node = "and" => op[<<f[l], f[r]>>] = (f[l] /\ f[r])
    BY <1>5, <1>7, <2>2
  <2>4. leaf[i] = Satisfies(tree[i], q, rec)
    BY <1>6
  <2> QED BY <2>1, <2>3, <2>4 DEF NodeValue
<1>9. Is(f)
  BY <1>7, <1>8
<1> DEFINE h == CHOOSE x : Is(x)
<1>10. Is(h)
  <2> HIDE DEF Is
  <2> QED BY <1>9
<1> HIDE DEF h
<1>11. \A i \in D : f[i] = Under(f, i) /\ h[i] = Under(h, i)
  BY <1>8, <1>10
<1>12. \A i \in D : f[i] = h[i]
  <2> DEFINE good == {i \in D : f[i] = h[i]}
  <2>1. ASSUME NEW i \in 1..n, \A j \in 1..(i - 1) : j \in good
        PROVE  i \in good
    <3> DEFINE l == LeftOf(tree, i)
               r == RightOf(tree, i)
    <3>1. /\ tree[i].node = "and" => l \in 1..(i - 1) /\ r \in 1..(i - 1)
          /\ tree[i].node = "paren" => r \in 1..(i - 1)
      BY <1>2, OperandsAre
    <3>2. /\ tree[i].node = "and" => f[l] = h[l] /\ f[r] = h[r]
          /\ tree[i].node = "paren" => f[r] = h[r]
      BY <2>1, <3>1
    <3>3. Under(f, i) = Under(h, i)
      BY <3>2
    <3> HIDE DEF Under
    <3> QED BY <1>2, <1>11, <3>3
  <2>2. \A i \in 1..n : (\A j \in 1..(i - 1) : j \in good) => i \in good
    BY <2>1
  <2> HIDE DEF good, n
  <2>3. \A i \in 1..n : i \in good
    BY <1>2, <2>2, PlacesInTurn
  <2> QED BY <1>2, <2>3 DEF good
<1>13. h \in [D -> S]
  <2>1. h = [i \in D |-> h[i]]
    BY <1>10
  <2> QED BY <1>7, <1>12, <2>1
<1>14. Holds(tree, q, rec) <=> h[n]
  BY <1>1 DEF h
<1> QED BY <1>11, <1>13, <1>14 DEF S

\* A concatenation has the elements of both.
LEMMA ConcatHas ==
  ASSUME NEW T, NEW a \in Seq(T), NEW b \in Seq(T)
  PROVE  ToSet(a) \subseteq ToSet(a \o b) /\ ToSet(b) \subseteq ToSet(a \o b)
<1>1. Len(a) \in Nat /\ Len(b) \in Nat /\ DOMAIN a = 1..Len(a) /\ DOMAIN b = 1..Len(b)
  BY LenProperties
<1>2. /\ Len(a \o b) = Len(a) + Len(b) /\ DOMAIN (a \o b) = 1..Len(a \o b)
      /\ \A i \in 1..(Len(a) + Len(b)) : (a \o b)[i] = IF i <= Len(a) THEN a[i] ELSE b[i - Len(a)]
  BY ConcatProperties, LenProperties
<1>3. ASSUME NEW i \in DOMAIN a
      PROVE  i \in DOMAIN (a \o b) /\ (a \o b)[i] = a[i]
  BY <1>1, <1>2
<1>4. ASSUME NEW i \in DOMAIN b
      PROVE  Len(a) + i \in DOMAIN (a \o b) /\ (a \o b)[Len(a) + i] = b[i]
  <2>1. Len(a) + i \in 1..(Len(a) + Len(b)) /\ ~(Len(a) + i <= Len(a)) /\ Len(a) + i - Len(a) = i
    BY <1>1
  <2> QED BY <1>2, <2>1
<1> QED BY <1>3, <1>4 DEF ToSet

\* A match of the predicate of a condition satisfies the condition (Predicate.matches).
LEMMA ConditionHolds ==
  ASSUME NEW cond, Parse(cond) # << >>, NEW q, NEW rec,
         Matches(Parse(cond)[1].pred, rec[Resolve(q, Parse(cond)[1].alias)])
  PROVE  Satisfies(cond, q, rec)
<1>1. CASE cond.node = "in"
  <2> DEFINE p == [column |-> cond.this[3], op |-> "IN",
                   value |-> [i \in DOMAIN cond.values |-> cond.values[i][2]]]
             row == rec[Resolve(q, cond.this[2])]
  <2>1. Parse(cond) = <<[alias |-> cond.this[2], pred |-> p]>>
    BY <1>1 DEF Parse
  <2>2. Matches(p, row)
    BY <2>1
  <2>3. cond.this[3] \in DOMAIN row /\ row[cond.this[3]] \in ToSet(p.value)
    BY <2>2 DEF Matches
  <2>4. \E i \in DOMAIN cond.values : row[cond.this[3]] = cond.values[i][2]
    BY <2>3 DEF ToSet
  <2> QED BY <1>1, <2>3, <2>4 DEF Satisfies
<1>2. CASE cond.node # "in"
  <2> DEFINE p == [column |-> cond.left[3], op |-> cond.op, value |-> <<cond.right[2]>>]
  <2>1. cond.node = "cmp" /\ Parse(cond) = <<[alias |-> cond.left[2], pred |-> p]>>
    BY <1>2 DEF Parse
  <2> HIDE DEF p
  <2>2. Matches(p, rec[Resolve(q, cond.left[2])])
    BY <2>1
  <2> QED BY <2>1, <2>2 DEF Satisfies, p
<1> QED BY <1>1, <1>2

\* A tree holds when all of its conditions do.
LEMMA TreeHolds ==
  ASSUME NEW tree, IsTree(tree), ~Unsupported(tree), NEW q, NEW rec,
         \A i \in DOMAIN Parsed(tree) :
           Matches(Parsed(tree)[i][1].pred, rec[Resolve(q, Parsed(tree)[i][1].alias)])
  PROVE  Holds(tree, q, rec)
<1>1. CASE tree = << >>
  BY <1>1 DEF Holds
<1>2. CASE tree # << >>
  <2> DEFINE D == DOMAIN tree
             n == Len(tree)
             under == Flattened(tree)
             Ok(c) == Satisfies(c, q, rec)
  <2>1. n \in Nat /\ D = 1..n /\ n # 0
    <3>1. n \in Nat /\ D = 1..n /\ tree \in Seq(ToSet(tree))
      BY OperandsAre, OnlyGives DEF IsTree
    <3> QED BY <1>2, <3>1, EmptySeq
  <2>2. PICK h \in [D -> BOOLEAN] :
          /\ Holds(tree, q, rec) <=> h[n]
          /\ \A i \in D :
               /\ tree[i].node = "and" => (h[i] <=> h[LeftOf(tree, i)] /\ h[RightOf(tree, i)])
               /\ tree[i].node = "paren" => (h[i] <=> h[RightOf(tree, i)])
               /\ tree[i].node \notin {"and", "paren"} => (h[i] <=> Satisfies(tree[i], q, rec))
    BY <1>2, HoldsIs
  <2>3. \A c \in ToSet(under[n]) : Ok(c)
    <3>1. Flatten(tree) = under[n]
      BY <1>2 DEF Flatten
    <3> SUFFICES ASSUME NEW i \in DOMAIN Flatten(tree)
                 PROVE  Ok(Flatten(tree)[i])
      BY <3>1 DEF ToSet
    <3>2. i \in DOMAIN Parsed(tree) /\ Parsed(tree)[i] = Parse(Flatten(tree)[i])
      BY DEF Parsed
    <3>3. Parse(Flatten(tree)[i]) # << >>
      BY <3>2 DEF Unsupported
    <3>4. Matches(Parse(Flatten(tree)[i])[1].pred, rec[Resolve(q, Parse(Flatten(tree)[i])[1].alias)])
      BY <3>2
    <3> QED BY <3>3, <3>4, ConditionHolds
  <2> DEFINE good == {i \in D : (\A c \in ToSet(under[i]) : Ok(c)) => h[i]}
  <2>4. ASSUME NEW i \in 1..n, \A j \in 1..(i - 1) : j \in good, \A c \in ToSet(under[i]) : Ok(c)
        PROVE  h[i]
    <3> DEFINE l == LeftOf(tree, i)
               r == RightOf(tree, i)
    <3>1. /\ tree[i].node = "and" => l \in 1..(i - 1) /\ r \in 1..(i - 1)
          /\ tree[i].node = "paren" => r \in 1..(i - 1)
          /\ \A j \in 1..(i - 1) : j \in D
      BY <2>1, OperandsAre
    <3>2. /\ under \in [D -> Seq(ToSet(tree))]
          /\ tree[i].node = "and" => under[i] = under[l] \o under[r]
          /\ tree[i].node = "paren" => under[i] = under[r]
          /\ tree[i].node \notin {"and", "paren"} => under[i] = <<tree[i]>>
      BY <2>1, FlattenedIs
    <3>3. /\ tree[i].node = "and" => (h[i] <=> h[l] /\ h[r])
          /\ tree[i].node = "paren" => (h[i] <=> h[r])
          /\ tree[i].node \notin {"and", "paren"} => (h[i] <=> Ok(tree[i]))
      BY <2>1, <2>2
    <3>4. \A j \in 1..(i - 1) : (\A c \in ToSet(under[j]) : Ok(c)) => h[j]
      BY <2>4
    <3> HIDE DEF l, r, under, D, Ok, good
    <3>5. CASE tree[i].node = "and"
      <4>1. l \in D /\ r \in D /\ l \in 1..(i - 1) /\ r \in 1..(i - 1)
        BY <3>1, <3>5
      <4>2. ToSet(under[l]) \subseteq ToSet(under[i]) /\ ToSet(under[r]) \subseteq ToSet(under[i])
        <5>1. under[l] \in Seq(ToSet(tree)) /\ under[r] \in Seq(ToSet(tree))
          BY <3>2, <4>1
        <5> QED BY <3>2, <3>5, <5>1, ConcatHas
      <4>3. h[l] /\ h[r]
        BY <2>4, <3>4, <4>1, <4>2
      <4> QED BY <3>3, <3>5, <4>3
    <3>6. CASE tree[i].node = "paren"
      BY <2>4, <3>1, <3>2, <3>3, <3>4, <3>6
    <3>7. CASE tree[i].node \notin {"and", "paren"}
      <4>1. tree[i] \in ToSet(under[i])
        <5>1. under[i] = <<tree[i]>>
          BY <3>2, <3>7
        <5>2. 1 \in DOMAIN <<tree[i]>> /\ <<tree[i]>>[1] = tree[i]
          OBVIOUS
        <5>3. tree[i] \in ToSet(<<tree[i]>>)
          BY <5>2 DEF ToSet
        <5> QED BY <5>1, <5>3
      <4> QED BY <2>4, <3>3, <3>7, <4>1
    <3> QED BY <3>5, <3>6, <3>7
  <2>5. \A i \in 1..n : (\A j \in 1..(i - 1) : j \in good) => i \in good
    BY <2>1, <2>4
  <2> HIDE DEF good, n
  <2>6. \A i \in 1..n : i \in good
    BY <2>1, <2>5, PlacesInTurn
  <2>7. n \in 1..n
    BY <2>1
  <2>8. h[n]
    <3>1. n \in good
      BY <2>6, <2>7
    <3> HIDE DEF under, Ok
    <3> QED BY <2>3, <3>1 DEF good
  <2> QED BY <2>2, <2>8 DEF n
<1> QED BY <1>1, <1>2

-----------------------------------------------------------------------------
(* The predicates of a plan.                                               *)

\* The parsed conditions of a tree are a sequence.
LEMMA FlattenTyped ==
  ASSUME NEW tree, IsTree(tree)
  PROVE  Parsed(tree) \in Only(Parsed(tree))
<1>1. Flatten(tree) \in Seq(ToSet(tree))
  <2>1. CASE tree = << >>
    BY <2>1, EmptySeq DEF Flatten
  <2>2. CASE tree # << >>
    <3>1. Len(tree) \in Nat /\ DOMAIN tree = 1..Len(tree) /\ tree \in Seq(ToSet(tree))
      BY OperandsAre, OnlyGives DEF IsTree
    <3>2. Len(tree) \in DOMAIN tree
      BY <2>2, <3>1, EmptySeq
    <3> QED BY <2>2, <3>2, FlattenedIs DEF Flatten
  <2> QED BY <2>1, <2>2
<1> DEFINE list == Flatten(tree)
           out == Parsed(tree)
           n == Len(list)
<1>2. n \in Nat /\ DOMAIN list = 1..n
  BY <1>1, LenProperties
<1>3. out = [i \in 1..n |-> out[i]]
  BY <1>2 DEF Parsed
<1> HIDE DEF list, n, out
<1>4. out \in Only(out)
  BY <1>2, <1>3, MadeOnly
<1> QED BY <1>4 DEF out

\* A row that matches all of both halves of a sequence matches all of it.
LEMMA MatchesHalves ==
  ASSUME NEW T, NEW preds \in Seq(T), NEW S \in SUBSET (DOMAIN preds), NEW row,
         MatchesAll(row, Selected(preds, S)), MatchesAll(row, Selected(preds, DOMAIN preds \ S))
  PROVE  MatchesAll(row, preds)
<1>1. ASSUME NEW U \in SUBSET (DOMAIN preds), MatchesAll(row, Selected(preds, U)), NEW i \in U
      PROVE  Matches(preds[i], row)
  <2>1. U \in SUBSET Int /\ IsFiniteSet(U)
    BY SelectedType
  <2>2. /\ DOMAIN Selected(preds, U) = 1..Cardinality(U)
        /\ Selected(preds, U)[RankIn(U, i)] = preds[i]
    BY <2>1, SelectedAt
  <2>3. RankIn(U, i) \in 1..Cardinality(U)
    BY <2>1, RankIsPlace
  <2> QED BY <1>1, <2>2, <2>3 DEF MatchesAll
<1> DEFINE V == DOMAIN preds \ S
<1>2. V \in SUBSET (DOMAIN preds) /\ \A i \in DOMAIN preds : i \in S \/ i \in V
  OBVIOUS
<1>3. MatchesAll(row, Selected(preds, V))
  OBVIOUS
<1> HIDE DEF V
<1>4. ASSUME NEW i \in DOMAIN preds
      PROVE  Matches(preds[i], row)
  BY <1>1, <1>2, <1>3
<1> QED BY <1>4 DEF MatchesAll

\* A table's predicates are a sequence.
LEMMA PredicatesAre ==
  ASSUME NEW q \in Query, NEW a \in Aliases(q)
  PROVE  PredicatesOf(q, a) \in Only(PredicatesOf(q, a))
<1> DEFINE parsed == Parsed(q.where)
           S == {i \in DOMAIN parsed : Resolve(q, parsed[i][1].alias) = a}
           mine == Selected(parsed, S)
           out == [i \in DOMAIN mine |-> mine[i][1].pred]
<1>1. CASE q.form = "plan"
  <2>1. PredicatesOf(q, a) = EntryOf(q, a).where
    BY <1>1 DEF PredicatesOf
  <2>2. PICK i \in DOMAIN q.from : EntryOf(q, a) = q.from[i]
    BY EntryIs
  <2>3. q.from[i].where \in Only(q.from[i].where)
    BY FederationAssumption DEF IsQuery
  <2> QED BY <2>1, <2>2, <2>3
<1>2. CASE q.form # "plan"
  <2>1. PredicatesOf(q, a) = out
    BY <1>2 DEF PredicatesOf
  <2>2. parsed \in Seq(ToSet(parsed))
    BY FederationAssumption, FlattenTyped DEF IsQuery, Only
  <2>3. S \in SUBSET (DOMAIN parsed)
    OBVIOUS
  <2> HIDE DEF parsed, S
  <2>4. mine \in Seq(ToSet(parsed))
    BY <2>2, <2>3, SelectedType
  <2> HIDE DEF mine
  <2>5. Len(mine) \in Nat /\ DOMAIN mine = 1..Len(mine)
    BY <2>4, LenProperties
  <2>6. out = [i \in 1..Len(mine) |-> out[i]]
    BY <2>5
  <2> HIDE DEF out
  <2>7. out \in Only(out)
    BY <2>5, <2>6, MadeOnly
  <2> QED BY <2>1, <2>7
<1> QED BY <1>1, <1>2

\* A row filter's predicates are a sequence.
LEMMA RowFilterIs ==
  ASSUME NEW role \in DOMAIN Policy, NEW s \in DOMAIN Policy[role]
  PROVE  RowFilter(role, s) \in Only(RowFilter(role, s))
<1> DEFINE preds == Parsed(Policy[role][s].filter)
           out == [i \in DOMAIN preds |-> preds[i][1].pred]
           n == Len(preds)
<1>1. preds \in Only(preds)
  BY PlannerAssumption, FlattenTyped
<1> HIDE DEF preds
<1>2. n \in Nat /\ DOMAIN preds = 1..n
  BY <1>1, OnlyGives
<1>3. out = [i \in 1..n |-> out[i]]
  BY <1>2
<1>4. RowFilter(role, s) = out
  BY DEF RowFilter, preds
<1> HIDE DEF out, n
<1>5. out \in Only(out)
  BY <1>2, <1>3, MadeOnly
<1> QED BY <1>4, <1>5

\* What apply_entitlements sees to.
LEMMA EntitledIs ==
  ASSUME NEW q \in Query, NEW role, Refusal(q, role) = "no"
  PROVE  /\ role \in DOMAIN Policy
         /\ \A a \in Aliases(q) :
              SourceOf(q, a) \in DOMAIN Policy[role] /\ ~Unsupported(Policy[role][SourceOf(q, a)].filter)
         /\ \A c \in ToSet(Columns(q)) : c.column \notin Policy[role][SourceOf(q, c.alias)].blocked
<1> DEFINE Error(i) == TableError(role, SourceOf(q, q.from[i].alias))
           refused == {i \in DOMAIN q.from : Error(i) # "no"}
           out == \E c \in ToSet(Columns(q)) : c.column \in Policy[role][SourceOf(q, c.alias)].blocked
<1>1. EntitlementError(q, role) = "no"
  BY NotRefused
<1>2. EntitlementError(q, role) = CASE role \notin DOMAIN Policy -> "ENTITLEMENT_DENIED"
                                    [] refused # {} -> Error(Min(refused))
                                    [] out -> "ENTITLEMENT_DENIED"
                                    [] OTHER -> "no"
  BY DEF EntitlementError
<1>3. refused # {} => Error(Min(refused)) # "no"
  <2>1. Len(q.from) \in Nat /\ DOMAIN q.from = 1..Len(q.from)
    BY FederationAssumption, OnlyGives DEF IsQuery
  <2> DEFINE n == Len(q.from)
             first == Min(refused)
  <2>2. refused \in SUBSET (1..n) /\ \A i \in refused : Error(i) # "no"
    BY <2>1
  <2> HIDE DEF refused, Error, n
  <2>3. IsFiniteSet(1..n) /\ \A i \in 1..n : i \in Int
    <3>1. n \in Nat
      BY <2>1 DEF n
    <3> QED BY <3>1, FS_Interval
  <2>4. refused # {} => first \in refused
    <3>1. refused \in SUBSET Int /\ IsFiniteSet(refused)
      BY <2>2, <2>3, FS_Subset
    <3> QED BY <3>1, MinIsFirst
  <2> QED BY <2>2, <2>4
<1> HIDE DEF Error, out
<1>4. role \in DOMAIN Policy /\ refused = {} /\ ~out
  <2> HIDE DEF refused
  <2> QED BY <1>1, <1>2, <1>3
<1>5. ASSUME NEW a \in Aliases(q)
      PROVE  SourceOf(q, a) \in DOMAIN Policy[role] /\ ~Unsupported(Policy[role][SourceOf(q, a)].filter)
  <2>1. PICK i \in DOMAIN q.from : q.from[i].alias = a
    BY DEF Aliases
  <2>2. TableError(role, SourceOf(q, a)) = "no"
    BY <1>4, <2>1 DEF Error
  <2> QED BY <2>2 DEF TableError
<1> QED BY <1>4, <1>5 DEF out

-----------------------------------------------------------------------------
(* What a row that passes the predicates has passed.                       *)

\* A row that matches a table's row filter is one that the role may see.
LEMMA FilterHolds ==
  ASSUME NEW role \in DOMAIN Policy, NEW s \in DOMAIN Policy[role],
         ~Unsupported(Policy[role][s].filter), NEW row, MatchesAll(row, RowFilter(role, s))
  PROVE  Holds(Policy[role][s].filter, [from |-> <<[alias |-> "t"]>>], [t \in {"t"} |-> row])
<1> DEFINE tree == Policy[role][s].filter
           q == [from |-> <<[alias |-> "t"]>>]
           rec == [t \in {"t"} |-> row]
<1>1. IsTree(tree) /\ IsRowFilter(tree)
  BY PlannerAssumption, FederationAssumption
<1>2. RowFilter(role, s) = [i \in DOMAIN Parsed(tree) |-> Parsed(tree)[i][1].pred]
  BY DEF RowFilter
<1>3. q.from[1].alias = "t" /\ rec["t"] = row
  OBVIOUS
<1>4. ~Unsupported(tree)
  OBVIOUS
<1> HIDE DEF tree, q, rec
<1>5. ASSUME NEW i \in DOMAIN Parsed(tree)
      PROVE  Matches(Parsed(tree)[i][1].pred, rec[Resolve(q, Parsed(tree)[i][1].alias)])
  <2>1. Parsed(tree)[i] # << >>
    BY <1>4 DEF Unsupported
  <2>2. Parsed(tree)[i][1].alias \in {"", "t"}
    BY <1>1, <2>1 DEF IsRowFilter
  <2>3. Resolve(q, Parsed(tree)[i][1].alias) = "t"
    BY <1>3, <2>2 DEF Resolve
  <2>4. Matches(RowFilter(role, s)[i], row)
    BY <1>2 DEF MatchesAll
  <2> QED BY <1>2, <1>3, <2>3, <2>4
<1>6. Holds(tree, q, rec)
  BY <1>1, <1>4, <1>5, TreeHolds
<1> QED BY <1>6 DEF tree, q, rec

\* What plan_query sees to.
LEMMA SqlGives ==
  ASSUME NEW q \in Query, NEW role, Refusal(q, role) = "no", q.form = "sql"
  PROVE  /\ Len(q.from) <= 2 /\ (Len(q.from) = 2 => q.join # << >>)
         /\ ~Unsupported(q.where)
         /\ \A i \in DOMAIN Parsed(q.where) : Resolve(q, Parsed(q.where)[i][1].alias) \in Aliases(q)
<1>1. SqlError(q) = "no"
  BY DEF Refusal
<1>2. ~(Len(q.from) > 2)
  BY <1>1 DEF SqlError
<1>3. Len(q.from) \in Nat
  BY FederationAssumption, OnlyGives DEF IsQuery
<1>4. /\ ~(Len(q.from) = 2 /\ q.join = << >>)
      /\ ~Unsupported(q.where)
      /\ \A i \in DOMAIN Parsed(q.where) : Resolve(q, Parsed(q.where)[i][1].alias) \in Aliases(q)
  BY <1>1 DEF SqlError
<1> QED BY <1>2, <1>3, <1>4

\* SQL joins all the tables it names.
LEMMA AliasesAreJoined ==
  ASSUME NEW q \in Query, NEW role, Refusal(q, role) = "no", q.form = "sql",
         ~JoinsUnknown(q), WellFormed(q)
  PROVE  Aliases(q) \subseteq Joined(q)
<1> DEFINE n == Len(q.from)
<1>1. n \in Nat /\ DOMAIN q.from = 1..n /\ n <= 2 /\ (n = 2 => q.join # << >>)
  BY SqlGives, FederationAssumption, OnlyGives DEF IsQuery
<1> HIDE DEF n
<1>2. DOMAIN q.from \subseteq {1, 2} /\ (2 \in DOMAIN q.from => q.join # << >>)
  <2>1. \A i \in 1..n : i = 1 \/ i = 2
    BY <1>1
  <2>2. 2 \in 1..n => n = 2
    BY <1>1
  <2> QED BY <1>1, <2>1, <2>2
<1>3. \A a \in Aliases(q) : a = q.from[1].alias \/ (a = q.from[2].alias /\ q.join # << >>)
  BY <1>2 DEF Aliases
<1>4. CASE q.join = << >>
  <2>1. Joined(q) = {q.from[1].alias}
    BY <1>4 DEF Joined
  <2>2. \A a \in Aliases(q) : a = q.from[1].alias
    BY <1>3, <1>4
  <2> QED BY <2>1, <2>2
<1>5. CASE q.join # << >>
  <2>1. /\ q.join[1].left[1] \in Aliases(q) /\ q.join[1].right[1] \in Aliases(q)
        /\ q.join[1].left[1] # q.join[1].right[1]
    BY <1>5 DEF JoinsUnknown, WellFormed
  <2> QED BY <1>3, <1>5, <2>1 DEF Joined
<1> QED BY <1>4, <1>5

\* A match whose rows match the predicates on their tables is one of the WHERE.
LEMMA WhereHolds ==
  ASSUME NEW q \in Query, NEW role, Refusal(q, role) = "no", ~JoinsUnknown(q), WellFormed(q),
         NEW rec, \A a \in Joined(q) : MatchesAll(rec[a], PredicatesOf(q, a))
  PROVE  Holds(q.where, q, rec)
<1>1. q.form \in {"sql", "plan"} /\ IsTree(q.where) /\ (q.form = "plan" => q.where = << >>)
  BY FederationAssumption DEF IsQuery
<1>2. CASE q.form = "plan"
  BY <1>1, <1>2 DEF Holds
<1>3. CASE q.form = "sql"
  <2> DEFINE parsed == Parsed(q.where)
  <2>1. /\ ~Unsupported(q.where)
        /\ \A i \in DOMAIN parsed : Resolve(q, parsed[i][1].alias) \in Joined(q)
    BY <1>3, SqlGives, AliasesAreJoined
  <2>2. parsed \in Seq(ToSet(parsed))
    BY <1>1, FlattenTyped DEF Only
  <2>3. ASSUME NEW i \in DOMAIN parsed
        PROVE  Matches(parsed[i][1].pred, rec[Resolve(q, parsed[i][1].alias)])
    <3> DEFINE a == Resolve(q, parsed[i][1].alias)
               S == {j \in DOMAIN parsed : Resolve(q, parsed[j][1].alias) = a}
               mine == Selected(parsed, S)
               k == RankIn(S, i)
    <3>1. PredicatesOf(q, a) = [j \in DOMAIN mine |-> mine[j][1].pred]
      BY <1>3 DEF PredicatesOf
    <3>2. i \in S /\ S \in SUBSET (DOMAIN parsed)
      OBVIOUS
    <3>3. a \in Joined(q)
      BY <2>1
    <3> HIDE DEF parsed, a, S
    <3>4. S \in SUBSET Int /\ IsFiniteSet(S)
      BY <2>2, <3>2, SelectedType
    <3>5. k \in DOMAIN mine /\ mine[k] = parsed[i]
      BY <3>2, <3>4, SelectedAt, RankIsPlace
    <3> HIDE DEF mine, k
    <3>6. Matches(PredicatesOf(q, a)[k], rec[a])
      BY <3>1, <3>3, <3>5 DEF MatchesAll
    <3>7. Matches(parsed[i][1].pred, rec[a])
      BY <3>1, <3>5, <3>6
    <3> QED BY <3>7 DEF a
  <2> QED BY <1>1, <2>1, <2>3, TreeHolds
<1> QED BY <1>1, <1>2, <1>3

-----------------------------------------------------------------------------
(* What is fetched is part of the table, and has been filtered.            *)

\* A row is asked for all predicates in any order.
LEMMA MatchesHas ==
  ASSUME NEW row, NEW preds
  PROVE  MatchesAll(row, preds) <=> \A p \in ToSet(preds) : Matches(p, row)
BY DEF MatchesAll, ToSet

\* Rows of a plan's table, all of which match what its source is to filter.
PartOf(rows, s) == \E from : IsPart(from, rows, Data[s])
Scoped(rows, sp) == PartOf(rows, sp.source) /\ \A x \in DOMAIN rows : MatchesAll(rows[x], ServerFilters(sp))

\* The first rows of a listing, cut by two bounds, are a part.
LEMMA FrontPart ==
  ASSUME NEW T, NEW list \in Seq(T), NEW i \in Int, NEW j \in Int
  PROVE  \E from : IsPart(from, SubSeq(list, 1, Min({Len(list), i, j})), list)
<1> DEFINE n == Len(list)
           e == Min({n, i, j})
<1>1. n \in Nat /\ n \in Int
  BY LenProperties
<1> HIDE DEF n
<1>2. e \in {n, i, j} /\ e <= n
  BY <1>1, LeastOfThree
<1>3. e \in Int
  BY <1>1, <1>2
<1> HIDE DEF e
<1>4. e <= Len(list) /\ 1 \in Nat \ {0}
  BY <1>2 DEF n
<1> DEFINE from == [x \in DOMAIN SubSeq(list, 1, e) |-> 1 + x - 1]
<1>5. IsPart(from, SubSeq(list, 1, e), list)
  BY <1>3, <1>4, PartSubSeq
<1> HIDE DEF from
<1> QED BY <1>5 DEF e, n

\* A Jira fetch has no row twice,
LEMMA JiraPart ==
  ASSUME NEW T, NEW rows \in Seq(T), NEW sp, sp.limit \in Int
  PROVE  \E from : IsPart(from, JiraRows(sp, rows), rows)
<1> DEFINE S == {i \in DOMAIN rows : Finds(sp, rows[i])}
           list == JiraListing(sp, rows)
           i == Target(sp)
           j == PageLimit * PageSize
           out == JiraRows(sp, rows)
<1>1. S \in SUBSET (DOMAIN rows) /\ list = Selected(rows, S)
  BY DEF JiraListing
<1> HIDE DEF S, list
<1>2. list \in Seq(T) /\ \E f : IsPart(f, list, rows)
  BY <1>1, SelectedType, PartSelected
<1>3. PICK f : IsPart(f, list, rows)
  BY <1>2
<1>4. i \in Int /\ j \in Int
  <2>1. j \in Nat
    BY SizesAre, TimesIs
  <2> QED BY <2>1, TargetIs
<1>5. out = SubSeq(list, 1, Min({Len(list), i, j}))
  BY DEF JiraRows, list
<1> HIDE DEF i, j, out
<1>6. PICK g : IsPart(g, out, list)
  BY <1>2, <1>4, <1>5, FrontPart
<1> DEFINE h == [x \in DOMAIN out |-> f[g[x]]]
<1>7. IsPart(h, out, rows)
  BY <1>3, <1>6, PartOfPart
<1> HIDE DEF h
<1> QED BY <1>7 DEF out

\* A repo that was not read yet brings rows that were not.
LEMMA WithRepoPart ==
  ASSUME NEW T, NEW rows \in Seq(T), NEW sp, sp.limit \in Int, NEW r, NEW got \in Seq(T),
         NEW f, IsPart(f, got, rows), \A x \in DOMAIN got : Get(got[x], "repo_name") # r,
         NEW all, all = WithRepo(sp, rows, r, got)
  PROVE  /\ \E g : IsPart(g, all, rows)
         /\ \A x \in DOMAIN all : (\E y \in DOMAIN got : all[x] = got[y]) \/ Get(all[x], "repo_name") = r
<1>1. CASE Len(got) >= Target(sp)
  BY <1>1 DEF WithRepo
<1>2. CASE ~(Len(got) >= Target(sp))
  <2> DEFINE S == {i \in DOMAIN rows : Get(rows[i], "repo_name") = r /\ rows[i]["state"] = State(sp)}
             list == GitHubListing(sp, r, rows)
             n == Target(sp) - Len(got)
             size == ((n + PageSize - 1) \div PageSize) * PageSize
             most == PageLimit * PageSize
             more == WholePages(list, n)
  <2>1. /\ S \in SUBSET (DOMAIN rows) /\ list = Selected(rows, S)
        /\ \A i \in S : Get(rows[i], "repo_name") = r
    BY DEF GitHubListing
  <2> HIDE DEF S
  <2>2. n \in Int
    BY TargetIs, LenProperties
  <2>3. all = got \o more
    BY <1>2 DEF WithRepo
  <2>4. more = SubSeq(list, 1, Min({Len(list), size, most}))
    BY DEF WholePages
  <2> HIDE DEF list, n, more
  <2>5. list \in Seq(T) /\ \E h : IsPart(h, list, rows) /\ \A x \in DOMAIN Selected(rows, S) : h[x] \in S
    BY <2>1, SelectedType, PartSelected
  <2>6. PICK h : IsPart(h, list, rows) /\ \A x \in DOMAIN list : h[x] \in S
    BY <2>1, <2>5
  <2>7. size \in Int /\ most \in Int
    <3>1. (n + PageSize - 1) \div PageSize \in Int
      BY <2>2, SizesAre
    <3>2. most \in Nat
      BY SizesAre, TimesIs
    <3> QED BY <3>1, <3>2, SizesAre
  <2> HIDE DEF size, most
  <2>8. more \in Seq(T) /\ \E g : IsPart(g, more, list)
    BY <2>4, <2>5, <2>7, FrontIs, FrontPart
  <2>9. PICK g : IsPart(g, more, list)
    BY <2>8
  <2> DEFINE k == [x \in DOMAIN more |-> h[g[x]]]
  <2>10. IsPart(k, more, rows)
    BY <2>6, <2>9, PartOfPart
  <2>11. \A x \in DOMAIN more : k[x] \in S
    BY <2>6, <2>9 DEF IsPart
  <2> HIDE DEF k
  <2>12. \A x \in DOMAIN more : Get(more[x], "repo_name") = r /\ more[x] = rows[k[x]]
    <3>1. \A x \in DOMAIN more : more[x] = rows[k[x]]
      BY <2>10 DEF IsPart
    <3> QED BY <2>1, <2>11, <3>1
  <2>13. \A x \in DOMAIN got, y \in DOMAIN more : f[x] # k[y]
    <3>1. \A x \in DOMAIN got : got[x] = rows[f[x]]
      BY DEF IsPart
    <3> QED BY <2>12, <3>1
  <2> DEFINE w == [x \in DOMAIN all |-> IF x \in DOMAIN got THEN f[x] ELSE k[x - Len(got)]]
  <2> HIDE DEF w
  <2>14. IsPart(w, all, rows) /\ \A x \in DOMAIN all : x \in DOMAIN got \/ x - Len(got) \in DOMAIN more
    <3>1. got \in Seq(T) /\ more \in Seq(T)
      BY <2>8
    <3>2. IsPart(f, got, rows) /\ IsPart(k, more, rows) /\ all = got \o more
      BY <2>3, <2>10
    <3>3. Apart(f, got, k, more)
      BY <2>13 DEF Apart
    <3>4. Joint(w, all, got, f, k)
      BY DEF w, Joint
    <3> QED BY <3>1, <3>2, <3>3, <3>4, PartConcat
  <2>15. ASSUME NEW x \in DOMAIN all
         PROVE  (\E y \in DOMAIN got : all[x] = got[y]) \/ Get(all[x], "repo_name") = r
    <3>1. CASE x \in DOMAIN got
      <4>1. w[x] = f[x]
        BY <3>1 DEF w
      <4>2. all[x] = rows[w[x]] /\ got[x] = rows[f[x]]
        BY <2>14, <3>1 DEF IsPart
      <4> QED BY <3>1, <4>1, <4>2
    <3>2. CASE x \notin DOMAIN got
      <4>1. w[x] = k[x - Len(got)] /\ x - Len(got) \in DOMAIN more
        BY <2>14, <3>2 DEF w
      <4>2. all[x] = rows[w[x]]
        BY <2>14 DEF IsPart
      <4> QED BY <2>12, <4>1, <4>2
    <3> QED BY <3>1, <3>2
  <2> QED BY <2>14, <2>15
<1> QED BY <1>1, <1>2

\* The repos that are asked differ, those of a filter as those that are configured,
LEMMA ReposDiffer ==
  ASSUME NoRepoTwice, NEW sp
  PROVE  \A i, j \in DOMAIN GitHubRepos(sp) : GitHubRepos(sp)[i] = GitHubRepos(sp)[j] => i = j
<1> DEFINE repos == GitHubRepos(sp)
           S == {i \in DOMAIN Repos : Wanted(ServerFilters(sp), "repo_name") = {}
                                        \/ Repos[i] \in Wanted(ServerFilters(sp), "repo_name")}
<1>1. S \in SUBSET (DOMAIN Repos) /\ Repos \in Seq(ToSet(Repos))
  BY FederationAssumption DEF Only
<1>2. repos = Selected(Repos, S)
  BY DEF GitHubRepos
<1> HIDE DEF S, repos
<1>3. \E f : IsPart(f, repos, Repos) /\ \A x \in DOMAIN Selected(Repos, S) : f[x] \in S
  BY <1>1, <1>2, PartSelected
<1>4. PICK f : IsPart(f, repos, Repos)
  BY <1>3
<1>5. \A i, j \in DOMAIN repos : repos[i] = repos[j] => i = j
  BY <1>4 DEF IsPart, NoRepoTwice
<1> QED BY <1>5 DEF repos

\* Part of the rows, of the first n repos.
GotPart(got, rows, repos, n) ==
  /\ \E f : IsPart(f, got, rows)
  /\ \A x \in DOMAIN got : \E i \in 1..n : Get(got[x], "repo_name") = repos[i]

\* ... so a GitHub fetch has no row twice either.
LEMMA GitHubPart ==
  ASSUME NoRepoTwice, NEW T, NEW rows \in Seq(T), NEW sp, sp.limit \in Int
  PROVE  \E from : IsPart(from, GitHubRows(sp, rows), rows)
<1> DEFINE repos == GitHubRepos(sp)
           m == Len(repos)
<1>1. PICK f : GotBy(f, T, sp, rows)
  BY GitHubGotIs
<1>2. /\ m \in Nat /\ f \in [0..m -> Seq(T)] /\ f[0] = << >>
      /\ \A n \in 1..m : f[n] = WithRepo(sp, rows, repos[n], f[n - 1])
      /\ GitHubRows(sp, rows) = f[m]
  BY <1>1 DEF GotBy
<1>3. DOMAIN repos = 1..m /\ \A i, j \in DOMAIN repos : repos[i] = repos[j] => i = j
  <2> DEFINE S == {i \in DOMAIN Repos : Wanted(ServerFilters(sp), "repo_name") = {}
                                          \/ Repos[i] \in Wanted(ServerFilters(sp), "repo_name")}
  <2>1. S \in SUBSET (DOMAIN Repos) /\ Repos \in Seq(ToSet(Repos)) /\ repos = Selected(Repos, S)
    BY FederationAssumption DEF Only, GitHubRepos
  <2> HIDE DEF S
  <2>2. repos \in Seq(ToSet(Repos))
    <3> HIDE DEF repos
    <3> QED BY <2>1, SelectedType
  <2>3. DOMAIN repos = 1..m
    <3> HIDE DEF repos
    <3> QED BY <2>2, LenProperties
  <2> QED BY <2>3, ReposDiffer
<1> HIDE DEF repos, m
<1>4. GotPart(f[0], rows, repos, 0)
  <2>1. << >> = [x \in {} |-> {}]
    OBVIOUS
  <2>2. DOMAIN f[0] = {}
    BY <1>2, <2>1
  <2> DEFINE g == [x \in {} |-> {}]
  <2>3. IsPart(g, f[0], rows)
    BY <2>2 DEF IsPart
  <2> HIDE DEF g
  <2> QED BY <2>2, <2>3 DEF GotPart
<1>5. ASSUME NEW n \in 1..m, GotPart(f[n - 1], rows, repos, n - 1)
      PROVE  GotPart(f[n], rows, repos, n)
  <2> DEFINE got == f[n - 1]
             all == f[n]
             r == repos[n]
  <2>1. n \in Nat /\ n - 1 \in 0..m /\ n \in 1..n /\ \A i \in 1..(n - 1) : i \in 1..n /\ i \in 1..m /\ i # n
    BY <1>2
  <2>2. got \in Seq(T) /\ all = WithRepo(sp, rows, r, got)
    BY <1>2, <2>1
  <2>3. \A i \in 1..(n - 1) : repos[i] # r
    BY <1>3, <2>1
  <2> HIDE DEF got, all, r
  <2>4. /\ \E g : IsPart(g, got, rows)
        /\ \A x \in DOMAIN got : \E i \in 1..(n - 1) : Get(got[x], "repo_name") = repos[i]
    BY <1>5 DEF GotPart, got
  <2>5. PICK g : IsPart(g, got, rows)
    BY <2>4
  <2>6. \A x \in DOMAIN got : Get(got[x], "repo_name") # r
    BY <2>3, <2>4
  <2>7. /\ \E h : IsPart(h, all, rows)
        /\ \A x \in DOMAIN all : (\E y \in DOMAIN got : all[x] = got[y]) \/ Get(all[x], "repo_name") = r
    BY <2>2, <2>5, <2>6, WithRepoPart
  <2>8. \A x \in DOMAIN all : \E i \in 1..n : Get(all[x], "repo_name") = repos[i]
    <3> SUFFICES ASSUME NEW x \in DOMAIN all
                 PROVE  \E i \in 1..n : Get(all[x], "repo_name") = repos[i]
      OBVIOUS
    <3>1. CASE \E y \in DOMAIN got : all[x] = got[y]
      <4>1. \E i \in 1..(n - 1) : Get(all[x], "repo_name") = repos[i]
        BY <2>4, <3>1
      <4> QED BY <2>1, <4>1
    <3>2. CASE Get(all[x], "repo_name") = r
      BY <2>1, <3>2 DEF r
    <3> QED BY <2>7, <3>1, <3>2
  <2> QED BY <2>7, <2>8 DEF GotPart, all
<1> DEFINE good == {i \in 1..(m + 1) : GotPart(f[i - 1], rows, repos, i - 1)}
<1>6. ASSUME NEW i \in 1..(m + 1), \A j \in 1..(i - 1) : j \in good
      PROVE  i \in good
  <2>1. CASE i = 1
    <3>1. i - 1 = 0
      BY <2>1
    <3> QED BY <1>4, <3>1
  <2>2. CASE i # 1
    <3>1. i - 1 \in 1..m /\ i - 1 \in 1..(i - 1)
      BY <1>2, <2>2
    <3>2. i - 1 \in good
      BY <1>6, <3>1
    <3>3. GotPart(f[(i - 1) - 1], rows, repos, (i - 1) - 1)
      BY <3>2
    <3>4. GotPart(f[i - 1], rows, repos, i - 1)
      <4> DEFINE n == i - 1
      <4>1. n \in 1..m /\ GotPart(f[n - 1], rows, repos, n - 1)
        BY <3>1, <3>3
      <4> HIDE DEF n
      <4>2. GotPart(f[n], rows, repos, n)
        BY <1>5, <4>1
      <4> QED BY <4>2 DEF n
    <3> QED BY <3>4
  <2> QED BY <2>1, <2>2
<1>7. m + 1 \in good
  <2>1. m + 1 \in Nat /\ m + 1 \in 1..(m + 1)
    BY <1>2
  <2>2. \A i \in 1..(m + 1) : (\A j \in 1..(i - 1) : j \in good) => i \in good
    BY <1>6
  <2> HIDE DEF good
  <2>3. \A i \in 1..(m + 1) : i \in good
    BY <2>1, <2>2, PlacesInTurn
  <2> QED BY <2>1, <2>3
<1>8. GotPart(f[m], rows, repos, m)
  <2>1. (m + 1) - 1 = m
    BY <1>2
  <2> QED BY <1>7, <2>1
<1> QED BY <1>2, <1>8 DEF GotPart

\* Every connector returns rows that match all that the source is asked to filter by.
LEMMA FetchIsScoped ==
  ASSUME NoRepoTwice, NEW sp, sp.source \in Source, sp.limit \in Int
  PROVE  Scoped(Fetched(sp), sp)
<1> DEFINE rows == Data[sp.source]
           T == ToSet(rows)
           kind == Kind[sp.source]
           preds == ServerFilters(sp)
<1>1. rows \in Seq(T) /\ kind \in {"mock", "github", "jira"}
  BY FederationAssumption DEF Only
<1> HIDE DEF rows, T, kind, preds
<1> DEFINE got == CASE kind = "mock" -> rows
                    [] kind = "github" -> GitHubRows(sp, rows)
                    [] kind = "jira" -> JiraRows(sp, rows)
           S == {i \in DOMAIN got : MatchesAll(got[i], preds)}
<1>2. got \in Seq(T)
  BY <1>1, GitHubType, JiraType
<1>3. \E from : IsPart(from, got, rows)
  <2>1. CASE kind = "mock"
    <3> DEFINE from == [x \in DOMAIN rows |-> x]
    <3>1. IsPart(from, rows, rows)
      BY PartSelf
    <3> HIDE DEF from
    <3> QED BY <2>1, <3>1
  <2>2. CASE kind = "github"
    BY <1>1, <2>2, GitHubPart
  <2>3. CASE kind = "jira"
    BY <1>1, <2>3, JiraPart
  <2> QED BY <1>1, <2>1, <2>2, <2>3
<1>4. Fetched(sp) = Selected(got, S)
  BY DEF Fetched, FetchRows, Filter, rows, kind, preds
<1>5. S \in SUBSET (DOMAIN got) /\ \A i \in S : MatchesAll(got[i], preds)
  OBVIOUS
<1> HIDE DEF got, S
<1>6. \E g : IsPart(g, Selected(got, S), got) /\ \A x \in DOMAIN Selected(got, S) : g[x] \in S
  BY <1>2, <1>5, PartSelected
<1> DEFINE out == Fetched(sp)
<1> HIDE DEF out
<1>7. PICK g : IsPart(g, out, got) /\ \A x \in DOMAIN out : g[x] \in S
  BY <1>4, <1>6 DEF out
<1>8. PICK f : IsPart(f, got, rows)
  BY <1>3
<1> DEFINE h == [x \in DOMAIN out |-> f[g[x]]]
<1>9. IsPart(h, out, rows)
  BY <1>7, <1>8, PartOfPart
<1>10. \A x \in DOMAIN out : MatchesAll(out[x], preds)
  BY <1>5, <1>7 DEF IsPart
<1> HIDE DEF h
<1> QED BY <1>9, <1>10 DEF Scoped, PartOf, out, rows, preds

-----------------------------------------------------------------------------
(* What the plan of a table asks of its rows.                              *)

\* The predicates of a table and the role's filter are split between source and
\* executor, none is lost.
LEMMA PlanAsks ==
  ASSUME NEW q \in Query, NEW role, Refusal(q, role) = "no", NEW a \in Aliases(q), NEW row,
         MatchesAll(row, ServerFilters(SourcePlan(q, role, a))),
         MatchesAll(row, SourcePlan(q, role, a).post)
  PROVE  /\ MatchesAll(row, PredicatesOf(q, a))
         /\ MatchesAll(row, RowFilter(role, SourceOf(q, a)))
<1> DEFINE s == SourceOf(q, a)
           preds == PredicatesOf(q, a)
           S == {i \in DOMAIN preds : preds[i].column \in Pushable[s]}
           sp == SourcePlan(q, role, a)
           rls == RowFilter(role, s)
           pushed == Selected(preds, S)
<1>1. sp.pushed = pushed /\ sp.rls = rls /\ ServerFilters(sp) = pushed \o rls
  BY DEF SourcePlan, ServerFilters
<1>2. sp.post = Selected(preds, DOMAIN preds \ S)
  <2>1. DOMAIN preds \ S = {i \in DOMAIN preds : preds[i].column \notin Pushable[s]}
    OBVIOUS
  <2> QED BY <2>1 DEF SourcePlan
<1>3. preds \in Seq(ToSet(preds)) /\ rls \in Seq(ToSet(rls))
  BY PredicatesAre, EntitledIs, RowFilterIs DEF Only
<1>4. S \in SUBSET (DOMAIN preds)
  OBVIOUS
<1> HIDE DEF s, preds, S, rls
<1>5. pushed \in Seq(ToSet(preds))
  BY <1>3, <1>4, SelectedType
<1> HIDE DEF pushed, sp
<1>6. ToSet(pushed) \subseteq ToSet(pushed \o rls) /\ ToSet(rls) \subseteq ToSet(pushed \o rls)
  <2> DEFINE U == ToSet(preds) \cup ToSet(rls)
  <2>1. pushed \in Seq(U) /\ rls \in Seq(U)
    <3>1. ToSet(preds) \subseteq U /\ ToSet(rls) \subseteq U
      OBVIOUS
    <3> HIDE DEF U
    <3> QED BY <1>3, <1>5, <3>1
  <2> HIDE DEF U
  <2> QED BY <2>1, ConcatHas
<1>7. MatchesAll(row, pushed \o rls)
  BY <1>1 DEF sp
<1>8. MatchesAll(row, pushed) /\ MatchesAll(row, rls)
  BY <1>6, <1>7, MatchesHas
<1>9. MatchesAll(row, Selected(preds, DOMAIN preds \ S))
  BY <1>2 DEF sp
<1>10. MatchesAll(row, preds)
  BY <1>3, <1>4, <1>8, <1>9, MatchesHalves DEF pushed
<1> QED BY <1>8, <1>10 DEF preds, rls, s

-----------------------------------------------------------------------------
(* What an entry of the cache holds, for whoever finds it.                 *)

CacheScoped ==
  \A q \in Query, role \in Role : Refusal(q, role) = "no" =>
    \A a \in Aliases(q) :
      CacheKey(SourcePlan(q, role, a)) \in DOMAIN cache =>
        Scoped(cache[CacheKey(SourcePlan(q, role, a))], SourcePlan(q, role, a))

\* Plans of one key ask the same of a row.
LEMMA OneKeyAsks ==
  ASSUME TextsTell, NEW q \in Query, NEW role \in Role, Refusal(q, role) = "no", NEW a \in Aliases(q),
         NEW r \in Query, NEW other \in Role, Refusal(r, other) = "no", NEW b \in Aliases(r),
         CacheKey(SourcePlan(q, role, a)) = CacheKey(SourcePlan(r, other, b)),
         NEW row, MatchesAll(row, ServerFilters(SourcePlan(q, role, a)))
  PROVE  MatchesAll(row, ServerFilters(SourcePlan(r, other, b)))
<1> DEFINE sp == SourcePlan(q, role, a)
           op == SourcePlan(r, other, b)
           asks == ServerFilters(sp)
           wants == ServerFilters(op)
           texts == [i \in DOMAIN asks |-> Text(asks[i])]
           others == [i \in DOMAIN wants |-> Text(wants[i])]
<1>1. sp.source = SourceOf(q, a) /\ op.source = SourceOf(r, b)
  BY PlanIs
<1>2. Fingerprint(sp) = ToBag(texts) /\ Fingerprint(op) = ToBag(others)
  BY DEF Fingerprint
<1>3. sp.source = op.source /\ Fingerprint(sp) = Fingerprint(op)
  BY DEF CacheKey
<1>4. \A p \in ToSet(asks), o \in ToSet(wants) :
        Text(p) = Text(o) => p.value = o.value
  <2>1. SourceOf(q, a) = SourceOf(r, b)
    BY <1>1, <1>3
  <2> SUFFICES ASSUME NEW p \in ToSet(asks), NEW o \in ToSet(wants), Text(p) = Text(o)
               PROVE  p.value = o.value
    OBVIOUS
  <2>2. p \in ToSet(ServerFilters(SourcePlan(q, role, a))) /\ o \in ToSet(ServerFilters(SourcePlan(r, other, b)))
    OBVIOUS
  <2> HIDE DEF sp, op, asks, wants, texts, others
  <2> QED BY <2>1, <2>2 DEF TextsTell
<1>5. \A j \in DOMAIN wants : \E i \in DOMAIN asks : Text(asks[i]) = Text(wants[j])
  <2>1. DOMAIN ToBag(texts) = Range(texts) /\ DOMAIN ToBag(others) = Range(others)
    BY DEF ToBag
  <2>2. Range(others) = Range(texts)
    BY <1>2, <1>3, <2>1
  <2>3. \A j \in DOMAIN others : \E i \in DOMAIN texts : texts[i] = others[j]
    BY <2>2 DEF Range
  <2> QED BY <2>3
<1>6. MatchesAll(row, asks)
  OBVIOUS
<1> HIDE DEF sp, op, asks, wants
<1>7. ASSUME NEW j \in DOMAIN wants
      PROVE  Matches(wants[j], row)
  <2>1. PICK i \in DOMAIN asks : Text(asks[i]) = Text(wants[j])
    BY <1>5
  <2>2. Matches(asks[i], row)
    BY <1>6 DEF MatchesAll
  <2>3. asks[i] \in ToSet(asks) /\ wants[j] \in ToSet(wants)
    BY DEF ToSet
  <2>4. asks[i].value = wants[j].value /\ asks[i].column = wants[j].column /\ asks[i].op = wants[j].op
    BY <1>4, <2>1, <2>3 DEF Text
  <2> QED BY <2>2, <2>4 DEF Matches
<1>8. MatchesAll(row, wants)
  BY <1>7 DEF MatchesAll
<1> QED BY <1>8 DEF wants, op

\* ... so rows in the scope of one are in that of the other.
LEMMA OneKeyOneScope ==
  ASSUME TextsTell, NEW q \in Query, NEW role \in Role, Refusal(q, role) = "no", NEW a \in Aliases(q),
         NEW r \in Query, NEW other \in Role, Refusal(r, other) = "no", NEW b \in Aliases(r),
         CacheKey(SourcePlan(q, role, a)) = CacheKey(SourcePlan(r, other, b)),
         NEW rows, Scoped(rows, SourcePlan(q, role, a))
  PROVE  Scoped(rows, SourcePlan(r, other, b))
<1>1. SourcePlan(r, other, b).source = SourcePlan(q, role, a).source
  BY DEF CacheKey
<1>2. ASSUME NEW x \in DOMAIN rows
      PROVE  MatchesAll(rows[x], ServerFilters(SourcePlan(r, other, b)))
  <2>1. MatchesAll(rows[x], ServerFilters(SourcePlan(q, role, a)))
    BY DEF Scoped
  <2> QED BY <2>1, OneKeyAsks
<1> QED BY <1>1, <1>2 DEF Scoped

\* The rows of every table of a query, fetched or cached, are what its plan asks.
Scopes(role, q, fetched) == \A a \in Aliases(q) : Scoped(fetched[a], SourcePlan(q, role, a))

\* The query was executed, with such rows.
Served(role, q, fetched) ==
  /\ Executed(role, q, fetched) /\ Scopes(role, q, fetched)

\* An execution is served rows of its own scope, fetched or cached, and keeps the cache
\* scoped.
LEMMA ExecuteServes ==
  ASSUME NoRepoTwice, TextsTell, NEW role \in Role, NEW q \in Query, Execute(role, q),
         CacheShape, CacheScoped
  PROVE  CacheScoped' /\ \E fetched : Served(role, q, fetched)
<1>1. PICK fetched : Executed(role, q, fetched)
  BY ExecuteGives
<1>2. Refusal(q, role) = "no" /\ Filled(role, q, fetched)
  BY <1>1 DEF Executed
<1>3. \A a \in Aliases(q) : Plans(q, role)[a] = SourcePlan(q, role, a)
  BY DEF Plans
<1>4. ASSUME NEW a \in Aliases(q)
      PROVE  Scoped(fetched[a], SourcePlan(q, role, a))
  <2> DEFINE sp == SourcePlan(q, role, a)
             k == CacheKey(sp)
  <2>1. (k \in DOMAIN cache /\ fetched[a] = cache[k]) \/ fetched[a] = Fetched(sp)
    BY <1>2, <1>3 DEF Filled
  <2>2. CASE k \in DOMAIN cache /\ fetched[a] = cache[k]
    BY <1>2, <2>2 DEF CacheScoped
  <2>3. CASE fetched[a] = Fetched(sp)
    <3>1. sp.source \in Source /\ sp.limit \in Int
      BY <1>2, PlanIs
    <3> HIDE DEF sp
    <3>2. Scoped(Fetched(sp), sp)
      BY <3>1, FetchIsScoped
    <3>3. Scoped(fetched[a], sp)
      BY <2>3, <3>2
    <3> QED BY <3>3 DEF sp
  <2> QED BY <2>1, <2>2, <2>3
<1>5. CacheScoped'
  <2> SUFFICES ASSUME NEW r \in Query, NEW other \in Role, Refusal(r, other) = "no", NEW b \in Aliases(r),
                      CacheKey(SourcePlan(r, other, b)) \in DOMAIN cache'
               PROVE  Scoped(cache'[CacheKey(SourcePlan(r, other, b))], SourcePlan(r, other, b))
    BY DEF CacheScoped
  <2> DEFINE op == SourcePlan(r, other, b)
             k == CacheKey(op)
  <2>1. \/ k \in DOMAIN cache /\ cache'[k] = cache[k]
        \/ \E a \in Aliases(q) : CacheKey(Plans(q, role)[a]) = k /\ cache'[k] = fetched[a]
    BY <1>2 DEF Filled
  <2>2. CASE k \in DOMAIN cache /\ cache'[k] = cache[k]
    BY <2>2 DEF CacheScoped
  <2>3. CASE \E a \in Aliases(q) : CacheKey(Plans(q, role)[a]) = k /\ cache'[k] = fetched[a]
    <3>1. PICK a \in Aliases(q) : CacheKey(Plans(q, role)[a]) = k /\ cache'[k] = fetched[a]
      BY <2>3
    <3>2. CacheKey(SourcePlan(q, role, a)) = CacheKey(op) /\ cache'[k] = fetched[a]
      BY <1>3, <3>1
    <3>3. Scoped(fetched[a], SourcePlan(q, role, a))
      BY <1>4
    <3>4. Scoped(fetched[a], op)
      BY <1>2, <3>2, <3>3, OneKeyOneScope
    <3> QED BY <3>2, <3>4
  <2> QED BY <2>1, <2>2, <2>3
<1>6. Served(role, q, fetched)
  BY <1>1, <1>4 DEF Served, Scopes
<1> QED BY <1>5, <1>6

-----------------------------------------------------------------------------
(* Records are matches.                                                    *)

\* After the post-filter the rows are those of the scope that the query asks for.
LEMMA PostedScoped ==
  ASSUME NEW q \in Query, NEW role, Refusal(q, role) = "no",
         NEW fetched, OfTables(q, fetched), Scopes(role, q, fetched), NEW a \in Aliases(q),
         NEW rows, rows = Posted(q, Plans(q, role), fetched)[a]
  PROVE  /\ PartOf(rows, SourceOf(q, a))
         /\ \A x \in DOMAIN rows :
              MatchesAll(rows[x], PredicatesOf(q, a)) /\ MatchesAll(rows[x], RowFilter(role, SourceOf(q, a)))
<1> DEFINE sp == SourcePlan(q, role, a)
           s == SourceOf(q, a)
           got == fetched[a]
           S == {i \in DOMAIN got : MatchesAll(got[i], sp.post)}
<1>1. Scoped(got, sp) /\ sp.source = s /\ got \in Seq(ToSet(Data[s]))
  BY PlanIs DEF Scopes, OfTables
<1>2. PartOf(got, s) /\ \A x \in DOMAIN got : MatchesAll(got[x], ServerFilters(sp))
  BY <1>1 DEF Scoped
<1>3. rows = Selected(got, S)
  BY DEF Posted, Plans, Filter
<1>4. S \in SUBSET (DOMAIN got)
  OBVIOUS
<1>5. ASSUME NEW i \in S
      PROVE  MatchesAll(got[i], PredicatesOf(q, a)) /\ MatchesAll(got[i], RowFilter(role, s))
  <2>1. MatchesAll(got[i], ServerFilters(sp)) /\ MatchesAll(got[i], sp.post)
    BY <1>2
  <2> QED BY <2>1, PlanAsks
<1> HIDE DEF sp, s, got, S
<1>6. \E g : IsPart(g, Selected(got, S), got) /\ \A x \in DOMAIN Selected(got, S) : g[x] \in S
  BY <1>1, <1>4, PartSelected
<1>7. PICK g : IsPart(g, rows, got) /\ \A x \in DOMAIN rows : g[x] \in S
  BY <1>3, <1>6
<1>8. PICK f : IsPart(f, got, Data[s])
  BY <1>2 DEF PartOf
<1> DEFINE h == [x \in DOMAIN rows |-> f[g[x]]]
<1>9. IsPart(h, rows, Data[s])
  BY <1>7, <1>8, PartOfPart
<1> HIDE DEF h
<1>10. \A x \in DOMAIN rows : rows[x] = got[g[x]]
  BY <1>7 DEF IsPart
<1>11. \A x \in DOMAIN rows : MatchesAll(rows[x], PredicatesOf(q, a)) /\ MatchesAll(rows[x], RowFilter(role, s))
  BY <1>5, <1>7, <1>10
<1> QED BY <1>9, <1>11 DEF PartOf, s

\* Row x of each table's rows is row part[a][x] of the table; all of them are what the
\* query asks of it and the role may see.
PartsOf(role, q, rows, part) ==
  \A a \in Aliases(q) :
    /\ IsPart(part[a], rows[a], Data[SourceOf(q, a)])
    /\ \A x \in DOMAIN rows[a] :
         MatchesAll(rows[a][x], PredicatesOf(q, a)) /\ MatchesAll(rows[a][x], RowFilter(role, SourceOf(q, a)))

\* The places that the rows of all tables come from.
LEMMA PartsExist ==
  ASSUME NEW q \in Query, NEW role, Refusal(q, role) = "no",
         NEW fetched, OfTables(q, fetched), Scopes(role, q, fetched),
         NEW rows, rows = Posted(q, Plans(q, role), fetched)
  PROVE  \E part : PartsOf(role, q, rows, part)
<1> DEFINE part == [a \in Aliases(q) |-> CHOOSE f : IsPart(f, rows[a], Data[SourceOf(q, a)])]
<1>1. ASSUME NEW a \in Aliases(q)
      PROVE  /\ IsPart(part[a], rows[a], Data[SourceOf(q, a)])
             /\ \A x \in DOMAIN rows[a] :
                  MatchesAll(rows[a][x], PredicatesOf(q, a)) /\ MatchesAll(rows[a][x], RowFilter(role, SourceOf(q, a)))
  <2> DEFINE got == rows[a]
  <2>1. got = Posted(q, Plans(q, role), fetched)[a]
    OBVIOUS
  <2> HIDE DEF got
  <2>2. /\ PartOf(got, SourceOf(q, a))
        /\ \A x \in DOMAIN got :
             MatchesAll(got[x], PredicatesOf(q, a)) /\ MatchesAll(got[x], RowFilter(role, SourceOf(q, a)))
    BY <2>1, PostedScoped
  <2>3. \E f : IsPart(f, got, Data[SourceOf(q, a)])
    BY <2>2 DEF PartOf
  <2>4. part[a] = CHOOSE f : IsPart(f, got, Data[SourceOf(q, a)])
    BY DEF got
  <2>5. IsPart(part[a], got, Data[SourceOf(q, a)])
    BY <2>3, <2>4
  <2> HIDE DEF part
  <2> QED BY <2>2, <2>5 DEF got
<1> HIDE DEF part
<1>2. PartsOf(role, q, rows, part)
  BY <1>1 DEF PartsOf
<1> QED BY <1>2

\* No table has more rows than the longest.
LEMMA LongestIs ==
  ASSUME NEW s \in Source
  PROVE  LET n == Max({Len(Data[t]) : t \in Source})
         IN  n \in Int /\ DOMAIN Data[s] \subseteq 1..n
<1> DEFINE S == {Len(Data[t]) : t \in Source}
           n == Max(S)
<1>1. \A t \in Source : Len(Data[t]) \in Nat /\ DOMAIN Data[t] = 1..Len(Data[t])
  BY FederationAssumption, OnlyGives
<1>2. S \in SUBSET Int /\ S # {} /\ Len(Data[s]) \in S
  <2>1. Len(Data[s]) \in S
    OBVIOUS
  <2>2. \A i \in S : i \in Int
    BY <1>1
  <2> HIDE DEF S
  <2> QED BY <2>1, <2>2
<1>3. IsFiniteSet(S)
  <2> DEFINE f == [t \in Source |-> Len(Data[t])]
  <2>1. f \in Surjection(Source, S)
    BY DEF Surjection
  <2>2. IsFiniteSet(Source)
    BY PlannerAssumption
  <2> HIDE DEF f, S
  <2> QED BY <2>1, <2>2, FS_Surjection
<1>4. n \in S /\ Len(Data[s]) <= n
  <2> HIDE DEF S
  <2> QED BY <1>2, <1>3, MaxIsLast
<1>5. n \in Int
  BY <1>2, <1>4
<1> HIDE DEF n, S
<1>6. DOMAIN Data[s] \subseteq 1..n
  BY <1>1, <1>4, <1>5
<1> QED BY <1>5, <1>6 DEF n, S

\* The match of a record.
MatchBy(q, at, part, x) == [a \in Joined(q) |-> part[a][at[x][a]]]

\* A record is the rows of a match of the query.
LEMMA RecordMatches ==
  ASSUME NEW q \in Query, NEW role, Refusal(q, role) = "no", ~JoinsUnknown(q), WellFormed(q),
         NEW rows, NEW part, PartsOf(role, q, rows, part), NEW recs, NEW at, RecordsOf(q, rows, recs, at),
         NEW x \in DOMAIN recs, NEW m, m = MatchBy(q, at, part, x)
  PROVE  /\ m \in Matched(q, role) /\ DOMAIN m = DOMAIN recs[x]
         /\ \A a \in DOMAIN m : RowOf(q, a, m[a]) = recs[x][a]
<1> DEFINE J == Joined(q)
           n == Max({Len(Data[t]) : t \in Source})
           rec == [a \in J |-> RowOf(q, a, m[a])]
<1>1. J \subseteq Aliases(q)
  BY FromIsNotEmpty, JoinedIs
<1>2. m = [a \in J |-> m[a]] /\ DOMAIN recs[x] = J
  BY DEF MatchBy, RecordsOf
<1>3. ASSUME NEW a \in J
      PROVE  /\ a \in Aliases(q) /\ m[a] \in DOMAIN Data[SourceOf(q, a)] /\ RowOf(q, a, m[a]) = recs[x][a]
             /\ MatchesAll(RowOf(q, a, m[a]), PredicatesOf(q, a))
             /\ MatchesAll(RowOf(q, a, m[a]), RowFilter(role, SourceOf(q, a)))
  <2>1. m[a] = part[a][at[x][a]]
    BY DEF MatchBy
  <2>2. at[x][a] \in DOMAIN rows[a] /\ recs[x][a] = rows[a][at[x][a]]
    BY DEF RecordsOf
  <2>3. IsPart(part[a], rows[a], Data[SourceOf(q, a)])
    BY <1>1 DEF PartsOf
  <2>4. m[a] \in DOMAIN Data[SourceOf(q, a)] /\ rows[a][at[x][a]] = Data[SourceOf(q, a)][m[a]]
    BY <2>1, <2>2, <2>3 DEF IsPart
  <2>5. RowOf(q, a, m[a]) = rows[a][at[x][a]]
    BY <2>4 DEF RowOf
  <2> QED BY <1>1, <2>2, <2>4, <2>5 DEF PartsOf
<1>4. \A a \in J : rec[a] = recs[x][a] /\ rec[a] = RowOf(q, a, m[a])
  BY <1>3
<1>5. m \in [J -> 1..n]
  <2>1. \A a \in J : SourceOf(q, a) \in Source
    BY <1>1, PlanIs
  <2>2. \A a \in J : m[a] \in 1..n
    BY <1>3, <2>1, LongestIs
  <2> QED BY <1>2, <2>2
<1>6. ASSUME NEW a \in J
      PROVE  m[a] \in Seen(q, role, a)
  <2> DEFINE s == SourceOf(q, a)
             row == RowOf(q, a, m[a])
             filter == Policy[role][s].filter
  <2>1. role \in DOMAIN Policy /\ s \in DOMAIN Policy[role] /\ ~Unsupported(filter)
    BY <1>3, EntitledIs
  <2>2. MatchesAll(row, RowFilter(role, s)) /\ MatchesAll(row, PredicatesOf(q, a)) /\ m[a] \in DOMAIN Data[s]
    BY <1>3
  <2>3. MatchesAll(row, EntryOf(q, a).where)
    <3>1. CASE q.form = "plan"
      BY <2>2, <3>1 DEF PredicatesOf
    <3>2. CASE q.form # "plan"
      <4>1. PICK i \in DOMAIN q.from : EntryOf(q, a) = q.from[i]
        BY <1>3, EntryIs
      <4>2. EntryOf(q, a).where = << >>
        BY <3>2, <4>1, FederationAssumption DEF IsQuery
      <4>3. << >> = [y \in {} |-> {}]
        OBVIOUS
      <4>4. DOMAIN << >> = {}
        BY <4>3
      <4> QED BY <4>2, <4>4 DEF MatchesAll
    <3> QED BY <3>1, <3>2
  <2> HIDE DEF s, row
  <2>4. Holds(filter, [from |-> <<[alias |-> "t"]>>], [t \in {"t"} |-> row])
    BY <2>1, <2>2, FilterHolds
  <2> QED BY <2>2, <2>3, <2>4 DEF Seen, s, row
<1>7. Holds(q.where, q, rec)
  <2>1. \A a \in Joined(q) : MatchesAll(rec[a], PredicatesOf(q, a))
    BY <1>3, <1>4
  <2> HIDE DEF rec
  <2> QED BY <2>1, WhereHolds
<1>8. ASSUME q.join # << >>
      PROVE  Get(RowOf(q, q.join[1].left[1], m[q.join[1].left[1]]), q.join[1].left[2])
               = Get(RowOf(q, q.join[1].right[1], m[q.join[1].right[1]]), q.join[1].right[2])
  <2>1. q.join[1].left[1] \in J /\ q.join[1].right[1] \in J /\ q.join[1].left[1] # q.join[1].right[1]
    BY <1>8 DEF Joined, WellFormed
  <2>2. Get(recs[x][q.join[1].left[1]], q.join[1].left[2])
          = Get(recs[x][q.join[1].right[1]], q.join[1].right[2])
    BY <1>8, <2>1 DEF RecordsOf
  <2> QED BY <1>3, <2>1, <2>2
<1>9. m \in Matched(q, role)
  BY <1>5, <1>6, <1>7, <1>8 DEF Matched
<1> QED BY <1>2, <1>3, <1>9

\* The records are matches, no two of them the same one, and are shown as such.
AreMatches(role, q, recs, match) ==
  /\ match \in [DOMAIN recs -> Matched(q, role)]
  /\ \A x \in DOMAIN recs : View(q, role, match[x]) = Shown(q, Plans(q, role), recs[x])
  /\ \A x, y \in DOMAIN recs : match[x] = match[y] => x = y

\* Of two records of one match, each table's row is the same.
LEMMA MatchTells ==
  ASSUME NEW q \in Query, NEW role, Refusal(q, role) = "no", ~JoinsUnknown(q), WellFormed(q),
         NEW rows, NEW part, PartsOf(role, q, rows, part), NEW recs, NEW at, RecordsOf(q, rows, recs, at),
         NEW x \in DOMAIN recs, NEW y \in DOMAIN recs, MatchBy(q, at, part, x) = MatchBy(q, at, part, y)
  PROVE  x = y
<1> DEFINE J == Joined(q)
<1>1. J \subseteq Aliases(q)
  BY FromIsNotEmpty, JoinedIs
<1>2. ASSUME NEW a \in J
      PROVE  at[x][a] = at[y][a]
  <2>1. MatchBy(q, at, part, x)[a] = part[a][at[x][a]] /\ MatchBy(q, at, part, y)[a] = part[a][at[y][a]]
    BY DEF MatchBy
  <2>2. at[x][a] \in DOMAIN rows[a] /\ at[y][a] \in DOMAIN rows[a]
    BY DEF RecordsOf
  <2>3. IsPart(part[a], rows[a], Data[SourceOf(q, a)])
    BY <1>1 DEF PartsOf
  <2> QED BY <2>1, <2>2, <2>3 DEF IsPart
<1>3. at[x] \in [J -> Nat] /\ at[y] \in [J -> Nat]
  BY DEF RecordsOf
<1>4. at[x] = at[y]
  BY <1>2, <1>3
<1>5. \A v, w \in DOMAIN recs : at[v] = at[w] => v = w
  <2>1. ~(q.join # << >> /\ q.join[1].left[1] = q.join[1].right[1])
    BY DEF WellFormed
  <2> QED BY <2>1 DEF RecordsOf
<1> QED BY <1>4, <1>5

\* A record is shown as its match is seen.
LEMMA ShownAsSeen ==
  ASSUME NEW q \in Query, NEW role, Refusal(q, role) = "no", NEW rec, NEW m,
         DOMAIN m = DOMAIN rec, \A a \in DOMAIN m : RowOf(q, a, m[a]) = rec[a]
  PROVE  View(q, role, m) = Shown(q, Plans(q, role), rec)
<1> DEFINE cols == Columns(q)
           plans == Plans(q, role)
           Seen1(k) == IF cols[k].alias \in DOMAIN m
                       THEN Get(RowOf(q, cols[k].alias, m[cols[k].alias]), cols[k].column) ELSE Null
           Out(k) == IF cols[k].column \notin DOMAIN Policy[role][SourceOf(q, cols[k].alias)].masks THEN Seen1(k)
                     ELSE IF Seen1(k) \in DOMAIN Emails THEN Emails[Seen1(k)] ELSE Hidden
           In(k) == IF cols[k].column \in DOMAIN plans[cols[k].alias].masks
                    THEN MaskEmail(Cell(rec, cols[k])) ELSE Cell(rec, cols[k])
<1>1. View(q, role, m) = [k \in DOMAIN cols |-> Out(k)]
  BY DEF View
<1>2. Shown(q, plans, rec) = [k \in DOMAIN cols |-> In(k)]
  BY DEF Shown
<1>3. ASSUME NEW k \in DOMAIN cols
      PROVE  Out(k) = In(k)
  <2> DEFINE a == cols[k].alias
             col == cols[k].column
  <2>1. a \in Aliases(q)
    BY ColumnsAre DEF ToSet
  <2>2. plans[a].masks = Policy[role][SourceOf(q, a)].masks
    BY <2>1 DEF Plans, SourcePlan
  <2>3. Seen1(k) = Cell(rec, cols[k])
    BY DEF Cell
  <2> HIDE DEF Seen1, plans, cols
  <2>4. CASE col \in DOMAIN plans[a].masks
    BY <2>2, <2>3, <2>4 DEF MaskEmail
  <2>5. CASE col \notin DOMAIN plans[a].masks
    BY <2>2, <2>3, <2>5
  <2> QED BY <2>4, <2>5
<1> HIDE DEF Out, In, cols
<1> QED BY <1>1, <1>2, <1>3

\* Records of places of the tables' rows are of matches, and different ones of different
\* matches.
LEMMA PlacesAreMatches ==
  ASSUME NEW q \in Query, NEW role, Refusal(q, role) = "no", ~JoinsUnknown(q), WellFormed(q),
         NEW rows, NEW part, PartsOf(role, q, rows, part), NEW recs, NEW at, RecordsOf(q, rows, recs, at),
         NEW match, match = [x \in DOMAIN recs |-> MatchBy(q, at, part, x)]
  PROVE  AreMatches(role, q, recs, match)
<1>5. ASSUME NEW x \in DOMAIN recs
      PROVE  /\ match[x] = MatchBy(q, at, part, x) /\ match[x] \in Matched(q, role)
             /\ View(q, role, match[x]) = Shown(q, Plans(q, role), recs[x])
  <2> DEFINE m == match[x]
             rec == recs[x]
  <2>1. m = MatchBy(q, at, part, x)
    OBVIOUS
  <2> HIDE DEF m
  <2>2. /\ m \in Matched(q, role) /\ DOMAIN m = DOMAIN rec
        /\ \A a \in DOMAIN m : RowOf(q, a, m[a]) = rec[a]
    BY <2>1, RecordMatches
  <2> HIDE DEF rec
  <2>3. View(q, role, m) = Shown(q, Plans(q, role), rec)
    BY <2>2, ShownAsSeen
  <2> QED BY <2>1, <2>2, <2>3 DEF m, rec
<1>6. \A x, y \in DOMAIN recs : match[x] = match[y] => x = y
  <2> SUFFICES ASSUME NEW x \in DOMAIN recs, NEW y \in DOMAIN recs, match[x] = match[y]
               PROVE  x = y
    OBVIOUS
  <2>1. MatchBy(q, at, part, x) = MatchBy(q, at, part, y)
    BY <1>5
  <2> QED BY <2>1, MatchTells
<1>7. match \in [DOMAIN recs -> Matched(q, role)]
  BY <1>5
<1> QED BY <1>5, <1>6, <1>7 DEF AreMatches

\* ... so those of rows in scope are.
LEMMA RecordsAreMatches ==
  ASSUME NEW q \in Query, NEW role, Refusal(q, role) = "no", ~JoinsUnknown(q), WellFormed(q),
         NEW fetched, OfTables(q, fetched), Scopes(role, q, fetched),
         NEW recs, recs = Records(q, Posted(q, Plans(q, role), fetched))
  PROVE  \E match : AreMatches(role, q, recs, match)
<1> DEFINE rows == Posted(q, Plans(q, role), fetched)
<1>1. \E at : RecordsOf(q, rows, recs, at)
  <2> DEFINE plans == Plans(q, role)
  <2>1. rows = Posted(q, plans, fetched) /\ recs = Records(q, rows)
    OBVIOUS
  <2> HIDE DEF rows, plans
  <2> QED BY <2>1, RecordsExist
<1>2. \E part : PartsOf(role, q, rows, part)
  <2> HIDE DEF rows
  <2>1. rows = Posted(q, Plans(q, role), fetched)
    BY DEF rows
  <2> QED BY <2>1, PartsExist
<1> HIDE DEF rows
<1>3. PICK at : RecordsOf(q, rows, recs, at)
  BY <1>1
<1>4. PICK part : PartsOf(role, q, rows, part)
  BY <1>2
<1> DEFINE match == [x \in DOMAIN recs |-> MatchBy(q, at, part, x)]
<1>5. match = [x \in DOMAIN recs |-> MatchBy(q, at, part, x)]
  OBVIOUS
<1> HIDE DEF match
<1>6. AreMatches(role, q, recs, match)
  BY <1>3, <1>4, <1>5, PlacesAreMatches
<1> QED BY <1>6

-----------------------------------------------------------------------------
(* Counting them.                                                          *)

\* There are finitely many matches.
LEMMA MatchedIsFinite ==
  ASSUME NEW q \in Query, NEW role, Refusal(q, role) = "no", ~JoinsUnknown(q)
  PROVE  IsFiniteSet(Matched(q, role))
<1> DEFINE n == Max({Len(Data[t]) : t \in Source})
           M == Matched(q, role)
<1>1. M \subseteq [Joined(q) -> 1..n]
  BY DEF Matched
<1>2. \E a, b : Joined(q) = {a, b}
  <2>1. CASE q.join = << >>
    <3>1. Joined(q) = {q.from[1].alias, q.from[1].alias}
      BY <2>1 DEF Joined
    <3> QED BY <3>1
  <2>2. CASE q.join # << >>
    BY <2>2 DEF Joined
  <2> QED BY <2>1, <2>2
<1>3. PICK a, b : Joined(q) = {a, b}
  BY <1>2
<1>4. n \in Int
  <2>1. a \in Aliases(q)
    BY <1>3, FromIsNotEmpty, JoinedIs
  <2>2. SourceOf(q, a) \in Source
    BY <2>1, PlanIs
  <2> QED BY <2>2, LongestIs
<1> HIDE DEF n, M
<1> DEFINE pairs == (1..n) \X (1..n)
           f == [m \in M |-> <<m[a], m[b]>>]
<1>5. IsFiniteSet(pairs)
  <2>1. IsFiniteSet(1..n)
    BY <1>4, FS_Interval
  <2> QED BY <2>1, FS_Product
<1>6. \A m \in M : m \in [{a, b} -> 1..n] /\ f[m] = <<m[a], m[b]>>
  BY <1>1, <1>3
<1>7. \A m \in M : f[m] \in pairs
  BY <1>6
<1>8. ASSUME NEW m \in M, NEW w \in M, f[m] = f[w]
      PROVE  m = w
  <2>1. m[a] = w[a] /\ m[b] = w[b]
    BY <1>6, <1>8
  <2>2. m \in [{a, b} -> 1..n] /\ w \in [{a, b} -> 1..n]
    BY <1>6
  <2> HIDE DEF f
  <2>3. \A c \in {a, b} : m[c] = w[c]
    BY <2>1
  <2> QED BY <2>2, <2>3
<1>9. f \in [M -> pairs]
  BY <1>7
<1> HIDE DEF f, pairs
<1>10. f \in Injection(M, pairs)
  BY <1>8, <1>9 DEF Injection, IsInjective
<1>11. IsFiniteSet(M)
  BY <1>5, <1>10, FS_Injection
<1> QED BY <1>11 DEF M
\* A row is answered no more often than there are matches of its view.
NoMore(role, q, rows, v) ==
  Cardinality({i \in DOMAIN rows : rows[i] = v})
    <= Cardinality({m \in Matched(q, role) : View(q, role, m) = v})

\* Rows that are views of as many matches are no more than the matches of that view.
LEMMA NoMoreThanMatches ==
  ASSUME NEW q, NEW role, IsFiniteSet(Matched(q, role)), NEW rows, NEW w \in [DOMAIN rows -> Matched(q, role)],
         \A i, j \in DOMAIN rows : w[i] = w[j] => i = j,
         \A i \in DOMAIN rows : View(q, role, w[i]) = rows[i], NEW v
  PROVE  NoMore(role, q, rows, v)
<1> DEFINE M == Matched(q, role)
           A == {i \in DOMAIN rows : rows[i] = v}
           B == {m \in M : View(q, role, m) = v}
           f == [i \in A |-> w[i]]
<1>3. IsFiniteSet(B)
  BY FS_Subset
<1>4. f \in Injection(A, B)
  <2>1. f \in [A -> B]
    OBVIOUS
  <2>2. \A i, j \in A : f[i] = f[j] => i = j
    OBVIOUS
  <2> HIDE DEF f, A, B
  <2> QED BY <2>1, <2>2 DEF Injection, IsInjective
<1>5. Cardinality(A) <= Cardinality(B)
  <2> HIDE DEF f, A, B
  <2> QED BY <1>3, <1>4, FS_Injection
<1> QED BY <1>5 DEF NoMore

-----------------------------------------------------------------------------
(* What is answered.                                                       *)

\* OnlyEntitledMatches, its counts spelt out.
Entitled(role, q, rows) ==
  /\ \A c \in ToSet(Columns(q)) : c.column \notin Policy[role][SourceOf(q, c.alias)].blocked
  /\ \A v \in ToSet(rows) : NoMore(role, q, rows, v)

AnswerEntitled == Answered => Entitled(asked[1], asked[2], answer.rows)

\* What the proof keeps of an answer is what the property asks for.
LEMMA EntitledMatches == AnswerEntitled => OnlyEntitledMatches
BY DEF AnswerEntitled, Entitled, NoMore, OnlyEntitledMatches, Count

\* The answer to an executed query.
LEMMA ServedIsEntitled ==
  ASSUME NEW q \in Query, NEW role, NEW fetched, Served(role, q, fetched)
  PROVE  AnswerEntitled'
<1>1. OfTables(q, fetched) /\ Refusal(q, role) = "no" /\ asked' = <<role, q>> /\ Scopes(role, q, fetched)
  BY DEF Served, Executed
<1>2. CASE JoinsUnknown(q)
  <2>1. answer'.status = "crashed"
    BY <1>2 DEF Served, Executed
  <2> QED BY <2>1 DEF AnswerEntitled, Answered
<1>3. CASE ~JoinsUnknown(q)
  <2> SUFFICES ASSUME WellFormed(q) PROVE Entitled(role, q, answer'.rows)
    BY <1>1 DEF AnswerEntitled, Answered
  <2> DEFINE plans == Plans(q, role)
             recs == Records(q, Posted(q, plans, fetched))
             out == Listed(q, plans, fetched)
             rows == answer'.rows
  <2>1. rows = Slice(q, out)
    BY <1>3, MergeIs DEF Served, Executed
  <2>2. \E match : AreMatches(role, q, recs, match)
    BY <1>1, <1>3, RecordsAreMatches
  <2>3. out \in Only(out) /\ \E from : ListedFrom(q, plans, recs, out, from)
    <3> HIDE DEF plans
    <3> QED BY <1>1, <1>3, ListedIs
  <2> HIDE DEF recs, out, rows
  <2>4. PICK match : AreMatches(role, q, recs, match)
    BY <2>2
  <2>5. PICK from : ListedFrom(q, plans, recs, out, from)
    BY <2>3
  <2>6. PICK part : IsPart(part, rows, out)
    <3>1. out \in Seq(ToSet(out))
      BY <2>3 DEF Only
    <3> QED BY <1>1, <2>1, <3>1, QueryIs, SliceIsPart
  <2> DEFINE w == [i \in DOMAIN rows |-> match[from[part[i]]]]
  <2>7. ASSUME NEW i \in DOMAIN rows
        PROVE  /\ part[i] \in DOMAIN out /\ from[part[i]] \in DOMAIN recs
               /\ rows[i] = Shown(q, plans, recs[from[part[i]]])
    BY <2>5, <2>6 DEF IsPart, ListedFrom
  <2>8. w \in [DOMAIN rows -> Matched(q, role)] /\ \A i \in DOMAIN rows : View(q, role, w[i]) = rows[i]
    BY <2>4, <2>7 DEF AreMatches
  <2>9. ASSUME NEW i \in DOMAIN rows, NEW j \in DOMAIN rows, w[i] = w[j]
        PROVE  i = j
    <3>1. match[from[part[i]]] = match[from[part[j]]]
      BY <2>9
    <3>2. from[part[i]] = from[part[j]]
      BY <2>4, <2>7, <3>1 DEF AreMatches
    <3>3. part[i] = part[j]
      BY <2>5, <2>7, <3>2 DEF ListedFrom
    <3> QED BY <2>6, <3>3 DEF IsPart
  <2>10. IsFiniteSet(Matched(q, role))
    BY <1>1, <1>3, MatchedIsFinite
  <2> HIDE DEF w
  <2>11. ASSUME NEW v
          PROVE  NoMore(role, q, rows, v)
    BY <2>8, <2>9, <2>10, NoMoreThanMatches
  <2>12. \A c \in ToSet(Columns(q)) : c.column \notin Policy[role][SourceOf(q, c.alias)].blocked
    BY <1>1, EntitledIs
  <2> QED BY <2>11, <2>12 DEF Entitled, rows
<1> QED BY <1>2, <1>3

\* Entries are what their key says, whoever asked for them and whoever finds them
\* (freshness.py:5): an answer shows matches that its role may see, each of them
\* once ("no cross-tenant/cross-role cache bleed", README.md:304).
THEOREM OnlyEntitledIsAnswered ==
  ASSUME NoRepoTwice, TextsTell
  PROVE  Spec => []OnlyEntitledMatches
<1>1. Init => CacheScoped /\ AnswerEntitled
  <2> SUFFICES ASSUME Init PROVE CacheScoped /\ AnswerEntitled
    OBVIOUS
  <2>1. << >> = [x \in {} |-> {}]
    OBVIOUS
  <2>2. DOMAIN cache = {} /\ answer.status = "none"
    BY <2>1 DEF Init, None
  <2> QED BY <2>2 DEF CacheScoped, AnswerEntitled, Answered
<1>2. CacheShape /\ CacheScoped /\ AnswerEntitled /\ [Next]_vars => (CacheScoped /\ AnswerEntitled)'
  <2> SUFFICES ASSUME CacheShape, CacheScoped, AnswerEntitled, [Next]_vars
               PROVE  CacheScoped' /\ AnswerEntitled'
    OBVIOUS
  <2>1. CASE Return
    <3>1. cache' = cache /\ answer'.status = "none"
      BY <2>1 DEF Return, None
    <3> QED BY <3>1 DEF CacheScoped, AnswerEntitled, Answered
  <2>2. ASSUME NEW role \in Role, NEW q \in Query, Refuse(role, q)
        PROVE  CacheScoped' /\ AnswerEntitled'
    <3>1. cache' = cache /\ answer'.status = Refusal(q, role) /\ Refusal(q, role) # "no"
      BY <2>2 DEF Refuse
    <3>2. answer'.status # "ok"
      BY <3>1, RefusalIs DEF Refusals
    <3> QED BY <3>1, <3>2 DEF CacheScoped, AnswerEntitled, Answered
  <2>3. ASSUME NEW role \in Role, NEW q \in Query, Execute(role, q)
        PROVE  CacheScoped' /\ AnswerEntitled'
    <3>1. CacheScoped' /\ \E fetched : Served(role, q, fetched)
      BY <2>3, ExecuteServes
    <3>2. PICK fetched : Served(role, q, fetched)
      BY <3>1
    <3> QED BY <3>1, <3>2, ServedIsEntitled
  <2>4. CASE UNCHANGED vars
    BY <2>4 DEF vars, CacheScoped, AnswerEntitled, Answered
  <2> QED BY <2>1, <2>2, <2>3, <2>4 DEF Next
<1> QED BY <1>1, <1>2, TypesHold, EntitledMatches, PTL DEF Spec

-----------------------------------------------------------------------------
(* ... and what a row of a match passes.                                   *)

\* A concatenation has no others.
LEMMA ConcatHasOnly ==
  ASSUME NEW T, NEW a \in Seq(T), NEW b \in Seq(T)
  PROVE  ToSet(a \o b) \subseteq ToSet(a) \cup ToSet(b)
<1>1. Len(a) \in Nat /\ Len(b) \in Nat /\ DOMAIN a = 1..Len(a) /\ DOMAIN b = 1..Len(b)
  BY LenProperties
<1>2. /\ Len(a \o b) = Len(a) + Len(b) /\ DOMAIN (a \o b) = 1..Len(a \o b)
      /\ \A i \in 1..(Len(a) + Len(b)) : (a \o b)[i] = IF i <= Len(a) THEN a[i] ELSE b[i - Len(a)]
  BY ConcatProperties, LenProperties
<1>3. ASSUME NEW i \in DOMAIN (a \o b)
      PROVE  (a \o b)[i] \in ToSet(a) \cup ToSet(b)
  <2>1. i \in 1..(Len(a) + Len(b)) /\ i \in Int
    BY <1>1, <1>2
  <2>2. CASE i <= Len(a)
    <3>1. i \in DOMAIN a /\ (a \o b)[i] = a[i]
      BY <1>1, <1>2, <2>1, <2>2
    <3> QED BY <3>1 DEF ToSet
  <2>3. CASE ~(i <= Len(a))
    <3>1. i - Len(a) \in DOMAIN b /\ (a \o b)[i] = b[i - Len(a)]
      BY <1>1, <1>2, <2>1, <2>3
    <3> QED BY <3>1 DEF ToSet
  <2> QED BY <2>2, <2>3
<1> QED BY <1>3 DEF ToSet

\* A row that satisfies a condition matches its predicate.
LEMMA ConditionTells ==
  ASSUME NEW cond, Parse(cond) # << >>, NEW q, NEW rec, Satisfies(cond, q, rec)
  PROVE  Matches(Parse(cond)[1].pred, rec[Resolve(q, Parse(cond)[1].alias)])
<1>1. CASE cond.node = "in"
  <2> DEFINE p == [column |-> cond.this[3], op |-> "IN",
                   value |-> [i \in DOMAIN cond.values |-> cond.values[i][2]]]
             row == rec[Resolve(q, cond.this[2])]
  <2>1. Parse(cond) = <<[alias |-> cond.this[2], pred |-> p]>>
    BY <1>1 DEF Parse
  <2>2. cond.this[3] \in DOMAIN row /\ \E i \in DOMAIN cond.values : row[cond.this[3]] = cond.values[i][2]
    BY <1>1 DEF Satisfies
  <2>3. row[cond.this[3]] \in ToSet(p.value)
    BY <2>2 DEF ToSet
  <2>4. p.column = cond.this[3] /\ p.op = "IN"
    OBVIOUS
  <2> HIDE DEF p, row
  <2>5. Matches(p, row)
    BY <2>2, <2>3, <2>4 DEF Matches
  <2> QED BY <2>1, <2>5 DEF row
<1>2. CASE cond.node # "in"
  <2> DEFINE p == [column |-> cond.left[3], op |-> cond.op, value |-> <<cond.right[2]>>]
  <2>1. cond.node = "cmp" /\ Parse(cond) = <<[alias |-> cond.left[2], pred |-> p]>>
    BY <1>2 DEF Parse
  <2>2. Matches(p, rec[Resolve(q, cond.left[2])])
    BY <1>2 DEF Satisfies
  <2> HIDE DEF p
  <2> QED BY <2>1, <2>2
<1> QED BY <1>1, <1>2

\* All conditions of a tree that holds do.
LEMMA TreeTells ==
  ASSUME NEW tree, IsTree(tree), ~Unsupported(tree), NEW q, NEW rec, Holds(tree, q, rec),
         NEW k \in DOMAIN Parsed(tree)
  PROVE  Matches(Parsed(tree)[k][1].pred, rec[Resolve(q, Parsed(tree)[k][1].alias)])
<1> DEFINE D == DOMAIN tree
           n == Len(tree)
           under == Flattened(tree)
           Ok(c) == Satisfies(c, q, rec)
<1>1. n \in Nat /\ D = 1..n /\ tree \in Seq(ToSet(tree))
  BY OperandsAre, OnlyGives DEF IsTree
<1>2. DOMAIN Parsed(tree) = DOMAIN Flatten(tree) /\ Parsed(tree)[k] = Parse(Flatten(tree)[k])
  BY DEF Parsed
<1>3. tree # << >>
  <2> SUFFICES ASSUME tree = << >> PROVE FALSE
    OBVIOUS
  <2>1. Flatten(tree) = << >> /\ << >> = [x \in {} |-> {}]
    BY DEF Flatten
  <2> QED BY <1>2, <2>1
<1>4. n # 0
  BY <1>1, <1>3, EmptySeq
<1>5. PICK h \in [D -> BOOLEAN] :
        /\ Holds(tree, q, rec) <=> h[n]
        /\ \A i \in D :
             /\ tree[i].node = "and" => (h[i] <=> h[LeftOf(tree, i)] /\ h[RightOf(tree, i)])
             /\ tree[i].node = "paren" => (h[i] <=> h[RightOf(tree, i)])
             /\ tree[i].node \notin {"and", "paren"} => (h[i] <=> Satisfies(tree[i], q, rec))
  BY <1>3, HoldsIs
<1> DEFINE good == {i \in D : h[i] => \A c \in ToSet(under[i]) : Ok(c)}
<1>6. ASSUME NEW i \in 1..n, \A j \in 1..(i - 1) : j \in good, h[i], NEW c \in ToSet(under[i])
      PROVE  Ok(c)
  <2> DEFINE l == LeftOf(tree, i)
             r == RightOf(tree, i)
  <2>1. /\ tree[i].node = "and" => l \in 1..(i - 1) /\ r \in 1..(i - 1)
        /\ tree[i].node = "paren" => r \in 1..(i - 1)
        /\ \A j \in 1..(i - 1) : j \in D
    BY <1>1, OperandsAre
  <2>2. /\ under \in [D -> Seq(ToSet(tree))]
        /\ tree[i].node = "and" => under[i] = under[l] \o under[r]
        /\ tree[i].node = "paren" => under[i] = under[r]
        /\ tree[i].node \notin {"and", "paren"} => under[i] = <<tree[i]>>
    BY <1>1, FlattenedIs
  <2>3. /\ tree[i].node = "and" => (h[i] <=> h[l] /\ h[r])
        /\ tree[i].node = "paren" => (h[i] <=> h[r])
        /\ tree[i].node \notin {"and", "paren"} => (h[i] <=> Ok(tree[i]))
    BY <1>1, <1>5
  <2>4. \A j \in 1..(i - 1) : h[j] => \A d \in ToSet(under[j]) : Ok(d)
    BY <1>6
  <2> HIDE DEF l, r, under, D, Ok, good
  <2>5. CASE tree[i].node = "and"
    <3>1. l \in D /\ r \in D /\ l \in 1..(i - 1) /\ r \in 1..(i - 1)
      BY <2>1, <2>5
    <3>2. ToSet(under[i]) \subseteq ToSet(under[l]) \cup ToSet(under[r])
      <4>1. under[l] \in Seq(ToSet(tree)) /\ under[r] \in Seq(ToSet(tree))
        BY <2>2, <3>1
      <4> QED BY <2>2, <2>5, <4>1, ConcatHasOnly
    <3>3. h[l] /\ h[r]
      BY <1>6, <2>3, <2>5
    <3>4. c \in ToSet(under[l]) \/ c \in ToSet(under[r])
      BY <1>6, <3>2
    <3> QED BY <2>4, <3>1, <3>3, <3>4
  <2>6. CASE tree[i].node = "paren"
    BY <1>6, <2>1, <2>2, <2>3, <2>4, <2>6
  <2>7. CASE tree[i].node \notin {"and", "paren"}
    <3>1. under[i] = <<tree[i]>>
      BY <2>2, <2>7
    <3>2. DOMAIN <<tree[i]>> = {1} /\ <<tree[i]>>[1] = tree[i]
      OBVIOUS
    <3>3. ToSet(<<tree[i]>>) = {tree[i]}
      BY <3>2 DEF ToSet
    <3>4. c = tree[i]
      BY <1>6, <3>1, <3>3
    <3> QED BY <1>6, <2>3, <2>7, <3>4
  <2> QED BY <2>5, <2>6, <2>7
<1>7. \A i \in 1..n : (\A j \in 1..(i - 1) : j \in good) => i \in good
  BY <1>1, <1>6
<1>8. n \in good
  <2> HIDE DEF good, n
  <2>1. \A i \in 1..n : i \in good
    BY <1>1, <1>7, PlacesInTurn
  <2>2. n \in 1..n
    BY <1>1, <1>4
  <2> QED BY <2>1, <2>2
<1>9. Ok(Flatten(tree)[k])
  <2>1. Flatten(tree) = under[n]
    BY <1>3 DEF Flatten
  <2>2. Flatten(tree)[k] \in ToSet(under[n])
    BY <1>2, <2>1 DEF ToSet
  <2> HIDE DEF under, Ok
  <2> QED BY <1>5, <1>8, <2>2 DEF good
<1>10. Parse(Flatten(tree)[k]) # << >>
  BY <1>2 DEF Unsupported
<1> QED BY <1>2, <1>9, <1>10, ConditionTells

\* A row that the role may see matches the predicates of the row filter.
LEMMA FilterTells ==
  ASSUME NEW role \in DOMAIN Policy, NEW s \in DOMAIN Policy[role],
         ~Unsupported(Policy[role][s].filter), NEW row,
         Holds(Policy[role][s].filter, [from |-> <<[alias |-> "t"]>>], [t \in {"t"} |-> row])
  PROVE  MatchesAll(row, RowFilter(role, s))
<1> DEFINE tree == Policy[role][s].filter
           q == [from |-> <<[alias |-> "t"]>>]
           rec == [t \in {"t"} |-> row]
<1>1. IsTree(tree) /\ IsRowFilter(tree)
  BY PlannerAssumption, FederationAssumption
<1>2. RowFilter(role, s) = [i \in DOMAIN Parsed(tree) |-> Parsed(tree)[i][1].pred]
  BY DEF RowFilter
<1>3. q.from[1].alias = "t" /\ rec["t"] = row /\ Holds(tree, q, rec)
  OBVIOUS
<1>4. ~Unsupported(tree)
  OBVIOUS
<1> HIDE DEF tree, q, rec
<1>5. ASSUME NEW i \in DOMAIN Parsed(tree)
      PROVE  Matches(RowFilter(role, s)[i], row)
  <2>1. Parsed(tree)[i] # << >>
    BY <1>4 DEF Unsupported
  <2>2. Parsed(tree)[i][1].alias \in {"", "t"}
    BY <1>1, <2>1 DEF IsRowFilter
  <2>3. Resolve(q, Parsed(tree)[i][1].alias) = "t"
    BY <1>3, <2>2 DEF Resolve
  <2>4. Matches(Parsed(tree)[i][1].pred, rec[Resolve(q, Parsed(tree)[i][1].alias)])
    BY <1>1, <1>3, <1>4, TreeTells
  <2> QED BY <1>2, <1>3, <2>3, <2>4
<1>6. DOMAIN RowFilter(role, s) = DOMAIN Parsed(tree)
  BY <1>2
<1> QED BY <1>5, <1>6 DEF MatchesAll

\* The rows of a match of the WHERE match the predicates on their tables.
LEMMA WhereTells ==
  ASSUME NEW q \in Query, NEW role, Refusal(q, role) = "no", NEW rec, Holds(q.where, q, rec),
         NEW a \in Aliases(q), MatchesAll(rec[a], EntryOf(q, a).where)
  PROVE  MatchesAll(rec[a], PredicatesOf(q, a))
<1>1. q.form \in {"sql", "plan"} /\ IsTree(q.where)
  BY FederationAssumption DEF IsQuery
<1>2. CASE q.form = "plan"
  BY <1>2 DEF PredicatesOf
<1>3. CASE q.form = "sql"
  <2> DEFINE parsed == Parsed(q.where)
             S == {j \in DOMAIN parsed : Resolve(q, parsed[j][1].alias) = a}
             mine == Selected(parsed, S)
  <2>1. ~Unsupported(q.where)
    BY <1>3, SqlGives
  <2>2. parsed \in Seq(ToSet(parsed)) /\ S \in SUBSET (DOMAIN parsed)
    BY <1>1, FlattenTyped DEF Only
  <2>3. PredicatesOf(q, a) = [j \in DOMAIN mine |-> mine[j][1].pred]
    BY <1>3 DEF PredicatesOf
  <2>4. \A i \in S : Matches(parsed[i][1].pred, rec[a])
    <3> SUFFICES ASSUME NEW i \in S PROVE Matches(parsed[i][1].pred, rec[a])
      OBVIOUS
    <3>1. i \in DOMAIN parsed /\ Resolve(q, parsed[i][1].alias) = a
      OBVIOUS
    <3>2. Matches(parsed[i][1].pred, rec[Resolve(q, parsed[i][1].alias)])
      BY <1>1, <2>1, <3>1, TreeTells
    <3> QED BY <3>1, <3>2
  <2> HIDE DEF parsed, S
  <2>5. S \in SUBSET Int /\ IsFiniteSet(S)
    BY <2>2, SelectedType
  <2>6. DOMAIN mine = 1..Cardinality(S)
    BY <2>5, SelectedAt
  <2>7. ASSUME NEW k \in DOMAIN mine
        PROVE  Matches(mine[k][1].pred, rec[a])
    <3>1. k \in 1..Cardinality(S)
      BY <2>6
    <3>2. \E i \in S : RankIn(S, i) = k /\ Selected(parsed, S)[k] = parsed[i]
      BY <2>5, <3>1, SelectedFrom
    <3> QED BY <2>4, <3>2
  <2> HIDE DEF mine
  <2> QED BY <2>3, <2>7 DEF MatchesAll
<1> QED BY <1>1, <1>2, <1>3

\* A row that a query asks for is one that its plan asks for.
LEMMA PlanAsksNoMore ==
  ASSUME NEW q \in Query, NEW role, Refusal(q, role) = "no", NEW a \in Aliases(q), NEW row,
         MatchesAll(row, PredicatesOf(q, a)), MatchesAll(row, RowFilter(role, SourceOf(q, a)))
  PROVE  /\ MatchesAll(row, ServerFilters(SourcePlan(q, role, a)))
         /\ MatchesAll(row, SourcePlan(q, role, a).post)
<1> DEFINE s == SourceOf(q, a)
           preds == PredicatesOf(q, a)
           S == {i \in DOMAIN preds : preds[i].column \in Pushable[s]}
           U == {i \in DOMAIN preds : preds[i].column \notin Pushable[s]}
           sp == SourcePlan(q, role, a)
           rls == RowFilter(role, s)
           pushed == Selected(preds, S)
<1>1. sp.pushed = pushed /\ sp.rls = rls /\ ServerFilters(sp) = pushed \o rls
  BY DEF SourcePlan, ServerFilters
<1>2. sp.post = Selected(preds, U)
  BY DEF SourcePlan
<1>3. preds \in Seq(ToSet(preds)) /\ rls \in Seq(ToSet(rls))
  BY PredicatesAre, EntitledIs, RowFilterIs DEF Only
<1>4. S \in SUBSET (DOMAIN preds) /\ U \in SUBSET (DOMAIN preds)
  OBVIOUS
<1>5. MatchesAll(row, preds) /\ MatchesAll(row, rls)
  OBVIOUS
<1> HIDE DEF s, preds, S, U, rls, sp
<1>6. ASSUME NEW V \in SUBSET (DOMAIN preds)
      PROVE  MatchesAll(row, Selected(preds, V)) /\ Selected(preds, V) \in Seq(ToSet(preds))
  <2>1. V \in SUBSET Int /\ IsFiniteSet(V) /\ Selected(preds, V) \in Seq(ToSet(preds))
    BY <1>3, SelectedType
  <2>2. DOMAIN Selected(preds, V) = 1..Cardinality(V)
    BY <2>1, SelectedAt
  <2>3. ASSUME NEW k \in DOMAIN Selected(preds, V)
        PROVE  Matches(Selected(preds, V)[k], row)
    <3>1. k \in 1..Cardinality(V)
      BY <2>2
    <3>2. \E i \in V : RankIn(V, i) = k /\ Selected(preds, V)[k] = preds[i]
      BY <2>1, <3>1, SelectedFrom
    <3> QED BY <1>5, <3>2 DEF MatchesAll
  <2> QED BY <2>1, <2>3 DEF MatchesAll
<1>7. MatchesAll(row, pushed) /\ pushed \in Seq(ToSet(preds)) /\ MatchesAll(row, sp.post)
  BY <1>2, <1>4, <1>6
<1> HIDE DEF pushed
<1>8. ToSet(pushed \o rls) \subseteq ToSet(pushed) \cup ToSet(rls)
  <2> DEFINE X == ToSet(preds) \cup ToSet(rls)
  <2>1. pushed \in Seq(X) /\ rls \in Seq(X)
    <3>1. ToSet(preds) \subseteq X /\ ToSet(rls) \subseteq X
      OBVIOUS
    <3> HIDE DEF X
    <3> QED BY <1>3, <1>7, <3>1
  <2> HIDE DEF X
  <2> QED BY <2>1, ConcatHasOnly
<1>9. \A p \in ToSet(pushed) \cup ToSet(rls) : Matches(p, row)
  BY <1>5, <1>7, MatchesHas
<1>10. MatchesAll(row, pushed \o rls)
  BY <1>8, <1>9, MatchesHas
<1> QED BY <1>1, <1>7, <1>10 DEF sp

-----------------------------------------------------------------------------
(* Entries of sources that are not paged are the fetch itself.             *)

Whole(rows, sp) == Kind[sp.source] = "mock" => rows = Fetched(sp)

CacheWhole ==
  \A q \in Query, role \in Role : Refusal(q, role) = "no" =>
    \A a \in Aliases(q) :
      CacheKey(SourcePlan(q, role, a)) \in DOMAIN cache =>
        Whole(cache[CacheKey(SourcePlan(q, role, a))], SourcePlan(q, role, a))

\* A fetch of a source that is not paged is all of the table that is asked for.
LEMMA MockIs ==
  ASSUME NEW sp, Kind[sp.source] = "mock"
  PROVE  Fetched(sp) = Filter(Data[sp.source], ServerFilters(sp))
BY DEF Fetched, FetchRows

\* ... so those of one key fetch the same.
LEMMA OneKeyOneFetch ==
  ASSUME TextsTell, NEW q \in Query, NEW role \in Role, Refusal(q, role) = "no", NEW a \in Aliases(q),
         NEW r \in Query, NEW other \in Role, Refusal(r, other) = "no", NEW b \in Aliases(r),
         CacheKey(SourcePlan(q, role, a)) = CacheKey(SourcePlan(r, other, b)),
         NEW rows, Whole(rows, SourcePlan(q, role, a))
  PROVE  Whole(rows, SourcePlan(r, other, b))
<1> DEFINE sp == SourcePlan(q, role, a)
           op == SourcePlan(r, other, b)
           asks == ServerFilters(sp)
           wants == ServerFilters(op)
           all == Data[sp.source]
<1>1. op.source = sp.source
  BY DEF CacheKey
<1>2. ASSUME NEW row
      PROVE  MatchesAll(row, asks) <=> MatchesAll(row, wants)
  <2>1. MatchesAll(row, asks) => MatchesAll(row, wants)
    BY OneKeyAsks
  <2>2. MatchesAll(row, wants) => MatchesAll(row, asks)
    BY OneKeyAsks
  <2> QED BY <2>1, <2>2
<1>3. Whole(rows, sp)
  OBVIOUS
<1> HIDE DEF sp, op, asks, wants
<1>4. Filter(all, asks) = Filter(all, wants)
  <2>1. {i \in DOMAIN all : MatchesAll(all[i], asks)} = {i \in DOMAIN all : MatchesAll(all[i], wants)}
    BY <1>2
  <2> QED BY <2>1 DEF Filter
<1>5. ASSUME Kind[op.source] = "mock"
      PROVE  rows = Fetched(op)
  <2>1. rows = Fetched(sp) /\ Kind[sp.source] = "mock"
    BY <1>1, <1>3, <1>5 DEF Whole
  <2>2. Fetched(sp) = Filter(Data[sp.source], ServerFilters(sp))
    BY <2>1, MockIs
  <2>3. Fetched(op) = Filter(Data[op.source], ServerFilters(op))
    BY <1>5, MockIs
  <2> QED BY <1>1, <1>4, <2>1, <2>2, <2>3 DEF asks, wants
<1>6. Whole(rows, op)
  BY <1>5 DEF Whole
<1> QED BY <1>6 DEF op

\* The rows of each table that is not paged, fetched or cached, are the fetch.
AreWhole(role, q, fetched) == \A a \in Aliases(q) : Whole(fetched[a], SourcePlan(q, role, a))

\* An execution is served such rows, and leaves such entries.
LEMMA ExecuteIsWhole ==
  ASSUME TextsTell, NEW role \in Role, NEW q \in Query, Execute(role, q), CacheShape, CacheWhole
  PROVE  CacheWhole' /\ \E fetched : Executed(role, q, fetched) /\ AreWhole(role, q, fetched)
<1>1. PICK fetched : Executed(role, q, fetched)
  BY ExecuteGives
<1>2. Refusal(q, role) = "no" /\ Filled(role, q, fetched)
  BY <1>1 DEF Executed
<1>3. \A a \in Aliases(q) : Plans(q, role)[a] = SourcePlan(q, role, a)
  BY DEF Plans
<1>4. ASSUME NEW a \in Aliases(q)
      PROVE  Whole(fetched[a], SourcePlan(q, role, a))
  <2> DEFINE sp == SourcePlan(q, role, a)
             k == CacheKey(sp)
  <2>1. (k \in DOMAIN cache /\ fetched[a] = cache[k]) \/ fetched[a] = Fetched(sp)
    BY <1>2, <1>3 DEF Filled
  <2>2. CASE k \in DOMAIN cache /\ fetched[a] = cache[k]
    BY <1>2, <2>2 DEF CacheWhole
  <2>3. CASE fetched[a] = Fetched(sp)
    BY <2>3 DEF Whole
  <2> QED BY <2>1, <2>2, <2>3
<1>5. CacheWhole'
  <2> SUFFICES ASSUME NEW r \in Query, NEW other \in Role, Refusal(r, other) = "no", NEW b \in Aliases(r),
                      CacheKey(SourcePlan(r, other, b)) \in DOMAIN cache'
               PROVE  Whole(cache'[CacheKey(SourcePlan(r, other, b))], SourcePlan(r, other, b))
    BY DEF CacheWhole
  <2> DEFINE op == SourcePlan(r, other, b)
             k == CacheKey(op)
  <2>1. \/ k \in DOMAIN cache /\ cache'[k] = cache[k]
        \/ \E a \in Aliases(q) : CacheKey(Plans(q, role)[a]) = k /\ cache'[k] = fetched[a]
    BY <1>2 DEF Filled
  <2>2. CASE k \in DOMAIN cache /\ cache'[k] = cache[k]
    BY <2>2 DEF CacheWhole
  <2>3. CASE \E a \in Aliases(q) : CacheKey(Plans(q, role)[a]) = k /\ cache'[k] = fetched[a]
    <3>1. PICK a \in Aliases(q) : CacheKey(Plans(q, role)[a]) = k /\ cache'[k] = fetched[a]
      BY <2>3
    <3>2. CacheKey(SourcePlan(q, role, a)) = CacheKey(op) /\ cache'[k] = fetched[a]
      BY <1>3, <3>1
    <3>3. Whole(fetched[a], SourcePlan(q, role, a))
      BY <1>4
    <3>4. Whole(fetched[a], op)
      BY <1>2, <3>2, <3>3, OneKeyOneFetch
    <3> QED BY <3>2, <3>4
  <2> QED BY <2>1, <2>2, <2>3
<1>6. AreWhole(role, q, fetched)
  BY <1>4 DEF AreWhole
<1> QED BY <1>1, <1>5, <1>6

-----------------------------------------------------------------------------
(* Nothing that is asked for is left out.                                  *)

\* Row f[x] of some rows is row x of out, and all rows that match are among them.
Kept(f, out, rows, preds) ==
  /\ IsPart(f, out, rows) /\ \A x \in DOMAIN out : MatchesAll(out[x], preds)
  /\ \A i \in DOMAIN rows : MatchesAll(rows[i], preds) => \E x \in DOMAIN out : f[x] = i

\* A filter keeps all rows that match, each once.
LEMMA FilterKeeps ==
  ASSUME NEW T, NEW rows \in Seq(T), NEW preds
  PROVE  \E f : Kept(f, Filter(rows, preds), rows, preds)
<1> DEFINE S == {i \in DOMAIN rows : MatchesAll(rows[i], preds)}
           out == Selected(rows, S)
<1>1. Filter(rows, preds) = out
  BY DEF Filter
<1>2. S \in SUBSET (DOMAIN rows) /\ \A i \in DOMAIN rows : i \in S <=> MatchesAll(rows[i], preds)
  OBVIOUS
<1> HIDE DEF S
<1>3. \E f : /\ IsPart(f, out, rows) /\ \A x \in DOMAIN out : f[x] \in S
             /\ \A i \in S : \E x \in DOMAIN out : f[x] = i
  BY <1>2, PartSelected
<1> HIDE DEF out
<1>4. PICK f : /\ IsPart(f, out, rows) /\ \A x \in DOMAIN out : f[x] \in S
               /\ \A i \in S : \E x \in DOMAIN out : f[x] = i
  BY <1>3
<1>5. Kept(f, out, rows, preds)
  BY <1>2, <1>4 DEF Kept, IsPart
<1> QED BY <1>1, <1>5

\* What a query, and the filter of a role, ask of a row of a table.
Asked(q, role, a, row) == MatchesAll(row, PredicatesOf(q, a)) /\ MatchesAll(row, RowFilter(role, SourceOf(q, a)))

\* Row f[x] of the table is row x of these rows: all of them that are asked for.
IsAsked(f, role, q, a, rows) ==
  /\ IsPart(f, rows, Data[SourceOf(q, a)]) /\ \A x \in DOMAIN rows : Asked(q, role, a, rows[x])
  /\ \A i \in DOMAIN Data[SourceOf(q, a)] :
       Asked(q, role, a, Data[SourceOf(q, a)][i]) => \E x \in DOMAIN rows : f[x] = i

\* After the post-filter they are the rows that the query asks for, all of them.
LEMMA PostedIsAsked ==
  ASSUME NEW q \in Query, NEW role, Refusal(q, role) = "no", NEW a \in Aliases(q),
         Kind[SourceOf(q, a)] = "mock", NEW fetched, Whole(fetched[a], SourcePlan(q, role, a))
  PROVE  \E f : IsAsked(f, role, q, a, Posted(q, Plans(q, role), fetched)[a])
<1> DEFINE sp == SourcePlan(q, role, a)
           s == SourceOf(q, a)
           all == Data[s]
           asks == ServerFilters(sp)
           got == Filter(all, asks)
           rows == Filter(got, sp.post)
           T == ToSet(all)
<1>1. sp.source = s /\ s \in Source
  BY PlanIs
<1>2. all \in Seq(T)
  BY <1>1, FederationAssumption DEF Only
<1>3. fetched[a] = got
  BY <1>1, MockIs DEF Whole
<1>4. Posted(q, Plans(q, role), fetched)[a] = rows
  BY <1>3 DEF Posted, Plans
<1>5. \A row : Asked(q, role, a, row) <=> MatchesAll(row, asks) /\ MatchesAll(row, sp.post)
  BY PlanAsks, PlanAsksNoMore DEF Asked
<1> HIDE DEF sp, s, all, asks, T
<1>6. got \in Seq(T)
  BY <1>2, FilterOnly
<1>7. \E f : Kept(f, got, all, asks)
  BY <1>2, FilterKeeps
<1> HIDE DEF got
<1>8. \E g : Kept(g, rows, got, sp.post)
  BY <1>6, FilterKeeps
<1> HIDE DEF rows
<1>9. PICK f : Kept(f, got, all, asks)
  BY <1>7
<1>10. PICK g : Kept(g, rows, got, sp.post)
  BY <1>8
<1> DEFINE h == [x \in DOMAIN rows |-> f[g[x]]]
<1>11. IsPart(h, rows, all)
  BY <1>9, <1>10, PartOfPart DEF Kept
<1>12. \A x \in DOMAIN rows : h[x] = f[g[x]] /\ g[x] \in DOMAIN got /\ rows[x] = got[g[x]]
  BY <1>10 DEF Kept, IsPart
<1> HIDE DEF h
<1>13. \A x \in DOMAIN rows : Asked(q, role, a, rows[x])
  BY <1>5, <1>9, <1>10, <1>12 DEF Kept
<1>14. ASSUME NEW i \in DOMAIN all, Asked(q, role, a, all[i])
       PROVE  \E x \in DOMAIN rows : h[x] = i
  <2>1. PICK y \in DOMAIN got : f[y] = i
    BY <1>5, <1>9, <1>14 DEF Kept
  <2>2. got[y] = all[i]
    BY <1>9, <2>1 DEF Kept, IsPart
  <2>3. PICK x \in DOMAIN rows : g[x] = y
    BY <1>5, <1>10, <1>14, <2>2 DEF Kept
  <2> QED BY <1>12, <2>1, <2>3
<1>15. IsAsked(h, role, q, a, rows)
  BY <1>11, <1>13, <1>14 DEF IsAsked, all, s
<1> QED BY <1>4, <1>15
\* All sources of the query are unpaged ones.
IsMock(q) == \A a \in Aliases(q) : Kind[SourceOf(q, a)] = "mock"

\* Row x of each table's rows is row part[a][x] of the table: all of them that the query
\* asks for.
AllParts(role, q, rows, part) == \A a \in Aliases(q) : IsAsked(part[a], role, q, a, rows[a])

\* There are such places.
LEMMA AllPartsExist ==
  ASSUME NEW q \in Query, NEW role, Refusal(q, role) = "no", IsMock(q),
         NEW fetched, AreWhole(role, q, fetched),
         NEW rows, rows = Posted(q, Plans(q, role), fetched)
  PROVE  \E part : AllParts(role, q, rows, part)
<1> DEFINE part == [a \in Aliases(q) |-> CHOOSE f : IsAsked(f, role, q, a, rows[a])]
<1>1. ASSUME NEW a \in Aliases(q)
      PROVE  IsAsked(part[a], role, q, a, rows[a])
  <2>1. Kind[SourceOf(q, a)] = "mock" /\ Whole(fetched[a], SourcePlan(q, role, a))
    BY DEF IsMock, AreWhole
  <2>2. \E f : IsAsked(f, role, q, a, rows[a])
    BY <2>1, PostedIsAsked
  <2> QED BY <2>2
<1> HIDE DEF part
<1>2. AllParts(role, q, rows, part)
  BY <1>1 DEF AllParts
<1> QED BY <1>2

\* ... so they are parts, too.
LEMMA AllPartsAreParts ==
  ASSUME NEW q, NEW role, NEW rows, NEW part, AllParts(role, q, rows, part)
  PROVE  PartsOf(role, q, rows, part)
BY DEF AllParts, PartsOf, IsAsked, Asked

\* What is known of the rows of a match.
LEMMA MatchAsks ==
  ASSUME NEW q \in Query, NEW role, Refusal(q, role) = "no", ~JoinsUnknown(q),
         NEW m \in Matched(q, role), NEW a \in Joined(q)
  PROVE  /\ a \in Aliases(q) /\ m[a] \in DOMAIN Data[SourceOf(q, a)]
         /\ Asked(q, role, a, Data[SourceOf(q, a)][m[a]])
<1> DEFINE s == SourceOf(q, a)
           row == RowOf(q, a, m[a])
           rec == [b \in Joined(q) |-> RowOf(q, b, m[b])]
           filter == Policy[role][s].filter
<1>1. a \in Aliases(q)
  BY FromIsNotEmpty, JoinedIs
<1>2. m[a] \in Seen(q, role, a) /\ Holds(q.where, q, rec)
  BY DEF Matched
<1>3. /\ m[a] \in DOMAIN Data[s] /\ MatchesAll(row, EntryOf(q, a).where)
      /\ Holds(filter, [from |-> <<[alias |-> "t"]>>], [t \in {"t"} |-> row])
  BY <1>2 DEF Seen
<1>4. row = Data[s][m[a]] /\ rec[a] = row
  BY DEF RowOf
<1>5. role \in DOMAIN Policy /\ s \in DOMAIN Policy[role] /\ ~Unsupported(filter)
  BY <1>1, EntitledIs
<1> HIDE DEF s, row, rec
<1>6. MatchesAll(row, RowFilter(role, s))
  BY <1>3, <1>5, FilterTells
<1>7. MatchesAll(row, PredicatesOf(q, a))
  <2>1. MatchesAll(rec[a], EntryOf(q, a).where)
    BY <1>3, <1>4
  <2>2. MatchesAll(rec[a], PredicatesOf(q, a))
    BY <1>1, <1>2, <2>1, WhereTells
  <2> QED BY <1>4, <2>2
<1> QED BY <1>1, <1>3, <1>4, <1>6, <1>7 DEF Asked, s

\* Every match makes a record.
LEMMA MatchIsRecord ==
  ASSUME NEW q \in Query, NEW role, Refusal(q, role) = "no", ~JoinsUnknown(q), WellFormed(q),
         NEW rows, NEW part, AllParts(role, q, rows, part), NEW recs, NEW at, RecordsOf(q, rows, recs, at),
         NEW m \in Matched(q, role)
  PROVE  \E x \in DOMAIN recs : MatchBy(q, at, part, x) = m
<1> DEFINE J == Joined(q)
           y == [a \in J |-> CHOOSE k \in DOMAIN rows[a] : part[a][k] = m[a]]
<1>1. ASSUME NEW a \in J
      PROVE  y[a] \in DOMAIN rows[a] /\ part[a][y[a]] = m[a] /\ rows[a][y[a]] = RowOf(q, a, m[a])
  <2>1. /\ a \in Aliases(q) /\ m[a] \in DOMAIN Data[SourceOf(q, a)]
        /\ Asked(q, role, a, Data[SourceOf(q, a)][m[a]])
    BY MatchAsks
  <2>2. IsAsked(part[a], role, q, a, rows[a])
    BY <2>1 DEF AllParts
  <2>3. \E k \in DOMAIN rows[a] : part[a][k] = m[a]
    BY <2>1, <2>2 DEF IsAsked
  <2>4. y[a] \in DOMAIN rows[a] /\ part[a][y[a]] = m[a]
    BY <2>3
  <2> HIDE DEF y
  <2>5. rows[a][y[a]] = Data[SourceOf(q, a)][m[a]]
    BY <2>2, <2>4 DEF IsAsked, IsPart
  <2> QED BY <2>4, <2>5 DEF RowOf
<1> HIDE DEF y
<1>2. m = [a \in J |-> m[a]]
  BY DEF Matched
<1>3. \E x \in DOMAIN recs : \A a \in J : at[x][a] = y[a]
  <2>1. CASE q.join = << >>
    <3> DEFINE a == q.from[1].alias
    <3>1. J = {a}
      BY <2>1 DEF Joined
    <3>2. \A i \in DOMAIN rows[a] : \E x \in DOMAIN recs : at[x][a] = i
      BY <2>1 DEF RecordsOf, AllRecords
    <3>3. y[a] \in DOMAIN rows[a]
      BY <1>1, <3>1
    <3> HIDE DEF a
    <3> QED BY <3>1, <3>2, <3>3
  <2>2. CASE q.join # << >>
    <3> DEFINE l == q.join[1].left
               r == q.join[1].right
    <3>1. J = {l[1], r[1]} /\ l[1] # r[1]
      BY <2>2 DEF Joined, WellFormed
    <3>2. \A i \in DOMAIN rows[l[1]], j \in DOMAIN rows[r[1]] :
            Get(rows[l[1]][i], l[2]) = Get(rows[r[1]][j], r[2]) =>
              \E x \in DOMAIN recs : at[x][l[1]] = i /\ at[x][r[1]] = j
      BY <2>2, <3>1 DEF RecordsOf, AllRecords
    <3>3. Get(RowOf(q, l[1], m[l[1]]), l[2]) = Get(RowOf(q, r[1], m[r[1]]), r[2])
      BY <2>2 DEF Matched
    <3>4. /\ y[l[1]] \in DOMAIN rows[l[1]] /\ rows[l[1]][y[l[1]]] = RowOf(q, l[1], m[l[1]])
          /\ y[r[1]] \in DOMAIN rows[r[1]] /\ rows[r[1]][y[r[1]]] = RowOf(q, r[1], m[r[1]])
      BY <1>1, <3>1
    <3> HIDE DEF l, r
    <3>5. \E x \in DOMAIN recs : at[x][l[1]] = y[l[1]] /\ at[x][r[1]] = y[r[1]]
      BY <3>2, <3>3, <3>4
    <3> QED BY <3>1, <3>5
  <2> QED BY <2>1, <2>2
<1>4. PICK x \in DOMAIN recs : \A a \in J : at[x][a] = y[a]
  BY <1>3
<1>5. \A a \in J : part[a][at[x][a]] = m[a]
  BY <1>1, <1>4
<1>6. MatchBy(q, at, part, x) = [a \in J |-> part[a][at[x][a]]]
  BY DEF MatchBy
<1>7. MatchBy(q, at, part, x) = m
  BY <1>2, <1>5, <1>6
<1> QED BY <1>7

\* The records are the matches.
AllMatches(role, q, recs, match) ==
  /\ AreMatches(role, q, recs, match)
  /\ \A m \in Matched(q, role) : \E x \in DOMAIN recs : match[x] = m

\* Over sources that are not paged every match is a record.
LEMMA RecordsAreAllMatches ==
  ASSUME NEW q \in Query, NEW role, Refusal(q, role) = "no", ~JoinsUnknown(q), WellFormed(q), IsMock(q),
         NEW fetched, OfTables(q, fetched), AreWhole(role, q, fetched),
         NEW recs, recs = Records(q, Posted(q, Plans(q, role), fetched))
  PROVE  \E match : AllMatches(role, q, recs, match)
<1> DEFINE rows == Posted(q, Plans(q, role), fetched)
<1>1. \E at : RecordsOf(q, rows, recs, at)
  <2> DEFINE plans == Plans(q, role)
  <2>1. rows = Posted(q, plans, fetched) /\ recs = Records(q, rows)
    OBVIOUS
  <2> HIDE DEF rows, plans
  <2> QED BY <2>1, RecordsExist
<1>2. \E part : AllParts(role, q, rows, part)
  <2> HIDE DEF rows
  <2>1. rows = Posted(q, Plans(q, role), fetched)
    BY DEF rows
  <2> QED BY <2>1, AllPartsExist
<1> HIDE DEF rows
<1>3. PICK at : RecordsOf(q, rows, recs, at)
  BY <1>1
<1>4. PICK part : AllParts(role, q, rows, part)
  BY <1>2
<1>5. PartsOf(role, q, rows, part)
  BY <1>4, AllPartsAreParts
<1> DEFINE match == [x \in DOMAIN recs |-> MatchBy(q, at, part, x)]
<1>6. \A x \in DOMAIN recs : match[x] = MatchBy(q, at, part, x)
  OBVIOUS
<1>7. match = [x \in DOMAIN recs |-> MatchBy(q, at, part, x)]
  OBVIOUS
<1> HIDE DEF match
<1>8. AreMatches(role, q, recs, match)
  BY <1>3, <1>5, <1>7, PlacesAreMatches
<1>9. ASSUME NEW m \in Matched(q, role)
      PROVE  \E x \in DOMAIN recs : match[x] = m
  <2>1. \E x \in DOMAIN recs : MatchBy(q, at, part, x) = m
    BY <1>3, <1>4, MatchIsRecord
  <2> QED BY <1>6, <2>1
<1>10. AllMatches(role, q, recs, match)
  BY <1>8, <1>9 DEF AllMatches
<1> QED BY <1>10

-----------------------------------------------------------------------------
(* The window.                                                             *)

\* A list of all the matches, each once and as it is seen.
Lists(w, role, q, out) ==
  /\ w \in Bijection(DOMAIN out, Matched(q, role))
  /\ \A k \in DOMAIN out : View(q, role, w[k]) = out[k]

\* The list before the slice is one.
LEMMA ListedAreMatches ==
  ASSUME NEW q \in Query, NEW role, NEW recs, NEW match, AllMatches(role, q, recs, match),
         NEW out, NEW from, ListedFrom(q, Plans(q, role), recs, out, from)
  PROVE  \E w : Lists(w, role, q, out)
<1> DEFINE D == DOMAIN out
           M == Matched(q, role)
           w == [k \in D |-> match[from[k]]]
<1>1. /\ \A x \in DOMAIN recs : match[x] \in M /\ View(q, role, match[x]) = Shown(q, Plans(q, role), recs[x])
      /\ \A x, y \in DOMAIN recs : match[x] = match[y] => x = y
      /\ \A m \in M : \E x \in DOMAIN recs : match[x] = m
  BY DEF AllMatches, AreMatches
<1>2. /\ \A k \in D : from[k] \in DOMAIN recs /\ out[k] = Shown(q, Plans(q, role), recs[from[k]])
      /\ \A k, l \in D : from[k] = from[l] => k = l
      /\ \A x \in DOMAIN recs : \E k \in D : from[k] = x
  BY DEF ListedFrom
<1>3. \A k \in D : w[k] = match[from[k]]
  OBVIOUS
<1> HIDE DEF M
<1>4. w \in [D -> M]
  BY <1>1, <1>2
<1> HIDE DEF w, D
<1>5. \A k, l \in D : w[k] = w[l] => k = l
  BY <1>1, <1>2, <1>3
<1>6. \A m \in M : \E k \in D : w[k] = m
  BY <1>1, <1>2, <1>3
<1>7. w \in Bijection(D, M)
  BY <1>4, <1>5, <1>6 DEF Bijection, Injection, Surjection, IsInjective
<1>8. \A k \in D : View(q, role, w[k]) = out[k]
  BY <1>1, <1>2, <1>3
<1>9. Lists(w, role, q, out)
  BY <1>7, <1>8 DEF Lists, D, M
<1> QED BY <1>9

\* The value of a row in the column to sort by.
Key(q, row) == row[Min(OrderedBy(q))]

\* The places of a list before those of a value, and those.
PlacesBefore(q, out, v) == {k \in DOMAIN out : SortsBefore(q, Key(q, out[k]), v)}
PlacesOf(q, out, v) == {k \in DOMAIN out : Key(q, out[k]) = v}

\* In order, they come one after the other.
LEMMA KeysInOrder ==
  ASSUME NEW q, NEW out, out \in Only(out), InOrder(q, out), Sortable(q, out),
         NEW k \in DOMAIN out, NEW v, v = Key(q, out[k])
  PROVE  IsTie(PlacesBefore(q, out, v), PlacesOf(q, out, v), Len(out))
<1> DEFINE B == PlacesBefore(q, out, v)
           E == PlacesOf(q, out, v)
           n == Len(out)
           D == DOMAIN out
           K(i) == Key(q, out[i])
           T(x, y) == SortsBefore(q, x, y)
<1>1. n \in Nat /\ D = 1..n
  BY OnlyGives
<1>2. /\ \A i : i \in B <=> i \in D /\ T(K(i), v)
      /\ \A i : i \in E <=> i \in D /\ K(i) = v
  BY DEF PlacesBefore, PlacesOf
<1>3. \A i, j \in D : i < j => ~T(K(j), K(i))
  BY DEF InOrder, Key
<1>4. \A i, j \in D : IsValue(K(i)) /\ (K(i) # Null /\ K(j) # Null => K(i)[1] = K(j)[1])
  BY DEF Sortable, Key
<1>5. K(k) = v
  OBVIOUS
<1>6. ASSUME NEW i \in D, NEW j \in D
      PROVE  /\ T(K(i), v) => ~T(v, K(i))
             /\ T(K(i), v) => T(K(i), K(j)) \/ T(K(j), v)
             /\ ~T(K(j), v) /\ ~T(v, K(j)) => K(j) = v
  <2> DEFINE x == K(i)
             y == K(j)
  <2>1. /\ IsValue(x) /\ IsValue(y) /\ IsValue(v)
        /\ x # Null /\ y # Null => x[1] = y[1]
        /\ x # Null /\ v # Null => x[1] = v[1]
        /\ y # Null /\ v # Null => y[1] = v[1]
    BY <1>4, <1>5
  <2> HIDE DEF K, x, y
  <2>2. x[2] \in Int /\ y[2] \in Int /\ v[2] \in Int
    BY <2>1 DEF IsValue
  <2>3. SortsBefore(q, x, v) => ~SortsBefore(q, v, x)
    BY <2>1, <2>2, OrderIs
  <2>4. SortsBefore(q, x, v) => SortsBefore(q, x, y) \/ SortsBefore(q, y, v)
    BY <2>1, <2>2, OrderIs
  <2>5. ~SortsBefore(q, y, v) /\ ~SortsBefore(q, v, y) => y = v
    BY <2>1, TieIs
  <2> QED BY <2>3, <2>4, <2>5 DEF x, y
<1> HIDE DEF K, T, B, E, n, D
<1>7. \A i, j \in 1..n : i \in D /\ j \in D
  BY <1>1
<1>8. B \in SUBSET (1..n) /\ E \in SUBSET (1..n)
  BY <1>1, <1>2
<1>9. IsFront(B, n)
  <2>1. ASSUME NEW i \in B, NEW j \in 1..n, j < i
        PROVE  j \in B
    <3>1. i \in D /\ j \in D /\ T(K(i), v)
      BY <1>1, <1>2
    <3>2. ~T(K(i), K(j))
      BY <1>3, <2>1, <3>1
    <3> QED BY <1>2, <1>6, <3>1, <3>2
  <2> QED BY <1>8, <2>1 DEF IsFront
<1>10. IsFront(B \cup E, n)
  <2>1. ASSUME NEW i \in B \cup E, NEW j \in 1..n, j < i
        PROVE  j \in B \cup E
    <3>1. CASE i \in B
      BY <1>9, <2>1, <3>1 DEF IsFront
    <3>2. CASE i \in E
      <4>1. i \in D /\ j \in D /\ K(i) = v
        BY <1>1, <1>2, <3>2
      <4>2. ~T(v, K(j))
        BY <1>3, <2>1, <4>1
      <4>3. T(K(j), v) \/ K(j) = v
        BY <1>6, <4>1, <4>2
      <4> QED BY <1>2, <4>1, <4>3
    <3> QED BY <3>1, <3>2
  <2>2. B \cup E \in SUBSET (1..n)
    BY <1>8
  <2> QED BY <2>1, <2>2 DEF IsFront
<1>11. B \cap E = {}
  <2> SUFFICES ASSUME NEW i \in B, i \in E PROVE FALSE
    OBVIOUS
  <2>1. i \in D /\ T(v, v) /\ K(i) = v
    BY <1>2
  <2> QED BY <1>6, <2>1
<1>12. IsTie(B, E, n)
  BY <1>9, <1>10, <1>11 DEF IsTie
<1> QED BY <1>12 DEF B, E, n

\* The same of the matches.
MatchesBefore(role, q, v) == {m \in Matched(q, role) : SortsBefore(q, Key(q, View(q, role, m)), v)}
MatchesOf(role, q, v) == {m \in Matched(q, role) : Key(q, View(q, role, m)) = v}

\* As many places of a list as matches.
LEMMA ListCounts ==
  ASSUME NEW q, NEW role, NEW out, out \in Only(out), NEW w, Lists(w, role, q, out)
  PROVE  /\ Cardinality(Matched(q, role)) = Len(out)
         /\ \A v : /\ Cardinality(PlacesBefore(q, out, v)) = Cardinality(MatchesBefore(role, q, v))
                   /\ Cardinality(PlacesOf(q, out, v)) = Cardinality(MatchesOf(role, q, v))
<1> DEFINE D == DOMAIN out
           M == Matched(q, role)
           n == Len(out)
<1>1. n \in Nat /\ D = 1..n
  BY OnlyGives
<1>2. w \in Bijection(D, M) /\ \A k \in D : View(q, role, w[k]) = out[k]
  BY DEF Lists
<1>3. \A k \in D : w[k] \in M
  BY <1>2 DEF Bijection, Injection
<1> HIDE DEF n
<1>4. IsFiniteSet(1..n) /\ Cardinality(1..n) = n
  BY <1>1, FS_Interval
<1>5. IsFiniteSet(D) /\ Cardinality(D) = n
  BY <1>1, <1>4
<1> HIDE DEF D, M
<1>6. Cardinality(M) = n
  <2>1. ExistsBijection(D, M)
    BY <1>2 DEF ExistsBijection
  <2> QED BY <1>5, <2>1, FS_Bijection
<1>7. ASSUME NEW v
      PROVE  Cardinality(PlacesBefore(q, out, v)) = Cardinality(MatchesBefore(role, q, v))
  <2> DEFINE S == PlacesBefore(q, out, v)
             T == MatchesBefore(role, q, v)
  <2>1. S \in SUBSET D /\ T \in SUBSET M
    BY DEF PlacesBefore, MatchesBefore, D, M
  <2>2. \A k \in D : k \in S <=> w[k] \in T
    BY <1>2, <1>3 DEF PlacesBefore, MatchesBefore, D, M
  <2> HIDE DEF S, T
  <2>3. Cardinality(S) = Cardinality(T)
    BY <1>2, <1>5, <2>1, <2>2, CountBijects
  <2> QED BY <2>3 DEF S, T
<1>8. ASSUME NEW v
      PROVE  Cardinality(PlacesOf(q, out, v)) = Cardinality(MatchesOf(role, q, v))
  <2> DEFINE S == PlacesOf(q, out, v)
             T == MatchesOf(role, q, v)
  <2>1. S \in SUBSET D /\ T \in SUBSET M
    BY DEF PlacesOf, MatchesOf, D, M
  <2>2. \A k \in D : k \in S <=> w[k] \in T
    BY <1>2, <1>3 DEF PlacesOf, MatchesOf, D, M
  <2> HIDE DEF S, T
  <2>3. Cardinality(S) = Cardinality(T)
    BY <1>2, <1>5, <2>1, <2>2, CountBijects
  <2> QED BY <2>3 DEF S, T
<1> QED BY <1>6, <1>7, <1>8 DEF M, n

\* The query's window, its counts spelt out.
WindowOf(role, q, rows) ==
  /\ Len(rows) = WindowSize(q, role)
  /\ OrderedBy(q) # {} =>
       /\ InOrder(q, rows)
       /\ \A m \in Matched(q, role) :
            Cardinality(PlacesOf(q, rows, Key(q, View(q, role, m))))
              = InWindow(Cardinality(MatchesBefore(role, q, Key(q, View(q, role, m)))),
                         Cardinality(MatchesOf(role, q, Key(q, View(q, role, m)))),
                         q.offset, Min({q.limit, MaxRows}))

\* It is what the property asks for.
LEMMA WindowIs ==
  ASSUME NEW q, NEW role, NEW rows, WindowOf(role, q, rows)
  PROVE  Len(rows) = WindowSize(q, role) /\ IsWindow(q, role, rows)
<1>1. Len(rows) = WindowSize(q, role)
  BY DEF WindowOf
<1>2. ASSUME OrderedBy(q) # {}
      PROVE  IsWindow(q, role, rows)
  <2>1. InOrder(q, rows)
    BY <1>2 DEF WindowOf
  <2>2. ASSUME NEW m \in Matched(q, role), NEW v, v = Key(q, View(q, role, m))
        PROVE  Cardinality(PlacesOf(q, rows, v))
                 = InWindow(Cardinality(MatchesBefore(role, q, v)), Cardinality(MatchesOf(role, q, v)),
                            q.offset, Min({q.limit, MaxRows}))
    BY <1>2, <2>2 DEF WindowOf
  <2> QED BY <2>1, <2>2 DEF InWindow, IsWindow, InOrder, PlacesOf, MatchesBefore, MatchesOf, Key, Count
<1>3. OrderedBy(q) = {} => IsWindow(q, role, rows)
  BY DEF IsWindow
<1> QED BY <1>1, <1>2, <1>3

\* A slice of a list of the matches, in order, is the window.
LEMMA SliceIsWindow ==
  ASSUME NEW q, q.offset \in Nat, q.limit \in Nat, NEW role, NEW out, out \in Only(out),
         OrderedBy(q) # {} => InOrder(q, out) /\ Sortable(q, out),
         NEW w, Lists(w, role, q, out), NEW rows, rows = Slice(q, out)
  PROVE  WindowOf(role, q, rows)
<1> DEFINE all == Len(out)
           o == q.offset
           n == Min({q.limit, MaxRows})
           e == Min({all, o + n})
           len == SliceLength(all, o, n)
<1>1. all \in Nat /\ o \in Nat /\ q.limit \in Nat /\ MaxRows \in Nat /\ DOMAIN out = 1..all
  BY OnlyGives, PlannerAssumption
<1>2. n \in Nat
  <2> DEFINE l == q.limit
  <2>1. l \in Int /\ MaxRows \in Int
    BY <1>1
  <2> HIDE DEF l
  <2>2. Min({l, MaxRows}) \in {l, MaxRows}
    BY <2>1, LesserOfTwo
  <2> QED BY <1>1, <2>2 DEF l
<1>3. rows = SubSeq(out, o + 1, e)
  BY <1>1, <1>2, SliceIs
<1>4. len = Max({0, Min({q.limit, MaxRows, all - o})})
  BY <1>1, SliceLengthIs
<1>5. len = IF o + 1 <= e THEN e - o ELSE 0
  BY DEF SliceLength
<1>6. out \in Seq(ToSet(out))
  BY DEF Only
<1> HIDE DEF n, all, o
<1>7. e \in {all, o + n} /\ e <= all
  <2> DEFINE y == o + n
  <2>1. all \in Int /\ y \in Int
    BY <1>1, <1>2
  <2> HIDE DEF y
  <2>2. Min({all, y}) \in {all, y} /\ Min({all, y}) <= all
    BY <2>1, LesserOfTwo
  <2> QED BY <2>2 DEF y
<1> HIDE DEF e, len
<1>8. /\ e \in Int /\ e <= Len(out) /\ o + 1 \in Nat \ {0}
  BY <1>1, <1>2, <1>7 DEF all
<1>9. /\ SubSeq(out, o + 1, e) \in Seq(ToSet(out))
      /\ Len(SubSeq(out, o + 1, e)) = IF o + 1 <= e THEN e - (o + 1) + 1 ELSE 0
      /\ \A k \in 1..(e - (o + 1) + 1) : SubSeq(out, o + 1, e)[k] = out[o + 1 + k - 1]
  BY <1>6, <1>8, PartIs
<1>10. Len(rows) = len /\ len \in Nat /\ DOMAIN rows = 1..len
  <2>1. Len(rows) = len /\ len \in Nat
    BY <1>1, <1>3, <1>5, <1>8, <1>9
  <2> QED BY <1>3, <1>9, <2>1, LenProperties
<1>11. ASSUME NEW k \in 1..len
       PROVE  /\ k \in Int /\ o + k \in DOMAIN out /\ rows[k] = out[o + k]
  <2>1. k \in Int /\ 1 <= k /\ o + k <= e
    BY <1>1, <1>5, <1>8, <1>10
  <2>2. k \in 1..(e - (o + 1) + 1) /\ o + 1 + k - 1 = o + k
    BY <1>1, <1>8, <2>1
  <2>3. o + k \in DOMAIN out
    BY <1>1, <1>7, <1>8, <2>1
  <2> QED BY <1>3, <1>9, <2>1, <2>2, <2>3
<1>12. Len(rows) = WindowSize(q, role)
  <2>1. Cardinality(Matched(q, role)) = all
    BY ListCounts DEF all
  <2> QED BY <1>4, <1>10, <2>1 DEF WindowSize, o
<1>13. ASSUME OrderedBy(q) # {}
       PROVE  InOrder(q, rows)
  <2>1. ASSUME NEW k \in 1..len, NEW l \in 1..len, k < l
        PROVE  ~SortsBefore(q, rows[l][Min(OrderedBy(q))], rows[k][Min(OrderedBy(q))])
    <3>1. o + k < o + l
      BY <1>1, <1>11, <2>1
    <3>2. InOrder(q, out)
      BY <1>13
    <3>3. ~SortsBefore(q, out[o + l][Min(OrderedBy(q))], out[o + k][Min(OrderedBy(q))])
      BY <1>11, <3>1, <3>2 DEF InOrder
    <3> QED BY <1>11, <3>3
  <2> QED BY <1>10, <2>1 DEF InOrder
<1>14. ASSUME OrderedBy(q) # {}, NEW m \in Matched(q, role), NEW v, v = Key(q, View(q, role, m))
       PROVE  Cardinality(PlacesOf(q, rows, v))
                = InWindow(Cardinality(MatchesBefore(role, q, v)), Cardinality(MatchesOf(role, q, v)), o, n)
  <2> DEFINE B == PlacesBefore(q, out, v)
             E == PlacesOf(q, out, v)
  <2>1. \E k \in DOMAIN out : w[k] = m
    BY DEF Lists, Bijection, Surjection
  <2>2. \E k \in DOMAIN out : v = Key(q, out[k])
    BY <1>14, <2>1 DEF Lists
  <2>3. IsTie(B, E, all)
    BY <1>14, <2>2, KeysInOrder DEF all
  <2>4. /\ Cardinality(B) = Cardinality(MatchesBefore(role, q, v))
        /\ Cardinality(E) = Cardinality(MatchesOf(role, q, v))
    BY ListCounts
  <2>5. PlacesOf(q, rows, v) = TiedPlaces(len, o, E)
    BY <1>10, <1>11 DEF PlacesOf, TiedPlaces
  <2> HIDE DEF B, E
  <2>6. Cardinality(TiedPlaces(len, o, E)) = InWindow(Cardinality(B), Cardinality(E), o, n)
    <3>1. all \in Nat /\ o \in Nat /\ n \in Nat
      BY <1>1, <1>2
    <3>2. Cardinality(TiedPlaces(SliceLength(all, o, n), o, E))
            = InWindow(Cardinality(B), Cardinality(E), o, n)
      BY <2>3, <3>1, TiesInSlice
    <3> QED BY <3>2 DEF len
  <2> QED BY <2>4, <2>5, <2>6
<1>15. ASSUME OrderedBy(q) # {}
       PROVE  \A m \in Matched(q, role) :
                Cardinality(PlacesOf(q, rows, Key(q, View(q, role, m))))
                  = InWindow(Cardinality(MatchesBefore(role, q, Key(q, View(q, role, m)))),
                             Cardinality(MatchesOf(role, q, Key(q, View(q, role, m)))), o, n)
  BY <1>14, <1>15
<1> QED BY <1>12, <1>13, <1>15 DEF WindowOf, o, n

-----------------------------------------------------------------------------
(* What is answered is all of it.                                          *)

AnswerWhole == Answered /\ IsMock(asked[2]) => WindowOf(asked[1], asked[2], answer.rows)

\* What the proof keeps of an answer is what the property asks for.
LEMMA WholeAnswers == AnswerWhole => AnswersQuery
<1> SUFFICES ASSUME AnswerWhole, Answered, IsMock(asked[2])
             PROVE  /\ Len(answer.rows) = WindowSize(asked[2], asked[1])
                    /\ IsWindow(asked[2], asked[1], answer.rows)
  BY DEF AnswersQuery, IsMock
<1>1. WindowOf(asked[1], asked[2], answer.rows)
  BY DEF AnswerWhole
<1> QED BY <1>1, WindowIs

\* The answer to an executed query.
LEMMA ExecutedIsWhole ==
  ASSUME NEW q \in Query, NEW role, NEW fetched, Executed(role, q, fetched), AreWhole(role, q, fetched)
  PROVE  AnswerWhole'
<1>1. OfTables(q, fetched) /\ Refusal(q, role) = "no" /\ asked' = <<role, q>>
  BY DEF Executed
<1>2. CASE JoinsUnknown(q)
  <2>1. answer'.status = "crashed"
    BY <1>2 DEF Executed
  <2> QED BY <2>1 DEF AnswerWhole, Answered
<1>3. CASE ~JoinsUnknown(q)
  <2> SUFFICES ASSUME WellFormed(q), IsMock(q) PROVE WindowOf(role, q, answer'.rows)
    BY <1>1 DEF AnswerWhole, Answered
  <2> DEFINE plans == Plans(q, role)
             recs == Records(q, Posted(q, plans, fetched))
             out == Listed(q, plans, fetched)
             rows == answer'.rows
  <2>1. rows = Slice(q, out)
    BY <1>3, MergeIs DEF Executed
  <2>2. \E match : AllMatches(role, q, recs, match)
    BY <1>1, <1>3, RecordsAreAllMatches
  <2>3. /\ out \in Only(out) /\ \E from : ListedFrom(q, plans, recs, out, from)
        /\ OrderedBy(q) # {} => InOrder(q, out) /\ Sortable(q, out)
    <3> HIDE DEF plans
    <3> QED BY <1>1, <1>3, ListedIs
  <2>4. q.offset \in Nat /\ q.limit \in Nat
    <3>1. q.offset \in Nat /\ q.limit \in Int
      BY <1>1, QueryIs
    <3> QED BY <3>1 DEF WellFormed
  <2> HIDE DEF recs, out, rows
  <2>5. PICK match : AllMatches(role, q, recs, match)
    BY <2>2
  <2>6. PICK from : ListedFrom(q, plans, recs, out, from)
    BY <2>3
  <2>7. PICK w : Lists(w, role, q, out)
    BY <2>5, <2>6, ListedAreMatches
  <2>8. WindowOf(role, q, rows)
    BY <2>1, <2>3, <2>4, <2>7, SliceIsWindow
  <2> QED BY <2>8 DEF rows
<1> QED BY <1>2, <1>3

\* Nothing is lost on the way: over sources that are not paged the entries are the
\* fetches themselves, source and executor leave out no row that is asked for, the join
\* drops no pair and repeats none, whichever side is built (planner.py, executor.py), so
\* the answer is the query's window of all its matches.
THEOREM AnswersAreComplete ==
  ASSUME TextsTell
  PROVE  Spec => []AnswersQuery
<1>1. Init => CacheWhole /\ AnswerWhole
  <2> SUFFICES ASSUME Init PROVE CacheWhole /\ AnswerWhole
    OBVIOUS
  <2>1. << >> = [x \in {} |-> {}]
    OBVIOUS
  <2>2. DOMAIN cache = {} /\ answer.status = "none"
    BY <2>1 DEF Init, None
  <2> QED BY <2>2 DEF CacheWhole, AnswerWhole, Answered
<1>2. CacheShape /\ CacheWhole /\ AnswerWhole /\ [Next]_vars => (CacheWhole /\ AnswerWhole)'
  <2> SUFFICES ASSUME CacheShape, CacheWhole, AnswerWhole, [Next]_vars
               PROVE  CacheWhole' /\ AnswerWhole'
    OBVIOUS
  <2>1. CASE Return
    <3>1. cache' = cache /\ answer'.status = "none"
      BY <2>1 DEF Return, None
    <3> QED BY <3>1 DEF CacheWhole, AnswerWhole, Answered
  <2>2. ASSUME NEW role \in Role, NEW q \in Query, Refuse(role, q)
        PROVE  CacheWhole' /\ AnswerWhole'
    <3>1. cache' = cache /\ answer'.status = Refusal(q, role) /\ Refusal(q, role) # "no"
      BY <2>2 DEF Refuse
    <3>2. answer'.status # "ok"
      BY <3>1, RefusalIs DEF Refusals
    <3> QED BY <3>1, <3>2 DEF CacheWhole, AnswerWhole, Answered
  <2>3. ASSUME NEW role \in Role, NEW q \in Query, Execute(role, q)
        PROVE  CacheWhole' /\ AnswerWhole'
    <3>1. CacheWhole' /\ \E fetched : Executed(role, q, fetched) /\ AreWhole(role, q, fetched)
      BY <2>3, ExecuteIsWhole
    <3>2. PICK fetched : Executed(role, q, fetched) /\ AreWhole(role, q, fetched)
      BY <3>1
    <3> QED BY <3>1, <3>2, ExecutedIsWhole
  <2>4. CASE UNCHANGED vars
    BY <2>4 DEF vars, CacheWhole, AnswerWhole, Answered
  <2> QED BY <2>1, <2>2, <2>3, <2>4 DEF Next
<1> QED BY <1>1, <1>2, TypesHold, WholeAnswers, PTL DEF Spec
=============================================================================
