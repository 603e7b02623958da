--------------------------- MODULE LivePagingProofs ---------------------------
(***************************************************************************)
(* What is proved of the page loops of the live connectors, for every      *)
(* plan, every source, any sizes of pages and any number of changes.       *)
(***************************************************************************)
EXTENDS LivePaging, SelectionLemmas

L == Lists(plan)

-----------------------------------------------------------------------------
(* Lists, and the places in them.                                          *)

\* A selection of distinct rows is distinct.
LEMMA SelectedKeepsDistinct ==
  ASSUME NEW src \in Seq(Version), NEW S \in SUBSET (DOMAIN src)
  PROVE  /\ Selected(src, S) \in Seq(Version)
         /\ \A p \in DOMAIN Selected(src, S) : \E i \in S : Selected(src, S)[p] = src[i]
         /\ Distinct(src) => Distinct(Selected(src, S))
<1> DEFINE list == Selected(src, S)
<1>1. list \in Seq(Version) /\ IsFiniteSet(S) /\ S \in SUBSET Int
  BY SelectedType
<1>2. DOMAIN list = 1..Cardinality(S)
  BY <1>1, SelectedAt
<1>3. ASSUME NEW p \in DOMAIN list
      PROVE  \E i \in S : RankIn(S, i) = p /\ list[p] = src[i]
  <2>1. p \in 1..Cardinality(S)
    BY <1>2
  <2> QED BY <1>1, <2>1, SelectedFrom
<1> HIDE DEF list
<1>4. ASSUME Distinct(src), NEW p \in DOMAIN list, NEW q \in DOMAIN list,
             Id(list[p]) = Id(list[q])
      PROVE  p = q
  <2>1. PICK i \in S : RankIn(S, i) = p /\ list[p] = src[i]
    BY <1>3
  <2>2. PICK j \in S : RankIn(S, j) = q /\ list[q] = src[j]
    BY <1>3
  <2>3. i \in DOMAIN src /\ j \in DOMAIN src /\ Id(src[i]) = Id(src[j])
    BY <1>4, <2>1, <2>2
  <2>4. i = j
    BY <1>4, <2>3 DEF Distinct
  <2> QED BY <2>1, <2>2, <2>4
<1>5. Distinct(src) => Distinct(list)
  BY <1>4 DEF Distinct
<1> QED BY <1>1, <1>3, <1>5 DEF list

LEMMA ListingIs ==
  ASSUME NEW src \in Seq(Version), NEW r, kind \in {"github", "jira"}
  PROVE  /\ ListingOf(r, src) \in Seq(Version)
         /\ \A p \in DOMAIN ListingOf(r, src) : ListingOf(r, src)[p] \in ToSet(src)
         /\ Distinct(src) => Distinct(ListingOf(r, src))
         /\ kind = "github" => \A p \in DOMAIN ListingOf(r, src) :
                                 Get(ListingOf(r, src)[p], "repo_name") = r
<1>1. CASE kind = "github"
  <2> DEFINE S == {i \in DOMAIN src : Get(src[i], "repo_name") = r /\ src[i]["state"] = State(plan)}
  <2>1. ListingOf(r, src) = Selected(src, S)
    BY <1>1 DEF ListingOf, GitHubListing
  <2>2. S \in SUBSET (DOMAIN src) /\ \A i \in S : Get(src[i], "repo_name") = r /\ src[i] \in ToSet(src)
    BY DEF ToSet
  <2> HIDE DEF S
  <2> QED BY <2>1, <2>2, SelectedKeepsDistinct
<1>2. CASE kind = "jira"
  <2> DEFINE S == {i \in DOMAIN src : Finds(plan, src[i])}
  <2>1. ListingOf(r, src) = Selected(src, S)
    BY <1>2 DEF ListingOf, JiraListing
  <2>2. S \in SUBSET (DOMAIN src) /\ \A i \in S : src[i] \in ToSet(src)
    BY DEF ToSet
  <2> HIDE DEF S
  <2> QED BY <1>2, <2>1, <2>2, SelectedKeepsDistinct
<1> QED BY <1>1, <1>2

\* The place of a listed id is where it is listed, and nowhere else.
LEMMA PlaceIs ==
  ASSUME NEW src \in Seq(Version), NEW r, kind \in {"github", "jira"}, Distinct(src)
  PROVE  /\ \A p \in DOMAIN ListingOf(r, src) :
              /\ Id(ListingOf(r, src)[p]) \in Ids(r, src)
              /\ Place(Id(ListingOf(r, src)[p]), r, src) = p
         /\ \A id \in Ids(r, src) :
              /\ Place(id, r, src) \in DOMAIN ListingOf(r, src)
              /\ Id(ListingOf(r, src)[Place(id, r, src)]) = id
<1> DEFINE list == ListingOf(r, src)
<1>1. Distinct(list)
  BY ListingIs
<1>2. Ids(r, src) = {Id(list[p]) : p \in DOMAIN list}
  BY DEF Ids, ToSet
<1>3. \A id : Place(id, r, src) = CHOOSE p \in DOMAIN list : Id(list[p]) = id
  BY DEF Place
<1> HIDE DEF list
<1>4. ASSUME NEW id \in Ids(r, src)
      PROVE  Place(id, r, src) \in DOMAIN list /\ Id(list[Place(id, r, src)]) = id
  <2>1. \E p \in DOMAIN list : Id(list[p]) = id
    BY <1>2
  <2> QED BY <1>3, <2>1
<1>5. ASSUME NEW p \in DOMAIN list
      PROVE  Id(list[p]) \in Ids(r, src) /\ Place(Id(list[p]), r, src) = p
  <2>1. Id(list[p]) \in Ids(r, src)
    BY <1>2
  <2>2. /\ Place(Id(list[p]), r, src) \in DOMAIN list
        /\ Id(list[Place(Id(list[p]), r, src)]) = Id(list[p])
    BY <1>4, <2>1
  <2> QED BY <1>1, <2>1, <2>2 DEF Distinct
<1> QED BY <1>4, <1>5 DEF list

\* An id is listed in one of the lists only, and stays in it.
LEMMA OneList ==
  ASSUME NEW a \in Seq(Version), NEW b \in Seq(Version), NEW r \in ToSet(L), NEW s \in ToSet(L),
         kind \in {"github", "jira"}, NEW id \in Ids(r, a), id \in Ids(s, b)
  PROVE  r = s
<1>1. CASE kind = "github"
  <2>1. PICK p \in DOMAIN ListingOf(r, a) : id = Id(ListingOf(r, a)[p])
    BY DEF Ids, ToSet
  <2>2. PICK q \in DOMAIN ListingOf(s, b) : id = Id(ListingOf(s, b)[q])
    BY DEF Ids, ToSet
  <2>3. /\ Get(ListingOf(r, a)[p], "repo_name") = r
        /\ Get(ListingOf(s, b)[q], "repo_name") = s
    BY <1>1, ListingIs
  <2>4. id[1] = r /\ id[1] = s
    BY <2>1, <2>2, <2>3 DEF Id
  <2> QED BY <2>4
<1>2. CASE kind = "jira"
  <2>1. L = << <<"jira", 0>> >>
    BY <1>2 DEF L, Lists
  <2>2. DOMAIN L = 1..1 /\ L[1] = <<"jira", 0>>
    BY <2>1
  <2>3. r \in {L[i] : i \in DOMAIN L} /\ s \in {L[i] : i \in DOMAIN L}
    BY DEF ToSet
  <2> QED BY <2>2, <2>3
<1> QED BY <1>1, <1>2

\* The lists are those of the configured repos, or the only one.
LEMMA ListsAre ==
  ASSUME kind \in {"github", "jira"}
  PROVE  /\ DOMAIN L = 1..Len(L) /\ Len(L) \in Nat
         /\ (\A i, j \in DOMAIN Repos : Repos[i] = Repos[j] => i = j) =>
              \A i, j \in DOMAIN L : L[i] = L[j] => i = j
<1>1. CASE kind = "github"
  <2> DEFINE wanted == Wanted(ServerFilters(plan), "repo_name")
             S == {i \in DOMAIN Repos : wanted = {} \/ Repos[i] \in wanted}
  <2>1. L = Selected(Repos, S)
    BY <1>1 DEF L, Lists, GitHubRepos
  <2>2. S \in SUBSET (DOMAIN Repos) /\ Repos \in Seq(ToSet(Repos))
    BY LivePagingAssumption
  <2> HIDE DEF S
  <2>3. L \in Seq(ToSet(Repos)) /\ IsFiniteSet(S) /\ S \in SUBSET Int
    BY <2>1, <2>2, SelectedType
  <2>4. DOMAIN L = 1..Len(L) /\ Len(L) \in Nat /\ DOMAIN L = 1..Cardinality(S)
    BY <2>1, <2>3, LenProperties, SelectedAt
  <2>5. ASSUME NEW p \in DOMAIN L
        PROVE  \E i \in S : RankIn(S, i) = p /\ L[p] = Repos[i]
    <3>1. p \in 1..Cardinality(S)
      BY <2>4
    <3> QED BY <2>1, <2>3, <3>1, SelectedFrom
  <2>6. ASSUME \A i, j \in DOMAIN Repos : Repos[i] = Repos[j] => i = j,
               NEW p \in DOMAIN L, NEW q \in DOMAIN L, L[p] = L[q]
        PROVE  p = q
    <3>1. PICK i \in S : RankIn(S, i) = p /\ L[p] = Repos[i]
      BY <2>5
    <3>2. PICK j \in S : RankIn(S, j) = q /\ L[q] = Repos[j]
      BY <2>5
    <3> QED BY <2>2, <2>6, <3>1, <3>2
  <2> QED BY <2>4, <2>6
<1>2. CASE kind = "jira"
  <2>1. L = << <<"jira", 0>> >>
    BY <1>2 DEF L, Lists
  <2> QED BY <2>1
<1> QED BY <1>1, <1>2

\* A page: places i to j of the list, as far as there are any.
LEMMA CutIs ==
  ASSUME NEW list \in Seq(Version), NEW i \in Nat \ {0}, NEW j \in Int
  PROVE  /\ Cut(list, i, j) \in Seq(Version)
         /\ \A k \in 1..Len(Cut(list, i, j)) :
              /\ i + k - 1 \in 1..Len(list) /\ i + k - 1 <= j
              /\ Cut(list, i, j)[k] = list[i + k - 1]
         /\ \A p \in 1..Len(list) : i <= p /\ p <= j => p - i + 1 \in 1..Len(Cut(list, i, j))
         /\ Len(Cut(list, i, j)) \in Nat
<1> DEFINE m == Min({j, Len(list)})
           page == SubSeq(list, i, m)
<1>1. Len(list) \in Nat
  BY LenProperties
<1>2. m \in {j, Len(list)} /\ m <= j /\ m <= Len(list)
  <2> DEFINE n == Len(list)
  <2>1. n \in Int
    BY <1>1
  <2> HIDE DEF n
  <2>2. /\ Min({j, n}) \in {j, n} /\ Min({j, n}) <= j /\ Min({j, n}) <= n
    BY <2>1, LesserOfTwo
  <2> QED BY <2>2 DEF n
<1>3. Cut(list, i, j) = page
  BY DEF Cut
<1>4. \A k \in i..m : list[k] \in Version
  BY <1>1, <1>2, ElementOfSeq
<1>5. m \in Int /\ i \in Int
  BY <1>1, <1>2
<1>6. /\ page \in Seq(Version)
      /\ Len(page) = IF i <= m THEN m - i + 1 ELSE 0
      /\ \A k \in 1..(m - i + 1) : page[k] = list[i + k - 1]
  <2> HIDE DEF m
  <2> QED BY <1>4, <1>5, SubSeqProperties
<1> HIDE DEF m, page
<1>7. ASSUME NEW k \in 1..Len(page)
      PROVE  /\ i + k - 1 \in 1..Len(list) /\ i + k - 1 <= j
             /\ page[k] = list[i + k - 1]
  <2>1. k \in 1..(m - i + 1) /\ i <= m
    BY <1>5, <1>6
  <2> QED BY <1>1, <1>2, <1>5, <1>6, <2>1
<1>8. ASSUME NEW p \in 1..Len(list), i <= p, p <= j
      PROVE  p - i + 1 \in 1..Len(page)
  <2>1. p <= m
    BY <1>1, <1>2, <1>8
  <2> QED BY <1>5, <1>6, <1>8, <2>1
<1>9. Len(page) \in Nat
  BY <1>6, LenProperties
<1> QED BY <1>3, <1>6, <1>7, <1>8, <1>9

\* A sequence that goes on with another.
LEMMA ConcatIs ==
  ASSUME NEW T, NEW a \in Seq(T), NEW b \in Seq(T), NEW all, all = a \o b
  PROVE  /\ \A n \in DOMAIN all :
              \/ n \in DOMAIN a /\ all[n] = a[n]
              \/ n - Len(a) \in 1..Len(b) /\ all[n] = b[n - Len(a)]
         /\ \A n \in DOMAIN a : n \in DOMAIN all /\ all[n] = a[n]
         /\ \A k \in 1..Len(b) : Len(a) + k \in DOMAIN all /\ all[Len(a) + k] = b[k]
<1>1. Len(a) \in Nat /\ Len(b) \in Nat /\ DOMAIN a = 1..Len(a)
  BY LenProperties
<1>2. /\ all \in Seq(T) /\ Len(all) = Len(a) + Len(b)
      /\ \A n \in 1..(Len(a) + Len(b)) : all[n] = IF n <= Len(a) THEN a[n] ELSE b[n - Len(a)]
  BY ConcatProperties
<1>3. DOMAIN all = 1..(Len(a) + Len(b))
  BY <1>2, LenProperties
<1>4. ASSUME NEW n \in DOMAIN all
      PROVE  \/ n \in DOMAIN a /\ all[n] = a[n]
             \/ n - Len(a) \in 1..Len(b) /\ all[n] = b[n - Len(a)]
  <2>1. CASE n <= Len(a)
    BY <1>1, <1>2, <1>3, <2>1
  <2>2. CASE ~(n <= Len(a))
    BY <1>1, <1>2, <1>3, <2>2
  <2> QED BY <2>1, <2>2
<1>5. ASSUME NEW n \in DOMAIN a
      PROVE  n \in DOMAIN all /\ all[n] = a[n]
  BY <1>1, <1>2, <1>3
<1>6. ASSUME NEW k \in 1..Len(b)
      PROVE  Len(a) + k \in DOMAIN all /\ all[Len(a) + k] = b[k]
  <2>1. Len(a) + k \in 1..(Len(a) + Len(b)) /\ ~(Len(a) + k <= Len(a)) /\ (Len(a) + k) - Len(a) = k
    BY <1>1
  <2> QED BY <1>2, <1>3, <2>1
<1> QED BY <1>4, <1>5, <1>6

-----------------------------------------------------------------------------
(* A request.                                                              *)

\* The place in the list that the next page begins with.
First == IF kind = "github" THEN (next - 1) * PageSize + 1 ELSE next
LastAsked == IF kind = "github" THEN next * PageSize ELSE next + Min({Ask, most}) - 1

Listing == ListingOf(L[repo], rows)
Read == Cut(Listing, First, LastAsked)

Shape ==
  /\ kind \in {"github", "jira"} /\ most \in Nat \ {0} /\ plan \in Plan
  /\ rows \in Seq(Version) /\ Distinct(rows) /\ got \in Seq(Version)
  /\ status \in {"paging", "done", "failed", "cancelled"}
  /\ next \in Nat \ {0} /\ repo \in Nat \ {0} /\ (repo = 1 \/ repo \in DOMAIN L)
  /\ pages \in 0..PageLimit /\ (status = "paging" => pages < PageLimit)
  /\ cut \in BOOLEAN /\ (kind = "jira" /\ status = "paging" => ~cut)

\* What is left of the list is read.
AllRead == \A p \in 1..Len(Listing) : First <= p => p - First + 1 \in 1..Len(Read)

\* After a page there is another of the list, or the next list, or it was the last.
GoesOn ==
  /\ status' = "paging" /\ repo' = repo /\ next' \in Nat \ {0}
  /\ cut' = cut /\ result' = result
  /\ pages' \in 0..PageLimit /\ pages' < PageLimit
  /\ First' \in Int /\ First <= First'
  /\ \A k \in 1..Len(Read) : First + k - 1 < First'
  /\ \A p \in 1..Len(Listing) : First <= p /\ p < First' => p - First + 1 \in 1..Len(Read)

NextList ==
  /\ status' = "paging" /\ kind = "github" /\ repo < Len(L) /\ repo' = repo + 1
  /\ next' \in Nat \ {0} /\ First' = 1
  /\ pages' \in 0..PageLimit /\ pages' < PageLimit /\ result' = result
  /\ cut' \in BOOLEAN /\ (~cut' => ~cut /\ AllRead)

Ends ==
  /\ status' = "done" /\ result' = Filter(got', ServerFilters(plan))
  /\ repo' = repo /\ next' \in Nat \ {0} /\ pages' \in 0..PageLimit
  /\ cut' \in BOOLEAN /\ (~cut' => ~cut /\ repo = Len(L) /\ AllRead)

LEMMA SizesAre == PageSize \in Nat \ {0} /\ PageLimit \in Nat \ {0}
BY SourcesAssumption

LEMMA FirstIs ==
  ASSUME Shape
  PROVE  /\ First \in Nat \ {0} /\ LastAsked \in Int
         /\ kind = "github" => LastAsked = First + PageSize - 1
<1>1. CASE kind = "github"
  <2>1. next - 1 \in Nat /\ PageSize \in Nat \ {0} /\ next \in Int
    BY SizesAre DEF Shape
  <2>2. (next - 1) * PageSize \in Nat /\ next * PageSize = (next - 1) * PageSize + PageSize
    BY <2>1
  <2> QED BY <1>1, <2>1, <2>2 DEF First, LastAsked
<1>2. CASE kind # "github"
  <2>1. plan.limit \in Int /\ PageLimit \in Nat /\ PageSize \in Nat
    BY LivePagingAssumption, SizesAre DEF Shape
  <2>2. Target(plan) \in Int /\ Len(got) \in Nat
    <3> DEFINE l == plan.limit
    <3>1. l \in Int /\ 1 \in Int
      BY <2>1
    <3> HIDE DEF l
    <3>2. Max({l, 1}) \in {l, 1}
      BY <3>1, LesserOfTwo
    <3>3. Max({l, 1}) \in Int /\ PageLimit * PageSize \in Int
      BY <2>1, <3>1, <3>2
    <3>4. Len(got) \in Nat
      BY LenProperties DEF Shape
    <3> QED BY <3>3, <3>4 DEF Target, l
  <2> DEFINE wanted == Target(plan) - Len(got)
             atLeast == Max({wanted, 1})
             ask == Min({PageSize, atLeast})
  <2>3. wanted \in Int /\ 1 \in Int
    BY <2>2
  <2> HIDE DEF wanted
  <2>4. atLeast \in {wanted, 1}
    BY <2>3, LesserOfTwo
  <2>5. atLeast \in Int /\ PageSize \in Int
    BY <2>1, <2>3, <2>4
  <2> HIDE DEF atLeast
  <2>6. ask \in {PageSize, atLeast}
    BY <2>5, LesserOfTwo
  <2>7. ask \in Int /\ most \in Int
    BY <2>5, <2>6 DEF Shape
  <2> HIDE DEF ask
  <2>8. Min({ask, most}) \in {ask, most}
    BY <2>7, LesserOfTwo
  <2>9. Ask = ask
    BY DEF Ask, ask, atLeast, wanted
  <2>10. next + Min({Ask, most}) - 1 \in Int /\ next \in Nat \ {0}
    BY <2>7, <2>8, <2>9 DEF Shape
  <2> QED BY <1>2, <2>10 DEF First, LastAsked
<1> QED BY <1>1, <1>2

\* What a request gives.
LEMMA PageIs ==
  ASSUME Shape, Page
  PROVE  /\ got' = got \o Read /\ Read \in Seq(Version) /\ Len(Read) \in Nat
         /\ \A k \in 1..Len(Read) :
              First + k - 1 \in 1..Len(Listing) /\ Read[k] = Listing[First + k - 1]
         /\ repo \in DOMAIN L /\ L # << >> /\ Listing \in Seq(Version)
         /\ GoesOn \/ NextList \/ Ends
<1>1. /\ First \in Nat \ {0} /\ LastAsked \in Int /\ Len(L) \in Nat /\ DOMAIN L = 1..Len(L)
      /\ kind = "github" => LastAsked = First + PageSize - 1
  BY FirstIs, ListsAre DEF Shape
<1>2. status = "paging" /\ L # << >> /\ UNCHANGED <<input, rows, observer>>
  BY DEF Page, L
<1>3. repo \in DOMAIN L
  <2>1. Len(L) # 0
    <3>1. CASE kind = "github"
      <4>1. Len(L) = 0 => L = << >>
        BY <1>1
      <4> QED BY <1>2, <4>1
    <3> QED BY <3>1 DEF Shape, L, Lists
  <2>2. 1 \in DOMAIN L
    BY <1>1, <2>1
  <2> QED BY <2>2 DEF Shape
<1>4. Listing \in Seq(Version) /\ Len(Listing) \in Nat
  <2>1. Listing \in Seq(Version)
    BY ListingIs DEF Shape, Listing
  <2> QED BY <2>1, LenProperties
<1>5. /\ Read \in Seq(Version) /\ Len(Read) \in Nat
      /\ \A k \in 1..Len(Read) :
           /\ First + k - 1 \in 1..Len(Listing) /\ First + k - 1 <= LastAsked
           /\ Read[k] = Listing[First + k - 1]
      /\ \A p \in 1..Len(Listing) : First <= p /\ p <= LastAsked => p - First + 1 \in 1..Len(Read)
  BY <1>1, <1>4, CutIs DEF Read
<1>6. CASE kind = "github"
  <2> DEFINE list == GitHubListing(plan, GitHubRepos(plan)[repo], rows)
             more == next * PageSize < Len(list)
             last == repo = Len(GitHubRepos(plan))
  <2>1. L = GitHubRepos(plan) /\ list = Listing
    BY <1>6 DEF L, Lists, Listing, ListingOf
  <2>2. First = (next - 1) * PageSize + 1 /\ LastAsked = next * PageSize
    BY <1>6 DEF First, LastAsked
  <2>3. GitHubPage
    BY <1>6 DEF Page
  <2>4. got' = got \o Read
    BY <2>1, <2>2, <2>3 DEF GitHubPage, Take, Read
  <2>5. CASE ~Enough /\ more /\ pages + 1 < PageLimit
    <3>1. /\ next' = next + 1 /\ pages' = pages + 1
          /\ UNCHANGED <<repo, status, result, cut, kind>>
      BY <1>2, <2>3, <2>5 DEF GitHubPage, input
    <3>2. First' = LastAsked + 1
      <4>1. next \in Int
        BY DEF Shape
      <4>2. (next + 1) - 1 = next
        BY <4>1
      <4> QED BY <1>6, <2>2, <3>1, <4>2 DEF First
    <3>3. next' \in Nat \ {0} /\ pages' \in 0..PageLimit /\ pages' < PageLimit
      BY <2>5, <3>1, SizesAre DEF Shape
    <3>7. First' \in Int /\ First <= First'
      BY <1>1, <1>6, <3>2, SizesAre
    <3>4. ASSUME NEW k \in 1..Len(Read)
          PROVE  First + k - 1 < First'
      BY <1>1, <1>5, <3>2
    <3>5. ASSUME NEW p \in 1..Len(Listing), First <= p, p < First'
          PROVE  p - First + 1 \in 1..Len(Read)
      <4>1. p <= LastAsked
        BY <1>1, <1>4, <3>2, <3>5
      <4> QED BY <1>5, <3>5, <4>1
    <3>6. GoesOn
      BY <1>2, <3>1, <3>3, <3>4, <3>5, <3>7 DEF GoesOn
    <3> QED BY <1>2, <1>3, <1>4, <1>5, <2>4, <3>6
  <2>6. CASE ~(~Enough /\ more /\ pages + 1 < PageLimit)
    <3>1. cut' = (cut \/ more \/ (Enough /\ ~last))
      BY <2>3, <2>6 DEF GitHubPage
    <3>2. ~more => AllRead
      <4>1. SUFFICES ASSUME ~more, NEW p \in 1..Len(Listing), First <= p
                     PROVE  p - First + 1 \in 1..Len(Read)
        BY DEF AllRead
      <4>2. p <= LastAsked
        BY <1>1, <1>4, <2>1, <2>2, <4>1
      <4> QED BY <1>5, <4>1, <4>2
    <3>3. cut' \in BOOLEAN /\ (~cut' => ~cut /\ ~more /\ ~(Enough /\ ~last))
      BY <3>1 DEF Shape
    <3>4. CASE Enough \/ last
      <4>1. status' = "done" /\ result' = Filter(got', ServerFilters(plan))
        BY <2>3, <2>6, <3>4 DEF GitHubPage, Finish
      <4>2. repo' = repo /\ next' = next /\ pages' = pages
        BY <2>3, <2>6, <3>4 DEF GitHubPage
      <4>3. ~cut' => repo = Len(L)
        BY <2>1, <3>3, <3>4
      <4>4. Ends
        BY <3>2, <3>3, <4>1, <4>2, <4>3 DEF Ends, Shape
      <4> QED BY <1>2, <1>3, <1>4, <1>5, <2>4, <4>4
    <3>5. CASE ~(Enough \/ last)
      <4>1. /\ repo' = repo + 1 /\ next' = 1 /\ pages' = 0
            /\ UNCHANGED <<status, result, kind>>
        BY <1>2, <2>3, <2>6, <3>5 DEF GitHubPage, input
      <4>2. repo < Len(L)
        BY <1>1, <1>3, <2>1, <3>5
      <4>3. First' = 1
        BY <1>6, <4>1, SizesAre DEF First
      <4>4. pages' \in 0..PageLimit /\ pages' < PageLimit
        BY <4>1, SizesAre
      <4>5. NextList
        BY <1>2, <1>6, <3>2, <3>3, <4>1, <4>2, <4>3, <4>4 DEF NextList
      <4> QED BY <1>2, <1>3, <1>4, <1>5, <2>4, <4>5
    <3> QED BY <3>4, <3>5
  <2> QED BY <2>5, <2>6
<1>7. CASE kind = "jira"
  <2> DEFINE total == Len(JiraListing(plan, rows))
             start == next + Len(Issues)
  <2>1. Len(L) = 1 /\ repo = 1 /\ JiraListing(plan, rows) = Listing /\ ~cut
    <3>1. L = << <<"jira", 0>> >>
      BY <1>7 DEF L, Lists
    <3>2. Len(L) = 1
      BY <3>1
    <3> QED BY <1>1, <1>2, <1>3, <1>7, <3>2 DEF Listing, ListingOf, Shape
  <2>2. First = next /\ LastAsked = next + Min({Ask, most}) - 1
    BY <1>7 DEF First, LastAsked
  <2>3. Issues = Read /\ total = Len(Listing)
    BY <2>1, <2>2 DEF Issues, Read
  <2>4. JiraPage
    BY <1>7 DEF Page
  <2>5. /\ got' = got \o Read /\ pages' = pages + 1 /\ next' = next + Len(Read) /\ repo' = repo
        /\ IF start > total \/ Issues = << >> \/ Enough \/ pages + 1 = PageLimit
           THEN Finish /\ cut' = (start <= total)
           ELSE UNCHANGED <<status, result, cut>>
    BY <2>3, <2>4 DEF JiraPage, JiraStep, Take
  <2>6. /\ pages' \in 0..PageLimit /\ next' \in Nat \ {0}
        /\ pages + 1 # PageLimit => pages' < PageLimit
    <3>1. pages \in 0..PageLimit /\ pages < PageLimit /\ PageLimit \in Nat
      BY <1>2, SizesAre DEF Shape
    <3>2. next \in Nat \ {0}
      BY DEF Shape
    <3> QED BY <1>5, <2>5, <3>1, <3>2
  <2>7. CASE start > total \/ Issues = << >> \/ Enough \/ pages + 1 = PageLimit
    <3>1. Finish /\ cut' = (start <= total)
      BY <2>5, <2>7
    <3>2. ~cut' => AllRead
      <4>1. SUFFICES ASSUME ~cut', NEW p \in 1..Len(Listing), First <= p
                     PROVE  p - First + 1 \in 1..Len(Read)
        BY DEF AllRead
      <4>2. ~(First + Len(Read) <= Len(Listing))
        BY <2>2, <2>3, <3>1, <4>1
      <4> QED BY <1>1, <1>4, <1>5, <4>1, <4>2
    <3>3. status' = "done" /\ result' = Filter(got', ServerFilters(plan)) /\ cut' \in BOOLEAN
      BY <3>1 DEF Finish
    <3>4. Ends
      BY <2>1, <2>5, <2>6, <3>2, <3>3 DEF Ends
    <3> QED BY <1>2, <1>3, <1>4, <1>5, <2>5, <3>4
  <2>8. CASE ~(start > total \/ Issues = << >> \/ Enough \/ pages + 1 = PageLimit)
    <3>1. UNCHANGED <<status, result, cut>> /\ pages + 1 # PageLimit /\ kind' = kind
      BY <1>2, <2>5, <2>8 DEF input
    <3>2. First' = First + Len(Read)
      BY <1>7, <2>2, <2>5, <3>1 DEF First
    <3>3. ASSUME NEW k \in 1..Len(Read)
          PROVE  First + k - 1 < First'
      BY <1>1, <1>5, <3>2
    <3>4. ASSUME NEW p \in 1..Len(Listing), First <= p, p < First'
          PROVE  p - First + 1 \in 1..Len(Read)
      BY <1>1, <1>4, <1>5, <3>2, <3>4
    <3>6. First' \in Int /\ First <= First'
      BY <1>1, <1>5, <3>2
    <3>5. GoesOn
      BY <1>2, <2>5, <2>6, <3>1, <3>3, <3>4, <3>6 DEF GoesOn
    <3> QED BY <1>2, <1>3, <1>4, <1>5, <2>5, <3>5
  <2> QED BY <2>7, <2>8
<1> QED BY <1>6, <1>7 DEF Shape

-----------------------------------------------------------------------------
(* A change of the source.                                                 *)

LEMMA WithoutIs ==
  ASSUME rows \in Seq(Version), Distinct(rows), NEW i \in DOMAIN rows
  PROVE  /\ Without(i) \in Seq(Version) /\ Distinct(Without(i))
         /\ \A k \in DOMAIN Without(i) : Id(Without(i)[k]) # Id(rows[i])
<1> DEFINE n == Len(rows)
           before == SubSeq(rows, 1, i - 1)
           after == SubSeq(rows, i + 1, Len(rows))
           all == before \o after
<1>1. n \in Nat /\ i \in 1..n /\ DOMAIN rows = 1..n
  BY LenProperties
<1>2. /\ before \in Seq(Version) /\ Len(before) = i - 1
      /\ \A k \in 1..(i - 1) : before[k] = rows[k]
  BY <1>1, PartBefore
<1>3. /\ after \in Seq(Version) /\ Len(after) = n - i
      /\ \A k \in 1..(n - i) : after[k] = rows[i + k]
  <2>1. i \in 0..Len(rows)
    BY <1>1
  <2> QED BY <2>1, PartAfter
<1>4. Without(i) = all
  BY DEF Without
<1> HIDE DEF n, before, after
<1>5. /\ all \in Seq(Version) /\ Len(all) = Len(before) + Len(after)
      /\ \A k \in 1..(Len(before) + Len(after)) :
           all[k] = IF k <= Len(before) THEN before[k] ELSE after[k - Len(before)]
  BY <1>2, <1>3, ConcatProperties
<1>6. DOMAIN all = 1..(n - 1)
  <2>1. Len(all) = n - 1
    BY <1>1, <1>2, <1>3, <1>5
  <2> QED BY <1>5, <2>1, LenProperties
<1> HIDE DEF all
<1>7. ASSUME NEW k \in DOMAIN all
      PROVE  all[k] = rows[IF k < i THEN k ELSE k + 1]
  <2>1. k \in 1..(n - 1) /\ k \in 1..(Len(before) + Len(after))
    BY <1>1, <1>2, <1>3, <1>6
  <2>2. CASE k < i
    <3>1. k \in 1..(i - 1) /\ k <= Len(before)
      BY <1>1, <1>2, <2>1, <2>2
    <3> QED BY <1>2, <1>5, <2>1, <2>2, <3>1
  <2>3. CASE ~(k < i)
    <3>1. ~(k <= Len(before)) /\ k - Len(before) \in 1..(n - i) /\ i + (k - Len(before)) = k + 1
      BY <1>1, <1>2, <2>1, <2>3
    <3> QED BY <1>3, <1>5, <2>1, <2>3, <3>1
  <2> QED BY <2>2, <2>3
<1>8. ASSUME NEW k \in DOMAIN all
      PROVE  /\ (IF k < i THEN k ELSE k + 1) \in DOMAIN rows
             /\ (IF k < i THEN k ELSE k + 1) # i
  BY <1>1, <1>6
<1>9. ASSUME NEW k \in DOMAIN all
      PROVE  Id(all[k]) # Id(rows[i])
  BY <1>7, <1>8 DEF Distinct
<1>10. ASSUME NEW k \in DOMAIN all, NEW l \in DOMAIN all, Id(all[k]) = Id(all[l])
       PROVE  k = l
  <2>1. (IF k < i THEN k ELSE k + 1) = (IF l < i THEN l ELSE l + 1)
    BY <1>7, <1>8, <1>10 DEF Distinct
  <2> QED BY <1>1, <1>6, <2>1
<1> QED BY <1>4, <1>5, <1>9, <1>10 DEF Distinct

LEMMA FrontIs ==
  ASSUME NEW row \in Version, NEW src \in Seq(Version), Distinct(src),
         \A k \in DOMAIN src : Id(src[k]) # Id(row)
  PROVE  <<row>> \o src \in Seq(Version) /\ Distinct(<<row>> \o src)
<1> DEFINE one == <<row>>
           all == one \o src
<1>1. one \in Seq(Version) /\ Len(one) = 1 /\ one[1] = row
  OBVIOUS
<1>2. Len(src) \in Nat /\ DOMAIN src = 1..Len(src)
  BY LenProperties
<1> HIDE DEF one
<1>3. /\ all \in Seq(Version) /\ Len(all) = Len(one) + Len(src)
      /\ \A k \in 1..(Len(one) + Len(src)) :
           all[k] = IF k <= Len(one) THEN one[k] ELSE src[k - Len(one)]
  BY <1>1, ConcatProperties
<1>4. DOMAIN all = 1..(Len(src) + 1)
  <2>1. Len(all) = Len(src) + 1
    BY <1>1, <1>2, <1>3
  <2> QED BY <1>3, <2>1, LenProperties
<1> HIDE DEF all
<1>5. all[1] = row
  BY <1>1, <1>2, <1>3
<1>6. ASSUME NEW k \in DOMAIN all, k # 1
      PROVE  k - 1 \in DOMAIN src /\ all[k] = src[k - 1] /\ k \in Int
  <2>1. k - 1 \in 1..Len(src) /\ ~(k <= Len(one)) /\ k \in 1..(Len(one) + Len(src))
    BY <1>1, <1>2, <1>4, <1>6
  <2> QED BY <1>1, <1>2, <1>3, <2>1
<1>7. ASSUME NEW k \in DOMAIN all, NEW l \in DOMAIN all, Id(all[k]) = Id(all[l])
      PROVE  k = l
  <2>1. CASE k = 1 /\ l = 1
    BY <2>1
  <2>2. CASE k = 1 /\ l # 1
    BY <1>5, <1>6, <1>7, <2>2
  <2>3. CASE k # 1 /\ l = 1
    BY <1>5, <1>6, <1>7, <2>3
  <2>4. CASE k # 1 /\ l # 1
    <3>1. k - 1 = l - 1 /\ k \in Int /\ l \in Int
      BY <1>6, <1>7, <2>4 DEF Distinct
    <3> QED BY <3>1
  <2> QED BY <2>1, <2>2, <2>3, <2>4
<1> QED BY <1>3, <1>7 DEF Distinct, all, one

LEMMA ChangeIs ==
  ASSUME Shape, Change
  PROVE  /\ \E src \in Seq(Version) : Distinct(src) /\ Observe(src)
         /\ status = "paging" /\ UNCHANGED <<input, call>>
<1>1. rows \in Seq(Version) /\ Distinct(rows)
  BY DEF Shape
<1>2. ASSUME NEW row \in Version, Insert(row)
      PROVE  \E src \in Seq(Version) : Distinct(src) /\ Observe(src)
  <2>1. /\ \A k \in DOMAIN rows : Id(rows[k]) # Id(row)
        /\ Observe(<<row>> \o rows)
    BY <1>2 DEF Insert
  <2>2. <<row>> \o rows \in Seq(Version) /\ Distinct(<<row>> \o rows)
    BY <1>1, <2>1, FrontIs
  <2> QED BY <2>1, <2>2
<1>3. ASSUME NEW i \in DOMAIN rows, Delete(i)
      PROVE  \E src \in Seq(Version) : Distinct(src) /\ Observe(src)
  BY <1>1, <1>3, WithoutIs DEF Delete
<1>4. ASSUME NEW i \in DOMAIN rows, NEW row \in Version, Update(i, row)
      PROVE  \E src \in Seq(Version) : Distinct(src) /\ Observe(src)
  <2>1. CASE Observe(<<row>> \o Without(i))
    <3>1. /\ Without(i) \in Seq(Version) /\ Distinct(Without(i))
          /\ \A k \in DOMAIN Without(i) : Id(Without(i)[k]) # Id(row)
      BY <1>1, <1>4, WithoutIs DEF Update
    <3>2. <<row>> \o Without(i) \in Seq(Version) /\ Distinct(<<row>> \o Without(i))
      BY <3>1, FrontIs
    <3> QED BY <2>1, <3>2
  <2>2. CASE Observe([rows EXCEPT ![i] = row])
    <3> DEFINE new == [rows EXCEPT ![i] = row]
    <3>1. new \in Seq(Version) /\ DOMAIN new = DOMAIN rows
      BY <1>1
    <3>2. ASSUME NEW k \in DOMAIN rows
          PROVE  Id(new[k]) = Id(rows[k])
      <4>1. CASE k = i
        BY <1>1, <1>4, <4>1 DEF Update
      <4>2. CASE k # i
        BY <1>1, <4>2
      <4> QED BY <4>1, <4>2
    <3> HIDE DEF new
    <3>3. Distinct(new)
      BY <1>1, <3>1, <3>2 DEF Distinct
    <3> QED BY <2>2, <3>1, <3>3 DEF new
  <2> QED BY <1>4, <2>1, <2>2 DEF Update
<1> QED BY <1>2, <1>3, <1>4 DEF Change

-----------------------------------------------------------------------------
(* Types, and what is returned.                                              *)

Held == ToSet(rows) \cup ToSet(got) \subseteq Version

Returned == result = IF status = "done" THEN Filter(got, ServerFilters(plan)) ELSE << >>

\* What is listed of given rows depends on the connector and the plan only.
LEMMA ListsStay ==
  ASSUME UNCHANGED input
  PROVE  /\ L' = L /\ kind' = kind /\ plan' = plan /\ most' = most
         /\ \A r : Ids(r, rows)' = Ids(r, rows')
         /\ \A r, id : Place(id, r, rows)' = Place(id, r, rows')
         /\ ServerFilters(plan)' = ServerFilters(plan)
<1>1. kind' = kind /\ plan' = plan /\ most' = most
  BY DEF input
<1>2. L' = L
  BY <1>1 DEF L, Lists
<1>3. \A r : ListingOf(r, rows)' = ListingOf(r, rows')
  BY <1>1 DEF ListingOf
<1>4. \A r : Ids(r, rows)' = Ids(r, rows')
  BY <1>3 DEF Ids
<1>5. \A r, id : Place(id, r, rows)' = Place(id, r, rows')
  BY <1>3 DEF Place
<1> QED BY <1>1, <1>2, <1>4, <1>5

LEMMA ShapeInit ==
  ASSUME Init
  PROVE  Shape /\ Held /\ Returned
<1>1. rows \in Seq(Version) /\ Distinct(rows) /\ most \in Nat \ {0}
  BY LivePagingAssumption DEF Init
<1>2. Shape
  <2>1. got \in Seq(Version) /\ cut \in BOOLEAN /\ status = "paging" /\ ~cut
    <3>1. got = << >> /\ cut = FALSE /\ status = "paging"
      BY DEF Init
    <3>2. got \in Seq(Version)
      BY <3>1
    <3> QED BY <3>1, <3>2
  <2>2. next \in Nat \ {0} /\ repo \in Nat \ {0} /\ repo = 1
    BY DEF Init
  <2>3. pages \in 0..PageLimit /\ pages < PageLimit
    BY SizesAre DEF Init
  <2>4. kind \in {"github", "jira"} /\ plan \in Plan
    BY DEF Init
  <2> QED BY <1>1, <2>1, <2>2, <2>3, <2>4 DEF Shape
<1>3. ToSet(rows) \subseteq Version
  <2>1. DOMAIN rows = 1..Len(rows)
    BY <1>1, LenProperties
  <2> QED BY <1>1, <2>1, ElementOfSeq DEF ToSet
<1>4. ToSet(got) = {}
  BY DEF Init, ToSet
<1>5. Held
  BY <1>3, <1>4 DEF Held, Init
<1>6. Returned
  BY DEF Returned, Init
<1> QED BY <1>2, <1>5, <1>6

LEMMA ShapeNext ==
  ASSUME Shape, [Next]_vars
  PROVE  Shape'
<1>1. CASE Page
  <2>1. UNCHANGED <<input, rows>>
    BY <1>1 DEF Page
  <2>2. /\ L' = L /\ kind' = kind /\ plan' = plan /\ most' = most /\ rows' = rows
    BY <2>1, ListsStay
  <2>3. /\ got' = got \o Read /\ Read \in Seq(Version) /\ repo \in DOMAIN L
        /\ GoesOn \/ NextList \/ Ends
    BY <1>1, PageIs
  <2>4. got' \in Seq(Version)
    <3> HIDE DEF Read
    <3>1. got \in Seq(Version)
      BY DEF Shape
    <3> QED BY <2>3, <3>1, ConcatProperties
  <2>5. status = "paging"
    BY <1>1 DEF Page
  <2>6. Distinct(rows)'
    BY <2>2 DEF Shape, Distinct
  <2>7. /\ kind' \in {"github", "jira"} /\ most' \in Nat \ {0} /\ plan' \in Plan
        /\ rows' \in Seq(Version)
    BY <2>2 DEF Shape
  <2>8. /\ next' \in Nat \ {0} /\ pages' \in 0..PageLimit
        /\ status' \in {"paging", "done"} /\ (status' = "paging" => pages' < PageLimit)
    BY <2>3 DEF GoesOn, NextList, Ends
  <2>9. repo' \in Nat \ {0} /\ (repo' = 1 \/ repo' \in DOMAIN L')
    <3>1. DOMAIN L = 1..Len(L) /\ Len(L) \in Nat
      BY ListsAre DEF Shape
    <3>2. repo' = repo \/ (repo' = repo + 1 /\ repo < Len(L))
      BY <2>3 DEF GoesOn, NextList, Ends
    <3> QED BY <2>2, <2>3, <3>1, <3>2
  <2>10. cut' \in BOOLEAN /\ (kind' = "jira" /\ status' = "paging" => ~cut')
    <3>1. CASE GoesOn
      BY <2>2, <2>5, <3>1 DEF GoesOn, Shape
    <3>2. CASE NextList
      BY <2>2, <3>2 DEF NextList
    <3>3. CASE Ends
      BY <3>3 DEF Ends
    <3> QED BY <2>3, <3>1, <3>2, <3>3
  <2> QED BY <2>4, <2>6, <2>7, <2>8, <2>9, <2>10 DEF Shape
<1>2. CASE NoRepo
  <2>1. UNCHANGED <<input, rows, repo, next, pages, cut>> /\ got' = got /\ status' = "done"
    BY <1>2 DEF NoRepo, Finish
  <2>2. L' = L /\ kind' = kind /\ plan' = plan /\ most' = most /\ rows' = rows
    BY <2>1, ListsStay
  <2> QED BY <2>1, <2>2 DEF Shape, Distinct
<1>3. CASE Fail
  <2>1. /\ UNCHANGED <<input, rows, repo, next, pages, got, cut>>
        /\ status' \in {"failed", "cancelled"}
    BY <1>3 DEF Fail
  <2>2. L' = L /\ kind' = kind /\ plan' = plan /\ most' = most /\ rows' = rows
    BY <2>1, ListsStay
  <2> QED BY <2>1, <2>2 DEF Shape, Distinct
<1>4. CASE Change
  <2>1. PICK src \in Seq(Version) : Distinct(src) /\ Observe(src)
    BY <1>4, ChangeIs
  <2>2. UNCHANGED <<input, call>>
    BY <1>4 DEF Change
  <2>3. L' = L /\ kind' = kind /\ plan' = plan /\ most' = most
    BY <2>2, ListsStay
  <2>4. rows' = src
    BY <2>1 DEF Observe
  <2>5. Distinct(rows)'
    BY <2>1, <2>4 DEF Distinct
  <2>6. UNCHANGED <<repo, next, pages, got, status, cut>>
    BY <2>2 DEF call
  <2> QED BY <2>1, <2>3, <2>4, <2>5, <2>6 DEF Shape
<1>5. CASE UNCHANGED vars
  <2>1. UNCHANGED <<input, call, rows>>
    BY <1>5 DEF vars
  <2>2. L' = L /\ kind' = kind /\ plan' = plan /\ most' = most
    BY <2>1, ListsStay
  <2>3. UNCHANGED <<repo, next, pages, got, status, cut>>
    BY <2>1 DEF call
  <2> QED BY <2>1, <2>2, <2>3 DEF Shape, Distinct
<1> QED BY <1>1, <1>2, <1>3, <1>4, <1>5 DEF Next, Over

LEMMA HeldNext ==
  ASSUME Shape, Held, Returned, [Next]_vars
  PROVE  Held' /\ Returned'
<1>1. CASE Page
  <2>1. UNCHANGED <<input, rows, observer>> /\ status = "paging"
    BY <1>1 DEF Page
  <2>2. plan' = plan /\ ServerFilters(plan)' = ServerFilters(plan) /\ rows' = rows
    BY <2>1, ListsStay DEF observer
  <2>3. /\ got' = got \o Read /\ Read \in Seq(Version) /\ Len(Read) \in Nat
        /\ \A k \in 1..Len(Read) :
             First + k - 1 \in 1..Len(Listing) /\ Read[k] = Listing[First + k - 1]
        /\ Listing \in Seq(Version)
        /\ GoesOn \/ NextList \/ Ends
    BY <1>1, PageIs
  <2>4. ToSet(Read) \subseteq ToSet(rows)
    <3>1. \A p \in DOMAIN Listing : Listing[p] \in ToSet(rows)
      BY ListingIs DEF Shape, Listing
    <3>2. DOMAIN Listing = 1..Len(Listing) /\ DOMAIN Read = 1..Len(Read)
      BY <2>3, LenProperties
    <3> HIDE DEF Read, Listing
    <3>3. ASSUME NEW k \in DOMAIN Read PROVE Read[k] \in ToSet(rows)
      BY <2>3, <3>1, <3>2
    <3> QED BY <3>3 DEF ToSet
  <2>5. ToSet(got') \subseteq ToSet(got) \cup ToSet(Read)
    <3> DEFINE all == got'
    <3>1. got \in Seq(Version) /\ Read \in Seq(Version) /\ all = got \o Read
      BY <2>3 DEF Shape
    <3> HIDE DEF all, Read
    <3>2. \A n \in DOMAIN all :
            \/ n \in DOMAIN got /\ all[n] = got[n]
            \/ n - Len(got) \in 1..Len(Read) /\ all[n] = Read[n - Len(got)]
      BY <3>1, ConcatIs
    <3>3. DOMAIN Read = 1..Len(Read)
      BY <3>1, LenProperties
    <3>4. ASSUME NEW n \in DOMAIN all
          PROVE  all[n] \in ToSet(got) \cup ToSet(Read)
      BY <3>2, <3>3 DEF ToSet
    <3>5. ToSet(all) \subseteq ToSet(got) \cup ToSet(Read)
      BY <3>4 DEF ToSet
    <3> QED BY <3>5 DEF all
  <2>6. Held'
    <3>1. ToSet(got)' = ToSet(got') /\ ToSet(rows)' = ToSet(rows)
      BY <2>2 DEF ToSet
    <3> QED BY <2>2, <2>4, <2>5, <3>1 DEF Held
  <2>7. CASE Ends
    BY <2>2, <2>6, <2>7 DEF Returned, Ends
  <2>8. CASE GoesOn \/ NextList
    <3>1. status' = "paging" /\ result' = result
      BY <2>8 DEF GoesOn, NextList
    <3> QED BY <2>1, <2>6, <3>1 DEF Returned
  <2> QED BY <2>3, <2>7, <2>8
<1>2. CASE NoRepo
  <2>1. /\ UNCHANGED <<input, rows, observer>> /\ got' = got /\ status' = "done"
        /\ result' = Filter(got', ServerFilters(plan))
    BY <1>2 DEF NoRepo, Finish
  <2>2. plan' = plan /\ ServerFilters(plan)' = ServerFilters(plan) /\ rows' = rows
    BY <2>1, ListsStay DEF observer
  <2>3. Held'
    BY <2>1, <2>2 DEF Held, ToSet
  <2> QED BY <2>1, <2>2, <2>3 DEF Returned
<1>3. CASE Fail
  <2>1. /\ UNCHANGED <<input, rows, observer, got, result>> /\ status = "paging"
        /\ status' \in {"failed", "cancelled"}
    BY <1>3 DEF Fail
  <2>2. Held'
    BY <2>1 DEF Held, ToSet, observer
  <2> QED BY <2>1, <2>2 DEF Returned
<1>4. CASE Change
  <2>1. /\ \E src \in Seq(Version) : Distinct(src) /\ Observe(src)
        /\ status = "paging" /\ UNCHANGED <<input, call>>
    BY <1>4, ChangeIs
  <2>2. PICK src \in Seq(Version) : Distinct(src) /\ Observe(src)
    BY <2>1
  <2>3. rows' = src
    BY <2>2 DEF Observe
  <2>4. ToSet(src) \subseteq Version
    <3>1. DOMAIN src = 1..Len(src)
      BY LenProperties
    <3> QED BY <3>1, ElementOfSeq DEF ToSet
  <2>5. got' = got /\ status' = status /\ result' = result
    BY <2>1 DEF call
  <2>6. ToSet(rows)' = ToSet(src) /\ ToSet(got)' = ToSet(got)
    BY <2>3, <2>5 DEF ToSet
  <2>7. Held'
    BY <2>3, <2>4, <2>6 DEF Held
  <2> QED BY <2>1, <2>5, <2>7 DEF Returned
<1>5. CASE UNCHANGED vars
  <2>1. UNCHANGED <<input, rows, observer, got, status, result>>
    BY <1>5 DEF vars, call
  <2>2. plan' = plan /\ ServerFilters(plan)' = ServerFilters(plan) /\ rows' = rows
    BY <2>1, ListsStay DEF observer
  <2>3. Held'
    BY <2>1, <2>2 DEF Held, ToSet
  <2> QED BY <2>1, <2>2, <2>3 DEF Returned
<1> QED BY <1>1, <1>2, <1>3, <1>4, <1>5 DEF Next, Over

\* The three parts that the theorems below start from hold in every state: they are
\* inductive together.
THEOREM ReachableShape == Spec => [](Shape /\ Held /\ Returned)
<1> DEFINE IInv == Shape /\ Held /\ Returned
<1>1. Init => IInv
  BY ShapeInit
<1>2. IInv /\ [Next]_vars => IInv'
  BY ShapeNext, HeldNext
<1> QED BY <1>1, <1>2, PTL DEF Spec

\* What filtering leaves is of the rows, and matches all predicates.
LEMMA FilteredIs ==
  ASSUME NEW T, NEW from \in Seq(T), NEW preds, NEW row \in ToSet(Filter(from, preds))
  PROVE  row \in ToSet(from) /\ MatchesAll(row, preds)
<1> DEFINE S == {i \in DOMAIN from : MatchesAll(from[i], preds)}
<1>1. S \in SUBSET (DOMAIN from) /\ \A i \in S : MatchesAll(from[i], preds)
  OBVIOUS
<1>2. Filter(from, preds) = Selected(from, S)
  BY DEF Filter
<1> HIDE DEF S
<1>3. IsFiniteSet(S) /\ S \in SUBSET Int
  BY <1>1, SelectedType
<1>4. DOMAIN Filter(from, preds) = 1..Cardinality(S)
  BY <1>2, <1>3, SelectedAt
<1>5. PICK k \in 1..Cardinality(S) : row = Filter(from, preds)[k]
  BY <1>4 DEF ToSet
<1>6. PICK i \in S : Selected(from, S)[k] = from[i]
  BY <1>3, SelectedFrom
<1> QED BY <1>1, <1>2, <1>5, <1>6 DEF ToSet

\* Of execute and its loops (github_live.py, jira_live.py): the repo that is paged
\* is one of those asked for, the pages read never exceed the cap, all rows are
\* rows of the source, and nothing is returned unless the call is done.
THEOREM PagingTypes == Spec => []TypeOK
<1>1. ASSUME Shape, Held, Returned
      PROVE  TypeOK
  <2>1. DOMAIN L = 1..Len(L) /\ Len(L) \in Nat
    BY <1>1, ListsAre DEF Shape
  <2>2. repo \in 1..Max({1, Len(Lists(plan))})
    <3> DEFINE n == Len(L)
               m == Max({1, n})
    <3>1. n \in Int /\ 1 \in Int
      BY <2>1
    <3> HIDE DEF n
    <3>2. m \in {1, n} /\ 1 <= m /\ n <= m
      BY <3>1, LesserOfTwo
    <3>3. repo \in Nat \ {0} /\ (repo = 1 \/ repo \in 1..n)
      BY <1>1, <2>1 DEF Shape, n
    <3> HIDE DEF m
    <3>4. repo \in 1..m
      BY <3>1, <3>2, <3>3
    <3> QED BY <3>4 DEF m, n, L
  <2>3. ToSet(result) \subseteq ToSet(got)
    <3>1. CASE status = "done"
      <4>1. result = Filter(got, ServerFilters(plan)) /\ got \in Seq(Version)
        BY <1>1, <3>1 DEF Returned, Shape
      <4> QED BY <4>1, FilteredIs
    <3>2. CASE status # "done"
      BY <1>1, <3>2 DEF Returned, ToSet
    <3> QED BY <3>1, <3>2
  <2>4. result # << >> => status = "done"
    BY <1>1 DEF Returned
  <2>5. ToSet(rows) \cup ToSet(got) \subseteq Version
    BY <1>1 DEF Held
  <2> QED BY <1>1, <2>2, <2>3, <2>4, <2>5 DEF TypeOK, Shape
<1> QED BY <1>1, ReachableShape, PTL

-----------------------------------------------------------------------------
(* Each row once.                                                          *)

Seen == {Id(got[i]) : i \in DOMAIN got}

\* The id is listed behind the place where paging goes on, or from there on.
Behind(id) ==
  \A i \in DOMAIN L : id \in Ids(L[i], rows) =>
    i < repo \/ (i = repo /\ Place(id, L[i], rows) < First)
Ahead(id) ==
  \E i \in DOMAIN L :
    id \in Ids(L[i], rows) /\ (i > repo \/ (i = repo /\ Place(id, L[i], rows) >= First))

\* What was read twice has moved back; what was read and has not is behind; what
\* was listed all the time, has not moved forward and is not read is ahead.
Once == \A i, j \in DOMAIN got : i # j /\ Id(got[i]) = Id(got[j]) => Id(got[i]) \in backward
SeenPassed == \A id \in Seen \ backward : Behind(id)
UnseenAhead == ~cut => \A id \in (present \ forward) \ Seen : Ahead(id)
AllSeen == ~cut => present \ forward \subseteq Seen

Progress ==
  /\ Once
  /\ status = "paging" => SeenPassed /\ UnseenAhead
  /\ status = "done" => AllSeen

\* The ids that a page adds, and where they are listed.
LEMMA PageAdds ==
  ASSUME Shape, Page
  PROVE  /\ Seen' = Seen \cup {Id(Read[k]) : k \in 1..Len(Read)}
         /\ \A k \in 1..Len(Read) :
              /\ Id(Read[k]) \in Ids(L[repo], rows)
              /\ Place(Id(Read[k]), L[repo], rows) = First + k - 1
         /\ \A id \in Ids(L[repo], rows) :
              /\ Place(id, L[repo], rows) \in 1..Len(Listing)
              /\ First <= Place(id, L[repo], rows)
                   /\ Place(id, L[repo], rows) - First + 1 \in 1..Len(Read) => id \in Seen'
<1>1. /\ got' = got \o Read /\ Read \in Seq(Version) /\ Len(Read) \in Nat
      /\ \A k \in 1..Len(Read) :
           First + k - 1 \in 1..Len(Listing) /\ Read[k] = Listing[First + k - 1]
      /\ repo \in DOMAIN L /\ Listing \in Seq(Version)
  BY PageIs
<1>2. got \in Seq(Version) /\ First \in Nat /\ rows \in Seq(Version) /\ Distinct(rows)
      /\ kind \in {"github", "jira"}
  BY FirstIs DEF Shape
<1>3. /\ \A p \in DOMAIN Listing :
           /\ Id(Listing[p]) \in Ids(L[repo], rows)
           /\ Place(Id(Listing[p]), L[repo], rows) = p
      /\ \A id \in Ids(L[repo], rows) :
           /\ Place(id, L[repo], rows) \in DOMAIN Listing
           /\ Id(Listing[Place(id, L[repo], rows)]) = id
  BY <1>2, PlaceIs DEF Listing
<1>4. DOMAIN Listing = 1..Len(Listing) /\ Len(Listing) \in Nat
  BY <1>1, LenProperties
<1>5. Seen' = Seen \cup {Id(Read[k]) : k \in 1..Len(Read)}
  <2> HIDE DEF Read
  <2>1. /\ \A n \in DOMAIN got' :
             \/ n \in DOMAIN got /\ got'[n] = got[n]
             \/ n - Len(got) \in 1..Len(Read) /\ got'[n] = Read[n - Len(got)]
        /\ \A n \in DOMAIN got : n \in DOMAIN got' /\ got'[n] = got[n]
        /\ \A k \in 1..Len(Read) : Len(got) + k \in DOMAIN got' /\ got'[Len(got) + k] = Read[k]
    <3> DEFINE all == got'
    <3>1. got \in Seq(Version) /\ Read \in Seq(Version) /\ all = got \o Read
      BY <1>1, <1>2
    <3> HIDE DEF all
    <3>2. /\ \A n \in DOMAIN all :
               \/ n \in DOMAIN got /\ all[n] = got[n]
               \/ n - Len(got) \in 1..Len(Read) /\ all[n] = Read[n - Len(got)]
          /\ \A n \in DOMAIN got : n \in DOMAIN all /\ all[n] = got[n]
          /\ \A k \in 1..Len(Read) : Len(got) + k \in DOMAIN all /\ all[Len(got) + k] = Read[k]
      BY <3>1, ConcatIs
    <3> QED BY <3>2 DEF all
  <2>2. Seen' = {Id(got'[n]) : n \in DOMAIN got'}
    BY DEF Seen
  <2>3. ASSUME NEW id \in Seen'
        PROVE  id \in Seen \cup {Id(Read[k]) : k \in 1..Len(Read)}
    BY <2>1, <2>2 DEF Seen
  <2>4. ASSUME NEW id \in Seen
        PROVE  id \in Seen'
    BY <2>1, <2>2 DEF Seen
  <2>5. ASSUME NEW k \in 1..Len(Read)
        PROVE  Id(Read[k]) \in Seen'
    BY <2>1, <2>2
  <2> QED BY <2>3, <2>4, <2>5
<1>6. ASSUME NEW k \in 1..Len(Read)
      PROVE  /\ Id(Read[k]) \in Ids(L[repo], rows)
             /\ Place(Id(Read[k]), L[repo], rows) = First + k - 1
  <2>1. First + k - 1 \in DOMAIN Listing /\ Read[k] = Listing[First + k - 1]
    BY <1>1, <1>4
  <2> QED BY <1>3, <2>1
<1>7. ASSUME NEW id \in Ids(L[repo], rows), First <= Place(id, L[repo], rows),
             Place(id, L[repo], rows) - First + 1 \in 1..Len(Read)
      PROVE  id \in Seen'
  <2> DEFINE p == Place(id, L[repo], rows)
             k == p - First + 1
  <2>1. p \in 1..Len(Listing) /\ Id(Listing[p]) = id
    BY <1>3, <1>4
  <2>2. k \in 1..Len(Read)
    BY <1>7
  <2>3. First + k - 1 = p
    BY <1>2, <2>1
  <2> HIDE DEF p, k
  <2>4. Read[k] = Listing[p]
    BY <1>1, <2>2, <2>3
  <2> QED BY <1>5, <2>1, <2>2, <2>4
<1> QED BY <1>3, <1>4, <1>5, <1>6, <1>7

LEMMA ProgressInit ==
  ASSUME Init
  PROVE  Progress
<1>1. Shape
  BY ShapeInit
<1>2. got = << >> /\ repo = 1 /\ next = 1 /\ status = "paging"
  BY DEF Init
<1>3. Seen = {} /\ DOMAIN got = {}
  BY <1>2 DEF Seen
<1>4. Once /\ SeenPassed
  BY <1>3 DEF Once, SeenPassed
<1>5. First = 1
  BY <1>2, SizesAre DEF First
<1>6. ASSUME NEW id \in present
      PROVE  Ahead(id)
  <2>1. PICK r \in ToSet(L) : id \in Ids(r, rows)
    BY <1>6 DEF Init, AllIds, L
  <2>2. PICK i \in DOMAIN L : r = L[i]
    BY DEF ToSet
  <2>3. DOMAIN L = 1..Len(L) /\ Len(L) \in Nat
    BY <1>1, ListsAre DEF Shape
  <2>4. Place(id, L[i], rows) \in DOMAIN ListingOf(L[i], rows)
    BY <1>1, <2>1, <2>2, PlaceIs DEF Shape
  <2>5. ListingOf(L[i], rows) \in Seq(Version)
    BY <1>1, ListingIs DEF Shape
  <2>6. Place(id, L[i], rows) >= 1
    <3> HIDE DEF ListingOf
    <3> QED BY <2>4, <2>5, LenProperties
  <2>7. i > repo \/ i = repo
    BY <1>2, <2>3
  <2> QED BY <1>5, <2>1, <2>2, <2>6, <2>7 DEF Ahead
<1>7. UnseenAhead
  BY <1>6 DEF UnseenAhead
<1> QED BY <1>2, <1>4, <1>7 DEF Progress

\* No row of a page was read before, unless it has moved back.
LEMMA PageIsNew ==
  ASSUME Shape, Page, Once, SeenPassed
  PROVE  Once'
<1>1. /\ got' = got \o Read /\ Read \in Seq(Version) /\ Len(Read) \in Nat
      /\ \A k \in 1..Len(Read) :
           First + k - 1 \in 1..Len(Listing) /\ Read[k] = Listing[First + k - 1]
      /\ repo \in DOMAIN L
  BY PageIs
<1>2. backward' = backward /\ First \in Nat /\ repo \in Nat /\ got \in Seq(Version)
  BY FirstIs DEF Shape, Page, observer
<1>3. \A k \in 1..Len(Read) :
        /\ Id(Read[k]) \in Ids(L[repo], rows)
        /\ Place(Id(Read[k]), L[repo], rows) = First + k - 1
  BY PageAdds
<1> HIDE DEF Read
<1>4. \A n \in DOMAIN got' :
        \/ n \in DOMAIN got /\ got'[n] = got[n]
        \/ n - Len(got) \in 1..Len(Read) /\ got'[n] = Read[n - Len(got)]
  <2> DEFINE all == got'
  <2>1. got \in Seq(Version) /\ Read \in Seq(Version) /\ all = got \o Read
    BY <1>1, <1>2
  <2> HIDE DEF all
  <2>2. \A n \in DOMAIN all :
          \/ n \in DOMAIN got /\ all[n] = got[n]
          \/ n - Len(got) \in 1..Len(Read) /\ all[n] = Read[n - Len(got)]
    BY <2>1, ConcatIs
  <2> QED BY <2>2 DEF all
<1>5. DOMAIN got' \subseteq Int /\ Len(got) \in Nat
  <2>1. got' \in Seq(Version)
    BY <1>1, <1>2, ConcatProperties
  <2> QED BY <1>2, <2>1, LenProperties
\* A row that was read and did not move back is not read again.
<1>6. ASSUME NEW n \in DOMAIN got, NEW k \in 1..Len(Read), Id(got[n]) = Id(Read[k])
      PROVE  Id(got[n]) \in backward
  <2>1. SUFFICES ASSUME Id(got[n]) \notin backward
                 PROVE  FALSE
    OBVIOUS
  <2>2. Behind(Id(got[n]))
    BY <2>1 DEF SeenPassed, Seen
  <2>3. repo < repo \/ First + k - 1 < First
    BY <1>1, <1>3, <1>6, <2>2 DEF Behind
  <2> QED BY <1>1, <1>2, <2>3
\* A page has no row twice.
<1>7. ASSUME NEW k \in 1..Len(Read), NEW l \in 1..Len(Read), Id(Read[k]) = Id(Read[l])
      PROVE  k = l
  <2>1. First + k - 1 = First + l - 1
    BY <1>3, <1>7
  <2> QED BY <1>1, <1>2, <2>1
<1>8. ASSUME NEW i \in DOMAIN got', NEW j \in DOMAIN got', i # j, Id(got'[i]) = Id(got'[j])
      PROVE  Id(got'[i]) \in backward
  <2>1. CASE i \in DOMAIN got /\ got'[i] = got[i] /\ j \in DOMAIN got /\ got'[j] = got[j]
    BY <1>8, <2>1 DEF Once
  <2>2. CASE /\ i \in DOMAIN got /\ got'[i] = got[i]
             /\ j - Len(got) \in 1..Len(Read) /\ got'[j] = Read[j - Len(got)]
    BY <1>6, <1>8, <2>2
  <2>3. CASE /\ i - Len(got) \in 1..Len(Read) /\ got'[i] = Read[i - Len(got)]
             /\ j \in DOMAIN got /\ got'[j] = got[j]
    BY <1>6, <1>8, <2>3
  <2>4. CASE /\ i - Len(got) \in 1..Len(Read) /\ got'[i] = Read[i - Len(got)]
             /\ j - Len(got) \in 1..Len(Read) /\ got'[j] = Read[j - Len(got)]
    <3>1. i - Len(got) = j - Len(got)
      BY <1>7, <1>8, <2>4
    <3>2. i \in Int /\ j \in Int
      BY <1>5, <1>8
    <3> QED BY <1>5, <1>8, <3>1, <3>2
  <2> QED BY <1>4, <2>1, <2>2, <2>3, <2>4
<1> QED BY <1>2, <1>8 DEF Once

NoRepoTwice == \A i, j \in DOMAIN Repos : Repos[i] = Repos[j] => i = j

LEMMA PageProgress ==
  ASSUME NoRepoTwice, Shape, Page, Progress
  PROVE  Progress'
<1>1. /\ repo \in DOMAIN L /\ Len(Read) \in Nat
      /\ GoesOn \/ NextList \/ Ends
  BY PageIs
<1>2. status = "paging" /\ UNCHANGED <<input, rows, observer>>
  BY DEF Page
<1>3. /\ L' = L /\ rows' = rows
      /\ \A r : Ids(r, rows)' = Ids(r, rows)
      /\ \A r, id : Place(id, r, rows)' = Place(id, r, rows)
      /\ present' = present /\ forward' = forward /\ backward' = backward
  BY <1>2, ListsStay DEF observer
<1>4. /\ Seen' = Seen \cup {Id(Read[k]) : k \in 1..Len(Read)}
      /\ \A k \in 1..Len(Read) :
           /\ Id(Read[k]) \in Ids(L[repo], rows)
           /\ Place(Id(Read[k]), L[repo], rows) = First + k - 1
      /\ \A id \in Ids(L[repo], rows) :
           /\ Place(id, L[repo], rows) \in 1..Len(Listing)
           /\ First <= Place(id, L[repo], rows)
                /\ Place(id, L[repo], rows) - First + 1 \in 1..Len(Read) => id \in Seen'
  BY PageAdds
<1>5. /\ DOMAIN L = 1..Len(L) /\ Len(L) \in Nat
      /\ \A i, j \in DOMAIN L : L[i] = L[j] => i = j
  BY ListsAre DEF Shape, NoRepoTwice
<1>6. /\ First \in Nat \ {0} /\ rows \in Seq(Version) /\ kind \in {"github", "jira"}
      /\ \A i \in DOMAIN L : L[i] \in ToSet(L)
  BY FirstIs DEF Shape, ToSet
<1>7. /\ Once /\ SeenPassed /\ (~cut => \A id \in (present \ forward) \ Seen : Ahead(id))
  BY <1>2 DEF Progress, UnseenAhead
<1>8. Once'
  BY <1>7, PageIsNew
<1>9. ASSUME status' = "paging"
      PROVE  SeenPassed'
  <2>1. GoesOn \/ NextList
    BY <1>1, <1>9 DEF Ends
  <2>2. \/ repo' = repo /\ First <= First' /\ \A k \in 1..Len(Read) : First + k - 1 < First'
        \/ repo' = repo + 1
    BY <2>1 DEF GoesOn, NextList
  <2>3. SUFFICES ASSUME NEW id \in Seen' \ backward, NEW i \in DOMAIN L, id \in Ids(L[i], rows)
                 PROVE  i < repo' \/ (i = repo' /\ Place(id, L[i], rows) < First')
    BY <1>3 DEF SeenPassed, Behind
  <2>4. First' \in Int /\ repo' \in Int
    <3>1. repo \in Int
      BY <1>1, <1>5
    <3> QED BY <2>1, <3>1 DEF GoesOn, NextList
  <2>5. i \in Int /\ repo \in Int
    BY <1>1, <1>5
  <2>6. i < repo \/ (i = repo /\ (repo' = repo + 1 \/ Place(id, L[i], rows) < First'))
    <3>1. CASE id \in Seen
      <4>1. i < repo \/ (i = repo /\ Place(id, L[i], rows) < First)
        BY <1>7, <2>3, <3>1 DEF SeenPassed, Behind
      <4>2. i = repo => Place(id, L[i], rows) \in Int
        BY <1>4, <2>3
      <4> QED BY <1>6, <2>2, <2>4, <4>1, <4>2
    <3>2. CASE id \notin Seen
      <4>1. PICK k \in 1..Len(Read) : id = Id(Read[k])
        BY <1>4, <2>3, <3>2
      <4>2. id \in Ids(L[repo], rows) /\ Place(id, L[repo], rows) = First + k - 1
        BY <1>4, <4>1
      <4>3. L[i] \in ToSet(L) /\ L[repo] \in ToSet(L)
        BY <1>1, <1>6
      <4>4. L[i] = L[repo]
        BY <1>6, <2>3, <4>2, <4>3, OneList
      <4>5. i = repo
        BY <1>1, <1>5, <4>4
      <4>6. Place(id, L[i], rows) = First + k - 1
        BY <4>2, <4>5
      <4>7. repo' = repo + 1 \/ First + k - 1 < First'
        BY <2>2
      <4> QED BY <4>5, <4>6, <4>7
    <3> QED BY <3>1, <3>2
  <2>7. ASSUME i = repo
        PROVE  Place(id, L[i], rows) \in Int
    <3>1. id \in Ids(L[repo], rows)
      BY <2>3, <2>7
    <3>2. Place(id, L[repo], rows) \in 1..Len(Listing)
      BY <1>4, <3>1
    <3> QED BY <2>7, <3>2
  <2> QED BY <2>2, <2>4, <2>5, <2>6, <2>7
<1>10. ASSUME ~cut', NEW id \in (present \ forward) \ Seen'
       PROVE  /\ status' = "paging"
              /\ \E i \in DOMAIN L : id \in Ids(L[i], rows)
                   /\ (i > repo' \/ (i = repo' /\ Place(id, L[i], rows) >= First'))
  <2>1. ~cut
    BY <1>1, <1>10 DEF GoesOn, NextList, Ends
  <2>2. id \in (present \ forward) \ Seen
    BY <1>4, <1>10
  <2>3. PICK i \in DOMAIN L : id \in Ids(L[i], rows)
          /\ (i > repo \/ (i = repo /\ Place(id, L[i], rows) >= First))
    BY <1>7, <2>1, <2>2 DEF Ahead
  <2>4. i \in Int /\ repo \in Int /\ i <= Len(L)
    BY <1>1, <1>5
  <2> DEFINE p == Place(id, L[i], rows)
  <2>5. ASSUME i = repo
        PROVE  p \in 1..Len(Listing) /\ First <= p
    <3>1. id \in Ids(L[repo], rows) /\ p >= First
      BY <1>1, <1>5, <2>3, <2>5
    <3>2. p \in 1..Len(Listing)
      <4>1. Place(id, L[repo], rows) \in 1..Len(Listing)
        BY <1>4, <3>1
      <4> QED BY <2>5, <4>1
    <3> QED BY <1>6, <3>1, <3>2
  <2>6. i = repo => ~(p - First + 1 \in 1..Len(Read))
    <3>1. SUFFICES ASSUME i = repo, p - First + 1 \in 1..Len(Read)
                   PROVE  FALSE
      OBVIOUS
    <3>2. id \in Seen'
      BY <1>4, <2>3, <2>5, <3>1
    <3> QED BY <1>10, <3>2
  <2>7. CASE GoesOn
    <3>1. status' = "paging" /\ repo' = repo
      BY <2>7 DEF GoesOn
    <3>2. ASSUME i = repo
          PROVE  p >= First'
      <4>1. p \in 1..Len(Listing) /\ First <= p /\ ~(p < First')
        BY <2>5, <2>6, <2>7, <3>2 DEF GoesOn
      <4>2. First' \in Int
        BY <2>7 DEF GoesOn
      <4> QED BY <4>1, <4>2
    <3> QED BY <2>3, <3>1, <3>2
  <2>8. CASE NextList
    <3>1. status' = "paging" /\ repo' = repo + 1 /\ First' = 1
      BY <2>8 DEF NextList
    <3>2. AllRead
      BY <1>10, <2>8 DEF NextList
    <3>3. i # repo
      BY <2>5, <2>6, <3>2 DEF AllRead
    <3>4. p >= 1
      <4>1. ListingOf(L[i], rows) \in Seq(Version) /\ p \in DOMAIN ListingOf(L[i], rows)
        <5>1. Distinct(rows)
          BY DEF Shape
        <5> QED BY <1>6, <2>3, <5>1, ListingIs, PlaceIs
      <4> HIDE DEF p
      <4> QED BY <4>1, LenProperties
    <3> QED BY <2>3, <2>4, <3>1, <3>3, <3>4
  <2>9. CASE Ends
    <3>1. repo = Len(L) /\ AllRead
      BY <1>10, <2>9 DEF Ends
    <3>2. i # repo
      BY <2>5, <2>6, <3>1 DEF AllRead
    <3> QED BY <2>3, <2>4, <3>1, <3>2
  <2> QED BY <1>1, <2>7, <2>8, <2>9
<1>11. UnseenAhead'
  BY <1>3, <1>10 DEF UnseenAhead, Ahead
<1>12. status' = "done" => AllSeen'
  BY <1>3, <1>10 DEF AllSeen
<1> QED BY <1>8, <1>9, <1>11, <1>12 DEF Progress

\* An id that stays listed stays in its list.
LEMMA StaysInList ==
  ASSUME Shape, NEW src \in Seq(Version), Distinct(src), NEW id \in AllIds(rows), id \in AllIds(src),
         NEW i \in DOMAIN L
  PROVE  /\ id \in Ids(L[i], rows) <=> id \in Ids(L[i], src)
         /\ id \in Ids(L[i], rows) =>
              /\ Place(id, L[i], rows) \in Int /\ Place(id, L[i], src) \in Int
              /\ Place(id, L[i], src) < Place(id, L[i], rows) => id \in Lower(rows, src)
              /\ Place(id, L[i], rows) < Place(id, L[i], src) => id \in Lower(src, rows)
<1>1. rows \in Seq(Version) /\ Distinct(rows) /\ kind \in {"github", "jira"}
  BY DEF Shape
<1>2. L[i] \in ToSet(L) /\ L = Lists(plan)
  BY DEF ToSet, L
<1>3. PICK r \in ToSet(L) : id \in Ids(r, rows)
  BY DEF AllIds, L
<1>4. PICK s \in ToSet(L) : id \in Ids(s, src)
  BY DEF AllIds, L
<1>5. r = s
  BY <1>1, <1>3, <1>4, OneList
<1>6. id \in Ids(L[i], rows) => L[i] = r
  BY <1>1, <1>2, <1>3, OneList
<1>7. id \in Ids(L[i], src) => L[i] = s
  BY <1>1, <1>2, <1>4, OneList
<1>8. id \in Ids(L[i], rows) <=> id \in Ids(L[i], src)
  BY <1>3, <1>4, <1>5, <1>6, <1>7
<1>9. ASSUME id \in Ids(L[i], rows)
      PROVE  /\ Place(id, L[i], rows) \in Int /\ Place(id, L[i], src) \in Int
             /\ Place(id, L[i], src) < Place(id, L[i], rows) => id \in Lower(rows, src)
             /\ Place(id, L[i], rows) < Place(id, L[i], src) => id \in Lower(src, rows)
  <2>1. id \in Ids(L[i], src)
    BY <1>8, <1>9
  <2>2. Place(id, L[i], rows) \in DOMAIN ListingOf(L[i], rows)
    BY <1>1, <1>9, PlaceIs
  <2>3. Place(id, L[i], src) \in DOMAIN ListingOf(L[i], src)
    BY <1>1, <2>1, PlaceIs
  <2>4. ListingOf(L[i], rows) \in Seq(Version) /\ ListingOf(L[i], src) \in Seq(Version)
    BY <1>1, ListingIs
  <2>5. Place(id, L[i], rows) \in Int /\ Place(id, L[i], src) \in Int
    BY <2>2, <2>3, <2>4, LenProperties
  <2>6. Place(id, L[i], src) < Place(id, L[i], rows) => id \in Lower(rows, src)
    BY <1>2, <1>9, <2>1 DEF Lower
  <2>7. Place(id, L[i], rows) < Place(id, L[i], src) => id \in Lower(src, rows)
    BY <1>2, <1>9, <2>1 DEF Lower
  <2> QED BY <2>5, <2>6, <2>7
<1> QED BY <1>8, <1>9

LEMMA ChangeProgress ==
  ASSUME Shape, Change, Progress
  PROVE  Progress'
<1>1. /\ \E src \in Seq(Version) : Distinct(src) /\ Observe(src)
      /\ status = "paging" /\ UNCHANGED <<input, call>>
  BY ChangeIs
<1>2. PICK src \in Seq(Version) : Distinct(src) /\ Observe(src)
  BY <1>1
<1>3. /\ rows' = src /\ present' = present \cap AllIds(src)
      /\ forward' = forward \cup Lower(rows, src)
      /\ backward' = backward \cup Lower(src, rows) \cup (AllIds(src) \ AllIds(rows))
  BY <1>2 DEF Observe
<1>4. UNCHANGED <<repo, next, got, status, cut, kind>>
  BY <1>1 DEF call, input
<1>5. First' = First /\ Seen' = Seen
  BY <1>4 DEF First, Seen
<1>6. /\ L' = L
      /\ \A r : Ids(r, rows)' = Ids(r, src)
      /\ \A r, id : Place(id, r, rows)' = Place(id, r, src)
  BY <1>1, <1>3, ListsStay
<1>7. Once /\ SeenPassed /\ UnseenAhead
  BY <1>1 DEF Progress
<1>8. First \in Int /\ rows \in Seq(Version)
  BY FirstIs DEF Shape
<1>9. \A i \in DOMAIN L : L[i] \in ToSet(L)
  BY DEF ToSet
<1>10. \A s, id : id \in AllIds(s) <=> \E i \in DOMAIN L : id \in Ids(L[i], s)
  BY <1>9 DEF AllIds, L, ToSet
<1>11. Once'
  BY <1>3, <1>4, <1>7 DEF Once
<1>12. ASSUME NEW id \in Seen \ backward', NEW i \in DOMAIN L, id \in Ids(L[i], src)
       PROVE  i < repo \/ (i = repo /\ Place(id, L[i], src) < First)
  <2>1. id \in AllIds(src) /\ id \in AllIds(rows)
    BY <1>3, <1>10, <1>12
  <2>2. /\ id \in Ids(L[i], rows)
        /\ Place(id, L[i], rows) \in Int /\ Place(id, L[i], src) \in Int
        /\ Place(id, L[i], rows) < Place(id, L[i], src) => id \in Lower(src, rows)
    BY <1>2, <1>12, <2>1, StaysInList
  <2>3. ~(Place(id, L[i], rows) < Place(id, L[i], src))
    BY <1>3, <1>12, <2>2
  <2>4. i < repo \/ (i = repo /\ Place(id, L[i], rows) < First)
    BY <1>3, <1>7, <1>12, <2>2 DEF SeenPassed, Behind
  <2> QED BY <1>8, <2>2, <2>3, <2>4
<1>13. SeenPassed'
  BY <1>4, <1>5, <1>6, <1>12 DEF SeenPassed, Behind
<1>14. ASSUME ~cut, NEW id \in (present' \ forward') \ Seen
       PROVE  \E i \in DOMAIN L : /\ id \in Ids(L[i], src)
                                  /\ i > repo \/ (i = repo /\ Place(id, L[i], src) >= First)
  <2>1. id \in (present \ forward) \ Seen /\ id \in AllIds(src) /\ id \notin Lower(rows, src)
    BY <1>3, <1>14
  <2>2. PICK i \in DOMAIN L :
          id \in Ids(L[i], rows) /\ (i > repo \/ (i = repo /\ Place(id, L[i], rows) >= First))
    BY <1>7, <1>14, <2>1 DEF UnseenAhead, Ahead
  <2>3. id \in AllIds(rows)
    BY <1>10, <2>2
  <2>4. /\ id \in Ids(L[i], src)
        /\ Place(id, L[i], rows) \in Int /\ Place(id, L[i], src) \in Int
        /\ ~(Place(id, L[i], src) < Place(id, L[i], rows))
    BY <1>2, <2>1, <2>2, <2>3, StaysInList
  <2>5. i > repo \/ (i = repo /\ Place(id, L[i], src) >= First)
    BY <1>8, <2>2, <2>4
  <2> QED BY <2>4, <2>5
<1>15. UnseenAhead'
  BY <1>4, <1>5, <1>6, <1>14 DEF UnseenAhead, Ahead
<1> QED BY <1>1, <1>4, <1>11, <1>13, <1>15 DEF Progress

LEMMA ProgressNext ==
  ASSUME NoRepoTwice, Shape, Progress, [Next]_vars
  PROVE  Progress'
<1>1. CASE Page
  BY <1>1, PageProgress
<1>2. CASE NoRepo
  <2>1. /\ status = "paging" /\ L = << >> /\ status' = "done"
        /\ UNCHANGED <<got, cut, observer>>
    BY <1>2 DEF NoRepo, Finish, L
  <2>2. DOMAIN L = {}
    BY <2>1
  <2>3. UnseenAhead /\ Once
    BY <2>1 DEF Progress
  <2>4. AllSeen
    BY <2>2, <2>3 DEF UnseenAhead, Ahead, AllSeen
  <2>5. Once' /\ AllSeen'
    BY <2>1, <2>3, <2>4 DEF Once, AllSeen, Seen, observer
  <2> QED BY <2>1, <2>5 DEF Progress
<1>3. CASE Fail
  <2>1. UNCHANGED <<got, observer>> /\ status' \in {"failed", "cancelled"}
    BY <1>3 DEF Fail
  <2>2. Once'
    BY <2>1 DEF Progress, Once, observer
  <2> QED BY <2>1, <2>2 DEF Progress
<1>4. CASE Change
  BY <1>4, ChangeProgress
<1>5. CASE UNCHANGED vars
  <2>1. /\ UNCHANGED <<input, rows, repo, next, got, status, cut, kind>>
        /\ UNCHANGED <<present, forward, backward>>
    BY <1>5 DEF vars, call, observer, input
  <2>2. /\ L' = L /\ First' = First /\ Seen' = Seen
        /\ \A r : Ids(r, rows)' = Ids(r, rows)
        /\ \A r, id : Place(id, r, rows)' = Place(id, r, rows)
    BY <2>1, ListsStay DEF First, Seen
  <2>3. Once' = Once /\ SeenPassed' = SeenPassed /\ UnseenAhead' = UnseenAhead /\ AllSeen' = AllSeen
    BY <2>1, <2>2 DEF Once, SeenPassed, UnseenAhead, AllSeen, Behind, Ahead
  <2> QED BY <2>1, <2>3 DEF Progress
<1> QED BY <1>1, <1>2, <1>3, <1>4, <1>5 DEF Next, Over

\* Over a source that changes between two pages, whatever the sizes of the pages:
\* if no repo is configured twice, no row is read twice unless its place became a
\* higher one, and when all pages were read no row is missing that was listed all
\* the time, unless its place became a lower one.
THEOREM ReadsOnceUnlessMoved == ASSUME NoRepoTwice PROVE Spec => []ReadOnceUnlessMoved
<1> DEFINE IInv == Shape /\ Progress
<1>1. Init => IInv
  BY ShapeInit, ProgressInit
<1>2. IInv /\ [Next]_vars => IInv'
  BY ShapeNext, ProgressNext
<1>3. IInv => ReadOnceUnlessMoved
  <2>1. ASSUME IInv, status = "done", ~cut
        PROVE  present \ forward \subseteq {Id(row) : row \in ToSet(got)}
    <3>1. present \ forward \subseteq Seen
      BY <2>1 DEF Progress, AllSeen
    <3>2. Seen = {Id(row) : row \in ToSet(got)}
      BY DEF Seen, ToSet
    <3> QED BY <3>1, <3>2
  <2> QED BY <2>1 DEF ReadOnceUnlessMoved, Progress, Once
<1> QED BY <1>1, <1>2, <1>3, PTL DEF Spec
-----------------------------------------------------------------------------
(* A source that stays as it is: the pages together are what Sources says. *)
(* GitHubRows is a recursion over the repos; that its table exists, and    *)
(* all of it, is shown by looking at the least place where it fails.       *)

\* f is the table of GitHubGot, as far as m repos.
IsGot(f, m, sp, src) ==
  f = [n \in 0..m |-> IF n = 0 THEN << >> ELSE WithRepo(sp, src, GitHubRepos(sp)[n], f[n - 1])]

LEMMA GotExists ==
  ASSUME NEW sp, NEW src, NEW m \in Nat
  PROVE  \E f : IsGot(f, m, sp, src)
<1> DEFINE Bad == {k \in 0..m : ~ \E f : IsGot(f, k, sp, src)}
<1>1. SUFFICES ASSUME Bad # {} PROVE FALSE
  OBVIOUS
<1>2. Bad \in SUBSET Int /\ IsFiniteSet(Bad)
  <2>1. IsFiniteSet(0..m) /\ Bad \in SUBSET (0..m)
    BY FS_Interval
  <2> QED BY <2>1, FS_Subset
<1>3. PICK k \in Bad : \A i \in Bad : k <= i
  <2> HIDE DEF Bad
  <2> QED BY <1>1, <1>2, MinIsFirst
<1>4. k \in 0..m /\ ~ \E f : IsGot(f, k, sp, src)
  OBVIOUS
<1>5. k # 0
  <2>1. IsGot([n \in 0..0 |-> << >>], 0, sp, src)
    BY DEF IsGot
  <2> QED BY <1>4, <2>1
<1>6. k - 1 \in 0..m /\ k - 1 \notin Bad
  <2>1. k - 1 \in 0..m /\ ~(k <= k - 1)
    BY <1>4, <1>5
  <2> QED BY <1>3, <2>1
<1>7. PICK f : IsGot(f, k - 1, sp, src)
  BY <1>6
<1> DEFINE g == [n \in 0..k |-> IF n = k THEN WithRepo(sp, src, GitHubRepos(sp)[k], f[k - 1])
                                ELSE f[n]]
<1>8. ASSUME NEW n \in 0..k
      PROVE  g[n] = IF n = 0 THEN << >> ELSE WithRepo(sp, src, GitHubRepos(sp)[n], g[n - 1])
  <2>1. CASE n = k
    <3>1. k - 1 \in 0..k /\ k - 1 # k /\ k \in 0..k
      BY <1>4, <1>5
    <3> QED BY <1>5, <2>1, <3>1
  <2>2. CASE n # k /\ n # 0
    <3>1. n \in 0..(k - 1) /\ n - 1 \in 0..k /\ n - 1 # k
      BY <1>4, <2>2
    <3>2. f[n] = WithRepo(sp, src, GitHubRepos(sp)[n], f[n - 1])
      BY <1>7, <2>2, <3>1 DEF IsGot
    <3> QED BY <2>2, <3>1, <3>2
  <2>3. CASE n = 0
    <3>1. n \in 0..(k - 1)
      BY <1>4, <1>5, <2>3
    <3>2. f[n] = << >>
      BY <1>7, <2>3, <3>1 DEF IsGot
    <3> QED BY <1>5, <2>3, <3>2
  <2> QED BY <2>1, <2>2, <2>3
<1>9. IsGot(g, k, sp, src)
  BY <1>8 DEF IsGot
<1> QED BY <1>4, <1>9

LEMMA GotIs ==
  ASSUME NEW sp, NEW src, Len(GitHubRepos(sp)) \in Nat
  PROVE  IsGot(GitHubGot(sp, src), Len(GitHubRepos(sp)), sp, src)
<1> DEFINE m == Len(GitHubRepos(sp))
<1>1. m \in Nat
  OBVIOUS
<1>2. GitHubGot(sp, src) = CHOOSE f : IsGot(f, m, sp, src)
  BY DEF GitHubGot, IsGot
<1> HIDE DEF m
<1>3. \E f : IsGot(f, m, sp, src)
  BY <1>1, GotExists
<1>4. IsGot(CHOOSE f : IsGot(f, m, sp, src), m, sp, src)
  BY <1>3
<1> QED BY <1>2, <1>4 DEF m

\* The table, repo by repo.
LEMMA GotSteps ==
  ASSUME NEW sp, NEW src, Len(GitHubRepos(sp)) \in Nat
  PROVE  /\ GitHubGot(sp, src)[0] = << >>
         /\ \A n \in 1..Len(GitHubRepos(sp)) :
              GitHubGot(sp, src)[n] = WithRepo(sp, src, GitHubRepos(sp)[n], GitHubGot(sp, src)[n - 1])
<1> DEFINE m == Len(GitHubRepos(sp))
           f == GitHubGot(sp, src)
<1>1. IsGot(f, m, sp, src) /\ m \in Nat
  BY GotIs
<1> HIDE DEF m, f
<1>2. f[0] = << >>
  <2>1. 0 \in 0..m
    BY <1>1
  <2> QED BY <1>1, <2>1 DEF IsGot
<1>3. ASSUME NEW n \in 1..m
      PROVE  f[n] = WithRepo(sp, src, GitHubRepos(sp)[n], f[n - 1])
  <2>1. n \in 0..m /\ n # 0
    BY <1>1
  <2> QED BY <1>1, <2>1 DEF IsGot
<1> QED BY <1>2, <1>3 DEF m, f

\* Once there are enough rows, no other repo adds to them.
LEMMA EnoughStays ==
  ASSUME NEW sp, NEW src, Len(GitHubRepos(sp)) \in Nat, NEW n \in 0..Len(GitHubRepos(sp)),
         Len(GitHubGot(sp, src)[n]) >= Target(sp)
  PROVE  GitHubRows(sp, src) = GitHubGot(sp, src)[n]
<1> DEFINE m == Len(GitHubRepos(sp))
           f == GitHubGot(sp, src)
           Bad == {k \in n..m : f[k] # f[n]}
<1>1. m \in Nat /\ n \in 0..m
  OBVIOUS
<1>2. \A k \in 1..m : f[k] = WithRepo(sp, src, GitHubRepos(sp)[k], f[k - 1])
  BY GotSteps
<1>3. Len(f[n]) >= Target(sp)
  OBVIOUS
<1> HIDE DEF m, f
<1>4. ASSUME Bad # {} PROVE FALSE
  <2>1. Bad \in SUBSET Int /\ IsFiniteSet(Bad)
    <3>1. n \in Int /\ m \in Int /\ Bad \in SUBSET (n..m)
      BY <1>1
    <3>2. IsFiniteSet(n..m) /\ n..m \in SUBSET Int
      BY <3>1, FS_Interval
    <3> HIDE DEF Bad
    <3> QED BY <3>1, <3>2, FS_Subset
  <2>2. PICK k \in Bad : \A i \in Bad : k <= i
    <3> HIDE DEF Bad
    <3> QED BY <1>4, <2>1, MinIsFirst
  <2>3. k \in n..m /\ f[k] # f[n]
    OBVIOUS
  <2>4. k # n /\ k \in 1..m /\ k - 1 \in n..m /\ ~(k <= k - 1)
    BY <1>1, <2>3
  <2>5. f[k - 1] = f[n]
    BY <2>2, <2>4
  <2>6. f[k] = f[k - 1]
    BY <1>2, <1>3, <2>4, <2>5 DEF WithRepo
  <2> QED BY <2>3, <2>5, <2>6
<1>5. m \in n..m
  BY <1>1
<1>6. f[m] = f[n]
  BY <1>4, <1>5
<1> QED BY <1>6 DEF GitHubRows, m, f

\* The least number of pages that hold n rows.
LEMMA PagesCover ==
  ASSUME NEW n \in Nat, NEW p \in Nat \ {0}
  PROVE  /\ (n + p - 1) \div p \in Nat
         /\ p * ((n + p - 1) \div p) >= n
         /\ p * ((n + p - 1) \div p) < n + p
  BY SMT

LEMMA TimesGrows ==
  ASSUME NEW i \in Nat, NEW j \in Nat, i <= j, NEW p \in Nat
  PROVE  i * p <= j * p
<1>1. PICK e \in Nat : j = i + e
  BY j - i \in Nat
<1>2. j * p = i * p + e * p /\ e * p \in Nat /\ i * p \in Nat
  BY <1>1
<1> QED BY <1>2

\* The page after k pages is the last of those that hold n rows.
LEMMA LastPage ==
  ASSUME NEW list \in Seq(Version), NEW n \in Nat \ {0}, NEW k \in Nat, k < PageLimit,
         k * PageSize < n, NEW e \in Nat, 
         e \in {k * PageSize + PageSize, Len(list)},
         e <= k * PageSize + PageSize, e <= Len(list),
         \/ e >= n
         \/ e = Len(list)
         \/ k + 1 = PageLimit
  PROVE  WholePages(list, n) = SubSeq(list, 1, e)
<1> DEFINE P == PageSize
           len == Len(list)
           c == (n + P - 1) \div P
           asked == c * P
           limit == PageLimit * P
           here == k * P + P
<1>1. P \in Nat \ {0} /\ PageLimit \in Nat \ {0} /\ len \in Nat
  BY SizesAre, LenProperties
<1>2. c \in Nat /\ P * c >= n /\ P * c < n + P
  BY <1>1, PagesCover
<1>3. asked = P * c /\ asked \in Nat /\ here \in Nat /\ (k + 1) * P = here
  <2> HIDE DEF c
  <2> QED BY <1>1, <1>2
<1> HIDE DEF c
<1>4. here <= asked
  <2>1. SUFFICES ASSUME c <= k PROVE FALSE
    <3>1. ~(c <= k) => k + 1 <= c
      BY <1>2
    <3> QED BY <1>1, <1>2, <1>3, <2>1, <3>1, TimesGrows
  <2>2. c * P <= k * P /\ k * P \in Nat
    BY <1>1, <1>2, <2>1, TimesGrows
  <2> QED BY <1>1, <1>2, <1>3, <2>2
<1>5. n <= here => asked <= here
  <2>1. SUFFICES ASSUME n <= here, k + 2 <= c PROVE FALSE
    <3>1. ~(k + 2 <= c) => c <= k + 1
      BY <1>2
    <3> QED BY <1>1, <1>2, <1>3, <2>1, <3>1, TimesGrows
  <2>2. (k + 2) * P <= c * P /\ (k + 2) * P = here + P
    BY <1>1, <1>2, <2>1, TimesGrows
  <2> QED BY <1>1, <1>2, <1>3, <2>1, <2>2
<1>6. here <= limit /\ limit \in Nat /\ (k + 1 = PageLimit => limit = here)
  <2>1. k + 1 <= PageLimit
    BY <1>1
  <2> QED BY <1>1, <1>3, <2>1, TimesGrows
<1> HIDE DEF P, len, asked, limit, here
<1>7. /\ Min({len, asked, limit}) \in {len, asked, limit}
      /\ Min({len, asked, limit}) <= len
      /\ Min({len, asked, limit}) <= asked
      /\ Min({len, asked, limit}) <= limit
  <2>1. len \in Int /\ asked \in Int /\ limit \in Int
    BY <1>1, <1>3, <1>6
  <2> QED BY <2>1, LeastOfThree
<1>8. e \in {here, len} /\ e <= here /\ e <= len /\ (e >= n \/ e = len \/ k + 1 = PageLimit)
  BY DEF here, len, P
<1>9. Min({len, asked, limit}) = e
  <2> DEFINE least == Min({len, asked, limit})
  <2>1. least \in {len, asked, limit} /\ least <= len /\ least <= asked /\ least <= limit
    BY <1>7
  <2> HIDE DEF least
  <2>2. e <= least
    BY <1>1, <1>3, <1>4, <1>6, <1>8, <2>1
  <2>3. least <= e
    <3>1. CASE e = len
      BY <2>1, <3>1
    <3>2. CASE e = here /\ k + 1 = PageLimit
      BY <1>6, <2>1, <3>2
    <3>3. CASE e = here /\ e >= n
      <4>1. asked <= here
        BY <1>3, <1>5, <3>3
      <4>2. asked \in Int /\ here \in Int /\ least \in Int
        BY <1>1, <1>3, <1>6, <2>1
      <4> QED BY <2>1, <3>3, <4>1, <4>2
    <3> QED BY <1>8, <3>1, <3>2, <3>3
  <2>4. least \in Int
    BY <1>1, <1>3, <1>6, <2>1
  <2> QED BY <2>2, <2>3, <2>4 DEF least
<1>10. WholePages(list, n) = SubSeq(list, 1, Min({len, asked, limit}))
  BY DEF WholePages, len, asked, limit, c, P
<1> QED BY <1>9, <1>10

\* The rows of the repos that were paged before this one.
Before == IF kind = "github" THEN GitHubGot(plan, rows)[repo - 1] ELSE << >>

\* While paging, whole pages of the list were read: fewer rows than are wanted, and not
\* all of the list.
SoFar ==
  /\ Before \in Seq(Version) /\ got = Before \o SubSeq(Listing, 1, pages * PageSize)
  /\ Len(Before) + pages * PageSize < Target(plan)
  /\ pages # 0 => pages * PageSize < Len(Listing)
  /\ First = pages * PageSize + 1

\* At the end, what Sources says was read.
Whole == got = IF kind = "github" THEN GitHubRows(plan, rows) ELSE JiraRows(plan, rows)

AsSources ==
  /\ changes \in Nat /\ (L = << >> => got = << >>)
  /\ changes = 0 /\ most >= PageSize =>
       /\ status = "paging" => SoFar
       /\ status = "done" => Whole

LEMMA TargetIs ==
  ASSUME Shape
  PROVE  Target(plan) \in Nat \ {0}
<1>1. plan.limit \in Int /\ PageLimit \in Nat \ {0} /\ PageSize \in Nat \ {0}
  BY LivePagingAssumption, SizesAre DEF Shape
<1>2. PageLimit * PageSize \in Nat \ {0}
  <2>1. 1 * PageSize <= PageLimit * PageSize
    BY <1>1, TimesGrows
  <2> QED BY <1>1, <2>1
<1> DEFINE l == plan.limit
<1>3. l \in Int /\ 1 \in Int
  BY <1>1
<1> HIDE DEF l
<1>4. Max({l, 1}) \in {l, 1} /\ 1 <= Max({l, 1})
  BY <1>3, LesserOfTwo
<1>5. Max({l, 1}) \in Nat \ {0}
  BY <1>3, <1>4
<1> QED BY <1>2, <1>5 DEF Target, l

\* The beginning of a list.
LEMMA BeginningIs ==
  ASSUME NEW list \in Seq(Version), NEW e \in 0..Len(list)
  PROVE  SubSeq(list, 1, e) \in Seq(Version) /\ Len(SubSeq(list, 1, e)) = e
<1>1. Len(list) \in Nat /\ e \in Nat /\ e <= Len(list) /\ e \in Int /\ 1 \in Int
  BY LenProperties
<1>2. \A i \in 1..e : list[i] \in Version
  BY <1>1, ElementOfSeq
<1>3. /\ SubSeq(list, 1, e) \in Seq(Version)
      /\ Len(SubSeq(list, 1, e)) = IF 1 <= e THEN e - 1 + 1 ELSE 0
  BY <1>1, <1>2, SubSeqProperties
<1> QED BY <1>1, <1>3

LEMMA PutTogether ==
  ASSUME NEW a \in Seq(Version), NEW b \in Seq(Version), NEW c \in Seq(Version)
  PROVE  (a \o b) \o c = a \o (b \o c)
  BY ConcatAssociative

\* A part of a list, and the next.
LEMMA GoesOnWith ==
  ASSUME NEW before \in Seq(Version), NEW list \in Seq(Version),
         NEW m \in 0..Len(list), NEW e \in m..Len(list)
  PROVE  /\ (before \o SubSeq(list, 1, m)) \o SubSeq(list, m + 1, e) = before \o SubSeq(list, 1, e)
         /\ Len(before \o SubSeq(list, 1, e)) = Len(before) + e
         /\ Len(SubSeq(list, m + 1, e)) = e - m
<1>1. Len(list) \in Nat /\ m \in Nat /\ e \in Nat /\ m <= e /\ e <= Len(list)
  BY LenProperties
<1>2. 1 \in 1..(Len(list) + 1) /\ m \in (1 - 1)..Len(list) /\ e \in m..Len(list)
  BY <1>1
<1>3. SubSeq(list, 1, m) \o SubSeq(list, m + 1, e) = SubSeq(list, 1, e)
  BY <1>2, ConcatAdjacentSubSeq
<1>4. SubSeq(list, 1, m) \in Seq(Version) /\ SubSeq(list, 1, e) \in Seq(Version)
      /\ Len(SubSeq(list, 1, e)) = e
  BY <1>1, BeginningIs
<1>5. \A i \in (m + 1)..e : list[i] \in Version
  BY <1>1, ElementOfSeq
<1>6. m + 1 \in Int /\ e \in Int
  BY <1>1
<1>7. /\ SubSeq(list, m + 1, e) \in Seq(Version)
      /\ Len(SubSeq(list, m + 1, e)) = IF m + 1 <= e THEN e - (m + 1) + 1 ELSE 0
  BY <1>5, <1>6, SubSeqProperties
<1>8. Len(SubSeq(list, m + 1, e)) = e - m
  BY <1>1, <1>7
<1>9. (before \o SubSeq(list, 1, m)) \o SubSeq(list, m + 1, e)
        = before \o (SubSeq(list, 1, m) \o SubSeq(list, m + 1, e))
  <2> DEFINE x == SubSeq(list, 1, m)
             y == SubSeq(list, m + 1, e)
  <2>1. x \in Seq(Version) /\ y \in Seq(Version)
    BY <1>4, <1>7
  <2> HIDE DEF x, y
  <2>2. (before \o x) \o y = before \o (x \o y)
    BY <2>1, PutTogether, Zenon
  <2> QED BY <2>2 DEF x, y
<1>10. Len(before \o SubSeq(list, 1, e)) = Len(before) + e
  BY <1>4, ConcatProperties
<1> QED BY <1>3, <1>8, <1>9, <1>10

\* The sizes of what was read.
LEMMA SoFarIs ==
  ASSUME Shape, SoFar
  PROVE  /\ Listing \in Seq(Version) /\ Len(Listing) \in Nat
         /\ Before \in Seq(Version) /\ Len(Before) \in Nat
         /\ pages * PageSize \in 0..Len(Listing)
         /\ Len(got) = Len(Before) + pages * PageSize
<1> DEFINE m == pages * PageSize
           list == Listing
<1>1. list \in Seq(Version)
  BY ListingIs DEF Shape, Listing
<1>2. Len(list) \in Nat /\ Len(Before) \in Nat /\ Before \in Seq(Version)
  BY <1>1, LenProperties DEF SoFar
<1>3. m \in Nat /\ (pages = 0 => m = 0)
  <2>1. pages \in Nat /\ PageSize \in Nat
    BY SizesAre DEF Shape
  <2> QED BY <2>1
<1>4. m \in 0..Len(list) /\ got = Before \o SubSeq(list, 1, m)
  BY <1>2, <1>3 DEF SoFar
<1> HIDE DEF m, list
<1>5. m \in m..Len(list)
  BY <1>2, <1>3, <1>4
<1>6. Len(Before \o SubSeq(list, 1, m)) = Len(Before) + m
  BY <1>1, <1>2, <1>4, <1>5, GoesOnWith
<1> QED BY <1>1, <1>2, <1>4, <1>6 DEF m, list

\* A request asks for a page, or for the rows that are still wanted.
LEMMA AskedIs ==
  ASSUME Shape, SoFar, most >= PageSize
  PROVE  /\ LastAsked \in Int /\ pages * PageSize < LastAsked
         /\ LastAsked <= pages * PageSize + PageSize
         /\ kind = "github" => LastAsked = pages * PageSize + PageSize
         /\ kind = "jira" => /\ LastAsked \in {pages * PageSize + PageSize, Target(plan)}
                             /\ LastAsked <= Target(plan)
<1> DEFINE m == pages * PageSize
           T == Target(plan)
<1>1. m \in Nat /\ Len(got) = Len(Before) + m /\ Len(Before) \in Nat
  <2>1. pages * PageSize \in 0..Len(Listing) /\ Len(Listing) \in Nat
    BY SoFarIs
  <2> QED BY <2>1, SoFarIs
<1>2. PageSize \in Nat \ {0} /\ T \in Nat \ {0} /\ most \in Nat
  BY SizesAre, TargetIs DEF Shape
<1>3. First = m + 1 /\ Len(Before) + m < T
  BY DEF SoFar
<1>4. LastAsked \in Int /\ (kind = "github" => LastAsked = First + PageSize - 1)
  BY FirstIs
<1> HIDE DEF m, T
<1>5. CASE kind = "github"
  BY <1>1, <1>2, <1>3, <1>4, <1>5 DEF m
<1>6. CASE kind = "jira"
  <2>1. Len(Before) = 0 /\ next = m + 1
    BY <1>3, <1>6 DEF Before, First
  <2> DEFINE wanted == T - Len(got)
  <2>2. wanted \in Nat \ {0} /\ wanted = T - m
    BY <1>1, <1>2, <1>3, <2>1
  <2> HIDE DEF wanted
  <2>3. Max({wanted, 1}) \in {wanted, 1} /\ wanted <= Max({wanted, 1}) /\ 1 <= Max({wanted, 1})
    <3>1. wanted \in Int /\ 1 \in Int
      BY <2>2
    <3> QED BY <3>1, LesserOfTwo
  <2>4. Max({wanted, 1}) = wanted
    BY <2>2, <2>3
  <2> DEFINE ask == Min({PageSize, wanted})
  <2>5. ask \in {PageSize, wanted} /\ ask <= PageSize /\ ask <= wanted
    <3>1. wanted \in Int /\ PageSize \in Int
      BY <1>2, <2>2
    <3> QED BY <3>1, LesserOfTwo
  <2>6. Ask = ask
    BY <2>4 DEF Ask, wanted, T
  <2> HIDE DEF ask
  <2>7. Min({ask, most}) = ask
    <3>1. ask \in Int /\ most \in Int /\ ask <= most
      BY <1>2, <2>2, <2>5
    <3>2. Min({ask, most}) \in {ask, most} /\ Min({ask, most}) <= ask
      BY <3>1, LesserOfTwo
    <3> QED BY <3>1, <3>2
  <2>8. LastAsked = m + ask
    <3>1. LastAsked = next + Min({Ask, most}) - 1
      BY <1>6 DEF LastAsked
    <3>2. ask \in Int
      BY <1>2, <2>2, <2>5
    <3> QED BY <1>1, <2>1, <2>6, <2>7, <3>1, <3>2
  <2>9. /\ LastAsked \in Int /\ m < LastAsked /\ LastAsked <= m + PageSize /\ LastAsked <= T
        /\ LastAsked \in {m + PageSize, T}
    BY <1>1, <1>2, <2>2, <2>5, <2>8
  <2> QED BY <1>6, <2>9 DEF m, T
<1> QED BY <1>5, <1>6 DEF Shape

\* The next page, with what was read before.
LEMMA PageReads ==
  ASSUME Shape, SoFar, most >= PageSize
  PROVE  \E e \in (pages * PageSize)..Len(Listing) :
           /\ e \in {LastAsked, Len(Listing)} /\ e <= LastAsked /\ e \in Nat
           /\ got \o Read = Before \o SubSeq(Listing, 1, e)
           /\ Len(got \o Read) = Len(Before) + e
           /\ Len(Read) = e - pages * PageSize
<1> DEFINE m == pages * PageSize
           list == Listing
           e == Min({LastAsked, Len(list)})
<1>1. list \in Seq(Version) /\ Len(list) \in Nat /\ Before \in Seq(Version) /\ m \in 0..Len(list)
  BY SoFarIs
<1>2. LastAsked \in Int /\ m < LastAsked
  BY AskedIs
<1>3. got = Before \o SubSeq(list, 1, m) /\ Read = SubSeq(list, m + 1, e)
  <2>1. First = m + 1
    BY DEF SoFar
  <2> QED BY <2>1 DEF SoFar, Read, Cut
<1>4. e \in {LastAsked, Len(list)} /\ e <= LastAsked /\ e <= Len(list)
  <2> DEFINE len == Len(list)
  <2>1. len \in Int
    BY <1>1
  <2> HIDE DEF len
  <2>2. /\ Min({LastAsked, len}) \in {LastAsked, len}
        /\ Min({LastAsked, len}) <= LastAsked /\ Min({LastAsked, len}) <= len
    BY <1>2, <2>1, LesserOfTwo
  <2> QED BY <2>2 DEF len
<1> HIDE DEF m, list, e
<1>5. e \in m..Len(list) /\ e \in Nat
  BY <1>1, <1>2, <1>4
<1>6. /\ (Before \o SubSeq(list, 1, m)) \o SubSeq(list, m + 1, e) = Before \o SubSeq(list, 1, e)
      /\ Len(Before \o SubSeq(list, 1, e)) = Len(Before) + e
      /\ Len(SubSeq(list, m + 1, e)) = e - m
  BY <1>1, <1>5, GoesOnWith
<1> QED BY <1>3, <1>4, <1>5, <1>6 DEF m, list

\* What stays of a page: the list and what was read before it.
LEMMA ListStays ==
  ASSUME UNCHANGED <<input, rows>>
  PROVE  /\ kind' = kind /\ plan' = plan /\ most' = most /\ rows' = rows /\ L' = L
         /\ Target(plan)' = Target(plan)
         /\ GitHubRows(plan, rows)' = GitHubRows(plan, rows)
         /\ JiraRows(plan, rows)' = JiraRows(plan, rows)
         /\ repo' = repo => Listing' = Listing /\ Before' = Before
<1>1. kind' = kind /\ plan' = plan /\ most' = most /\ rows' = rows
  BY DEF input
<1>2. L' = L
  BY <1>1 DEF L, Lists
<1>3. /\ GitHubRows(plan, rows)' = GitHubRows(plan, rows)
      /\ JiraRows(plan, rows)' = JiraRows(plan, rows)
      /\ Target(plan)' = Target(plan)
  BY <1>1
<1>4. ASSUME repo' = repo PROVE Listing' = Listing /\ Before' = Before
  BY <1>1, <1>2, <1>4 DEF Listing, ListingOf, Before
<1> QED BY <1>1, <1>2, <1>3, <1>4

\* The rows of a repo that was paged, and those of the repos before it.
LEMMA RepoRead ==
  ASSUME kind = "github", repo \in DOMAIN L, Before \in Seq(Version), Len(Before) < Target(plan),
         Target(plan) \in Nat
  PROVE  /\ Len(GitHubRepos(plan)) \in Nat /\ repo \in 1..Len(GitHubRepos(plan))
         /\ GitHubGot(plan, rows)[repo] = Before \o WholePages(Listing, Target(plan) - Len(Before))
<1>1. L = GitHubRepos(plan) /\ Before = GitHubGot(plan, rows)[repo - 1]
      /\ Listing = GitHubListing(plan, GitHubRepos(plan)[repo], rows)
  BY DEF L, Lists, Before, Listing, ListingOf
<1>2. Len(GitHubRepos(plan)) \in Nat /\ repo \in 1..Len(GitHubRepos(plan))
  BY <1>1, ListsAre
<1>3. GitHubGot(plan, rows)[repo] = WithRepo(plan, rows, GitHubRepos(plan)[repo], Before)
  BY <1>1, <1>2, GotSteps
<1>4. Len(Before) \in Nat
  BY LenProperties
<1>5. ~(Len(Before) >= Target(plan))
  BY <1>4
<1> QED BY <1>1, <1>2, <1>3, <1>5 DEF WithRepo

LEMMA GitHubPageAsOne ==
  ASSUME Shape, SoFar, Page, kind = "github", most >= PageSize
  PROVE  (status' = "paging" => SoFar') /\ (status' = "done" => Whole')
<1> DEFINE m == pages * PageSize
           T == Target(plan)
           len == Len(Listing)
           list == GitHubListing(plan, GitHubRepos(plan)[repo], rows)
           more == next * PageSize < Len(list)
           last == repo = Len(GitHubRepos(plan))
<1>1. PICK e \in m..len :
        /\ e \in {LastAsked, len} /\ e <= LastAsked /\ e \in Nat
        /\ got \o Read = Before \o SubSeq(Listing, 1, e)
        /\ Len(got \o Read) = Len(Before) + e
  BY PageReads
<1>2. LastAsked = m + PageSize /\ LastAsked \in Int
  BY AskedIs
<1>3. /\ Listing \in Seq(Version) /\ len \in Nat /\ Before \in Seq(Version) /\ Len(Before) \in Nat
      /\ m \in 0..len /\ m \in Nat
  BY SoFarIs
<1>4. PageSize \in Nat \ {0} /\ T \in Nat \ {0} /\ Len(Before) + m < T
  BY SizesAre, TargetIs DEF SoFar
<1>5. got' = got \o Read /\ repo \in DOMAIN L /\ L # << >>
  BY PageIs
<1>6. status = "paging" /\ GitHubPage /\ UNCHANGED <<input, rows>>
  BY DEF Page
<1>7. /\ kind' = kind /\ plan' = plan /\ rows' = rows /\ L' = L /\ Target(plan)' = T
      /\ GitHubRows(plan, rows)' = GitHubRows(plan, rows)
      /\ repo' = repo => Listing' = Listing /\ Before' = Before
  BY <1>6, ListStays
<1>8. L = GitHubRepos(plan) /\ list = Listing /\ LastAsked = next * PageSize
  BY DEF L, Lists, Listing, ListingOf, LastAsked
<1>9. more <=> LastAsked < len
  BY <1>8
<1>10. Enough <=> Len(Before) + e >= T
  BY <1>1, <1>5 DEF Enough
<1>11. pages \in Nat /\ pages < PageLimit /\ PageLimit \in Nat
  BY <1>6, SizesAre DEF Shape
<1>12. CASE ~Enough /\ more /\ pages + 1 < PageLimit
  <2>1. next' = next + 1 /\ pages' = pages + 1 /\ UNCHANGED <<repo, status>>
    BY <1>6, <1>12 DEF GitHubPage
  <2>2. Listing' = Listing /\ Before' = Before
    BY <1>7, <2>1
  <2>3. pages' * PageSize = m + PageSize
    BY <1>4, <1>11, <2>1
  <2> HIDE DEF m, len, T
  <2>4. e = m + PageSize /\ e < len
    BY <1>1, <1>2, <1>3, <1>9, <1>12
  <2>5. Len(Before) + e < T
    BY <1>1, <1>3, <1>4, <1>10, <1>12
  <2>6. First' = m + PageSize + 1
    <3>1. next' = next + 1 /\ next \in Int /\ kind' = "github"
      BY <1>7, <2>1 DEF Shape
    <3>2. (next + 1) - 1 = next
      BY <3>1
    <3> QED BY <1>2, <1>8, <3>1, <3>2 DEF First
  <2>7. SoFar'
    <3>1. Before' \in Seq(Version) /\ got' = Before' \o SubSeq(Listing', 1, pages' * PageSize)
      BY <1>1, <1>3, <1>5, <2>2, <2>3, <2>4
    <3>2. Len(Before') + pages' * PageSize < Target(plan)'
      BY <1>7, <2>2, <2>3, <2>4, <2>5
    <3>3. pages' * PageSize < Len(Listing') /\ First' = pages' * PageSize + 1
      BY <2>2, <2>3, <2>4, <2>6 DEF len
    <3> QED BY <3>1, <3>2, <3>3 DEF SoFar
  <2> QED BY <1>6, <2>1, <2>7
<1>13. CASE ~(~Enough /\ more /\ pages + 1 < PageLimit)
  <2>1. got' = GitHubGot(plan, rows)[repo]
    <3>1. WholePages(Listing, T - Len(Before)) = SubSeq(Listing, 1, e)
      <4> DEFINE n == T - Len(Before)
                 from == Listing
      <4>1. n \in Nat \ {0} /\ m < n
        <5> HIDE DEF m, T
        <5> QED BY <1>3, <1>4
      <4>2. /\ e \in Nat /\ e \in {m + PageSize, len} /\ e <= m + PageSize /\ e <= len
        <5> HIDE DEF m, len
        <5> QED BY <1>1, <1>2, <1>3
      <4>3. e >= n \/ e = len \/ pages + 1 = PageLimit
        <5>1. ASSUME Enough PROVE e >= n
          <6> HIDE DEF m, T
          <6> QED BY <1>1, <1>3, <1>4, <1>10, <5>1
        <5>2. ASSUME ~more PROVE e = len
          <6> HIDE DEF m, len
          <6> QED BY <1>1, <1>2, <1>3, <1>9, <5>2
        <5>3. ASSUME ~(pages + 1 < PageLimit) PROVE pages + 1 = PageLimit
          BY <1>11, <5>3
        <5> QED BY <1>13, <5>1, <5>2, <5>3
      <4>4. from \in Seq(Version) /\ len = Len(from)
        BY <1>3
      <4> HIDE DEF n, from
      <4>5. WholePages(from, n) = SubSeq(from, 1, e)
        BY <1>11, <4>1, <4>2, <4>3, <4>4, LastPage
      <4> QED BY <4>5 DEF n, from
    <3>2. Len(Before) < T
      <4> HIDE DEF m, T
      <4> QED BY <1>3, <1>4
    <3>3. GitHubGot(plan, rows)[repo] = Before \o WholePages(Listing, T - Len(Before))
      BY <1>3, <1>4, <1>5, <3>2, RepoRead
    <3> QED BY <1>1, <1>5, <3>1, <3>3
  <2>2. Len(GitHubRepos(plan)) \in Nat /\ repo \in 1..Len(GitHubRepos(plan))
    BY <1>5, <1>8, ListsAre
  <2>3. CASE Enough \/ last
    <3>1. status' = "done"
      BY <1>6, <1>13, <2>3 DEF GitHubPage, Finish
    <3>2. ASSUME Enough PROVE got' = GitHubRows(plan, rows)
      <4>1. Len(GitHubGot(plan, rows)[repo]) >= T
        BY <2>1, <3>2 DEF Enough
      <4>2. repo \in 0..Len(GitHubRepos(plan))
        BY <2>2
      <4> QED BY <2>1, <2>2, <4>1, <4>2, EnoughStays
    <3>3. ASSUME last PROVE got' = GitHubRows(plan, rows)
      BY <2>1, <3>3 DEF GitHubRows
    <3>4. Whole'
      BY <1>7, <2>3, <3>2, <3>3 DEF Whole
    <3> QED BY <3>1, <3>4
  <2>4. CASE ~(Enough \/ last)
    <3>1. repo' = repo + 1 /\ next' = 1 /\ pages' = 0 /\ UNCHANGED status
      BY <1>6, <1>13, <2>4 DEF GitHubPage
    <3>2. Before' = got'
      <4>1. repo' - 1 = repo
        BY <2>2, <3>1
      <4>2. Before' = GitHubGot(plan, rows)[repo' - 1]
        BY <1>7 DEF Before
      <4> QED BY <2>1, <4>1, <4>2
    <3>3. got' \in Seq(Version) /\ Len(got') \in Nat /\ Len(got') < T
      <4>1. got' \in Seq(Version)
        <5>1. got \in Seq(Version) /\ Read \in Seq(Version)
          BY PageIs DEF Shape
        <5> HIDE DEF Read
        <5> QED BY <1>5, <5>1, ConcatProperties
      <4>2. Len(got') \in Nat
        BY <4>1, LenProperties
      <4>3. ~(Len(got') >= T)
        BY <2>4 DEF Enough
      <4> QED BY <1>4, <4>1, <4>2, <4>3
    <3>4. pages' * PageSize = 0 /\ First' = 1
      <4>1. 0 * PageSize = 0 /\ 1 - 1 = 0
        BY <1>4
      <4> QED BY <1>7, <3>1, <4>1 DEF First
    <3>5. SubSeq(Listing', 1, 0) = << >>
      <4>1. 0 \in Int /\ 1 \in Int /\ 0 < 1
        OBVIOUS
      <4> QED BY <4>1, SubSeqEmpty
    <3>6. got' \o << >> = got'
      <4> DEFINE all == got'
      <4>1. all \in Seq(Version)
        BY <3>3
      <4> HIDE DEF all
      <4>2. all \o << >> = all
        BY <4>1, ConcatEmptySeq
      <4> QED BY <4>2 DEF all
    <3>7. Before' \in Seq(Version) /\ Len(Before') + 0 < Target(plan)'
      BY <1>4, <1>7, <3>2, <3>3
    <3>8. got' = Before' \o SubSeq(Listing', 1, pages' * PageSize)
      BY <3>2, <3>4, <3>5, <3>6
    <3>9. SoFar'
      <4>1. pages' = 0 /\ First' = pages' * PageSize + 1
        BY <3>1, <3>4
      <4> QED BY <3>4, <3>7, <3>8, <4>1 DEF SoFar
    <3> QED BY <1>6, <3>1, <3>9
  <2> QED BY <2>3, <2>4
<1> QED BY <1>12, <1>13

LEMMA JiraPageAsOne ==
  ASSUME Shape, SoFar, Page, kind = "jira", most >= PageSize
  PROVE  (status' = "paging" => SoFar') /\ (status' = "done" => Whole')
<1> DEFINE m == pages * PageSize
           T == Target(plan)
           len == Len(Listing)
           start == next + Len(Issues)
           limit == PageLimit * PageSize
<1>1. PICK e \in m..len :
        /\ e \in {LastAsked, len} /\ e <= LastAsked /\ e \in Nat
        /\ got \o Read = Before \o SubSeq(Listing, 1, e)
        /\ Len(got \o Read) = Len(Before) + e
        /\ Len(Read) = e - m
  BY PageReads
<1>2. /\ LastAsked \in Int /\ m < LastAsked /\ LastAsked <= m + PageSize
      /\ LastAsked \in {m + PageSize, T} /\ LastAsked <= T
  BY AskedIs
<1>3. Listing \in Seq(Version) /\ len \in Nat /\ m \in 0..len /\ m \in Nat
  BY SoFarIs
<1>4. PageSize \in Nat \ {0} /\ T \in Nat \ {0} /\ Before = << >>
  BY SizesAre, TargetIs DEF Before
<1>5. status = "paging" /\ JiraPage /\ UNCHANGED <<input, rows>>
  BY DEF Page
<1>6. got' = got \o Read /\ Read \in Seq(Version) /\ repo \in DOMAIN L
  BY PageIs
<1>7. repo = 1 /\ JiraListing(plan, rows) = Listing /\ Issues = Read /\ First = next
  <2>1. L = << <<"jira", 0>> >> /\ First = next /\ LastAsked = next + Min({Ask, most}) - 1
    BY DEF L, Lists, First, LastAsked
  <2>2. repo = 1
    <3>1. Len(L) = 1 /\ DOMAIN L = 1..1
      BY <2>1
    <3> QED BY <1>6, <3>1
  <2>3. JiraListing(plan, rows) = Listing
    BY DEF Listing, ListingOf
  <2> QED BY <2>1, <2>2, <2>3 DEF Issues, Read
<1>8. got' = SubSeq(Listing, 1, e) /\ Len(got') = e
  <2>1. SubSeq(Listing, 1, e) \in Seq(Version) /\ Len(SubSeq(Listing, 1, e)) = e
    <3>1. e \in 0..len
      BY <1>1, <1>3
    <3> QED BY <1>3, <3>1, BeginningIs
  <2> DEFINE part == SubSeq(Listing, 1, e)
  <2>2. part \in Seq(Version)
    BY <2>1
  <2> HIDE DEF part
  <2>3. << >> \o part = part
    BY <2>2, ConcatEmptySeq
  <2> QED BY <1>1, <1>4, <1>6, <2>1, <2>3 DEF part
<1>9. /\ kind' = kind /\ plan' = plan /\ rows' = rows /\ Target(plan)' = T
      /\ JiraRows(plan, rows)' = JiraRows(plan, rows)
      /\ repo' = repo => Listing' = Listing /\ Before' = Before
  BY <1>5, ListStays
<1>10. /\ pages' = pages + 1 /\ next' = start /\ repo' = repo
       /\ IF start > len \/ Issues = << >> \/ Enough \/ pages + 1 = PageLimit
          THEN Finish ELSE status' = status
  BY <1>5, <1>7 DEF JiraPage, JiraStep
<1>11. start = e + 1
  <2>1. next = m + 1
    BY <1>7 DEF SoFar
  <2> HIDE DEF m, len
  <2> QED BY <1>1, <1>3, <1>7, <2>1
<1>12. Enough <=> e >= T
  BY <1>8 DEF Enough
<1>13. pages \in Nat /\ pages + 1 <= PageLimit /\ PageLimit \in Nat
  <2>1. pages < PageLimit
    BY <1>5 DEF Shape
  <2> QED BY <2>1, SizesAre DEF Shape
<1>14. pages' * PageSize = m + PageSize
  BY <1>4, <1>10, <1>13
<1>15. m + PageSize <= limit /\ limit \in Nat /\ (pages + 1 = PageLimit => limit = m + PageSize)
  <2>1. (pages + 1) * PageSize <= limit /\ (pages + 1) * PageSize = m + PageSize
    BY <1>4, <1>13, TimesGrows
  <2> QED BY <1>4, <1>13, <2>1
<1>16. CASE start > len \/ Issues = << >> \/ Enough \/ pages + 1 = PageLimit
  <2>1. status' = "done"
    BY <1>10, <1>16 DEF Finish
  <2> DEFINE least == Min({len, T, limit})
  <2>2. least \in {len, T, limit} /\ least <= len /\ least <= T /\ least <= limit
    <3>1. len \in Int /\ T \in Int /\ limit \in Int
      BY <1>3, <1>4, <1>15
    <3> HIDE DEF len, T, limit
    <3> QED BY <3>1, LeastOfThree
  <2>3. e = len \/ e >= T \/ pages + 1 = PageLimit
    <3>1. ASSUME Issues = << >> PROVE e = len
      <4>1. Len(Read) = 0
        BY <1>7, <3>1
      <4> HIDE DEF m, len
      <4> QED BY <1>1, <1>2, <1>3, <4>1
    <3>2. ASSUME start > len PROVE e = len
      <4> HIDE DEF m, len, start
      <4> QED BY <1>1, <1>3, <1>11, <3>2
    <3> QED BY <1>12, <1>16, <3>1, <3>2
  <2>4. JiraRows(plan, rows) = SubSeq(Listing, 1, least)
    BY <1>7 DEF JiraRows, least, len, T, limit
  <2> HIDE DEF m, T, len, least, limit
  <2>5. e \in Int /\ len \in Int /\ T \in Int /\ limit \in Int /\ least \in Int /\ m \in Int
    BY <1>1, <1>3, <1>4, <1>15, <2>2
  <2>6. e <= len /\ e <= T /\ e <= limit
    BY <1>1, <1>2, <1>4, <1>15, <2>5
  <2>7. least <= e
    <3>1. CASE e = len
      BY <2>2, <3>1
    <3>2. CASE e >= T
      BY <2>2, <2>5, <3>2
    <3>3. CASE pages + 1 = PageLimit /\ e = LastAsked
      BY <1>2, <1>15, <2>2, <3>3
    <3> QED BY <1>1, <2>3, <3>1, <3>2, <3>3
  <2>8. least = e
    BY <2>2, <2>5, <2>6, <2>7
  <2>9. got' = JiraRows(plan, rows)
    BY <1>8, <2>4, <2>8
  <2>10. Whole'
    BY <1>9, <2>9 DEF Whole
  <2> QED BY <2>1, <2>10
<1>17. CASE ~(start > len \/ Issues = << >> \/ Enough \/ pages + 1 = PageLimit)
  <2>1. status' = status
    BY <1>10, <1>17
  <2>2. Listing' = Listing /\ Before' = << >>
    BY <1>4, <1>9, <1>10
  <2>3. e < len /\ e < T /\ e = m + PageSize
    <3> HIDE DEF m, T, len, start
    <3>1. e < len
      BY <1>1, <1>3, <1>11, <1>17
    <3>2. e < T
      BY <1>1, <1>4, <1>12, <1>17
    <3> QED BY <1>1, <1>2, <3>1, <3>2
  <2>4. First' = m + PageSize + 1
    BY <1>9, <1>10, <1>11, <2>3 DEF First
  <2>5. got' = Before' \o SubSeq(Listing', 1, pages' * PageSize)
    <3> DEFINE part == SubSeq(Listing, 1, e)
    <3>1. part \in Seq(Version)
      <4>1. e \in 0..len
        BY <1>1, <1>3
      <4> QED BY <1>3, <4>1, BeginningIs
    <3>2. SubSeq(Listing', 1, pages' * PageSize) = part
      BY <1>14, <2>2, <2>3
    <3> HIDE DEF part
    <3>3. << >> \o part = part
      BY <3>1, ConcatEmptySeq
    <3> QED BY <1>8, <2>2, <3>2, <3>3 DEF part
  <2>6. Before' \in Seq(Version) /\ Len(Before') = 0
    BY <2>2
  <2>7. Len(Before') + pages' * PageSize < Target(plan)'
    <3> HIDE DEF m, T
    <3> QED BY <1>1, <1>4, <1>9, <1>14, <2>3, <2>6
  <2>8. SoFar'
    BY <1>14, <2>2, <2>3, <2>4, <2>5, <2>6, <2>7 DEF SoFar
  <2> QED BY <1>5, <2>1, <2>8
<1> QED BY <1>16, <1>17

LEMMA AsSourcesInit ==
  ASSUME Init, Shape
  PROVE  AsSources
<1>1. /\ repo = 1 /\ next = 1 /\ pages = 0 /\ got = << >> /\ status = "paging" /\ changes = 0
  BY DEF Init
<1>2. Before = << >>
  <2>1. CASE kind = "github"
    <3>1. Len(GitHubRepos(plan)) \in Nat
      BY <2>1, ListsAre DEF L, Lists
    <3>2. GitHubGot(plan, rows)[0] = << >>
      BY <3>1, GotSteps
    <3>3. repo - 1 = 0
      BY <1>1
    <3> QED BY <2>1, <3>2, <3>3 DEF Before
  <2>2. CASE kind # "github"
    BY <2>2 DEF Before
  <2> QED BY <2>1, <2>2
<1>3. PageSize \in Nat \ {0} /\ Target(plan) \in Nat \ {0}
  BY SizesAre, TargetIs
<1>4. pages * PageSize = 0 /\ First = 1 /\ SubSeq(Listing, 1, 0) = << >>
  <2>1. 0 * PageSize = 0 /\ 1 - 1 = 0
    BY <1>3
  <2>2. First = 1
    BY <1>1, <2>1 DEF First
  <2>3. 0 \in Int /\ 1 \in Int /\ 0 < 1
    OBVIOUS
  <2> QED BY <1>1, <2>1, <2>2, <2>3, SubSeqEmpty
<1>5. << >> \in Seq(Version) /\ << >> \o << >> = << >> /\ Len(<< >>) = 0
  OBVIOUS
<1>6. SoFar
  <2>1. Len(Before) + pages * PageSize < Target(plan)
    BY <1>2, <1>3, <1>4, <1>5
  <2>2. got = Before \o SubSeq(Listing, 1, pages * PageSize)
    BY <1>1, <1>2, <1>4, <1>5
  <2> QED BY <1>1, <1>2, <1>4, <1>5, <2>1, <2>2 DEF SoFar
<1> QED BY <1>1, <1>6 DEF AsSources

LEMMA AsSourcesNext ==
  ASSUME Shape, AsSources, [Next]_vars
  PROVE  AsSources'
<1>1. CASE Page
  <2>1. UNCHANGED <<input, rows, observer>> /\ status = "paging"
    BY <1>1 DEF Page
  <2>2. changes' = changes /\ most' = most
    BY <2>1 DEF observer, input
  <2>4. L' = L /\ L # << >> /\ changes \in Nat
    BY <1>1, <2>1, PageIs, ListStays DEF AsSources
  <2>3. ASSUME changes = 0, most >= PageSize
        PROVE  (status' = "paging" => SoFar') /\ (status' = "done" => Whole')
    <3>1. SoFar
      BY <2>1, <2>3 DEF AsSources
    <3>2. kind \in {"github", "jira"}
      BY DEF Shape
    <3> QED BY <1>1, <2>3, <3>1, <3>2, GitHubPageAsOne, JiraPageAsOne
  <2> QED BY <2>2, <2>3, <2>4 DEF AsSources
<1>2. CASE NoRepo
  <2>1. /\ UNCHANGED <<input, rows, observer>> /\ got' = got /\ status' = "done"
        /\ status = "paging" /\ L = << >>
    BY <1>2 DEF NoRepo, Finish, L
  <2>2. changes' = changes /\ most' = most
    BY <2>1 DEF observer, input
  <2>3. ASSUME changes = 0, most >= PageSize
        PROVE  Whole'
    <3>1. SoFar
      BY <2>1, <2>3 DEF AsSources
    <3>2. kind = "github" /\ L = GitHubRepos(plan)
      <4>1. kind # "jira"
        <5>1. SUFFICES ASSUME kind = "jira" PROVE FALSE
          OBVIOUS
        <5>2. L = << <<"jira", 0>> >>
          BY <5>1 DEF L, Lists
        <5>3. Len(L) = 1 /\ Len(<< >>) = 0
          BY <5>2
        <5> QED BY <2>1, <5>3
      <4>2. kind = "github"
        BY <4>1 DEF Shape
      <4> QED BY <4>2 DEF L, Lists
    <3>3. Len(GitHubRepos(plan)) = 0 /\ 0 \in Nat
      BY <2>1, <3>2
    <3>4. GitHubRows(plan, rows) = << >>
      BY <3>3, GotSteps DEF GitHubRows
    <3>5. got = << >>
      BY <2>1 DEF AsSources
    <3>6. kind' = kind /\ GitHubRows(plan, rows)' = GitHubRows(plan, rows)
      BY <2>1, ListStays
    <3> QED BY <2>1, <3>2, <3>4, <3>5, <3>6 DEF Whole
  <2>4. got = << >> /\ changes \in Nat
    BY <2>1 DEF AsSources
  <2> QED BY <2>1, <2>2, <2>3, <2>4 DEF AsSources
<1>3. CASE Fail
  <2>1. UNCHANGED <<input, rows, observer, got>> /\ status' \in {"failed", "cancelled"}
    BY <1>3 DEF Fail
  <2>2. changes' = changes /\ L' = L
    BY <2>1, ListStays DEF observer
  <2> QED BY <2>1, <2>2 DEF AsSources
<1>4. CASE Change
  <2>1. UNCHANGED <<input, call>> /\ changes' = changes + 1
    <3>1. \E src \in Seq(Version) : Distinct(src) /\ Observe(src)
      BY <1>4, ChangeIs
    <3> QED BY <1>4, <3>1 DEF Change, Observe
  <2>2. changes' \in Nat /\ changes' # 0
    BY <2>1 DEF AsSources
  <2>3. L' = L /\ got' = got
    BY <2>1, ListsStay DEF call
  <2> QED BY <2>2, <2>3 DEF AsSources
<1>5. CASE UNCHANGED vars
  <2>1. UNCHANGED <<input, rows>> /\ UNCHANGED <<repo, next, pages, got, status, changes>>
    BY <1>5 DEF vars, call, observer
  <2>2. /\ kind' = kind /\ plan' = plan /\ most' = most /\ L' = L
        /\ Target(plan)' = Target(plan)
        /\ GitHubRows(plan, rows)' = GitHubRows(plan, rows)
        /\ JiraRows(plan, rows)' = JiraRows(plan, rows)
        /\ Listing' = Listing /\ Before' = Before
    BY <2>1, ListStays
  <2>3. First' = First
    BY <2>1, <2>2 DEF First
  <2>4. SoFar => SoFar'
    BY <2>1, <2>2, <2>3 DEF SoFar
  <2>5. Whole => Whole'
    BY <2>1, <2>2 DEF Whole
  <2> QED BY <2>1, <2>2, <2>4, <2>5 DEF AsSources
<1> QED BY <1>1, <1>2, <1>3, <1>4, <1>5 DEF Next, Over

\* Over a source that stays as it is, the pages of both connectors put together are
\* what one look at the source gives (Sources): no loop stops a page too early or too
\* late, whatever the sizes of pages, limits and repos (github_live.py:102-142,
\* jira_live.py:150-196).
THEOREM StillSourceIsRead == Spec => []StillSourceIsFetchRows
<1> DEFINE IInv == (Shape /\ Held /\ Returned) /\ AsSources
<1>1. Init => IInv
  BY ShapeInit, AsSourcesInit
<1>2. IInv /\ [Next]_vars => IInv'
  BY ShapeNext, HeldNext, AsSourcesNext
<1>3. IInv => StillSourceIsFetchRows
  <2>1. SUFFICES ASSUME IInv, status = "done", changes = 0, most >= PageSize
                 PROVE  result = FetchRows(kind, plan, rows)
    BY DEF StillSourceIsFetchRows
  <2>2. result = Filter(got, ServerFilters(plan)) /\ Whole
    BY <2>1 DEF Returned, AsSources
  <2> QED BY <2>1, <2>2 DEF FetchRows, Whole, Shape
<1> QED BY <1>1, <1>2, <1>3, PTL DEF Spec
=============================================================================
