---------------------------- MODULE SelectionLemmas ----------------------------
(***************************************************************************)
(* Lemmas about Selected: where its elements are, when two selections are  *)
(* the same, and what becomes of one when the sequence grows; and how many *)
(* elements a slice takes.                                                 *)
(***************************************************************************)
EXTENDS Selection, FiniteSetsExt, SequencesExt, FiniteSetTheorems, SequenceTheorems, TLAPS

-----------------------------------------------------------------------------
(* Ranks.                                                                  *)

LEMMA UpToIsFinite ==
  ASSUME NEW S, IsFiniteSet(S), NEW i
  PROVE  /\ {j \in S : j <= i} \in SUBSET S
         /\ IsFiniteSet({j \in S : j <= i})
         /\ RankIn(S, i) \in Nat /\ RankIn(S, i) <= Cardinality(S)
         /\ Cardinality(S) \in Nat
<1> DEFINE U == {j \in S : j <= i}
<1>1. U \in SUBSET S
  OBVIOUS
<1> HIDE DEF U
<1>2. IsFiniteSet(U) /\ Cardinality(U) <= Cardinality(S)
  BY <1>1, FS_Subset
<1>3. Cardinality(U) \in Nat /\ Cardinality(S) \in Nat
  BY <1>2, FS_CardinalityType
<1> QED BY <1>1, <1>2, <1>3 DEF U, RankIn

\* A member's rank is one of 1..Cardinality(S), and ranks grow with the members.
LEMMA RankIsPlace ==
  ASSUME NEW S \in SUBSET Int, IsFiniteSet(S), NEW i \in S
  PROVE  RankIn(S, i) \in 1..Cardinality(S)
<1> DEFINE U == {j \in S : j <= i}
<1>1. IsFiniteSet(U) /\ RankIn(S, i) \in Nat /\ RankIn(S, i) <= Cardinality(S)
      /\ Cardinality(S) \in Nat
  BY UpToIsFinite
<1>2. i <= i
  OBVIOUS
<1>3. U # {}
  BY <1>2
<1> HIDE DEF U
<1>4. Cardinality(U) # 0
  BY <1>1, <1>3, FS_EmptySet
<1> QED BY <1>1, <1>4 DEF RankIn, U

LEMMA RankGrows ==
  ASSUME NEW S \in SUBSET Int, IsFiniteSet(S), NEW i \in S, NEW j \in S, i < j
  PROVE  RankIn(S, i) < RankIn(S, j)
<1> DEFINE U == {k \in S : k <= i}
           V == {k \in S : k <= j}
<1>1. IsFiniteSet(V)
  BY UpToIsFinite
<1>5. RankIn(S, i) \in Nat /\ RankIn(S, j) \in Nat
  BY UpToIsFinite
<1>6. i \in Int /\ j \in Int
  OBVIOUS
<1>7. ASSUME NEW k \in U
      PROVE  k \in V
  <2>1. k \in Int /\ k <= i /\ k \in S
    OBVIOUS
  <2> QED BY <1>6, <2>1
<1>8. j \in V /\ ~(j <= i)
  BY <1>6
<1>9. j \notin U
  BY <1>8
<1> HIDE DEF U, V
<1>2. U \in SUBSET V /\ j \in V /\ j \notin U
  BY <1>7, <1>8, <1>9
<1>3. Cardinality(U) <= Cardinality(V) /\ Cardinality(U) # Cardinality(V)
  BY <1>1, <1>2, FS_Subset
<1> QED BY <1>5, <1>3 DEF RankIn, U, V

LEMMA RankIsInjective ==
  ASSUME NEW S \in SUBSET Int, IsFiniteSet(S), NEW i \in S, NEW j \in S,
         RankIn(S, i) = RankIn(S, j)
  PROVE  i = j
<1>1. i < j \/ j < i \/ i = j
  OBVIOUS
<1>2. i \in Int /\ j \in Int /\ RankIn(S, i) \in Nat /\ RankIn(S, j) \in Nat
  BY UpToIsFinite
<1> QED BY <1>1, <1>2, RankGrows

\* Every place is a member's.
LEMMA RankIsOnto ==
  ASSUME NEW S \in SUBSET Int, IsFiniteSet(S), NEW k \in 1..Cardinality(S)
  PROVE  \E i \in S : RankIn(S, i) = k
<1> DEFINE n == Cardinality(S)
           f == [i \in S |-> RankIn(S, i)]
<1>1. n \in Nat /\ IsFiniteSet(1..n) /\ Cardinality(1..n) = n
  BY FS_CardinalityType, FS_Interval
<1>2. f \in Injection(S, 1..n)
  BY RankIsPlace, RankIsInjective DEF Injection, IsInjective
<1>3. f \in Surjection(S, 1..n)
  <2> HIDE DEF f, n
  <2>1. Cardinality(S) = Cardinality(1..n)
    BY <1>1 DEF n
  <2> QED BY <1>1, <1>2, <2>1, FS_Injection
<1> QED BY <1>3 DEF Surjection

-----------------------------------------------------------------------------
(* Selections.                                                             *)

\* A member's element is at the member's rank.
LEMMA SelectedAt ==
  ASSUME NEW seq, NEW S \in SUBSET Int, IsFiniteSet(S)
  PROVE  /\ DOMAIN Selected(seq, S) = 1..Cardinality(S)
         /\ Len(Selected(seq, S)) = Cardinality(S)
         /\ \A i \in S : Selected(seq, S)[RankIn(S, i)] = seq[i]
<1>1. Cardinality(S) \in Nat
  BY FS_CardinalityType
<1>2. DOMAIN Selected(seq, S) = 1..Cardinality(S)
  BY DEF Selected
<1>3. Len(Selected(seq, S)) = Cardinality(S)
  BY <1>1 DEF Selected
<1>4. ASSUME NEW i \in S
      PROVE  Selected(seq, S)[RankIn(S, i)] = seq[i]
  <2> DEFINE k == RankIn(S, i)
             c == CHOOSE j \in S : RankIn(S, j) = k
  <2>1. k \in 1..Cardinality(S)
    BY RankIsPlace
  <2>2. c \in S /\ RankIn(S, c) = k
    OBVIOUS
  <2>3. c = i
    <3> HIDE DEF c
    <3> QED BY <2>2, RankIsInjective
  <2>4. Selected(seq, S)[k] = seq[c]
    BY <2>1 DEF Selected
  <2> QED BY <2>3, <2>4
<1> QED BY <1>2, <1>3, <1>4

\* The type of a selection.
LEMMA SelectedType ==
  ASSUME NEW T, NEW seq \in Seq(T), NEW S \in SUBSET (DOMAIN seq)
  PROVE  /\ IsFiniteSet(S) /\ S \in SUBSET Int
         /\ Selected(seq, S) \in Seq(T)
<1>1. DOMAIN seq = 1..Len(seq) /\ Len(seq) \in Nat
  BY LenProperties
<1>2. S \in SUBSET Int /\ IsFiniteSet(S)
  <2>1. S \in SUBSET (1..Len(seq))
    BY <1>1
  <2>2. IsFiniteSet(1..Len(seq))
    BY <1>1, FS_Interval
  <2>3. IsFiniteSet(S)
    BY <2>1, <2>2, FS_Subset
  <2> QED BY <2>1, <2>3
<1>3. Cardinality(S) \in Nat
  BY <1>2, FS_CardinalityType
<1>4. ASSUME NEW k \in 1..Cardinality(S)
      PROVE  Selected(seq, S)[k] \in T
  <2>1. PICK i \in S : RankIn(S, i) = k
    BY <1>2, RankIsOnto
  <2>2. Selected(seq, S)[k] = seq[i]
    BY <1>2, <2>1, SelectedAt
  <2> QED BY <1>1, <2>2, ElementOfSeq
<1>5. Selected(seq, S) = [k \in 1..Cardinality(S) |-> Selected(seq, S)[k]]
  BY DEF Selected
<1> QED BY <1>2, <1>3, <1>4, <1>5, IsASeq

\* A sequence is a selection if it has every member's element at its rank.
LEMMA IsSelected ==
  ASSUME NEW seq, NEW S \in SUBSET Int, IsFiniteSet(S),
         NEW out, out = [k \in 1..Cardinality(S) |-> out[k]],
         \A i \in S : out[RankIn(S, i)] = seq[i]
  PROVE  out = Selected(seq, S)
<1>1. ASSUME NEW k \in 1..Cardinality(S)
      PROVE  out[k] = Selected(seq, S)[k]
  <2>1. PICK i \in S : RankIn(S, i) = k
    BY RankIsOnto
  <2> QED BY <2>1, SelectedAt
<1>2. Selected(seq, S) = [k \in 1..Cardinality(S) |-> Selected(seq, S)[k]]
  BY DEF Selected
<1> QED BY <1>1, <1>2

\* A selection sees only the elements it takes.
LEMMA SelectedSame ==
  ASSUME NEW seq, NEW other, NEW S \in SUBSET Int, IsFiniteSet(S),
         \A i \in S : seq[i] = other[i]
  PROVE  Selected(seq, S) = Selected(other, S)
<1>1. ASSUME NEW k \in 1..Cardinality(S)
      PROVE  Selected(seq, S)[k] = Selected(other, S)[k]
  <2>1. PICK i \in S : RankIn(S, i) = k
    BY RankIsOnto
  <2>2. Selected(seq, S)[k] = seq[i]
    BY <2>1, SelectedAt
  <2>3. Selected(other, S)[k] = other[i]
    BY <2>1, SelectedAt
  <2> QED BY <2>2, <2>3
<1>2. /\ Selected(seq, S) = [k \in 1..Cardinality(S) |-> Selected(seq, S)[k]]
      /\ Selected(other, S) = [k \in 1..Cardinality(S) |-> Selected(other, S)[k]]
  BY DEF Selected
<1> QED BY <1>1, <1>2

\* What is taken is an element at one of the places.
LEMMA SelectedFrom ==
  ASSUME NEW seq, NEW S \in SUBSET Int, IsFiniteSet(S), NEW k \in 1..Cardinality(S)
  PROVE  \E i \in S : RankIn(S, i) = k /\ Selected(seq, S)[k] = seq[i]
<1>1. PICK i \in S : RankIn(S, i) = k
  BY RankIsOnto
<1> QED BY <1>1, SelectedAt

\* A place beyond all the others is the last.
LEMMA RankOfLast ==
  ASSUME NEW S \in SUBSET Int, IsFiniteSet(S), NEW n \in Int, \A i \in S : i < n
  PROVE  /\ S \cup {n} \in SUBSET Int /\ IsFiniteSet(S \cup {n})
         /\ Cardinality(S) \in Nat /\ Cardinality(S \cup {n}) = Cardinality(S) + 1
         /\ RankIn(S \cup {n}, n) = Cardinality(S) + 1
         /\ \A i \in S : RankIn(S \cup {n}, i) = RankIn(S, i)
<1>1. n \notin S
  <2>1. SUFFICES ASSUME n \in S PROVE FALSE
    OBVIOUS
  <2>2. n < n
    BY <2>1
  <2> QED BY <2>2
<1>2. IsFiniteSet(S \cup {n}) /\ Cardinality(S \cup {n}) = Cardinality(S) + 1
  BY <1>1, FS_AddElement
<1>3. Cardinality(S) \in Nat
  BY FS_CardinalityType
<1>4. RankIn(S \cup {n}, n) = Cardinality(S) + 1
  <2>1. \A j \in S \cup {n} : j <= n
    OBVIOUS
  <2>2. {j \in S \cup {n} : j <= n} = S \cup {n}
    BY <2>1
  <2> QED BY <1>2, <2>2 DEF RankIn
<1>5. ASSUME NEW i \in S
      PROVE  RankIn(S \cup {n}, i) = RankIn(S, i)
  <2>1. i \in Int /\ ~(n <= i)
    OBVIOUS
  <2>2. {j \in S \cup {n} : j <= i} = {j \in S : j <= i}
    BY <2>1
  <2> QED BY <2>2 DEF RankIn
<1> QED BY <1>2, <1>3, <1>4, <1>5

\* The sequence grows: a selection stays as it is, or takes the new element as well.
LEMMA SelectedGrows ==
  ASSUME NEW T, NEW seq \in Seq(T), NEW e \in T, NEW S \in SUBSET (DOMAIN seq)
  PROVE  /\ Selected(Append(seq, e), S) = Selected(seq, S)
         /\ Selected(Append(seq, e), S \cup {Len(seq) + 1}) = Append(Selected(seq, S), e)
<1> DEFINE n == Len(seq) + 1
           all == Append(seq, e)
           out == Selected(seq, S)
           c == Cardinality(S)
<1>1. DOMAIN seq = 1..Len(seq) /\ Len(seq) \in Nat
  BY LenProperties
<1>2. S \in SUBSET Int /\ IsFiniteSet(S) /\ out \in Seq(T)
  BY SelectedType
<1>3. \A i \in S : i \in 1..Len(seq) /\ i < n
  BY <1>1
<1>4. all[n] = e /\ \A i \in S : all[i] = seq[i]
  <2>1. \A i \in 1..Len(seq) : all[i] = seq[i]
    OBVIOUS
  <2>2. all[n] = e
    OBVIOUS
  <2> QED BY <1>3, <2>1, <2>2
<1>5. n \in Int
  BY <1>1
<1> HIDE DEF all, n, out, c
<1>6. Selected(all, S) = out
  BY <1>2, <1>4, SelectedSame DEF out
<1>7. /\ S \cup {n} \in SUBSET Int /\ IsFiniteSet(S \cup {n})
      /\ c \in Nat /\ Cardinality(S \cup {n}) = c + 1
      /\ RankIn(S \cup {n}, n) = c + 1
      /\ \A i \in S : RankIn(S \cup {n}, i) = RankIn(S, i)
  BY <1>2, <1>3, <1>5, RankOfLast DEF c
<1>8. Len(out) = c /\ \A i \in S : out[RankIn(S, i)] = seq[i] /\ RankIn(S, i) \in 1..c
  BY <1>2, SelectedAt, RankIsPlace DEF out, c
<1>9. /\ Append(out, e) = [k \in 1..(c + 1) |-> Append(out, e)[k]]
      /\ Append(out, e)[c + 1] = e /\ \A k \in 1..c : Append(out, e)[k] = out[k]
  <2>1. /\ Append(out, e) \in Seq(T) /\ Len(Append(out, e)) = c + 1
        /\ Append(out, e)[c + 1] = e /\ \A k \in 1..c : Append(out, e)[k] = out[k]
    BY <1>2, <1>8, AppendProperties
  <2>2. Append(out, e) \in [1..(c + 1) -> T]
    BY <2>1, LenProperties
  <2> QED BY <2>1, <2>2
<1>10. \A i \in S \cup {n} : Append(out, e)[RankIn(S \cup {n}, i)] = all[i]
  BY <1>4, <1>7, <1>8, <1>9
<1>11. Append(out, e) = [k \in 1..Cardinality(S \cup {n}) |-> Append(out, e)[k]]
  BY <1>7, <1>9
<1>12. Append(out, e) = Selected(all, S \cup {n})
  BY <1>7, <1>10, <1>11, IsSelected
<1> QED BY <1>6, <1>12 DEF all, n, out

-----------------------------------------------------------------------------
(* The first and the last place.                                           *)

LEMMA MaxIsLast ==
  ASSUME NEW S \in SUBSET Int, IsFiniteSet(S), S # {}
  PROVE  Max(S) \in S /\ \A i \in S : i <= Max(S)
<1>1. Cardinality(S) \in Nat /\ Cardinality(S) # 0
  BY FS_CardinalityType, FS_EmptySet
<1>2. PICK m \in S : RankIn(S, m) = Cardinality(S)
  BY <1>1, RankIsOnto
<1>3. {j \in S : j <= m} = S
  <2> DEFINE U == {j \in S : j <= m}
  <2>1. U \in SUBSET S /\ Cardinality(U) = Cardinality(S)
    BY <1>2 DEF RankIn
  <2> HIDE DEF U
  <2>2. U = S
    BY <2>1, FS_Subset
  <2> QED BY <2>2 DEF U
<1>4. \A i \in S : m >= i
  <2>1. \A i \in S : i <= m
    BY <1>3
  <2> QED BY <2>1
<1>5. \A x \in S : (\A i \in S : x >= i) => x = m
  <2> SUFFICES ASSUME NEW x \in S, \A i \in S : x >= i
               PROVE  x = m
    OBVIOUS
  <2>1. x >= m /\ m >= x /\ x \in Int /\ m \in Int
    BY <1>4
  <2> QED BY <2>1
<1>6. Max(S) = m
  BY <1>4, <1>5 DEF Max
<1>7. \A i \in S : i <= m
  BY <1>3
<1> QED BY <1>6, <1>7

LEMMA MinIsFirst ==
  ASSUME NEW S \in SUBSET Int, IsFiniteSet(S), S # {}
  PROVE  Min(S) \in S /\ \A i \in S : Min(S) <= i
<1>1. Cardinality(S) \in Nat /\ Cardinality(S) # 0
  BY FS_CardinalityType, FS_EmptySet
<1>2. PICK m \in S : RankIn(S, m) = 1
  BY <1>1, RankIsOnto
<1>3. ASSUME NEW i \in S
      PROVE  m <= i
  <2>1. SUFFICES ASSUME i < m PROVE FALSE
    OBVIOUS
  <2>2. RankIn(S, i) < 1
    BY <1>2, <2>1, RankGrows
  <2>3. RankIn(S, i) \in 1..Cardinality(S)
    BY RankIsPlace
  <2> QED BY <1>1, <2>2, <2>3
<1>4. \A x \in S : (\A i \in S : x <= i) => x = m
  <2> SUFFICES ASSUME NEW x \in S, \A i \in S : x <= i
               PROVE  x = m
    OBVIOUS
  <2>1. x <= m /\ m <= x /\ x \in Int /\ m \in Int
    BY <1>3
  <2> QED BY <2>1
<1>5. Min(S) = m
  BY <1>3, <1>4 DEF Min
<1> QED BY <1>3, <1>5

\* The lesser and the greater of two numbers.
LEMMA LesserOfTwo ==
  ASSUME NEW i \in Int, NEW j \in Int
  PROVE  /\ Min({i, j}) \in {i, j} /\ Min({i, j}) <= i /\ Min({i, j}) <= j
         /\ Max({i, j}) \in {i, j} /\ i <= Max({i, j}) /\ j <= Max({i, j})
<1> DEFINE both == {i, j}
<1>1. IsFiniteSet({i}) /\ {i} \cup {j} = both
  BY FS_Singleton
<1>2. IsFiniteSet({i} \cup {j})
  BY <1>1, FS_AddElement
<1>3. both \in SUBSET Int /\ both # {} /\ IsFiniteSet(both) /\ i \in both /\ j \in both
  BY <1>1, <1>2
<1> HIDE DEF both
<1>4. /\ Min(both) \in both /\ \A k \in both : Min(both) <= k
      /\ Max(both) \in both /\ \A k \in both : k <= Max(both)
  BY <1>3, MinIsFirst, MaxIsLast
<1> QED BY <1>3, <1>4 DEF both

\* The least of three.
LEMMA LeastOfThree ==
  ASSUME NEW i \in Int, NEW j \in Int, NEW k \in Int
  PROVE  /\ Min({i, j, k}) \in {i, j, k}
         /\ Min({i, j, k}) <= i /\ Min({i, j, k}) <= j /\ Min({i, j, k}) <= k
<1> DEFINE three == {i, j, k}
<1>1. IsFiniteSet({i}) /\ {i} \cup {j} \cup {k} = three
  BY FS_Singleton
<1>2. IsFiniteSet({i} \cup {j})
  BY <1>1, FS_AddElement
<1>3. IsFiniteSet({i} \cup {j} \cup {k})
  BY <1>2, FS_AddElement
<1>4. three \in SUBSET Int /\ three # {} /\ IsFiniteSet(three) /\ i \in three /\ j \in three /\ k \in three
  BY <1>1, <1>3
<1> HIDE DEF three
<1>5. Min(three) \in three /\ \A x \in three : Min(three) <= x
  BY <1>4, MinIsFirst
<1> QED BY <1>4, <1>5 DEF three

-----------------------------------------------------------------------------
(* The end of a selection, and selections of the end of a sequence.        *)

\* Places that are moved are as many.
LEMMA ShiftKeepsCount ==
  ASSUME NEW U \in SUBSET Int, IsFiniteSet(U), NEW off \in Int
  PROVE  /\ IsFiniteSet({i + off : i \in U}) /\ {i + off : i \in U} \in SUBSET Int
         /\ Cardinality({i + off : i \in U}) = Cardinality(U)
<1> DEFINE V == {i + off : i \in U}
           f == [i \in U |-> i + off]
<1>1. f \in Surjection(U, V)
  BY DEF Surjection
<1>2. f \in Injection(U, V)
  <2>1. f \in [U -> V]
    OBVIOUS
  <2>2. ASSUME NEW i \in U, NEW j \in U, f[i] = f[j]
        PROVE  i = j
    <3>1. i \in Int /\ j \in Int /\ i + off = j + off
      BY <2>2
    <3> QED BY <3>1
  <2> HIDE DEF f, V
  <2> QED BY <2>1, <2>2 DEF Injection, IsInjective
<1>3. V \in SUBSET Int
  OBVIOUS
<1> HIDE DEF f, V
<1>4. IsFiniteSet(V) /\ Cardinality(V) = Cardinality(U)
  BY <1>1, <1>2, FS_Surjection
<1> QED BY <1>3, <1>4 DEF V

\* A selection from the end of a sequence is one from the sequence.
LEMMA SelectedShifts ==
  ASSUME NEW seq, NEW other, NEW S \in SUBSET Int, IsFiniteSet(S), NEW off \in Int,
         NEW V, \A i \in S : i + off \in V /\ seq[i] = other[i + off],
         \A v \in V : v \in Int /\ v - off \in S
  PROVE  Selected(seq, S) = Selected(other, V)
<1> DEFINE out == Selected(seq, S)
<1>6. V = {i + off : i \in S}
  <2>1. \A v \in V : v - off \in S /\ v = (v - off) + off
    OBVIOUS
  <2> QED BY <2>1
<1>1. V \in SUBSET Int /\ IsFiniteSet(V) /\ Cardinality(V) = Cardinality(S)
  BY <1>6, ShiftKeepsCount
<1>2. out = [k \in 1..Cardinality(V) |-> out[k]]
  BY <1>1 DEF Selected
<1>3. ASSUME NEW i \in S
      PROVE  out[RankIn(V, i + off)] = other[i + off]
  <2> DEFINE U == {j \in S : j <= i}
  <2>1. U \in SUBSET Int /\ IsFiniteSet(U)
    <3>1. U \in SUBSET S /\ IsFiniteSet(U)
      BY UpToIsFinite
    <3> HIDE DEF U
    <3> QED BY <3>1
  <2>2. {k \in V : k <= i + off} = {j + off : j \in U}
    <3>1. i \in Int /\ \A j \in S : j \in Int /\ (j + off <= i + off <=> j <= i)
      OBVIOUS
    <3>2. \A k \in V : k <= i + off => k \in {j + off : j \in U}
      BY <1>6, <3>1
    <3>3. \A j \in U : j + off \in V /\ j + off <= i + off
      BY <3>1
    <3> QED BY <3>2, <3>3
  <2> HIDE DEF U, out
  <2>3. RankIn(V, i + off) = Cardinality(U)
    BY <2>1, <2>2, ShiftKeepsCount DEF RankIn
  <2>4. RankIn(S, i) = Cardinality(U)
    BY DEF RankIn, U
  <2>5. out[RankIn(S, i)] = seq[i]
    BY SelectedAt DEF out
  <2> QED BY <2>3, <2>4, <2>5
<1>4. \A v \in V : out[RankIn(V, v)] = other[v]
  BY <1>3, <1>6
<1> HIDE DEF out
<1>5. ASSUME NEW k \in 1..Cardinality(V)
      PROVE  out[k] = Selected(other, V)[k]
  <2>1. PICK v \in V : RankIn(V, v) = k /\ Selected(other, V)[k] = other[v]
    BY <1>1, SelectedFrom
  <2> QED BY <1>4, <2>1
<1>7. Selected(other, V) = [k \in 1..Cardinality(V) |-> Selected(other, V)[k]]
  BY DEF Selected
<1> QED BY <1>2, <1>5, <1>7 DEF out

-----------------------------------------------------------------------------
(* Parts of a sequence.                                                    *)

LEMMA PartAfter ==
  ASSUME NEW T, NEW seq \in Seq(T), NEW k \in 0..Len(seq)
  PROVE  /\ SubSeq(seq, k + 1, Len(seq)) \in Seq(T)
         /\ Len(SubSeq(seq, k + 1, Len(seq))) = Len(seq) - k
         /\ \A j \in 1..(Len(seq) - k) : SubSeq(seq, k + 1, Len(seq))[j] = seq[k + j]
<1> DEFINE n == Len(seq)
           part == SubSeq(seq, k + 1, n)
<1>1. n \in Nat /\ k \in Int /\ n \in Int /\ k + 1 \in Int /\ k <= n /\ 0 <= k
  BY LenProperties
<1>2. \A i \in (k + 1)..n : seq[i] \in T
  BY <1>1, ElementOfSeq
<1> HIDE DEF n, part
<1>3. /\ part \in Seq(T)
      /\ Len(part) = IF k + 1 <= n THEN n - (k + 1) + 1 ELSE 0
      /\ \A j \in 1..(n - (k + 1) + 1) : part[j] = seq[k + 1 + j - 1]
  BY <1>1, <1>2, SubSeqProperties DEF part
<1>4. Len(part) = n - k
  BY <1>1, <1>3
<1>5. ASSUME NEW j \in 1..(n - k)
      PROVE  part[j] = seq[k + j]
  <2>1. j \in 1..(n - (k + 1) + 1) /\ k + 1 + j - 1 = k + j
    BY <1>1
  <2>2. part[j] = seq[k + 1 + j - 1]
    BY <1>3, <2>1
  <2> QED BY <2>1, <2>2
<1> QED BY <1>3, <1>4, <1>5 DEF n, part

LEMMA PartBefore ==
  ASSUME NEW T, NEW seq \in Seq(T), NEW k \in 1..(Len(seq) + 1)
  PROVE  /\ SubSeq(seq, 1, k - 1) \in Seq(T)
         /\ Len(SubSeq(seq, 1, k - 1)) = k - 1
         /\ \A j \in 1..(k - 1) : SubSeq(seq, 1, k - 1)[j] = seq[j]
<1> DEFINE n == Len(seq)
           part == SubSeq(seq, 1, k - 1)
<1>1. n \in Nat /\ k \in Int /\ k - 1 \in Int /\ k <= n + 1 /\ 1 <= k /\ 1 \in Int
  BY LenProperties
<1>2. \A i \in 1..(k - 1) : seq[i] \in T
  BY <1>1, ElementOfSeq
<1> HIDE DEF n, part
<1>3. /\ part \in Seq(T)
      /\ Len(part) = IF 1 <= k - 1 THEN (k - 1) - 1 + 1 ELSE 0
      /\ \A j \in 1..((k - 1) - 1 + 1) : part[j] = seq[1 + j - 1]
  BY <1>1, <1>2, SubSeqProperties DEF part
<1>4. Len(part) = k - 1
  BY <1>1, <1>3
<1>5. ASSUME NEW j \in 1..(k - 1)
      PROVE  part[j] = seq[j]
  <2>1. j \in 1..((k - 1) - 1 + 1) /\ 1 + j - 1 = j
    BY <1>1
  <2>2. part[j] = seq[1 + j - 1]
    BY <1>3, <2>1
  <2> QED BY <2>1, <2>2
<1> QED BY <1>3, <1>4, <1>5 DEF n, part

\* Places i to j of a sequence.
LEMMA PartIs ==
  ASSUME NEW T, NEW seq \in Seq(T), NEW i \in Nat \ {0}, NEW j \in Int, j <= Len(seq)
  PROVE  /\ SubSeq(seq, i, j) \in Seq(T)
         /\ Len(SubSeq(seq, i, j)) = IF i <= j THEN j - i + 1 ELSE 0
         /\ \A k \in 1..(j - i + 1) : SubSeq(seq, i, j)[k] = seq[i + k - 1]
<1>1. Len(seq) \in Nat /\ i \in Int
  BY LenProperties
<1>2. \A k \in i..j : seq[k] \in T
  BY <1>1, ElementOfSeq
<1> QED BY <1>1, <1>2, SubSeqProperties

\* A part of a sequence, from i to k, that is cut in two: the first ends at j, the second
\* starts after m, which is j or beyond the sequence.
Meet(seq, i, j, k, m) ==
  /\ i \in Nat \ {0} /\ j \in Int /\ k \in Int /\ m \in Int
  /\ j <= Len(seq) /\ k <= Len(seq) /\ m >= i - 1 /\ k >= j
  /\ j = m \/ (j = Len(seq) /\ j < m /\ k = j)

IsCut(seq, i, j, k, m) == SubSeq(seq, i, k) = SubSeq(seq, i, j) \o SubSeq(seq, m + 1, k)

LEMMA PartsMeet ==
  ASSUME NEW T, NEW seq \in Seq(T), NEW i, NEW j, NEW k, NEW m, Meet(seq, i, j, k, m)
  PROVE  IsCut(seq, i, j, k, m)
<1> DEFINE a == SubSeq(seq, i, j)
           b == SubSeq(seq, m + 1, k)
           c == SubSeq(seq, i, k)
           la == IF i <= j THEN j - i + 1 ELSE 0
           lb == IF m + 1 <= k THEN k - (m + 1) + 1 ELSE 0
           lc == IF i <= k THEN k - i + 1 ELSE 0
<1>0. /\ i \in Nat \ {0} /\ j \in Int /\ k \in Int /\ m \in Int
      /\ j <= Len(seq) /\ k <= Len(seq) /\ m >= i - 1 /\ k >= j
      /\ j = m \/ (j = Len(seq) /\ j < m /\ k = j)
  BY DEF Meet
<1>1. Len(seq) \in Nat /\ i \in Int /\ m + 1 \in Nat \ {0}
  BY <1>0, LenProperties
<1>2. a \in Seq(T) /\ Len(a) = la /\ \A n \in 1..(j - i + 1) : a[n] = seq[i + n - 1]
  BY <1>0, PartIs
<1>3. b \in Seq(T) /\ Len(b) = lb /\ \A n \in 1..(k - (m + 1) + 1) : b[n] = seq[(m + 1) + n - 1]
  <2> DEFINE i2 == m + 1
  <2>1. i2 \in Nat \ {0}
    BY <1>1
  <2> HIDE DEF i2
  <2>2. /\ SubSeq(seq, i2, k) \in Seq(T)
        /\ Len(SubSeq(seq, i2, k)) = IF i2 <= k THEN k - i2 + 1 ELSE 0
        /\ \A n \in 1..(k - i2 + 1) : SubSeq(seq, i2, k)[n] = seq[i2 + n - 1]
    BY <1>0, <2>1, PartIs
  <2> QED BY <2>2 DEF i2
<1>4. c \in Seq(T) /\ Len(c) = lc /\ \A n \in 1..(k - i + 1) : c[n] = seq[i + n - 1]
  BY <1>0, PartIs
<1>5. lc = la + lb /\ la \in Nat /\ lb \in Nat /\ lc \in Nat
  BY <1>0, <1>1
<1> HIDE DEF a, b, c
<1>6. /\ a \o b \in Seq(T) /\ Len(a \o b) = la + lb
      /\ \A n \in 1..(la + lb) : (a \o b)[n] = IF n <= la THEN a[n] ELSE b[n - la]
  <2> HIDE DEF la, lb
  <2>1. a \in Seq(T) /\ b \in Seq(T) /\ Len(a) = la /\ Len(b) = lb
    BY <1>2, <1>3
  <2>2. /\ a \o b \in Seq(T)
        /\ Len(a \o b) = Len(a) + Len(b)
        /\ \A n \in 1..(Len(a) + Len(b)) : (a \o b)[n] = IF n <= Len(a) THEN a[n] ELSE b[n - Len(a)]
    BY <2>1, ConcatProperties, Zenon
  <2> QED BY <2>1, <2>2
<1>7. ASSUME NEW n \in 1..lc
      PROVE  c[n] = (a \o b)[n]
  <2>1. n \in 1..(k - i + 1) /\ n \in 1..(la + lb) /\ n \in Int
    BY <1>0, <1>1, <1>5
  <2>2. c[n] = seq[i + n - 1] /\ (a \o b)[n] = IF n <= la THEN a[n] ELSE b[n - la]
    BY <1>4, <1>6, <2>1
  <2>3. CASE n <= la
    <3>1. n \in 1..(j - i + 1)
      BY <1>0, <1>1, <2>1, <2>3
    <3> QED BY <1>2, <2>2, <2>3, <3>1
  <2>4. CASE ~(n <= la)
    <3>1. j = m /\ la = j - i + 1
      BY <1>0, <1>1, <1>5, <2>1, <2>4
    <3>2. n - la \in 1..(k - (m + 1) + 1) /\ (m + 1) + (n - la) - 1 = i + n - 1
      BY <1>0, <1>1, <2>1, <2>4, <3>1
    <3> QED BY <1>3, <2>2, <2>4, <3>2
  <2> QED BY <2>3, <2>4
<1> HIDE DEF la, lb, lc
<1>8. Len(c) = Len(a \o b)
  BY <1>4, <1>5, <1>6
<1>9. \A n \in 1..Len(c) : c[n] = (a \o b)[n]
  BY <1>4, <1>7
<1>10. c = a \o b
  BY <1>4, <1>6, <1>8, <1>9, SeqEqual
<1> QED BY <1>10 DEF IsCut, a, b, c

-----------------------------------------------------------------------------
(* Recursion over the places of a sequence.  That its table exists, and    *)
(* all of it, is shown by looking at the least place where it fails.       *)

\* f is the table that is filled step by step, of the type that the steps keep.
Steps(f, S, a, m, step) ==
  f \in [0..m -> S] /\ f[0] = a /\ \A n \in 1..m : f[n] = step[n][f[n - 1]]

LEMMA StepsExist ==
  ASSUME NEW S, NEW a \in S, NEW m \in Nat, NEW step \in [1..m -> [S -> S]]
  PROVE  \E f : Steps(f, S, a, m, step)
<1> DEFINE Is(f, k) == f[0] = a /\ \A n \in 1..k : f[n] = step[n][f[n - 1]]
           Bad == {k \in 0..m : ~ \E f \in [0..k -> S] : Is(f, k)}
<1>1. SUFFICES ASSUME Bad # {} PROVE FALSE
  <2>1. m \in 0..m
    OBVIOUS
  <2>2. \E f \in [0..m -> S] : Is(f, m)
    BY <2>1
  <2> QED BY <2>2 DEF Steps
<1>2. Bad \in SUBSET Int /\ IsFiniteSet(Bad)
  <2>1. IsFiniteSet(0..m) /\ Bad \in SUBSET (0..m)
    BY FS_Interval
  <2> QED BY <2>1, FS_Subset
<1>3. PICK k \in Bad : \A i \in Bad : k <= i
  <2> HIDE DEF Bad
  <2> QED BY <1>1, <1>2, MinIsFirst
<1>4. k \in 0..m /\ ~ \E f \in [0..k -> S] : Is(f, k)
  OBVIOUS
<1>5. k # 0
  <2>1. [n \in 0..0 |-> a] \in [0..0 -> S] /\ Is([n \in 0..0 |-> a], 0)
    OBVIOUS
  <2> HIDE DEF Is
  <2> QED BY <1>4, <2>1
<1>6. k - 1 \in 0..m /\ k - 1 \notin Bad
  <2>1. k - 1 \in 0..m /\ ~(k <= k - 1)
    BY <1>4, <1>5
  <2> QED BY <1>3, <2>1
<1>7. PICK f \in [0..(k - 1) -> S] : Is(f, k - 1)
  BY <1>6
<1> DEFINE e == step[k][f[k - 1]]
           g == [n \in 0..k |-> IF n = k THEN e ELSE f[n]]
<1>8. k \in 1..m /\ k - 1 \in 0..(k - 1) /\ f[k - 1] \in S /\ step[k] \in [S -> S]
  BY <1>4, <1>5
<1>9. e \in S
  BY <1>8
<1> HIDE DEF e
<1>10. g \in [0..k -> S]
  <2>1. \A n \in 0..k : n # k => n \in 0..(k - 1)
    BY <1>4
  <2> QED BY <1>9, <2>1
<1>11. g[0] = a
  <2>1. 0 \in 0..k /\ 0 # k /\ f[0] = a
    BY <1>5, <1>7, <1>4
  <2> QED BY <2>1
<1>12. ASSUME NEW n \in 1..k
       PROVE  g[n] = step[n][g[n - 1]]
  <2>1. n \in 0..k /\ n - 1 \in 0..k /\ n - 1 # k
    BY <1>4
  <2>2. g[n - 1] = f[n - 1]
    BY <2>1
  <2>3. CASE n = k
    BY <2>1, <2>2, <2>3 DEF e
  <2>4. CASE n # k
    <3>1. n \in 1..(k - 1)
      BY <1>4, <2>4
    <3> QED BY <1>7, <2>1, <2>2, <2>4, <3>1
  <2> QED BY <2>3, <2>4
<1>13. Is(g, k)
  <2> HIDE DEF g
  <2> QED BY <1>11, <1>12
<1> HIDE DEF Is, g
<1> QED BY <1>4, <1>10, <1>13

\* Two tables are alike up to m; they go on alike.
AlikeTo(f, g, m) == \A n \in 0..m : f[n] = g[n]
GoOnAlike(f, g, m) == \A n \in 1..m : f[n - 1] = g[n - 1] => f[n] = g[n]

\* Two tables that begin alike and go on alike are alike.
LEMMA StepwiseSame ==
  ASSUME NEW m \in Nat, NEW f, NEW g, f[0] = g[0], GoOnAlike(f, g, m)
  PROVE  AlikeTo(f, g, m)
<1> USE DEF AlikeTo, GoOnAlike
<1> DEFINE Bad == {k \in 0..m : f[k] # g[k]}
<1>1. SUFFICES ASSUME Bad # {} PROVE FALSE
  OBVIOUS
<1>2. Bad \in SUBSET Int /\ IsFiniteSet(Bad)
  <2>1. IsFiniteSet(0..m) /\ Bad \in SUBSET (0..m)
    BY FS_Interval
  <2> QED BY <2>1, FS_Subset
<1>3. PICK k \in Bad : \A i \in Bad : k <= i
  <2> HIDE DEF Bad
  <2> QED BY <1>1, <1>2, MinIsFirst
<1>4. k \in 1..m /\ k - 1 \in 0..m /\ ~(k <= k - 1)
  OBVIOUS
<1>5. f[k - 1] = g[k - 1]
  BY <1>3, <1>4
<1> QED BY <1>4, <1>5

\* FlattenSeq puts sequences together.
LEMMA FlattenIs ==
  ASSUME NEW T, NEW seqs \in Seq(Seq(T)), seqs # << >>
  PROVE  \E f \in [0..Len(seqs) -> Seq(T)] :
           /\ f[0] = << >>
           /\ \A n \in 1..Len(seqs) : f[n] = f[n - 1] \o seqs[n]
           /\ FlattenSeq(seqs) = f[Len(seqs)]
<1> DEFINE m == Len(seqs)
           step == [n \in 1..m |-> [x \in Seq(T) |-> x \o seqs[n]]]
           Is(h) == h = [i \in 1..m |-> IF i = 1 THEN seqs[i] ELSE h[i - 1] \o seqs[i]]
<1>1. m \in Nat \ {0} /\ \A n \in 1..m : seqs[n] \in Seq(T)
  BY ElementOfSeq, LenProperties, EmptySeq
<1>2. << >> \in Seq(T) /\ \A s \in Seq(T) : << >> \o s = s
  BY EmptySeq, ConcatEmptySeq
<1>3. FlattenSeq(seqs) = (CHOOSE h : Is(h))[m]
  <2>1. Len(seqs) # 0
    BY <1>1
  <2> QED BY <2>1 DEF FlattenSeq
<1> HIDE DEF m
<1>4. step \in [1..m -> [Seq(T) -> Seq(T)]]
  BY <1>1, ConcatProperties
<1>5. PICK f \in [0..m -> Seq(T)] : f[0] = << >> /\ \A n \in 1..m : f[n] = step[n][f[n - 1]]
  <2>1. m \in Nat
    BY <1>1
  <2> HIDE DEF Is, step
  <2>2. \E f : Steps(f, Seq(T), << >>, m, step)
    BY <1>2, <1>4, <2>1, StepsExist
  <2> QED BY <2>2 DEF Steps
<1>6. ASSUME NEW n \in 1..m
      PROVE  f[n] = f[n - 1] \o seqs[n]
  <2>1. n - 1 \in 0..m
    BY <1>1
  <2>2. f[n - 1] \in Seq(T)
    BY <2>1
  <2> QED BY <1>5, <2>2
<1> HIDE DEF step
<1>7. \E h : Is(h)
  <2> DEFINE g == [i \in 1..m |-> f[i]]
  <2>1. ASSUME NEW i \in 1..m
        PROVE  g[i] = IF i = 1 THEN seqs[i] ELSE g[i - 1] \o seqs[i]
    <3>1. CASE i = 1
      <4>3. 1 \in 1..m /\ 1 - 1 = 0
        BY <1>1
      <4>1. f[1] = f[0] \o seqs[1] /\ seqs[1] \in Seq(T)
        BY <1>1, <1>6, <4>3
      <4>2. f[1] = seqs[1]
        BY <1>2, <1>5, <4>1
      <4> QED BY <3>1, <4>2
    <3>2. CASE i # 1
      <4>1. i - 1 \in 1..m
        BY <1>1, <3>2
      <4> QED BY <1>6, <3>2, <4>1
    <3> QED BY <3>1, <3>2
  <2>2. Is(g)
    BY <2>1
  <2> HIDE DEF g, Is
  <2> QED BY <2>2
<1> DEFINE h == CHOOSE x : Is(x)
<1>8. Is(h)
  <2> HIDE DEF Is
  <2> QED BY <1>7
<1> HIDE DEF h
<1> DEFINE k == [n \in 0..m |-> IF n = 0 THEN << >> ELSE h[n]]
<1>9. \A n \in 0..m : f[n] = k[n]
  <2>1. f[0] = k[0]
    BY <1>1, <1>5
  <2>2. ASSUME NEW n \in 1..m, f[n - 1] = k[n - 1]
        PROVE  f[n] = k[n]
    <3>1. h[n] = IF n = 1 THEN seqs[n] ELSE h[n - 1] \o seqs[n]
      BY <1>8
    <3>2. n \in 0..m /\ n # 0 /\ n - 1 \in 0..m
      BY <1>1
    <3>3. CASE n = 1
      <4>2. 1 \in 1..m /\ 1 - 1 = 0
        BY <1>1
      <4>1. f[1] = << >> \o seqs[1] /\ seqs[1] \in Seq(T)
        BY <1>1, <1>5, <1>6, <4>2
      <4> QED BY <1>2, <3>1, <3>2, <3>3, <4>1
    <3>4. CASE n # 1
      <4>1. n - 1 # 0
        BY <3>4
      <4> QED BY <1>6, <2>2, <3>1, <3>2, <3>4, <4>1
    <3> QED BY <3>3, <3>4
  <2>3. m \in Nat
    BY <1>1
  <2>4. GoOnAlike(f, k, m)
    BY <2>2 DEF GoOnAlike
  <2> HIDE DEF Is, k
  <2>5. AlikeTo(f, k, m)
    BY <2>1, <2>3, <2>4, StepwiseSame
  <2> QED BY <2>5 DEF AlikeTo
<1>10. FlattenSeq(seqs) = f[m]
  <2>1. m \in 0..m /\ m # 0
    BY <1>1
  <2> QED BY <1>3, <1>9, <2>1 DEF h
<1> QED BY <1>5, <1>6, <1>10 DEF m

LEMMA FlattenType ==
  ASSUME NEW T, NEW seqs \in Seq(Seq(T))
  PROVE  FlattenSeq(seqs) \in Seq(T)
<1>1. CASE seqs = << >>
  <2>1. Len(seqs) = 0 /\ << >> \in Seq(T)
    BY <1>1, EmptySeq
  <2> QED BY <1>1, <2>1 DEF FlattenSeq
<1>2. CASE seqs # << >>
  <2>1. PICK f \in [0..Len(seqs) -> Seq(T)] : FlattenSeq(seqs) = f[Len(seqs)]
    BY <1>2, FlattenIs
  <2>2. Len(seqs) \in 0..Len(seqs)
    BY LenProperties
  <2> QED BY <2>1, <2>2
<1> QED BY <1>1, <1>2

-----------------------------------------------------------------------------
(* Counting.                                                               *)

\* As many of S as of T, when a one-to-one map of a set with S onto one with T takes
\* just the members of S into T.
LEMMA CountBijects ==
  ASSUME NEW D, NEW M, IsFiniteSet(D), NEW w \in Bijection(D, M),
         NEW S \in SUBSET D, NEW T \in SUBSET M, \A k \in D : k \in S <=> w[k] \in T
  PROVE  Cardinality(S) = Cardinality(T)
<1> DEFINE f == [k \in S |-> w[k]]
<1>1. /\ \A k \in D : w[k] \in M
      /\ \A k, l \in D : w[k] = w[l] => k = l
      /\ \A m \in M : \E k \in D : w[k] = m
  BY DEF Bijection, Injection, Surjection, IsInjective
<1>2. f \in [S -> T]
  OBVIOUS
<1>3. \A k, l \in S : f[k] = f[l] => k = l
  BY <1>1
<1>4. \A m \in T : \E k \in S : f[k] = m
  BY <1>1
<1> HIDE DEF f
<1>5. f \in Bijection(S, T)
  BY <1>2, <1>3, <1>4 DEF Bijection, Injection, Surjection, IsInjective
<1>6. ExistsBijection(S, T)
  BY <1>5 DEF ExistsBijection
<1>7. IsFiniteSet(S)
  BY FS_Subset
<1>8. Cardinality(T) = Cardinality(S)
  BY <1>6, <1>7, FS_Bijection
<1> QED BY <1>8

\* Places up to n, with each of them those before it.
IsFront(S, n) == S \in SUBSET (1..n) /\ \A i \in S, j \in 1..n : j < i => j \in S

\* They are the first ones.
LEMMA FrontPlaces ==
  ASSUME NEW n \in Nat, NEW S, IsFront(S, n)
  PROVE  IsFiniteSet(S) /\ Cardinality(S) \in 0..n /\ S = 1..Cardinality(S)
<1>1. S \in SUBSET (1..n) /\ \A i \in S, j \in 1..n : j < i => j \in S
  BY DEF IsFront
<1>2. IsFiniteSet(1..n)
  BY FS_Interval
<1>3. IsFiniteSet(S) /\ S \in SUBSET Int
  <2>1. IsFiniteSet(S)
    BY <1>1, <1>2, FS_Subset
  <2> QED BY <1>1, <2>1
<1>4. CASE S = {}
  <2>1. Cardinality(S) = 0 /\ 1..0 = {}
    BY <1>4, FS_EmptySet
  <2> QED BY <1>3, <1>4, <2>1
<1>5. CASE S # {}
  <2> DEFINE m == Max(S)
  <2>1. m \in S /\ \A i \in S : i <= m
    BY <1>3, <1>5, MaxIsLast
  <2> HIDE DEF m
  <2>2. m \in 1..n
    BY <1>1, <2>1
  <2>3. ASSUME NEW j \in 1..m PROVE j \in S
    <3>1. j \in 1..n /\ (j < m \/ j = m)
      BY <2>2
    <3> QED BY <1>1, <2>1, <3>1
  <2>4. \A j \in S : j \in 1..m
    BY <1>1, <2>1, <2>2
  <2>5. S = 1..m
    BY <2>3, <2>4
  <2>6. Cardinality(1..m) = m
    BY <2>2, FS_Interval
  <2> QED BY <1>3, <2>2, <2>5, <2>6
<1> QED BY <1>4, <1>5

\* How many rows a slice has: n from offset o on, of all.
SliceLength(all, o, n) == IF o + 1 <= Min({all, o + n}) THEN Min({all, o + n}) - o ELSE 0

\* Places before, the ones after them that tie, and no others up to the last of those.
IsTie(B, E, all) ==
  /\ IsFront(B, all) /\ IsFront(B \cup E, all) /\ B \cap E = {}

\* The places of a slice that lie on tied ones.
TiedPlaces(len, o, E) == {i \in 1..len : o + i \in E}

\* How many of the rows that tie, after so many before them, a window holds.
InWindow(before, of, o, n) == Max({0, Min({before + of, o + n}) - Max({before, o})})

\* How many of the tied places a slice takes.
LEMMA TiesInSlice ==
  ASSUME NEW all \in Nat, NEW o \in Nat, NEW n \in Nat, NEW B, NEW E, IsTie(B, E, all)
  PROVE  Cardinality(TiedPlaces(SliceLength(all, o, n), o, E))
           = InWindow(Cardinality(B), Cardinality(E), o, n)
<1> DEFINE b == Cardinality(B)
           u == Cardinality(B \cup E)
           len == SliceLength(all, o, n)
           lo == Max({b, o})
           hi == Min({u, o + n})
           I == {i \in 1..len : o + i \in E}
<1>1. /\ IsFiniteSet(B) /\ b \in 0..all /\ B = 1..b
      /\ IsFiniteSet(B \cup E) /\ u \in 0..all /\ B \cup E = 1..u
  BY FrontPlaces DEF IsTie
<1>2. IsFiniteSet(E) /\ B \cap E = {}
  <2>1. E \in SUBSET (B \cup E)
    OBVIOUS
  <2> QED BY <1>1, <2>1, FS_Subset DEF IsTie
<1>3. u = b + Cardinality(E)
  <2>1. Cardinality(B \cap E) = 0
    BY <1>2, FS_EmptySet
  <2>2. u = b + Cardinality(E) - Cardinality(B \cap E)
    BY <1>1, <1>2, FS_Union
  <2>3. b \in Nat /\ Cardinality(E) \in Nat
    BY <1>1, <1>2, FS_CardinalityType
  <2> QED BY <2>1, <2>2, <2>3
<1>4. E = (b + 1)..u
  <2>1. \A x : x \in E <=> x \in 1..u /\ x \notin 1..b
    BY <1>1, <1>2
  <2>2. b \in Nat /\ u \in Nat
    BY <1>1
  <2> HIDE DEF b, u
  <2>3. \A x : x \in 1..u /\ x \notin 1..b <=> x \in (b + 1)..u
    BY <2>2
  <2> QED BY <2>1, <2>3
<1>5. b \in Nat /\ u \in Nat /\ u <= all /\ b \in Int /\ u \in Int /\ o + n \in Int /\ o \in Int
  BY <1>1
<1>6. /\ lo \in {b, o} /\ b <= lo /\ o <= lo
      /\ hi \in {u, o + n} /\ hi <= u /\ hi <= o + n
  <2> HIDE DEF b, u
  <2> QED BY <1>5, LesserOfTwo
<1>7. len = IF o + 1 <= Min({all, o + n}) THEN Min({all, o + n}) - o ELSE 0
  BY DEF SliceLength
<1>8. Min({all, o + n}) \in {all, o + n} /\ Min({all, o + n}) <= all /\ Min({all, o + n}) <= o + n
  BY LesserOfTwo
<1> HIDE DEF b, u, len, lo, hi
<1>9. len \in Nat
  BY <1>7, <1>8
<1>10. I = (lo + 1 - o)..(hi - o)
  <2>1. ASSUME NEW i \in I
        PROVE  i \in (lo + 1 - o)..(hi - o)
    <3>1. i \in Int /\ 1 <= i /\ i <= len /\ o + i \in (b + 1)..u
      BY <1>4, <1>9
    <3>2. o + i <= o + n
      BY <1>7, <1>8, <3>1
    <3> QED BY <1>5, <1>6, <3>1, <3>2
  <2>2. ASSUME NEW i \in (lo + 1 - o)..(hi - o)
        PROVE  i \in I
    <3>1. i \in Int /\ lo + 1 <= o + i /\ o + i <= hi
      BY <1>5, <1>6
    <3>2. o + i \in (b + 1)..u
      BY <1>5, <1>6, <3>1
    <3>3. 1 <= i
      BY <1>5, <1>6, <3>1
    <3>4. i <= len
      BY <1>5, <1>6, <1>7, <1>8, <3>1, <3>3
    <3> QED BY <1>4, <1>9, <3>1, <3>2, <3>3, <3>4
  <2> QED BY <2>1, <2>2
<1>11. Cardinality(I) = IF lo + 1 - o > hi - o THEN 0 ELSE (hi - o) - (lo + 1 - o) + 1
  <2>1. lo + 1 - o \in Int /\ hi - o \in Int
    BY <1>5, <1>6
  <2> HIDE DEF I
  <2> QED BY <1>10, <2>1, FS_Interval
<1>12. /\ Max({0, hi - lo}) \in {0, hi - lo}
       /\ 0 <= Max({0, hi - lo}) /\ hi - lo <= Max({0, hi - lo})
  <2> DEFINE d == hi - lo
  <2>1. d \in Int /\ 0 \in Int
    BY <1>5, <1>6
  <2> HIDE DEF d
  <2>2. Max({0, d}) \in {0, d} /\ 0 <= Max({0, d}) /\ d <= Max({0, d})
    BY <2>1, LesserOfTwo
  <2> QED BY <2>2 DEF d
<1>13. Cardinality(I) = Max({0, hi - lo})
  BY <1>5, <1>6, <1>11, <1>12
<1> QED BY <1>3, <1>13 DEF TiedPlaces, InWindow, I, lo, hi, b, u, len

\* The length of a slice, when n is itself the lesser of two.
LEMMA SliceLengthIs ==
  ASSUME NEW all \in Nat, NEW o \in Nat, NEW l \in Nat, NEW m \in Nat
  PROVE  SliceLength(all, o, Min({l, m})) = Max({0, Min({l, m, all - o})})
<1> DEFINE n == Min({l, m})
           e == Min({all, o + n})
           t == Min({l, m, all - o})
<1>1. n \in {l, m} /\ n <= l /\ n <= m
  BY LesserOfTwo
<1>2. n \in Nat
  BY <1>1
<1> HIDE DEF n
<1>3. e \in {all, o + n} /\ e <= all /\ e <= o + n
  BY <1>2, LesserOfTwo
<1>4. t \in {l, m, all - o} /\ t <= l /\ t <= m /\ t <= all - o
  BY LeastOfThree
<1>5. /\ Max({0, t}) \in {0, t} /\ 0 <= Max({0, t}) /\ t <= Max({0, t})
  <2>1. t \in Int /\ 0 \in Int
    BY <1>4
  <2> HIDE DEF t
  <2>2. Max({0, t}) \in {0, t} /\ 0 <= Max({0, t}) /\ t <= Max({0, t})
    BY <2>1, LesserOfTwo
  <2> QED BY <2>2
<1>6. SliceLength(all, o, n) = IF o + 1 <= e THEN e - o ELSE 0
  BY DEF SliceLength
<1> HIDE DEF e, t
<1>7. SliceLength(all, o, n) = Max({0, t})
  BY <1>1, <1>2, <1>3, <1>4, <1>5, <1>6
<1> QED BY <1>7 DEF n, t
=============================================================================
