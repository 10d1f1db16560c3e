-------------------------- MODULE PolicyMerge_proofs --------------------------
(***************************************************************************)
(* What the sorting and the merging of policies compute, for lists of       *)
(* policies of every length: the loop of load_policies_for_agent() gives    *)
(* each key the value of the winner and each list the items of all.  The    *)
(* loop is a recursive function; what is said of its rounds is proved by    *)
(* induction over their number (InductionTo).                               *)
(***************************************************************************)
EXTENDS PolicyMerge, FiniteSetTheorems, WellFoundedInduction, TLAPS

-----------------------------------------------------------------------------
(* Naturals *)

\* A set of naturals that is not empty has a smallest element.
LEMMA SmallestOf ==
  ASSUME NEW S \in SUBSET Nat, S # {}
  PROVE  \E n \in S : \A m \in S : n <= m
<1> DEFINE R == {r \in Nat \X Nat : r[1] < r[2]}
<1>1. IsWellFoundedOn(R, Nat)
  BY NatLessThanWellFounded DEF OpToRel
<1>2. \A m, n \in Nat : m < n => <<m, n>> \in R
  OBVIOUS
<1> HIDE DEF R
<1>3. PICK n \in S : \A m \in S : ~ (<<m, n>> \in R)
  BY <1>1, WFMin
<1>4. \A m \in S : ~ (m < n)
  BY <1>2, <1>3
<1>5. QED BY <1>4

\* What holds of 0 and, with a number below N, of the next, holds up to N.
LEMMA InductionTo ==
  ASSUME NEW N \in Nat, NEW S, 0 \in S,
         \A n \in 0 .. N - 1 : n \in S => n + 1 \in S
  PROVE  \A n \in 0 .. N : n \in S
<1> DEFINE T == {n \in 0 .. N : n \notin S}
<1>1. SUFFICES ASSUME T # {} PROVE FALSE
  OBVIOUS
<1>2. PICK n \in T : \A m \in T : n <= m
  BY <1>1, SmallestOf, T \in SUBSET Nat
<1>3. n \in 0 .. N /\ n # 0
  OBVIOUS
<1>4. n - 1 \in 0 .. N - 1
  BY <1>3
<1>5. n - 1 \in S
  BY <1>2, <1>4
<1>6. QED BY <1>4, <1>5

\* A set of naturals with a bound that is not empty has a largest element.
LEMMA LargestOf ==
  ASSUME NEW N \in Nat, NEW S \in SUBSET (1 .. N), S # {}
  PROVE  \E n \in S : \A m \in S : m <= n
<1> DEFINE T == {m \in 0 .. N : N - m \in S}
<1>1. PICK s \in S : TRUE
  OBVIOUS
<1>2. N - s \in T
  BY N - (N - s) = s
<1>3. PICK t \in T : \A m \in T : t <= m
  BY <1>2, SmallestOf, T \in SUBSET Nat
<1>4. ASSUME NEW m \in S PROVE m <= N - t
  <2>1. N - m \in T
    BY N - (N - m) = m
  <2>2. t <= N - m
    BY <1>3, <2>1
  <2>3. QED BY <2>2, m \in 1 .. N, t \in 0 .. N
<1>5. N - t \in S
  BY <1>3
<1>6. QED BY <1>4, <1>5

-----------------------------------------------------------------------------
(* Sorting *)

Earlier(names, rank, i, j) ==
    \/ rank[names[i]] < rank[names[j]]
    \/ rank[names[i]] = rank[names[j]] /\ i < j

Place(names, chosen, rank, i) == Cardinality(Upto(names, chosen, rank, i))

\* at gives the positions of the chosen elements in the order of a stable sort.
Arranges(at, names, chosen, rank) ==
    LET n == Cardinality(Positions(names, chosen)) IN
    /\ n \in Nat
    /\ at \in [1 .. n -> Positions(names, chosen)]
    /\ \A i \in Positions(names, chosen) : \E k \in 1 .. n : at[k] = i
    /\ \A j, k \in 1 .. n : j < k => Earlier(names, rank, at[j], at[k])
    /\ Arranged(names, chosen, rank) = [k \in 1 .. n |-> names[at[k]]]

LEMMA PositionsFinite ==
  ASSUME NEW P, NEW names \in Seq(P), NEW chosen
  PROVE  /\ Positions(names, chosen) \subseteq 1 .. Len(names)
         /\ Len(names) \in Nat
         /\ \A i \in Positions(names, chosen) : names[i] \in P
         /\ IsFiniteSet(Positions(names, chosen))
         /\ Cardinality(Positions(names, chosen)) \in Nat
<1>1. /\ Len(names) \in Nat /\ DOMAIN names = 1 .. Len(names)
      /\ \A i \in DOMAIN names : names[i] \in P
  OBVIOUS
<1>2. Positions(names, chosen) \in SUBSET (1 .. Len(names))
  BY <1>1 DEF Positions
<1>3. IsFiniteSet(1 .. Len(names))
  BY <1>1, FS_Interval
<1>4. IsFiniteSet(Positions(names, chosen))
  BY <1>2, <1>3, FS_Subset
<1>5. QED BY <1>1, <1>2, <1>4, FS_CardinalityType

\* Of two different positions one is earlier.
LEMMA EarlierIsTotal ==
  ASSUME NEW P, NEW names \in Seq(P), NEW rank \in [P -> Int],
         NEW i \in DOMAIN names, NEW j \in DOMAIN names, i # j
  PROVE  Earlier(names, rank, i, j) \/ Earlier(names, rank, j, i)
<1>1. rank[names[i]] \in Int /\ rank[names[j]] \in Int /\ i \in Int /\ j \in Int
  OBVIOUS
<1>2. QED BY <1>1 DEF Earlier

\* What is earlier has a smaller place, between 1 and the number of positions.
LEMMA PlacesGrow ==
  ASSUME NEW P, NEW names \in Seq(P), NEW chosen, NEW rank \in [P -> Int],
         NEW i \in Positions(names, chosen)
  PROVE  /\ Place(names, chosen, rank, i) \in 1 .. Cardinality(Positions(names, chosen))
         /\ \A j \in Positions(names, chosen) : Earlier(names, rank, i, j) =>
              Place(names, chosen, rank, i) < Place(names, chosen, rank, j)
<1> DEFINE D == Positions(names, chosen)
           U(j) == Upto(names, chosen, rank, j)
<1>1. /\ IsFiniteSet(D) /\ Cardinality(D) \in Nat
      /\ \A j \in D : j \in Int /\ rank[names[j]] \in Int
  BY PositionsFinite
<1>2. \A j \in D : U(j) \in SUBSET D /\ j \in U(j)
  BY <1>1 DEF Upto
<1>3. ASSUME NEW j \in D
      PROVE  /\ IsFiniteSet(U(j)) /\ Cardinality(U(j)) \in Nat
             /\ Cardinality(U(j)) <= Cardinality(D)
  BY <1>1, <1>2, FS_Subset, FS_CardinalityType
<1>4. Place(names, chosen, rank, i) \in 1 .. Cardinality(D)
  <2>1. U(i) # {}
    BY <1>2
  <2>2. Cardinality(U(i)) # 0
    BY <1>3, <2>1, FS_EmptySet
  <2>3. QED BY <1>1, <1>3, <2>2 DEF Place
<1>5. ASSUME NEW j \in D, Earlier(names, rank, i, j)
      PROVE  Cardinality(U(i)) < Cardinality(U(j))
  <2>1. U(i) \in SUBSET U(j)
    BY <1>1, <1>5 DEF Upto, Earlier
  <2>2. j \in U(j) /\ j \notin U(i)
    BY <1>1, <1>5 DEF Upto, Earlier
  <2>3. /\ Cardinality(U(i)) <= Cardinality(U(j))
        /\ Cardinality(U(i)) # Cardinality(U(j))
    BY <1>3, <2>1, <2>2, FS_Subset
  <2>4. QED BY <1>3, <2>3
<1>6. QED BY <1>4, <1>5 DEF Place

\* There is an arrangement: places are given to the positions one to one.
LEMMA ArrangementExists ==
  ASSUME NEW P, NEW names \in Seq(P), NEW chosen, NEW rank \in [P -> Int]
  PROVE  \E at : Arranges(at, names, chosen, rank)
<1> DEFINE D == Positions(names, chosen)
           n == Cardinality(D)
           place == [i \in D |-> Place(names, chosen, rank, i)]
           at == [k \in 1 .. n |-> CHOOSE i \in D : Place(names, chosen, rank, i) = k]
<1>1. /\ IsFiniteSet(D) /\ n \in Nat
      /\ \A i \in D : i \in DOMAIN names
  <2>1. \A i \in D : i \in DOMAIN names
    BY DEF Positions
  <2>2. QED BY <2>1, PositionsFinite
<1>2. place \in [D -> 1 .. n]
  BY PlacesGrow
<1>3. \A i, j \in D : Earlier(names, rank, i, j) => place[i] < place[j]
  BY PlacesGrow
<1>4. \A i, j \in D : i # j => Earlier(names, rank, i, j) \/ Earlier(names, rank, j, i)
  BY <1>1, EarlierIsTotal
<1> HIDE DEF place
<1>5. \A i, j \in D : place[i] = place[j] => i = j
  <2>1. \A i, j \in D : place[i] \in Int /\ place[j] \in Int
    BY <1>2
  <2>2. QED BY <1>3, <1>4, <2>1
<1>6. \A k \in 1 .. n : \E i \in D : place[i] = k
  <2>1. place \in Injection(D, 1 .. n)
    BY <1>2, <1>5 DEF Injection, IsInjective
  <2>2. IsFiniteSet(1 .. n) /\ Cardinality(1 .. n) = n
    BY <1>1, FS_Interval
  <2>3. place \in Surjection(D, 1 .. n)
    BY <2>1, <2>2, FS_Injection
  <2>4. QED BY <2>3 DEF Surjection
<1>7. \A k \in 1 .. n : at[k] \in D /\ place[at[k]] = k
  BY <1>6 DEF place
<1>8. Arranged(names, chosen, rank) = [k \in 1 .. n |-> names[at[k]]]
  BY DEF Arranged, Place
<1> HIDE DEF at
<1>9. \A i \in D : \E k \in 1 .. n : at[k] = i
  BY <1>2, <1>5, <1>7
<1>10. ASSUME NEW j \in 1 .. n, NEW k \in 1 .. n, j < k
       PROVE  Earlier(names, rank, at[j], at[k])
  <2>1. place[at[j]] = j /\ place[at[k]] = k /\ at[j] \in D /\ at[k] \in D
    BY <1>7
  <2>2. ~ Earlier(names, rank, at[k], at[j])
    BY <1>3, <1>10, <2>1
  <2>3. QED BY <1>4, <1>10, <2>1, <2>2
<1>11. at \in [1 .. n -> D]
  BY <1>7 DEF at
<1>12. QED BY <1>1, <1>8, <1>9, <1>10, <1>11 DEF Arranges

-----------------------------------------------------------------------------
(* Merging *)

\* f is the recursive function of Rounds, up to round m.
Computes(f, m, sorted, loaded) ==
    f = [n \in 0 .. m |-> IF n = 0 THEN MergedPolicy
                          ELSE ApplyPolicy(f[n - 1], loaded[sorted[n]])]

Computable(m, sorted, loaded) == \E f : Computes(f, m, sorted, loaded)

LEMMA OneMoreRound ==
  ASSUME NEW m \in Nat, NEW sorted, NEW loaded, Computable(m, sorted, loaded)
  PROVE  Computable(m + 1, sorted, loaded)
<1>1. PICK f : Computes(f, m, sorted, loaded)
  BY DEF Computable
<1> DEFINE g == [n \in 0 .. m + 1 |->
                   IF n = m + 1 THEN ApplyPolicy(f[m], loaded[sorted[n]]) ELSE f[n]]
           h == [n \in 0 .. m + 1 |-> IF n = 0 THEN MergedPolicy
                                      ELSE ApplyPolicy(g[n - 1], loaded[sorted[n]])]
<1>2. ASSUME NEW n \in 0 .. m + 1 PROVE g[n] = h[n]
  <2>1. CASE n = m + 1
    <3>1. n # 0 /\ n - 1 = m /\ m \in 0 .. m + 1 /\ m # m + 1
      BY <2>1
    <3>2. g[m] = f[m]
      BY <3>1
    <3>3. QED BY <2>1, <3>1, <3>2
  <2>2. CASE n # m + 1
    <3>1. n \in 0 .. m
      BY <2>2
    <3>2. g[n] = f[n]
      BY <2>2
    <3>3. CASE n = 0
      BY <1>1, <3>1, <3>2, <3>3 DEF Computes
    <3>4. CASE n # 0
      <4>1. n - 1 \in 0 .. m + 1 /\ n - 1 # m + 1
        BY <3>1, <3>4
      <4>2. g[n - 1] = f[n - 1]
        BY <4>1
      <4>3. f[n] = ApplyPolicy(f[n - 1], loaded[sorted[n]])
        BY <1>1, <3>1, <3>4 DEF Computes
      <4>4. QED BY <3>2, <3>4, <4>2, <4>3
    <3>5. QED BY <3>3, <3>4
  <2>3. QED BY <2>1, <2>2
<1>3. g = h
  BY <1>2
<1>4. Computes(g, m + 1, sorted, loaded)
  BY <1>3 DEF Computes
<1>5. QED BY <1>4 DEF Computable

\* The loop begins with nothing merged, and each round applies one policy.
LEMMA RoundByRound ==
  ASSUME NEW sorted, NEW loaded, Len(sorted) \in Nat
  PROVE  /\ Rounds(sorted, loaded)[0] = MergedPolicy
         /\ \A n \in 1 .. Len(sorted) :
              Rounds(sorted, loaded)[n] =
                ApplyPolicy(Rounds(sorted, loaded)[n - 1], loaded[sorted[n]])
<1> DEFINE N == Len(sorted)
           S == {m \in 0 .. N : Computable(m, sorted, loaded)}
<1>1. Computable(0, sorted, loaded)
  <2> DEFINE f == [n \in 0 .. 0 |-> MergedPolicy]
             g == [n \in 0 .. 0 |-> IF n = 0 THEN MergedPolicy
                                    ELSE ApplyPolicy(f[n - 1], loaded[sorted[n]])]
  <2>1. f = g
    OBVIOUS
  <2>2. Computes(f, 0, sorted, loaded)
    BY <2>1 DEF Computes
  <2>3. QED BY <2>2 DEF Computable
<1>2. \A n \in 0 .. N - 1 : n \in S => n + 1 \in S
  BY OneMoreRound
<1>3. 0 \in S
  BY <1>1
<1> HIDE DEF S
<1>4. \A n \in 0 .. N : n \in S
  BY <1>2, <1>3, InductionTo
<1>5. Computable(N, sorted, loaded)
  BY <1>4 DEF S
<1>6. Computes(Rounds(sorted, loaded), N, sorted, loaded)
  BY <1>5 DEF Rounds, Computes, Computable
<1> DEFINE r == Rounds(sorted, loaded)
<1> HIDE DEF r
<1>7. r = [n \in 0 .. N |-> IF n = 0 THEN MergedPolicy
                            ELSE ApplyPolicy(r[n - 1], loaded[sorted[n]])]
  BY <1>6 DEF r, Computes
<1>8. /\ r[0] = MergedPolicy
      /\ \A n \in 1 .. N : r[n] = ApplyPolicy(r[n - 1], loaded[sorted[n]])
  <2>1. 0 \in 0 .. N /\ \A n \in 1 .. N : n \in 0 .. N /\ n # 0
    OBVIOUS
  <2>2. QED BY <1>7, <2>1
<1>9. QED BY <1>8 DEF r

\* After n rounds a key has the value of the last policy so far that has it.
LastHas(sorted, loaded, k, n) ==
    LET Has(i) == loaded[sorted[i]].content.set[k] # Unset
        value  == Rounds(sorted, loaded)[n].set[k] IN
    /\ (\A i \in 1 .. n : ~ Has(i)) => value = Defaults[k]
    /\ \A i \in 1 .. n : Has(i) /\ (\A j \in i + 1 .. n : ~ Has(j)) =>
         value = loaded[sorted[i]].content.set[k]

LEMMA LastWins ==
  ASSUME NEW sorted, NEW loaded, Len(sorted) \in Nat, NEW k \in Keys
  PROVE  \A n \in 0 .. Len(sorted) : LastHas(sorted, loaded, k, n)
<1> DEFINE N == Len(sorted)
           S == {n \in 0 .. N : LastHas(sorted, loaded, k, n)}
           r == Rounds(sorted, loaded)
           V(i) == loaded[sorted[i]].content.set[k]
<1>1. /\ r[0] = MergedPolicy
      /\ \A n \in 1 .. N : r[n] = ApplyPolicy(r[n - 1], loaded[sorted[n]])
  BY RoundByRound
<1> HIDE DEF r
<1>2. 0 \in S
  <2>1. r[0].set[k] = Defaults[k]
    BY <1>1 DEF MergedPolicy
  <2>2. QED BY <2>1 DEF LastHas, r
<1>3. ASSUME NEW n \in 0 .. N - 1, n \in S PROVE n + 1 \in S
  <2>1. LastHas(sorted, loaded, k, n)
    BY <1>3
  <2>2. n + 1 \in 1 .. N /\ (n + 1) - 1 = n
    OBVIOUS
  <2>3. r[n + 1].set[k] = IF V(n + 1) = Unset THEN r[n].set[k] ELSE V(n + 1)
    <3>1. r[n + 1] = ApplyPolicy(r[n], loaded[sorted[n + 1]])
      BY <1>1, <2>2
    <3>2. QED BY <3>1 DEF ApplyPolicy
  <2>4. (\A i \in 1 .. n + 1 : V(i) = Unset) => r[n + 1].set[k] = Defaults[k]
    <3>1. (\A i \in 1 .. n : V(i) = Unset) => r[n].set[k] = Defaults[k]
      BY <2>1 DEF LastHas, r
    <3>2. \A i \in 1 .. n : i \in 1 .. n + 1
      OBVIOUS
    <3>3. QED BY <2>2, <2>3, <3>1, <3>2
  <2>5. ASSUME NEW i \in 1 .. n + 1, V(i) # Unset, \A j \in i + 1 .. n + 1 : V(j) = Unset
        PROVE  r[n + 1].set[k] = V(i)
    <3>1. CASE i = n + 1
      BY <2>3, <2>5, <3>1
    <3>2. CASE i # n + 1
      <4>1. /\ i \in 1 .. n /\ n + 1 \in i + 1 .. n + 1
            /\ \A j \in i + 1 .. n : j \in i + 1 .. n + 1
        BY <3>2
      <4>2. V(n + 1) = Unset /\ \A j \in i + 1 .. n : V(j) = Unset
        BY <2>5, <4>1
      <4>3. r[n].set[k] = V(i)
        BY <2>1, <2>5, <4>1, <4>2 DEF LastHas, r
      <4>4. QED BY <2>3, <4>2, <4>3
    <3>3. QED BY <3>1, <3>2
  <2>6. LastHas(sorted, loaded, k, n + 1)
    BY <2>4, <2>5 DEF LastHas, r
  <2>7. QED BY <2>2, <2>6
<1> HIDE DEF S
<1>4. \A n \in 0 .. N : n \in S
  BY <1>2, <1>3, InductionTo
<1>5. QED BY <1>4 DEF S

\* After n rounds a list has the items of the policies so far.
AllAdd(sorted, loaded, l, n) ==
    Rounds(sorted, loaded)[n].lists[l] =
      UNION {loaded[sorted[i]].content.lists[l] :
               i \in {j \in 1 .. n : l = Egress => loaded[sorted[j]].content.network}}

LEMMA EachAdds ==
  ASSUME NEW sorted, NEW loaded, Len(sorted) \in Nat, NEW l \in Lists
  PROVE  \A n \in 0 .. Len(sorted) : AllAdd(sorted, loaded, l, n)
<1> DEFINE N == Len(sorted)
           S == {n \in 0 .. N : AllAdd(sorted, loaded, l, n)}
           r == Rounds(sorted, loaded)
           I(i) == loaded[sorted[i]].content.lists[l]
           Read(i) == l = Egress => loaded[sorted[i]].content.network
<1>1. /\ r[0] = MergedPolicy
      /\ \A n \in 1 .. N : r[n] = ApplyPolicy(r[n - 1], loaded[sorted[n]])
  BY RoundByRound
<1> HIDE DEF r
<1>2. 0 \in S
  <2>1. r[0].lists[l] = {}
    BY <1>1 DEF MergedPolicy
  <2>2. QED BY <2>1 DEF AllAdd, r
<1>3. ASSUME NEW n \in 0 .. N - 1, n \in S PROVE n + 1 \in S
  <2>1. r[n].lists[l] = UNION {I(i) : i \in {j \in 1 .. n : Read(j)}}
    BY <1>3 DEF AllAdd, r
  <2>2. n + 1 \in 1 .. N /\ (n + 1) - 1 = n
    OBVIOUS
  <2>3. r[n + 1].lists[l] = IF Read(n + 1) THEN r[n].lists[l] \cup I(n + 1)
                                           ELSE r[n].lists[l]
    <3>1. r[n + 1] = ApplyPolicy(r[n], loaded[sorted[n + 1]])
      BY <1>1, <2>2
    <3>2. QED BY <3>1 DEF ApplyPolicy
  <2>4. \A j : j \in 1 .. n + 1 <=> j \in 1 .. n \/ j = n + 1
    OBVIOUS
  <2>5. r[n + 1].lists[l] = UNION {I(i) : i \in {j \in 1 .. n + 1 : Read(j)}}
    <3>1. CASE Read(n + 1)
      <4>1. {j \in 1 .. n + 1 : Read(j)} = {j \in 1 .. n : Read(j)} \cup {n + 1}
        BY <2>4, <3>1
      <4>2. QED BY <2>1, <2>3, <3>1, <4>1
    <3>2. CASE ~ Read(n + 1)
      <4>1. {j \in 1 .. n + 1 : Read(j)} = {j \in 1 .. n : Read(j)}
        BY <2>4, <3>2
      <4>2. QED BY <2>1, <2>3, <3>2, <4>1
    <3>3. QED BY <3>1, <3>2
  <2>6. AllAdd(sorted, loaded, l, n + 1)
    BY <2>5 DEF AllAdd, r
  <2>7. QED BY <2>2, <2>6
<1> HIDE DEF S
<1>4. \A n \in 0 .. N : n \in S
  BY <1>2, <1>3, InductionTo
<1>5. QED BY <1>4 DEF S

-----------------------------------------------------------------------------
(* The policy of an agent *)

Loaded == [Policies -> Definition \cup {None}]

LEMMA PriorityType ==
  ASSUME NEW loaded \in Loaded
  PROVE  Priority(loaded) \in [Policies -> Int]
BY DEF Priority, Loaded, Definition, Attributes

\* Of positions of policies at most one wins.
LEMMA OneWinner ==
  ASSUME NEW names \in Seq(Policies), NEW loaded \in Loaded,
         NEW having \in SUBSET DOMAIN names,
         NEW i \in having, Wins(names, loaded, having, i),
         NEW j \in having, Wins(names, loaded, having, j)
  PROVE  i = j
<1> DEFINE rank == Priority(loaded)
<1>1. /\ rank[names[i]] \in Int /\ rank[names[j]] \in Int
      /\ i \in Int /\ j \in Int
  BY PriorityType
<1> HIDE DEF rank
<1>2. /\ rank[names[i]] > rank[names[j]] \/ (rank[names[i]] = rank[names[j]] /\ i >= j)
      /\ rank[names[j]] > rank[names[i]] \/ (rank[names[j]] = rank[names[i]] /\ j >= i)
  BY DEF Wins, rank
<1>3. QED BY <1>1, <1>2

InOrderOf(at, names, chosen) ==
    [k \in 1 .. Cardinality(Positions(names, chosen)) |-> names[at[k]]]

\* load_policies_for_agent() merges in the order of an arrangement.
LEMMA MergedInOrder ==
  ASSUME NEW names \in Seq(Policies), NEW loaded \in Loaded, NEW type, NEW trust,
         NEW at, Arranges(at, names, Applicable(names, loaded, type, trust), Priority(loaded))
  PROVE  LET chosen == Applicable(names, loaded, type, trust)
             n      == Cardinality(Positions(names, chosen))
             sorted == InOrderOf(at, names, chosen)
         IN  /\ Len(sorted) = n
             /\ LoadPolicies(names, loaded, type, trust) = Rounds(sorted, loaded)[n]
<1> DEFINE chosen == Applicable(names, loaded, type, trust)
           n == Cardinality(Positions(names, chosen))
           sorted == InOrderOf(at, names, chosen)
<1>1. n \in Nat /\ Arranged(names, chosen, Priority(loaded)) = sorted
  BY DEF Arranges, InOrderOf
<1>2. Len(sorted) = n
  BY <1>1 DEF InOrderOf
<1>3. LoadPolicies(names, loaded, type, trust) =
        LET s == Arranged(names, chosen, Priority(loaded)) IN Rounds(s, loaded)[Len(s)]
  BY DEF LoadPolicies, Sorted
<1> HIDE DEF sorted, n, chosen
<1>4. LoadPolicies(names, loaded, type, trust) = Rounds(sorted, loaded)[n]
  BY <1>1, <1>2, <1>3
<1>5. QED BY <1>2, <1>4 DEF sorted, n, chosen

\* For links and policies of every number, each key of the policy of an agent
\* has the value of the winner among the policies that apply (the loop and
\* _apply_policy, policy.py:189-212).
THEOREM KeysAreTheWinners ==
  ASSUME NEW names \in Seq(Policies), NEW loaded \in Loaded, NEW type, NEW trust,
         NEW k \in Keys
  PROVE  LoadPolicies(names, loaded, type, trust).set[k] =
           ValueOf(names, Applicable(names, loaded, type, trust), loaded, k, Defaults[k])
<1> DEFINE chosen == Applicable(names, loaded, type, trust)
           rank   == Priority(loaded)
           D      == Positions(names, chosen)
           n      == Cardinality(D)
           having == Having(names, chosen, loaded, k)
           Has(i) == loaded[names[i]].content.set[k] # Unset
           answer == LoadPolicies(names, loaded, type, trust)
<1>1. PICK at : Arranges(at, names, chosen, rank)
  BY PriorityType, ArrangementExists
<1> DEFINE sorted == InOrderOf(at, names, chosen)
<1>2. Len(sorted) = n /\ answer = Rounds(sorted, loaded)[n]
  BY <1>1, MergedInOrder
<1> HIDE DEF answer, chosen
<1>3. /\ n \in Nat
      /\ at \in [1 .. n -> D]
      /\ \A i \in D : \E q \in 1 .. n : at[q] = i
      /\ \A i, j \in 1 .. n : i < j => Earlier(names, rank, at[i], at[j])
  BY <1>1 DEF Arranges
<1> HIDE DEF D, n, rank
<1>4. \A q \in 1 .. n : at[q] \in D /\ sorted[q] = names[at[q]]
  BY <1>3 DEF InOrderOf, D, n
<1> HIDE DEF sorted
<1>5. having = {i \in D : Has(i)}
  BY DEF Having, D
<1>6. LastHas(sorted, loaded, k, n)
  BY <1>2, <1>3, LastWins
<1>7. /\ (\A q \in 1 .. n : ~ Has(at[q])) => answer.set[k] = Defaults[k]
      /\ \A q \in 1 .. n : Has(at[q]) /\ (\A j \in q + 1 .. n : ~ Has(at[j])) =>
           answer.set[k] = loaded[names[at[q]]].content.set[k]
  <2>1. /\ (\A q \in 1 .. n : loaded[sorted[q]].content.set[k] = Unset) =>
             answer.set[k] = Defaults[k]
        /\ \A q \in 1 .. n :
             /\ loaded[sorted[q]].content.set[k] # Unset
             /\ \A j \in q + 1 .. n : loaded[sorted[j]].content.set[k] = Unset
             => answer.set[k] = loaded[sorted[q]].content.set[k]
    BY <1>2, <1>6 DEF LastHas
  <2>2. \A q \in 1 .. n : \A j \in q + 1 .. n : j \in 1 .. n
    BY <1>3
  <2>3. QED BY <1>4, <2>1, <2>2
<1>8. CASE having = {}
  <2>1. \A q \in 1 .. n : ~ Has(at[q])
    BY <1>4, <1>5, <1>8
  <2>2. QED BY <1>7, <1>8, <2>1 DEF ValueOf, answer, chosen
<1>9. CASE having # {}
  <2> DEFINE T == {q \in 1 .. n : at[q] \in having}
  <2>1. T # {}
    BY <1>3, <1>5, <1>9
  <2>2. PICK m \in T : \A q \in T : q <= m
    BY <1>3, <2>1, LargestOf
  <2>3. m \in 1 .. n /\ at[m] \in having /\ Has(at[m])
    BY <1>5, <2>2
  <2>4. \A q \in m + 1 .. n : ~ Has(at[q])
    <3>1. SUFFICES ASSUME NEW q \in m + 1 .. n, Has(at[q]) PROVE FALSE
      OBVIOUS
    <3>2. q \in 1 .. n /\ ~ (q <= m)
      BY <1>3, <2>3
    <3>3. q \in T
      BY <1>4, <1>5, <3>1, <3>2
    <3>4. QED BY <2>2, <3>2, <3>3
  <2>5. answer.set[k] = loaded[names[at[m]]].content.set[k]
    BY <1>7, <2>3, <2>4
  <2>6. Wins(names, loaded, having, at[m])
    <3>1. SUFFICES ASSUME NEW j \in having
                   PROVE  \/ rank[names[at[m]]] > rank[names[j]]
                          \/ rank[names[at[m]]] = rank[names[j]] /\ at[m] >= j
      BY DEF Wins, rank
    <3>2. PICK q \in 1 .. n : at[q] = j
      BY <1>3, <1>5
    <3>3. q \in T /\ q <= m
      BY <2>2, <3>2
    <3>4. /\ rank[names[j]] \in Int /\ rank[names[at[m]]] \in Int
          /\ j \in Int /\ at[m] \in Int
      <4>1. rank \in [Policies -> Int]
        BY PriorityType DEF rank
      <4>2. j \in D /\ at[m] \in D
        BY <1>5, <2>3
      <4>3. \A i \in D : i \in Int /\ names[i] \in Policies
        BY PositionsFinite DEF D
      <4>4. QED BY <4>1, <4>2, <4>3
    <3>5. CASE q = m
      BY <3>2, <3>4, <3>5
    <3>6. CASE q # m
      <4>1. Earlier(names, rank, j, at[m])
        BY <1>3, <2>3, <3>2, <3>3, <3>6
      <4>2. QED BY <3>4, <4>1 DEF Earlier
    <3>7. QED BY <3>5, <3>6
  <2>7. having \in SUBSET DOMAIN names
    BY <1>5 DEF D, Positions
  <2> HIDE DEF having
  <2>8. (CHOOSE i \in having : Wins(names, loaded, having, i)) = at[m]
    BY <2>3, <2>6, <2>7, OneWinner
  <2>9. QED BY <1>9, <2>5, <2>8 DEF ValueOf, answer, chosen, having
<1>10. QED BY <1>8, <1>9

\* Each list of the policy of an agent has the items of all the policies that
\* apply (_apply_policy, policy.py:293-395), the egress list of those with network.
THEOREM ListsAreUnions ==
  ASSUME NEW names \in Seq(Policies), NEW loaded \in Loaded, NEW type, NEW trust,
         NEW l \in Lists
  PROVE  LoadPolicies(names, loaded, type, trust).lists[l] =
           ItemsOf(names, Applicable(names, loaded, type, trust), loaded, l)
<1> DEFINE chosen == Applicable(names, loaded, type, trust)
           rank   == Priority(loaded)
           D      == Positions(names, chosen)
           n      == Cardinality(D)
           Read(p) == l = Egress => loaded[p].content.network
           answer == LoadPolicies(names, loaded, type, trust)
<1>1. PICK at : Arranges(at, names, chosen, rank)
  BY PriorityType, ArrangementExists
<1> DEFINE sorted == InOrderOf(at, names, chosen)
<1>2. Len(sorted) = n /\ answer = Rounds(sorted, loaded)[n]
  BY <1>1, MergedInOrder
<1> HIDE DEF answer, chosen
<1>3. /\ n \in Nat
      /\ at \in [1 .. n -> D]
      /\ \A i \in D : \E q \in 1 .. n : at[q] = i
  BY <1>1 DEF Arranges
<1>4. D = {i \in DOMAIN names : names[i] \in chosen}
  BY DEF Positions
<1> HIDE DEF D, n, rank
<1>5. \A q \in 1 .. n : at[q] \in D /\ sorted[q] = names[at[q]]
  BY <1>3 DEF InOrderOf, D, n
<1> HIDE DEF sorted
<1>6. {sorted[q] : q \in 1 .. n} = ToSet(names) \cap chosen
  <2>1. ASSUME NEW q \in 1 .. n PROVE sorted[q] \in ToSet(names) \cap chosen
    BY <1>4, <1>5 DEF ToSet
  <2>2. ASSUME NEW p \in ToSet(names) \cap chosen PROVE \E q \in 1 .. n : sorted[q] = p
    <3>1. PICK i \in DOMAIN names : names[i] = p
      BY DEF ToSet
    <3>2. i \in D
      BY <1>4, <3>1
    <3>3. QED BY <1>3, <1>5, <3>1, <3>2
  <2>3. QED BY <2>1, <2>2
<1>7. answer.lists[l] = UNION {loaded[sorted[i]].content.lists[l] :
                                  i \in {j \in 1 .. n : Read(sorted[j])}}
  <2>1. AllAdd(sorted, loaded, l, n)
    BY <1>2, <1>3, EachAdds
  <2>2. QED BY <1>2, <2>1 DEF AllAdd
<1>8. answer.lists[l] = UNION {loaded[p].content.lists[l] :
                                  p \in {q \in ToSet(names) \cap chosen : Read(q)}}
  <2>1. {loaded[sorted[i]].content.lists[l] : i \in {j \in 1 .. n : Read(sorted[j])}} =
          {loaded[p].content.lists[l] : p \in {q \in ToSet(names) \cap chosen : Read(q)}}
    BY <1>6
  <2>2. QED BY <1>7, <2>1
<1>9. QED BY <1>8 DEF ItemsOf, answer, chosen

-----------------------------------------------------------------------------
(* Two sorts *)

\* The first policy with k in a list with higher priorities first, when no other
\* one has its priority, is the winner of the merge, which puts lower ones first.
LEMMA FirstShownWins ==
  ASSUME NEW names \in Seq(Policies), NEW loaded \in Loaded, NEW k \in Keys, NEW without,
         NEW chosen, NEW existing, chosen \subseteq existing \cap Policies,
         NEW priority \in [Policies -> Int],
         \A p \in chosen : loaded[p] # None /\ priority[p] = loaded[p].attrs.priority,
         NEW shown, shown = SortedDown(names, existing, priority),
         NEW i \in Having(shown, chosen, loaded, k),
         \A j \in Having(shown, chosen, loaded, k) \ {i} :
            j > i /\ priority[shown[j]] # priority[shown[i]]
  PROVE  ValueOf(names, chosen, loaded, k, without) = loaded[shown[i]].content.set[k]
<1> DEFINE down == [p \in Policies |-> - priority[p]]
           D == Positions(names, existing)
           n == Cardinality(D)
           having == Having(names, chosen, loaded, k)
           first == Having(shown, chosen, loaded, k)
           Has(p) == p \in chosen /\ loaded[p].content.set[k] # Unset
<1>1. down \in [Policies -> Int] /\ shown = Arranged(names, existing, down)
  BY DEF SortedDown
<1>2. PICK at : Arranges(at, names, existing, down)
  BY <1>1, ArrangementExists
<1>3. /\ n \in Nat /\ at \in [1 .. n -> D]
      /\ \A j \in D : \E q \in 1 .. n : at[q] = j
      /\ \A p, q \in 1 .. n : p < q => Earlier(names, down, at[p], at[q])
      /\ shown = [q \in 1 .. n |-> names[at[q]]]
  BY <1>1, <1>2 DEF Arranges
<1>4. D = {j \in DOMAIN names : names[j] \in existing}
  BY DEF Positions
<1>5. having = {j \in DOMAIN names : Has(names[j])}
  BY DEF Having, Positions
<1>6. first = {q \in 1 .. n : Has(names[at[q]])} /\ \A q \in 1 .. n : shown[q] = names[at[q]]
  BY <1>3 DEF Having, Positions
<1>7. \A p \in Policies : down[p] = - priority[p] /\ priority[p] \in Int
  OBVIOUS
<1>8. \A j \in DOMAIN names : j \in Int /\ names[j] \in Policies
  OBVIOUS
<1>9. i \in first /\ \A j \in first \ {i} : j > i /\ priority[shown[j]] # priority[shown[i]]
  OBVIOUS
<1>10. \A p \in chosen : Priority(loaded)[p] = priority[p]
  BY DEF Priority
<1> HIDE DEF D, n, having, first, down
<1>11. i \in 1 .. n /\ at[i] \in DOMAIN names /\ at[i] \in having
  BY <1>3, <1>4, <1>5, <1>6, <1>9
<1>12. ASSUME NEW j \in having, j # at[i]
       PROVE  priority[names[at[i]]] > priority[names[j]]
  <2>1. Has(names[j]) /\ j \in D
    BY <1>4, <1>5
  <2>2. PICK q \in 1 .. n : at[q] = j
    BY <1>3, <2>1
  <2>3. q \in first /\ q # i
    BY <1>6, <1>12, <2>1, <2>2
  <2>4. q > i /\ priority[names[j]] # priority[names[at[i]]]
    <3>1. q > i /\ priority[shown[q]] # priority[shown[i]]
      BY <1>9, <2>3
    <3>2. shown[q] = names[j] /\ shown[i] = names[at[i]]
      BY <1>6, <1>11, <2>2
    <3>3. QED BY <3>1, <3>2
  <2>5. Earlier(names, down, at[i], j)
    BY <1>3, <1>11, <2>2, <2>4
  <2>6. /\ down[names[j]] = - priority[names[j]] /\ priority[names[j]] \in Int
        /\ down[names[at[i]]] = - priority[names[at[i]]] /\ priority[names[at[i]]] \in Int
    BY <1>4, <1>7, <1>8, <1>11, <2>1
  <2>7. QED BY <2>4, <2>5, <2>6 DEF Earlier
<1>13. Wins(names, loaded, having, at[i])
  <2>1. \A j \in having : Priority(loaded)[names[j]] = priority[names[j]]
    BY <1>5, <1>10
  <2>2. at[i] \in Int
    BY <1>8, <1>11
  <2>3. QED BY <1>11, <1>12, <2>1, <2>2 DEF Wins
<1>14. having \in SUBSET DOMAIN names
  BY <1>5
<1>15. (CHOOSE j \in having : Wins(names, loaded, having, j)) = at[i]
  BY <1>11, <1>13, <1>14, OneWinner
<1>16. shown[i] = names[at[i]] /\ having # {}
  BY <1>6, <1>11
<1>17. QED BY <1>15, <1>16 DEF ValueOf, having

=============================================================================
