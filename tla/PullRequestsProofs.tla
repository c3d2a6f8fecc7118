-------------------------- MODULE PullRequestsProofs ------------------------
(***************************************************************************)
(* Theorems about PullRequests for any number of requests, pull requests,  *)
(* reviews, comments, users and commits.                                   *)
(***************************************************************************)
EXTENDS PullRequests, FiniteSetTheorems, SequenceTheorems, TLAPS

-----------------------------------------------------------------------------
(* Sorting by rank: in a finite set with a total order every rank occurs. *)
TotalOrder(S, R) ==
    /\ \A p \in S : <<p, p>> \in R
    /\ \A p, q, r \in S : <<p, q>> \in R /\ <<q, r>> \in R => <<p, r>> \in R
    /\ \A p, q \in S : <<p, q>> \in R /\ <<q, p>> \in R => p = q
    /\ \A p, q \in S : <<p, q>> \in R \/ <<q, p>> \in R

Rank(S, R, p) == Cardinality({q \in S : <<q, p>> \in R})

LEMMA EveryRank ==
    ASSUME NEW S, NEW R, IsFiniteSet(S), TotalOrder(S, R)
    PROVE  \A k \in 1..Cardinality(S) : \E p \in S : Rank(S, R, p) = k
<1> USE DEF TotalOrder
<1> DEFINE Up(p) == {q \in S : <<q, p>> \in R}
           n == Cardinality(S)
           f == [p \in S |-> Cardinality(Up(p))]
<1>1. n \in Nat /\ IsFiniteSet(1..n) /\ Cardinality(1..n) = n
  BY FS_CardinalityType, FS_Interval
<1>2. ASSUME NEW p \in S
      PROVE  IsFiniteSet(Up(p)) /\ Cardinality(Up(p)) \in 1..n
  <2>1. Up(p) \subseteq S /\ p \in Up(p)
    OBVIOUS
  <2>2. IsFiniteSet(Up(p)) /\ Cardinality(Up(p)) <= n /\ Cardinality(Up(p)) \in Nat
    BY <2>1, FS_Subset, FS_CardinalityType
  <2>3. Cardinality(Up(p)) # 0
    BY <2>1, <2>2, FS_EmptySet
  <2> QED
    BY <1>1, <2>2, <2>3
<1>3. ASSUME NEW p \in S, NEW q \in S, <<p, q>> \in R, Cardinality(Up(p)) = Cardinality(Up(q))
      PROVE  p = q
  <2>1. Up(p) \subseteq Up(q)
    BY <1>3
  <2>2. Up(p) = Up(q)
    BY <1>2, <1>3, <2>1, FS_Subset
  <2>3. q \in Up(p)
    BY <2>2
  <2> QED
    BY <1>3, <2>3
<1>4. f \in Injection(S, 1..n)
  <2>1. f \in [S -> 1..n]
    BY <1>2
  <2>2. ASSUME NEW p \in S, NEW q \in S, f[p] = f[q] PROVE p = q
    BY <1>3, <2>2
  <2> HIDE DEF f
  <2> QED
    BY <2>1, <2>2 DEF Injection, IsInjective
<1>5. f \in Surjection(S, 1..n)
  <2> HIDE DEF f
  <2> QED BY <1>1, <1>4, FS_Injection
<1>6. \A k \in 1..n : \E p \in S : f[p] = k
  <2> HIDE DEF f
  <2> QED BY <1>5 DEF Surjection
<1>7. \A p \in S : f[p] = Rank(S, R, p)
  BY DEF Rank
<1> HIDE DEF f
<1> QED
  BY <1>6, <1>7

-----------------------------------------------------------------------------
(* ById *)

Kept(items, other) ==
    LET both == items \o other
    IN  {p \in DOMAIN both :
            p <= Len(items) \/ \A i \in DOMAIN items : items[i].id # both[p].id}

UpTo(items, other, p) ==
    LET both == items \o other
    IN  {q \in Kept(items, other) :
            both[q].id < both[p].id \/ (both[q].id = both[p].id /\ q <= p)}

Place(items, other, k) ==
    CHOOSE p \in Kept(items, other) : Cardinality(UpTo(items, other, p)) = k

LEMMA ByIdPlaces ==
    ASSUME NEW items, NEW other
    PROVE  ById(items, other) =
             [k \in 1..Cardinality(Kept(items, other)) |->
                (items \o other)[Place(items, other, k)]]
BY Zenon DEF ById, Kept, UpTo, Place

LEMMA KeptIs ==
    ASSUME NEW T, NEW items \in Seq(T), NEW other \in Seq(T)
    PROVE  /\ DOMAIN (items \o other) = 1 .. Len(items) + Len(other)
           /\ Len(items) \in Nat /\ Len(other) \in Nat
           /\ \A p \in DOMAIN (items \o other) : (items \o other)[p] \in T
           /\ Kept(items, other) \subseteq 1 .. Len(items) + Len(other)
           /\ IsFiniteSet(Kept(items, other))
           /\ Cardinality(Kept(items, other)) \in Nat
<1>1. /\ items \o other \in Seq(T)
      /\ DOMAIN (items \o other) = 1 .. Len(items) + Len(other)
      /\ Len(items) \in Nat /\ Len(other) \in Nat
  OBVIOUS
<1>2. \A p \in DOMAIN (items \o other) : (items \o other)[p] \in T
  BY <1>1
<1>3. Kept(items, other) \subseteq 1 .. Len(items) + Len(other)
  BY <1>1 DEF Kept
<1>4. IsFiniteSet(1 .. Len(items) + Len(other))
  BY <1>1, FS_Interval
<1>5. IsFiniteSet(Kept(items, other)) /\ Cardinality(Kept(items, other)) \in Nat
  BY <1>3, <1>4, FS_Subset, FS_CardinalityType
<1> QED
  BY <1>1, <1>2, <1>3, <1>5

LEMMA PlaceIs ==
    ASSUME NEW T, \A x \in T : x.id \in Nat,
           NEW items \in Seq(T), NEW other \in Seq(T),
           NEW k \in 1..Cardinality(Kept(items, other))
    PROVE  /\ Place(items, other, k) \in Kept(items, other)
           /\ Cardinality(UpTo(items, other, Place(items, other, k))) = k
<1> DEFINE both == items \o other
           S == Kept(items, other)
           R == {x \in S \X S : both[x[1]].id < both[x[2]].id
                                   \/ (both[x[1]].id = both[x[2]].id /\ x[1] <= x[2])}
<1>1. \A p \in S : p \in Nat /\ both[p].id \in Nat
  BY KeptIs
<1>2. IsFiniteSet(S)
  BY KeptIs
<1>3. \A p, q \in S : <<p, q>> \in R <=>
          both[p].id < both[q].id \/ (both[p].id = both[q].id /\ p <= q)
  OBVIOUS
<1>4. \A p \in S : UpTo(items, other, p) = {q \in S : <<q, p>> \in R}
  BY <1>3 DEF UpTo
<1> HIDE DEF R, S, both
<1>5. \A p \in S : <<p, p>> \in R
  BY <1>1, <1>3
<1>6. \A p, q, r \in S : <<p, q>> \in R /\ <<q, r>> \in R => <<p, r>> \in R
  BY <1>1, <1>3
<1>7. \A p, q \in S : <<p, q>> \in R /\ <<q, p>> \in R => p = q
  BY <1>1, <1>3
<1>8. ASSUME NEW p \in S, NEW q \in S
      PROVE  <<p, q>> \in R \/ <<q, p>> \in R
  <2>1. /\ p \in Nat /\ q \in Nat /\ both[p].id \in Nat /\ both[q].id \in Nat
    BY <1>1
  <2>2. \/ both[p].id < both[q].id \/ (both[p].id = both[q].id /\ p <= q)
        \/ both[q].id < both[p].id \/ (both[q].id = both[p].id /\ q <= p)
    BY <2>1
  <2> QED
    BY <1>3, <2>2, Zenon
<1>9. \E p \in S : Rank(S, R, p) = k
  <2>1. TotalOrder(S, R)
    BY <1>5, <1>6, <1>7, <1>8 DEF TotalOrder
  <2>2. k \in 1..Cardinality(S)
    BY DEF S
  <2> QED
    BY <1>2, <2>1, <2>2, EveryRank
<1>10. \E p \in Kept(items, other) : Cardinality(UpTo(items, other, p)) = k
  BY <1>4, <1>9 DEF S, Rank
<1> QED
  BY <1>10, Zenon DEF Place

(* Every item of the merged list is one of the two lists'. *)
LEMMA ByIdType ==
    ASSUME NEW T, \A x \in T : x.id \in Nat,
           NEW items \in Seq(T), NEW other \in Seq(T)
    PROVE  ById(items, other) \in Seq(T)
<1>1. \A k \in 1..Cardinality(Kept(items, other)) :
          (items \o other)[Place(items, other, k)] \in T
  BY PlaceIs, KeptIs
<1>2. Cardinality(Kept(items, other)) \in Nat
  BY KeptIs
<1> DEFINE N == Cardinality(Kept(items, other))
           g(k) == (items \o other)[Place(items, other, k)]
<1>3. ById(items, other) = [k \in 1..N |-> g(k)]
  BY ByIdPlaces
<1>4. N \in Nat /\ \A k \in 1..N : g(k) \in T
  BY <1>1, <1>2
<1> HIDE DEF N, g
<1> QED
  BY <1>3, <1>4

-----------------------------------------------------------------------------
(* Lists whose ids are the positions, as those of reviews are. *)
InOrder(list) == \A i \in DOMAIN list : list[i].id = i

(* The first list is the second one as it was earlier. *)
Begins(s, t) == Len(s) <= Len(t) /\ \A i \in 1..Len(s) : s[i] = t[i]

LEMMA Bijective ==
    ASSUME NEW S, NEW f \in [S -> Nat], NEW m \in Nat, IsFiniteSet(S),
           \A p \in S : f[p] \in 1..m,
           \A p, q \in S : f[p] = f[q] => p = q,
           \A k \in 1..m : \E p \in S : f[p] = k
    PROVE  Cardinality(S) = m
<1>1. f \in [S -> 1..m]
  OBVIOUS
<1>2. f \in Injection(S, 1..m)
  BY <1>1 DEF Injection, IsInjective
<1>3. f \in Surjection(S, 1..m)
  BY <1>1 DEF Surjection
<1>4. ExistsBijection(S, 1..m)
  BY <1>2, <1>3 DEF ExistsBijection, Bijection
<1>5. Cardinality(1..m) = m
  BY FS_Interval
<1> QED
  BY <1>4, <1>5, FS_Bijection

Longer(m, n) == IF m < n THEN n ELSE m

(* Merged lists of reviews: the first one, and what the second has more. *)
LEMMA ByIdInOrder ==
    ASSUME NEW T, NEW items \in Seq(T), NEW other \in Seq(T),
           \A x \in T : x.id \in Nat, InOrder(items), InOrder(other)
    PROVE  /\ ById(items, other) \in Seq(T)
           /\ Len(ById(items, other)) = Longer(Len(items), Len(other))
           /\ \A k \in 1..Longer(Len(items), Len(other)) :
                 ById(items, other)[k] = IF k <= Len(items) THEN items[k] ELSE other[k]
<1> DEFINE m == Len(items)
           n == Len(other)
           l == IF m < n THEN n ELSE m
           both == items \o other
           S == Kept(items, other)
           P(k) == IF k <= m THEN k ELSE m + k
<1>1. /\ m \in Nat /\ n \in Nat /\ l \in Nat /\ DOMAIN items = 1..m /\ DOMAIN other = 1..n
      /\ DOMAIN both = 1 .. m + n
      /\ \A p \in 1 .. m + n : both[p] = IF p <= m THEN items[p] ELSE other[p - m]
  OBVIOUS
<1>2. \A p \in 1 .. m + n : both[p].id = IF p <= m THEN p ELSE p - m
  <2>1. /\ \A p \in 1..m : items[p].id = p
        /\ \A p \in 1..n : other[p].id = p
    BY <1>1 DEF InOrder
  <2> HIDE DEF both, m, n
  <2> QED
    BY <1>1, <2>1
<1>3. \A p : p \in S <=> p \in 1 .. m + n /\ (p <= m \/ p - m > m)
  <2>1. \A p : p \in S <=>
          p \in 1 .. m + n /\ (p <= m \/ \A i \in 1..m : items[i].id # both[p].id)
    BY <1>1 DEF Kept
  <2>2. \A i \in 1..m : items[i].id = i
    BY <1>1 DEF InOrder
  <2> HIDE DEF S, both
  <2>3. \A p \in 1 .. m + n : ~ (p <= m) =>
          ((\A i \in 1..m : items[i].id # both[p].id) <=> p - m > m)
    BY <1>1, <1>2, <2>2
  <2> QED
    BY <1>1, <2>1, <2>3
<1> DEFINE f == [p \in S |-> both[p].id]
<1>4. IsFiniteSet(S)
  BY KeptIs
<1> HIDE DEF both, S, m, n
<1>5. \A p \in S : p \in Nat /\ both[p].id \in 1..l /\ P(both[p].id) = p
  BY <1>1, <1>2, <1>3
<1>6. ASSUME NEW k \in 1..l PROVE P(k) \in S /\ both[P(k)].id = k
  <2>1. P(k) \in 1 .. m + n /\ (k > m => P(k) = m + k) /\ (k <= m => P(k) = k)
    BY <1>1
  <2>2. both[P(k)].id = IF P(k) <= m THEN P(k) ELSE P(k) - m
    BY <1>2, <2>1
  <2>3. m \in Nat /\ k \in Nat \ {0}
    BY <1>1
  <2> HIDE DEF P, l
  <2>4. CASE k <= m
    BY <1>3, <2>1, <2>2, <2>4
  <2>5. CASE k > m
    <3>1. ~ (P(k) <= m) /\ P(k) - m = k
      BY <2>1, <2>3, <2>5
    <3> QED
      BY <1>3, <2>1, <2>2, <2>5, <3>1
  <2> QED
    BY <2>3, <2>4, <2>5
<1> HIDE DEF l, P
<1>7. Cardinality(S) = l
  <2>1. f \in [S -> Nat]
    BY <1>1, <1>5
  <2>2. /\ \A p \in S : f[p] \in 1..l
        /\ \A p, q \in S : f[p] = f[q] => p = q
    BY <1>5
  <2>3. \A k \in 1..l : \E p \in S : f[p] = k
    BY <1>6
  <2> HIDE DEF f
  <2> QED
    BY <1>1, <1>4, <2>1, <2>2, <2>3, Bijective
<1>8. ASSUME NEW k \in 1..l
      PROVE  Place(items, other, k) = P(k)
  <2> DEFINE c == Place(items, other, k)
             U == UpTo(items, other, c)
             g == [p \in U |-> both[p].id]
  <2>1. c \in S /\ Cardinality(U) = k
    BY <1>7, PlaceIs DEF S
  <2> HIDE DEF c
  <2>2. \A q : q \in U <=> q \in S /\ both[q].id <= both[c].id
    <3>1. \A q : q \in U <=> q \in S /\
              (both[q].id < both[c].id \/ (both[q].id = both[c].id /\ q <= c))
      BY DEF UpTo, S, both
    <3> QED
      BY <1>1, <1>5, <2>1, <3>1
  <2> HIDE DEF U
  <2>3. U \subseteq S /\ IsFiniteSet(U) /\ both[c].id \in Nat
    BY <1>1, <1>4, <1>5, <2>1, <2>2, FS_Subset
  <2>4. g \in [U -> Nat]
    BY <1>1, <1>5, <2>3
  <2>5. /\ \A p \in U : g[p] \in 1..both[c].id
        /\ \A p, q \in U : g[p] = g[q] => p = q
    BY <1>1, <1>5, <2>1, <2>2
  <2>6. ASSUME NEW j \in 1..both[c].id PROVE \E p \in U : g[p] = j
    <3>1. j \in 1..l
      BY <1>1, <1>5, <2>1
    <3>2. P(j) \in U
      BY <1>6, <2>2, <3>1
    <3> QED
      BY <1>6, <3>1, <3>2
  <2> HIDE DEF g
  <2>7. Cardinality(U) = both[c].id
    BY <2>3, <2>4, <2>5, <2>6, Bijective
  <2> QED
    BY <1>5, <2>1, <2>7 DEF c
<1>9. ById(items, other) = [k \in 1..l |-> both[P(k)]]
  BY <1>7, <1>8, ByIdPlaces DEF both, S
<1>10. ASSUME NEW k \in 1..l PROVE both[P(k)] = IF k <= m THEN items[k] ELSE other[k]
  <2>1. P(k) \in 1 .. m + n /\ P(k) = IF k <= m THEN k ELSE m + k
    BY <1>1 DEF P, l
  <2>2. both[P(k)] = IF P(k) <= m THEN items[P(k)] ELSE other[P(k) - m]
    BY <1>1, <2>1
  <2>3. m \in Nat /\ k \in Nat
    BY <1>1
  <2>4. CASE k <= m
    BY <2>1, <2>2, <2>4
  <2>5. CASE ~ (k <= m)
    <3>1. P(k) = m + k /\ ~ (P(k) <= m) /\ P(k) - m = k
      BY <1>1, <2>1, <2>3, <2>5
    <3> QED
      BY <2>2, <2>5, <3>1
  <2> QED
    BY <2>4, <2>5
<1>11. Len(ById(items, other)) = l
  BY <1>1, <1>9
<1>12. ById(items, other) \in Seq(T)
  BY ByIdType
<1> QED
  BY <1>9, <1>10, <1>11, <1>12 DEF l, m, n, Longer

-----------------------------------------------------------------------------
(* Two copies of one pull request *)

Reviews  == Seq([id : 1..MaxItems, by : Requests \cup {Nobody}, verdict : Verdicts])
Comments == Seq([id : 1..MaxItems, author : Users, body : 1..2])

LEMMA PullTypeIs ==
    PullType = [state : States, checks : {"none", "passing", "failing"},
                reviews : Reviews, comments : Comments,
                upd : Nat, commit : 0..MaxCommits, by : Requests \cup {Nobody}, need : 0..1]
BY DEF PullType, Reviews, Comments

LEMMA BeginsTransitive ==
    ASSUME NEW s, NEW t, NEW u, Len(s) \in Nat, Len(t) \in Nat, Len(u) \in Nat,
           Begins(s, t), Begins(t, u)
    PROVE  Begins(s, u)
BY DEF Begins

LEMMA BeginsItself ==
    ASSUME NEW s, Len(s) \in Nat
    PROVE  Begins(s, s)
BY DEF Begins

LEMMA BeginsRange ==
    ASSUME NEW s \in Reviews, NEW t \in Reviews, Begins(s, t)
    PROVE  Range(s) \subseteq Range(t)
<1>1. DOMAIN s = 1..Len(s) /\ DOMAIN t = 1..Len(t) /\ Len(s) \in Nat /\ Len(t) \in Nat
  BY DEF Reviews
<1>2. \A i \in DOMAIN s : i \in DOMAIN t /\ t[i] = s[i]
  BY <1>1 DEF Begins
<1> QED
  BY <1>2 DEF Range

(* A list that goes on has no fewer approvals. *)
LEMMA ApprovalsGrow ==
    ASSUME NEW p, NEW q, p.reviews \in Reviews, q.reviews \in Reviews,
           Begins(p.reviews, q.reviews)
    PROVE  /\ Approvals(p) \in Nat /\ Approvals(q) \in Nat
           /\ Approvals(p) <= Approvals(q)
<1> DEFINE A(x) == {i \in DOMAIN x.reviews : x.reviews[i].verdict = "approved"}
<1>1. /\ DOMAIN p.reviews = 1..Len(p.reviews) /\ DOMAIN q.reviews = 1..Len(q.reviews)
      /\ Len(p.reviews) \in Nat /\ Len(q.reviews) \in Nat
  BY DEF Reviews
<1>2. A(p) \subseteq A(q) /\ A(q) \subseteq 1..Len(q.reviews)
  BY <1>1 DEF Begins
<1>3. IsFiniteSet(1..Len(q.reviews))
  BY <1>1, FS_Interval
<1>4. IsFiniteSet(A(q)) /\ IsFiniteSet(A(p)) /\ Cardinality(A(p)) <= Cardinality(A(q))
  BY <1>2, <1>3, FS_Subset
<1>5. Cardinality(A(p)) \in Nat /\ Cardinality(A(q)) \in Nat
  BY <1>4, FS_CardinalityType
<1> QED
  BY <1>4, <1>5 DEF Approvals

(* Two copies merged: the reviews of the longer list, everything else that *)
(* is not a comment of the copy with the greater stamp.                    *)
LEMMA MergePullIs ==
    ASSUME NEW local \in PullType, NEW other \in PullType,
           InOrder(local.reviews), InOrder(other.reviews)
    PROVE  LET m == MergePull(local, other)
           IN  /\ m \in PullType /\ InOrder(m.reviews) /\ m.by = local.by
               /\ Begins(local.reviews, other.reviews) => m.reviews = other.reviews
               /\ \/ /\ other.upd > local.upd
                     /\ m.state = other.state /\ m.commit = other.commit /\ m.need = other.need
                  \/ /\ ~ (other.upd > local.upd)
                     /\ m.state = local.state /\ m.commit = local.commit /\ m.need = local.need
<1> DEFINE rs == ById(local.reviews, other.reviews)
           cs == ById(local.comments, other.comments)
           newer == IF other.upd > local.upd THEN other ELSE local
           m == MergePull(local, other)
<1> USE PullTypeIs
<1>1. /\ local.reviews \in Reviews /\ other.reviews \in Reviews
      /\ local.comments \in Comments /\ other.comments \in Comments
      /\ local.by \in Requests \cup {Nobody} /\ newer \in PullType
  OBVIOUS
<1>2. /\ rs \in Reviews
      /\ Len(rs) = Longer(Len(local.reviews), Len(other.reviews))
      /\ \A i \in 1..Len(rs) :
            rs[i] = IF i <= Len(local.reviews) THEN local.reviews[i] ELSE other.reviews[i]
  <2> DEFINE T == [id : 1..MaxItems, by : Requests \cup {Nobody}, verdict : Verdicts]
  <2>1. \A x \in T : x.id \in Nat
    BY PullAssumptions
  <2>2. local.reviews \in Seq(T) /\ other.reviews \in Seq(T)
    BY <1>1 DEF Reviews
  <2>3. Reviews = Seq(T)
    BY DEF Reviews
  <2> HIDE DEF T
  <2> QED
    BY <2>1, <2>2, <2>3, ByIdInOrder
<1>3. cs \in Comments
  <2> DEFINE T == [id : 1..MaxItems, author : Users, body : 1..2]
  <2>1. \A x \in T : x.id \in Nat
    BY PullAssumptions
  <2>2. local.comments \in Seq(T) /\ other.comments \in Seq(T)
    BY <1>1 DEF Comments
  <2> QED
    BY <2>1, <2>2, ByIdType DEF Comments
<1>4. m = [newer EXCEPT !.reviews = rs, !.comments = cs, !.by = local.by]
  BY DEF MergePull
<1> HIDE DEF m, rs, cs
<1>5. /\ m \in PullType /\ m.reviews = rs /\ m.by = local.by
      /\ m.state = newer.state /\ m.commit = newer.commit /\ m.need = newer.need
  BY <1>1, <1>2, <1>3, <1>4
<1>6. /\ DOMAIN local.reviews = 1..Len(local.reviews) /\ Len(local.reviews) \in Nat
      /\ DOMAIN other.reviews = 1..Len(other.reviews) /\ Len(other.reviews) \in Nat
      /\ DOMAIN rs = 1..Len(rs)
  BY <1>1, <1>2 DEF Reviews
<1>7. InOrder(m.reviews)
  BY <1>2, <1>5, <1>6 DEF InOrder, Longer
<1>8. ASSUME Begins(local.reviews, other.reviews) PROVE m.reviews = other.reviews
  <2>1. Len(rs) = Len(other.reviews) /\ \A i \in 1..Len(rs) : rs[i] = other.reviews[i]
    BY <1>2, <1>6, <1>8 DEF Begins, Longer
  <2> QED
    BY <1>1, <1>2, <1>5, <2>1, SeqEqual DEF Reviews
<1> QED
  BY <1>5, <1>7, <1>8 DEF m

-----------------------------------------------------------------------------
(* The invariant *)

PCs  == {"idle", "checking", "saving", "gate", "hooks", "merging", "done", "panicked"}
Jobs == [pc : PCs, n : Nat, snap : PullType, force : BOOLEAN, need : 0..1]

WellFormed(pr) == pr \in PullType /\ InOrder(pr.reviews)

Histories == [Branches -> SUBSET (1..made)]

(* The types, and that a copy holds no pull request that the file does not *)
(* hold.                                                                   *)
Types ==
    /\ next \in 1 .. MaxPulls + 1 /\ DOMAIN prs \subseteq 1 .. next - 1
    /\ \A n \in DOMAIN prs : WellFormed(prs[n])
    /\ rule \in Rules /\ hist \in Histories /\ head \in Branches
    /\ mutex \in Requests \cup {Nobody}
    /\ job \in [Requests -> Jobs]
    /\ made \in Nat /\ now \in [s : Nat, k : Nat]
    /\ merges \in [1..MaxPulls -> Nat] /\ rolled \in BOOLEAN

CopyTypes ==
    /\ cli = [open |-> cli.open, prs |-> cli.prs, next |-> cli.next,
              rule |-> cli.rule, hist |-> cli.hist]
    /\ DOMAIN cli.prs \subseteq DOMAIN prs /\ cli.next \in 1..next
    /\ cli.rule \in Rules /\ cli.hist \in Histories
    /\ \A n \in DOMAIN cli.prs : WellFormed(cli.prs[n])

(* The older copy of a pull request that a handler or the command line has *)
(* is the file's as it was: of the same creator, with reviews that the     *)
(* file still begins with, unless a run of the checks replaced it.         *)
Older(old, n) ==
    /\ InOrder(old.reviews)
    /\ n \in DOMAIN prs /\ old.by = prs[n].by
    /\ n \in replaced \/ Begins(old.reviews, prs[n].reviews)

JobsOlder ==
    \A r \in Requests :
        job[r].pc \in {"checking", "saving", "gate", "hooks", "merging"} =>
            Older(job[r].snap, job[r].n)

JobsOpen ==
    \A r \in Requests : job[r].pc \in {"checking", "saving"} => job[r].snap.state = "open"

(* A request past the gate read the approvals that the rule asked for. *)
JobsApproved ==
    \A r \in Requests : job[r].pc \in {"hooks", "merging"} =>
        Approvals(job[r].snap) >= job[r].need

CopyOlder == \A n \in DOMAIN cli.prs : Older(cli.prs[n], n)

(* What is said of a merged pull request, of the file or of the copy. *)
Merged(pr, n, h) ==
    pr.state = "merged" =>
        /\ n \in replaced \/ Approvals(pr) >= pr.need
        /\ pr.commit \in h[Target] \/ rolled

FileMerged == \A n \in DOMAIN prs : Merged(prs[n], n, hist)

CopyMerged == \A n \in DOMAIN cli.prs : Merged(cli.prs[n], n, cli.hist)

(* A merge that made a commit is seen in the state, and so is the only one. *)
MergesOnce ==
    \A n \in (1..MaxPulls) \ (replaced \cup tied) :
        /\ merges[n] <= 1
        /\ merges[n] = 1 => n \in DOMAIN prs /\ prs[n].state = "merged"

PullsInv ==
    Types /\ CopyTypes /\ JobsOlder /\ JobsOpen /\ JobsApproved /\ CopyOlder
    /\ FileMerged /\ CopyMerged /\ MergesOnce

LEMMA NewPullType ==
    ASSUME NEW by \in Requests \cup {Nobody}, NEW upd \in Nat
    PROVE  WellFormed(NewPull(by, upd)) /\ NewPull(by, upd).state = "open"
<1>1. <<>> \in Reviews /\ <<>> \in Comments
  BY DEF Reviews, Comments
<1>2. InOrder(<<>>)
  BY DEF InOrder
<1> QED
  BY <1>1, <1>2, PullTypeIs, PullAssumptions DEF NewPull, WellFormed, States

LEMMA InitInv == Init => PullsInv
<1> SUFFICES ASSUME Init PROVE PullsInv
  OBVIOUS
<1>1. PICK s \in Starts : prs = s.prs /\ next = s.next /\ rule = s.rule
  BY DEF Init
<1>2. /\ next \in 1 .. MaxPulls + 1 /\ rule \in Rules /\ DOMAIN prs \subseteq 1 .. next - 1
      /\ \A n \in DOMAIN prs :
            /\ WellFormed(prs[n])
            /\ prs[n].state = "merged" =>
                  prs[n].commit = 1 /\ Approvals(prs[n]) >= prs[n].need
  BY <1>1, StartAssumptions DEF WellFormed, InOrder
<1>3. hist \in Histories /\ 1 \in hist[Target]
  BY DEF Init, Histories, Branches
<1>4. job \in [Requests -> Jobs] /\ \A r \in Requests : job[r].pc = "idle"
  <2>1. NewPull(Nobody, 0) \in PullType
    BY NewPullType DEF WellFormed
  <2>2. Idle \in Jobs /\ Idle.pc = "idle"
    BY <2>1 DEF Idle, Jobs, PCs
  <2> HIDE DEF Idle
  <2> QED
    BY <2>2 DEF Init
<1>5. Types
  BY <1>2, <1>3, <1>4 DEF Init, Types
<1>6. CopyTypes /\ DOMAIN cli.prs = {}
  BY <1>2 DEF Init, Closed, CopyTypes, NoRule, Rules, Histories
<1>7. JobsOlder /\ JobsOpen /\ JobsApproved
  BY <1>4 DEF JobsOlder, JobsOpen, JobsApproved
<1>8. CopyOlder /\ FileMerged /\ CopyMerged
  BY <1>2, <1>3, <1>6 DEF CopyOlder, FileMerged, CopyMerged, Merged
<1>9. MergesOnce
  BY DEF Init, MergesOnce
<1> QED
  BY <1>5, <1>6, <1>7, <1>8, <1>9 DEF PullsInv

-----------------------------------------------------------------------------
(* What a step may do to the pull requests of the file *)

(* They stay, and their reviews go on, unless a stale copy is written. *)
Growth ==
    /\ replaced \subseteq replaced' /\ tied \subseteq tied' /\ (rolled => rolled')
    /\ made <= made' /\ next <= next'
    /\ \A n \in DOMAIN prs :
          /\ n \in DOMAIN prs' /\ prs'[n].by = prs[n].by
          /\ n \in replaced' \/ Begins(prs[n].reviews, prs'[n].reviews)

StaysMerged ==
    \A n \in DOMAIN prs \ (replaced' \cup tied') :
        prs[n].state = "merged" => prs'[n].state = "merged"

(* What is to be shown of every step. *)
StepOk == PullsInv' /\ Growth /\ StaysMerged

LEMMA ReviewsLength ==
    ASSUME NEW pr \in PullType
    PROVE  pr.reviews \in Reviews /\ Len(pr.reviews) \in Nat
BY PullTypeIs DEF Reviews

LEMMA OlderKept ==
    ASSUME Types, Types', Growth, NEW old \in PullType, NEW n, Older(old, n)
    PROVE  /\ n \in DOMAIN prs' /\ old.by = prs'[n].by
           /\ n \in replaced' \/ Begins(old.reviews, prs'[n].reviews)
<1>1. n \in DOMAIN prs /\ n \in DOMAIN prs' /\ old.by = prs'[n].by
  BY DEF Older, Growth
<1>2. CASE n \in replaced'
  BY <1>1, <1>2
<1>3. CASE n \notin replaced'
  <2>1. Begins(old.reviews, prs[n].reviews) /\ Begins(prs[n].reviews, prs'[n].reviews)
    BY <1>1, <1>3 DEF Older, Growth
  <2>2. prs[n] \in PullType /\ prs'[n] \in PullType
    BY <1>1 DEF Types, WellFormed
  <2>3. /\ Len(old.reviews) \in Nat /\ Len(prs[n].reviews) \in Nat
        /\ Len(prs'[n].reviews) \in Nat
    BY <2>2, ReviewsLength
  <2>4. Begins(old.reviews, prs'[n].reviews)
    BY <2>1, <2>3, BeginsTransitive
  <2> QED
    BY <1>1, <2>4
<1> QED
  BY <1>2, <1>3

(* The jobs after a step of request r, whose job is then j. *)
LEMMA JobsKept ==
    ASSUME PullsInv, Types', Growth,
           NEW r \in Requests, NEW j \in Jobs, job' = [job EXCEPT ![r] = j],
           j.pc \in {"checking", "saving", "gate", "hooks", "merging"} =>
                /\ InOrder(j.snap.reviews)
                /\ j.n \in DOMAIN prs' /\ j.snap.by = prs'[j.n].by
                /\ j.n \in replaced' \/ Begins(j.snap.reviews, prs'[j.n].reviews),
           j.pc \in {"checking", "saving"} => j.snap.state = "open",
           j.pc \in {"hooks", "merging"} => Approvals(j.snap) >= j.need
    PROVE  JobsOlder' /\ JobsOpen' /\ JobsApproved'
<1>1. \A q \in Requests : job'[q] = (IF q = r THEN j ELSE job[q]) /\ job[q].snap \in PullType
  BY DEF PullsInv, Types, Jobs
<1>2. JobsOlder'
  <2> SUFFICES ASSUME NEW q \in Requests,
                      job'[q].pc \in {"checking", "saving", "gate", "hooks", "merging"}
               PROVE  Older(job[q].snap, job[q].n)'
    BY DEF JobsOlder
  <2>1. CASE q = r
    BY <1>1, <2>1 DEF Older
  <2>2. CASE q # r
    <3>1. job'[q] = job[q] /\ Older(job[q].snap, job[q].n)
      BY <1>1, <2>2 DEF PullsInv, JobsOlder
    <3>2. /\ job[q].n \in DOMAIN prs' /\ job[q].snap.by = prs'[job[q].n].by
          /\ job[q].n \in replaced' \/ Begins(job[q].snap.reviews, prs'[job[q].n].reviews)
      BY <1>1, <3>1, OlderKept DEF PullsInv
    <3> QED
      BY <3>1, <3>2 DEF Older
  <2> QED
    BY <2>1, <2>2
<1>3. JobsOpen' /\ JobsApproved'
  <2> SUFFICES ASSUME NEW q \in Requests
               PROVE  /\ job'[q].pc \in {"checking", "saving"} => job'[q].snap.state = "open"
                      /\ job'[q].pc \in {"hooks", "merging"} =>
                            Approvals(job'[q].snap) >= job'[q].need
    BY DEF JobsOpen, JobsApproved
  <2>1. CASE q = r
    BY <1>1, <2>1
  <2>2. CASE q # r
    BY <1>1, <2>2 DEF PullsInv, JobsOpen, JobsApproved
  <2> QED
    BY <2>1, <2>2
<1> QED
  BY <1>2, <1>3

(* The copy of the command line after a step of a request. *)
LEMMA CopyKept ==
    ASSUME PullsInv, Types', Growth, cli' = cli
    PROVE  CopyTypes' /\ CopyOlder' /\ CopyMerged'
<1>1. CopyTypes'
  BY DEF PullsInv, Types, CopyTypes, Growth, Histories, WellFormed
<1>2. CopyOlder'
  <2> SUFFICES ASSUME NEW n \in DOMAIN cli.prs PROVE Older(cli.prs[n], n)'
    BY DEF CopyOlder
  <2>1. Older(cli.prs[n], n) /\ cli.prs[n] \in PullType
    BY DEF PullsInv, CopyOlder, CopyTypes, WellFormed
  <2>2. /\ n \in DOMAIN prs' /\ cli.prs[n].by = prs'[n].by
        /\ n \in replaced' \/ Begins(cli.prs[n].reviews, prs'[n].reviews)
    BY <2>1, OlderKept DEF PullsInv
  <2> QED
    BY <2>1, <2>2 DEF Older
<1>3. CopyMerged'
  BY DEF PullsInv, CopyMerged, Merged, Growth
<1> QED
  BY <1>1, <1>2, <1>3

LEMMA MergesKept ==
    ASSUME PullsInv, Growth, StaysMerged, merges' = merges
    PROVE  MergesOnce'
BY DEF PullsInv, MergesOnce, Growth, StaysMerged

(* A step that leaves the pull requests as they are. *)
LEMMA Unchanged ==
    ASSUME PullsInv, Types', UNCHANGED <<prs, ghosts>>, made <= made', next <= next',
           hist[Target] \subseteq hist'[Target]
    PROVE  Growth /\ StaysMerged /\ MergesOnce' /\ FileMerged'
<1>1. \A n \in DOMAIN prs : Begins(prs[n].reviews, prs[n].reviews)
  BY ReviewsLength, BeginsItself DEF PullsInv, Types, WellFormed
<1>2. Growth /\ StaysMerged
  BY <1>1 DEF Growth, StaysMerged, ghosts
<1>3. MergesOnce'
  BY <1>2, MergesKept DEF ghosts
<1>4. FileMerged'
  BY DEF PullsInv, FileMerged, Merged, ghosts
<1> QED
  BY <1>2, <1>3, <1>4

(* A step of a request that changes no pull request. *)
LEMMA JobStep ==
    ASSUME PullsInv, UNCHANGED <<prs, hist, head, next, made, cli, ghosts>>,
           rule' \in Rules, mutex' \in Requests \cup {Nobody}, now' \in [s : Nat, k : Nat],
           NEW r \in Requests, NEW j \in Jobs, job' = [job EXCEPT ![r] = j],
           j.pc \in {"checking", "saving", "gate", "hooks", "merging"} => Older(j.snap, j.n),
           j.pc \in {"checking", "saving"} => j.snap.state = "open",
           j.pc \in {"hooks", "merging"} => Approvals(j.snap) >= j.need
    PROVE  StepOk
<1>1. Types'
  BY DEF PullsInv, Types, ghosts, WellFormed, Histories
<1>2. Growth /\ StaysMerged /\ MergesOnce' /\ FileMerged'
  BY <1>1, Unchanged DEF PullsInv, Types
<1>3. CopyTypes' /\ CopyOlder' /\ CopyMerged'
  BY <1>1, <1>2, CopyKept
<1>4. JobsOlder' /\ JobsOpen' /\ JobsApproved'
  BY <1>1, <1>2, JobsKept DEF Older, ghosts
<1> QED
  BY <1>1, <1>2, <1>3, <1>4 DEF StepOk, PullsInv

LEMMA GotoIs ==
    ASSUME Types, NEW r \in Requests, NEW at \in PCs, Goto(r, at)
    PROVE  \E j \in Jobs :
              /\ job' = [job EXCEPT ![r] = j]
              /\ j.pc = at /\ j.n = job[r].n /\ j.snap = job[r].snap /\ j.need = job[r].need
<1> DEFINE j == [job[r] EXCEPT !.pc = at]
<1>1. job[r] \in Jobs /\ job' = [job EXCEPT ![r] = j]
  BY DEF Types, Goto
<1>2. j \in Jobs /\ j.pc = at /\ j.n = job[r].n /\ j.snap = job[r].snap /\ j.need = job[r].need
  BY <1>1 DEF Jobs
<1> HIDE DEF j
<1> QED
  BY <1>1, <1>2

LEMMA ClockIs ==
    ASSUME Types, now' \in Clock
    PROVE  /\ now' \in [s : Nat, k : Nat]
           /\ now_iso8601(now') \in Nat /\ FracStamp(now') \in Nat
<1>1. now' \in [s : Nat, k : Nat]
  BY PullAssumptions DEF Types, Clock
<1> QED
  BY <1>1 DEF now_iso8601, FracStamp, Ticks

(* A handler of one step: the pull request keeps its creator, and is       *)
(* merged if it was.                                                       *)
LEMMA PutStep ==
    ASSUME PullsInv, NEW r \in Requests, NEW n \in DOMAIN prs, NEW pr, WellFormed(pr),
           pr.by = prs[n].by, Begins(prs[n].reviews, pr.reviews),
           pr.state = "merged" <=> prs[n].state = "merged",
           pr.commit = prs[n].commit, pr.need = prs[n].need,
           now' \in Clock, PutPull(r, n, pr)
    PROVE  StepOk
<1>1. /\ prs' = [prs EXCEPT ![n] = pr] /\ Goto(r, "done")
      /\ UNCHANGED <<next, rule, hist, head, mutex, cli, config, made, ghosts>>
  BY DEF PutPull
<1>2. PICK j \in Jobs : job' = [job EXCEPT ![r] = j] /\ j.pc = "done"
  BY <1>1, GotoIs DEF PullsInv, PCs
<1>3. Types'
  BY <1>1, <1>2, ClockIs DEF PullsInv, Types, ghosts, WellFormed, Histories
<1>4. \A m \in DOMAIN prs : prs'[m] = IF m = n THEN pr ELSE prs[m]
  BY <1>1
<1>5. \A m \in DOMAIN prs : Begins(prs[m].reviews, prs[m].reviews)
  BY ReviewsLength, BeginsItself DEF PullsInv, Types, WellFormed
<1>6. DOMAIN prs' = DOMAIN prs
  BY <1>1
<1>7. Growth /\ StaysMerged
  BY <1>1, <1>4, <1>5, <1>6 DEF Growth, StaysMerged, ghosts, PullsInv, Types
<1>8. Approvals(pr) >= Approvals(prs[n]) /\ Approvals(pr) \in Nat /\ Approvals(prs[n]) \in Nat
  <2>1. prs[n] \in PullType /\ pr \in PullType
    BY DEF PullsInv, Types, WellFormed
  <2> QED
    BY <2>1, ReviewsLength, ApprovalsGrow
<1>9. FileMerged'
  <2> SUFFICES ASSUME NEW m \in DOMAIN prs PROVE Merged(prs[m], m, hist)'
    BY <1>6 DEF FileMerged
  <2>1. Merged(prs[m], m, hist)
    BY DEF PullsInv, FileMerged
  <2>2. CASE m # n
    BY <1>1, <1>4, <2>1, <2>2 DEF Merged, ghosts
  <2>3. CASE m = n
    <3>1. prs'[m] = pr /\ hist' = hist /\ replaced' = replaced /\ rolled' = rolled
      BY <1>1, <1>4, <2>3 DEF ghosts
    <3>2. prs[n].need \in Nat
      BY PullTypeIs DEF PullsInv, Types, WellFormed
    <3> QED
      BY <1>8, <2>1, <2>3, <3>1, <3>2 DEF Merged
  <2> QED
    BY <2>2, <2>3
<1>10. CopyTypes' /\ CopyOlder' /\ CopyMerged'
  BY <1>1, <1>3, <1>7, CopyKept
<1>11. JobsOlder' /\ JobsOpen' /\ JobsApproved'
  BY <1>2, <1>3, <1>7, JobsKept
<1>12. MergesOnce'
  BY <1>1, <1>7, MergesKept DEF ghosts
<1> QED
  BY <1>3, <1>7, <1>9, <1>10, <1>11, <1>12 DEF StepOk, PullsInv

LEMMA UpdatePullStep ==
    ASSUME PullsInv, NEW r \in Requests, NEW n \in DOMAIN prs, UpdatePull(r, n)
    PROVE  StepOk
<1>1. PICK st \in {"open", "closed"} :
          /\ now' \in Clock
          /\ PutPull(r, n, [prs[n] EXCEPT !.state = st, !.upd = now_iso8601(now')])
  BY DEF UpdatePull
<1> DEFINE pr == [prs[n] EXCEPT !.state = st, !.upd = now_iso8601(now')]
<1>2. prs[n] \in PullType /\ InOrder(prs[n].reviews) /\ prs[n].state # "merged"
  BY DEF PullsInv, Types, WellFormed, UpdatePull, MayUpdate
<1>3. /\ pr \in PullType /\ pr.by = prs[n].by /\ pr.reviews = prs[n].reviews
      /\ pr.state # "merged" /\ pr.commit = prs[n].commit /\ pr.need = prs[n].need
  BY <1>1, <1>2, ClockIs, PullTypeIs DEF PullsInv, States
<1>4. Begins(prs[n].reviews, pr.reviews)
  BY <1>2, <1>3, ReviewsLength, BeginsItself
<1> HIDE DEF pr
<1>5. PutPull(r, n, pr)
  BY <1>1 DEF pr
<1> QED
  BY <1>1, <1>2, <1>3, <1>4, <1>5, PutStep DEF WellFormed

LEMMA CreateReviewStep ==
    ASSUME PullsInv, NEW r \in Requests, NEW n \in DOMAIN prs, CreateReview(r, n)
    PROVE  StepOk
<1> DEFINE old == prs[n].reviews
<1>1. PICK v \in Verdicts :
          /\ now' \in Clock
          /\ PutPull(r, n, [prs[n] EXCEPT
               !.reviews = Append(@, [id |-> Len(@) + 1, by |-> r, verdict |-> v]),
               !.upd = FracStamp(now')])
  BY DEF CreateReview
<1> DEFINE new == Append(old, [id |-> Len(old) + 1, by |-> r, verdict |-> v])
           pr == [prs[n] EXCEPT !.reviews = new, !.upd = FracStamp(now')]
<1>2. /\ prs[n] \in PullType /\ InOrder(old) /\ old \in Reviews /\ Len(old) \in Nat
      /\ Len(old) < MaxItems /\ MaxItems \in Nat
  BY ReviewsLength, PullAssumptions DEF PullsInv, Types, WellFormed, CreateReview
<1>3. /\ new \in Reviews /\ Len(new) = Len(old) + 1
      /\ \A i \in 1..Len(old) : new[i] = old[i]
      /\ new[Len(old) + 1].id = Len(old) + 1
  <2>1. [id |-> Len(old) + 1, by |-> r, verdict |-> v]
            \in [id : 1..MaxItems, by : Requests \cup {Nobody}, verdict : Verdicts]
    BY <1>2
  <2> QED
    BY <1>2, <2>1 DEF Reviews
<1>4. InOrder(new) /\ Begins(old, new)
  <2>1. DOMAIN new = 1 .. Len(old) + 1 /\ DOMAIN old = 1..Len(old)
    BY <1>2, <1>3 DEF Reviews
  <2> HIDE DEF new, old
  <2> QED
    BY <1>2, <1>3, <2>1 DEF InOrder, Begins
<1> HIDE DEF new
<1>5. /\ pr \in PullType /\ pr.by = prs[n].by /\ pr.reviews = new
      /\ pr.state = prs[n].state /\ pr.commit = prs[n].commit /\ pr.need = prs[n].need
  BY <1>1, <1>2, <1>3, ClockIs, PullTypeIs DEF PullsInv
<1>6. PutPull(r, n, pr)
  BY <1>1 DEF pr, new, old
<1> HIDE DEF pr
<1> QED
  BY <1>1, <1>2, <1>4, <1>5, <1>6, PutStep DEF WellFormed

(* A change of the comments. *)
LEMMA CommentsStep ==
    ASSUME PullsInv, NEW r \in Requests, NEW n \in DOMAIN prs,
           NEW cs \in Comments, NEW t \in Nat, now' \in Clock,
           PutPull(r, n, [prs[n] EXCEPT !.comments = cs, !.upd = t])
    PROVE  StepOk
<1> DEFINE pr == [prs[n] EXCEPT !.comments = cs, !.upd = t]
<1>1. prs[n] \in PullType /\ InOrder(prs[n].reviews)
  BY DEF PullsInv, Types, WellFormed
<1>2. /\ pr \in PullType /\ pr.by = prs[n].by /\ pr.reviews = prs[n].reviews
      /\ pr.state = prs[n].state /\ pr.commit = prs[n].commit /\ pr.need = prs[n].need
  BY <1>1, PullTypeIs
<1>3. Begins(prs[n].reviews, pr.reviews)
  BY <1>1, <1>2, ReviewsLength, BeginsItself
<1> HIDE DEF pr
<1>4. PutPull(r, n, pr)
  BY DEF pr
<1> QED
  BY <1>1, <1>2, <1>3, <1>4, PutStep DEF WellFormed

LEMMA CommentStep ==
    ASSUME PullsInv, NEW r \in Requests, NEW n \in DOMAIN prs,
           CreateComment(r, n) \/ UpdateComment(r, n) \/ DeleteComment(r, n)
    PROVE  StepOk
<1> DEFINE old == prs[n].comments
           Comment == [id : 1..MaxItems, author : Users, body : 1..2]
<1>1. /\ prs[n] \in PullType /\ old \in Comments /\ prs[n].upd \in Nat /\ Len(old) \in Nat
      /\ DOMAIN old = 1..Len(old) /\ \A i \in 1..Len(old) : old[i] \in Comment
  <2>1. prs[n] \in PullType /\ old \in Comments /\ prs[n].upd \in Nat
    BY PullTypeIs DEF PullsInv, Types, WellFormed
  <2>2. old \in Seq(Comment)
    BY <2>1 DEF Comments
  <2> HIDE DEF old, Comment
  <2> QED
    BY <2>1, <2>2
<1>2. CASE CreateComment(r, n)
  <2>1. PICK u \in Users :
            /\ now' \in Clock
            /\ PutPull(r, n, [prs[n] EXCEPT
                 !.comments = Append(@, [id |-> Len(@) + 1, author |-> u, body |-> 1]),
                 !.upd = FracStamp(now')])
    BY <1>2 DEF CreateComment
  <2> DEFINE new == Append(old, [id |-> Len(old) + 1, author |-> u, body |-> 1])
  <2>2. new \in Comments
    <3>1. Len(old) < MaxItems /\ MaxItems \in Nat
      BY <1>2, PullAssumptions DEF CreateComment
    <3>2. [id |-> Len(old) + 1, author |-> u, body |-> 1] \in Comment
      BY <1>1, <3>1
    <3> QED
      BY <1>1, <3>2 DEF Comments
  <2>3. PutPull(r, n, [prs[n] EXCEPT !.comments = new, !.upd = FracStamp(now')])
    BY <2>1
  <2> HIDE DEF new
  <2> QED
    BY <2>1, <2>2, <2>3, ClockIs, CommentsStep DEF PullsInv
<1>3. CASE UpdateComment(r, n)
  <2>1. PICK id \in 1..MaxItems : \E u \in Users : \E i \in CommentAt(prs[n], id) :
            /\ now' \in Clock
            /\ PutPull(r, n, [prs[n] EXCEPT !.comments[i].body = 2])
    BY <1>3 DEF UpdateComment
  <2>2. PICK i \in CommentAt(prs[n], id) :
            now' \in Clock /\ PutPull(r, n, [prs[n] EXCEPT !.comments[i].body = 2])
    BY <2>1
  <2> DEFINE new == [old EXCEPT ![i].body = 2]
  <2>3. i \in 1..Len(old) /\ [old[i] EXCEPT !.body = 2] \in Comment
    BY <1>1, <2>2 DEF CommentAt
  <2>4. new \in Comments
    BY <1>1, <2>3 DEF Comments
  <2>5. [prs[n] EXCEPT !.comments[i].body = 2]
          = [prs[n] EXCEPT !.comments = new, !.upd = prs[n].upd]
    BY <1>1, PullTypeIs
  <2> HIDE DEF new
  <2>6. PutPull(r, n, [prs[n] EXCEPT !.comments = new, !.upd = prs[n].upd])
    BY <2>2, <2>5
  <2> QED
    BY <1>1, <2>2, <2>4, <2>6, CommentsStep
<1>4. CASE DeleteComment(r, n)
  <2>1. PICK id \in 1..MaxItems : \E u \in Users : \E i \in CommentAt(prs[n], id) :
            /\ now' \in Clock
            /\ PutPull(r, n, [prs[n] EXCEPT !.comments = RemoveAt(@, i),
                                            !.upd = FracStamp(now')])
    BY <1>4 DEF DeleteComment
  <2>2. PICK i \in CommentAt(prs[n], id) :
            /\ now' \in Clock
            /\ PutPull(r, n, [prs[n] EXCEPT !.comments = RemoveAt(@, i),
                                            !.upd = FracStamp(now')])
    BY <2>1
  <2> DEFINE new == RemoveAt(old, i)
  <2>3. i \in 1..Len(old)
    BY <1>1, <2>2 DEF CommentAt
  <2>4. new \in Comments
    <3>1. /\ SubSeq(old, 1, i - 1) \in Seq(Comment)
          /\ SubSeq(old, i + 1, Len(old)) \in Seq(Comment)
      BY <1>1, <2>3 DEF Comments
    <3> QED
      BY <3>1 DEF RemoveAt, Comments
  <2>5. PutPull(r, n, [prs[n] EXCEPT !.comments = new, !.upd = FracStamp(now')])
    BY <2>2
  <2> HIDE DEF new
  <2> QED
    BY <2>2, <2>4, <2>5, ClockIs, CommentsStep DEF PullsInv
<1> QED
  BY <1>2, <1>3, <1>4

LEMMA RuleStep ==
    ASSUME PullsInv, NEW r \in Requests, NEW p \in Rules, PutRule(r, p)
    PROVE  StepOk
<1>1. /\ UNCHANGED <<prs, hist, head, next, made, cli, ghosts, mutex, now>>
      /\ rule' \in Rules /\ Goto(r, "done")
  BY DEF PutRule
<1>2. PICK j \in Jobs : job' = [job EXCEPT ![r] = j] /\ j.pc = "done"
  BY <1>1, GotoIs DEF PullsInv, PCs
<1>3. mutex' \in Requests \cup {Nobody} /\ now' \in [s : Nat, k : Nat]
  BY <1>1 DEF PullsInv, Types
<1> QED
  BY <1>1, <1>2, <1>3, JobStep

LEMMA CreatePullStep ==
    ASSUME PullsInv, NEW r \in Requests, CreatePull(r)
    PROVE  StepOk
<1> DEFINE pr == NewPull(r, now_iso8601(now'))
<1>1. /\ prs' = SavedPull(prs, next, pr) /\ next' = next + 1 /\ next <= MaxPulls
      /\ now' \in Clock
      /\ UNCHANGED <<rule, hist, head, cli, config, made, ghosts>>
      /\ \/ /\ mutex' = r
            /\ job' = [job EXCEPT ![r].pc = "checking", ![r].n = next, ![r].snap = pr]
         \/ UNCHANGED mutex /\ Goto(r, "done")
  BY DEF CreatePull, next_pr_number
<1>2. WellFormed(pr) /\ pr.state = "open"
  BY <1>1, ClockIs, NewPullType DEF PullsInv
<1> HIDE DEF pr
<1>3. /\ DOMAIN prs' = DOMAIN prs \cup {next} /\ next \notin DOMAIN prs /\ next \in Nat
      /\ prs'[next] = pr /\ \A m \in DOMAIN prs : prs'[m] = prs[m]
  BY <1>1 DEF SavedPull, PullsInv, Types
<1>4. \E j \in Jobs :
          /\ job' = [job EXCEPT ![r] = j]
          /\ j.pc = "done" \/ (j.pc = "checking" /\ j.n = next /\ j.snap = pr)
  <2>1. CASE job' = [job EXCEPT ![r].pc = "checking", ![r].n = next, ![r].snap = pr]
    <3> DEFINE j == [job[r] EXCEPT !.pc = "checking", !.n = next, !.snap = pr]
    <3>1. job[r] \in Jobs /\ job' = [job EXCEPT ![r] = j]
      BY <2>1 DEF PullsInv, Types
    <3>2. j \in Jobs /\ j.pc = "checking" /\ j.n = next /\ j.snap = pr
      BY <1>2, <1>3, <3>1 DEF Jobs, PCs, WellFormed
    <3> HIDE DEF j
    <3> QED
      BY <3>1, <3>2
  <2>2. CASE Goto(r, "done")
    BY <2>2, GotoIs DEF PullsInv, PCs
  <2> QED
    BY <1>1, <2>1, <2>2
<1>5. PICK j \in Jobs :
          /\ job' = [job EXCEPT ![r] = j]
          /\ j.pc = "done" \/ (j.pc = "checking" /\ j.n = next /\ j.snap = pr)
  BY <1>4
<1>6. Types'
  <2>1. now' \in [s : Nat, k : Nat]
    BY <1>1, ClockIs DEF PullsInv
  <2>2. next' \in 1 .. MaxPulls + 1 /\ DOMAIN prs' \subseteq 1 .. next' - 1
    BY <1>1, <1>3, PullAssumptions DEF PullsInv, Types
  <2>3. \A n \in DOMAIN prs' : prs'[n] \in PullType /\ InOrder(prs'[n].reviews)
    BY <1>2, <1>3 DEF PullsInv, Types, WellFormed
  <2> QED
    BY <1>1, <1>5, <2>1, <2>2, <2>3 DEF PullsInv, Types, ghosts, WellFormed, Histories
<1>7. \A m \in DOMAIN prs : Begins(prs[m].reviews, prs[m].reviews)
  BY ReviewsLength, BeginsItself DEF PullsInv, Types, WellFormed
<1>8. Growth /\ StaysMerged
  BY <1>1, <1>3, <1>7 DEF Growth, StaysMerged, ghosts, PullsInv, Types
<1>9. FileMerged'
  BY <1>1, <1>2, <1>3 DEF PullsInv, FileMerged, Merged, ghosts
<1>10. MergesOnce'
  BY <1>1, <1>8, MergesKept DEF ghosts
<1>11. CopyTypes' /\ CopyOlder' /\ CopyMerged'
  BY <1>1, <1>6, <1>8, CopyKept
<1>12. Begins(pr.reviews, pr.reviews)
  BY <1>2, ReviewsLength, BeginsItself DEF WellFormed
<1>13. JobsOlder' /\ JobsOpen' /\ JobsApproved'
  BY <1>2, <1>3, <1>5, <1>6, <1>8, <1>12, JobsKept DEF WellFormed
<1> QED
  BY <1>6, <1>8, <1>9, <1>10, <1>11, <1>13 DEF StepOk, PullsInv

(* A handler that reads the pull request. *)
LEMMA BeginStep ==
    ASSUME PullsInv, NEW r \in Requests, NEW n \in DOMAIN prs,
           RunPrChecks(r, n) \/ BeginMerge(r, n)
    PROVE  StepOk
<1>1. /\ UNCHANGED <<prs, hist, head, next, made, cli, ghosts, mutex, now, rule>>
      /\ prs[n].state = "open"
  BY DEF RunPrChecks, BeginMerge, store
<1>2. n \in Nat /\ prs[n] \in PullType /\ Approvals(prs[n]) \in Nat /\ Older(prs[n], n)
  BY ReviewsLength, BeginsItself, ApprovalsGrow DEF PullsInv, Types, WellFormed, Older
<1>3. \E j \in Jobs :
          /\ job' = [job EXCEPT ![r] = j] /\ j.n = n /\ j.snap = prs[n]
          /\ j.pc \in {"checking", "done", "gate"} \/ (j.pc = "merging" /\ j.need = 0)
  <2>1. CASE RunPrChecks(r, n)
    <3> DEFINE at == IF HasChecks THEN "checking" ELSE "done"
               j  == [job[r] EXCEPT !.pc = at, !.n = n, !.snap = prs[n]]
    <3>1. job[r] \in Jobs /\ job' = [job EXCEPT ![r] = j] /\ at \in {"checking", "done"}
      BY <2>1 DEF PullsInv, Types, RunPrChecks
    <3> HIDE DEF at
    <3>2. j \in Jobs /\ j.pc = at /\ j.n = n /\ j.snap = prs[n]
      BY <1>2, <3>1 DEF Jobs, PCs
    <3> HIDE DEF j
    <3> QED
      BY <3>1, <3>2
  <2>2. CASE BeginMerge(r, n)
    <3>1. PICK f \in BOOLEAN :
              job' = [job EXCEPT ![r] = [pc |-> IF f THEN "merging" ELSE "gate",
                                    n |-> n, snap |-> prs[n], force |-> f, need |-> 0]]
      BY <2>2 DEF BeginMerge
    <3> DEFINE j == [pc |-> IF f THEN "merging" ELSE "gate",
                     n |-> n, snap |-> prs[n], force |-> f, need |-> 0]
    <3>2. j \in Jobs /\ j.pc \in {"gate", "merging"} /\ j.need = 0
          /\ j.n = n /\ j.snap = prs[n]
      BY <1>2 DEF Jobs, PCs
    <3> HIDE DEF j
    <3> QED
      BY <3>1, <3>2 DEF j
  <2> QED
    BY <2>1, <2>2
<1>4. PICK j \in Jobs :
          /\ job' = [job EXCEPT ![r] = j] /\ j.n = n /\ j.snap = prs[n]
          /\ j.pc \in {"checking", "done", "gate"} \/ (j.pc = "merging" /\ j.need = 0)
  BY <1>3
<1>5. rule' \in Rules /\ mutex' \in Requests \cup {Nobody} /\ now' \in [s : Nat, k : Nat]
  BY <1>1 DEF PullsInv, Types
<1>6. Older(j.snap, j.n) /\ j.snap.state = "open"
  BY <1>1, <1>2, <1>4
<1>7. j.pc \in {"hooks", "merging"} => Approvals(j.snap) >= j.need
  BY <1>2, <1>4
<1> QED
  BY <1>1, <1>4, <1>5, <1>6, <1>7, JobStep

LEMMA FinishChecksStep ==
    ASSUME PullsInv, NEW r \in Requests, FinishChecks(r)
    PROVE  StepOk
<1>1. UNCHANGED <<prs, hist, head, next, made, cli, ghosts, rule>> /\ job[r].pc = "checking"
  BY DEF FinishChecks, store
<1>2. rule' \in Rules /\ job[r] \in Jobs /\ mutex \in Requests \cup {Nobody}
      /\ now \in [s : Nat, k : Nat]
  BY <1>1 DEF PullsInv, Types
<1>3. Older(job[r].snap, job[r].n) /\ job[r].snap.state = "open" /\ job[r].snap \in PullType
  BY <1>1, <1>2 DEF PullsInv, JobsOlder, JobsOpen, Jobs
<1>4. CASE CheckError(r) /\ UNCHANGED now
  <2>1. Goto(r, "done") /\ mutex' \in Requests \cup {Nobody} /\ now' \in [s : Nat, k : Nat]
    BY <1>2, <1>4 DEF CheckError, Released
  <2>2. PICK j \in Jobs : job' = [job EXCEPT ![r] = j] /\ j.pc = "done"
    BY <2>1, GotoIs DEF PullsInv, PCs
  <2> QED
    BY <1>1, <1>2, <2>1, <2>2, JobStep
<1>5. CASE /\ now' \in Clock
           /\ \E c \in {"passing", "failing"} :
                job' = [job EXCEPT ![r].pc = "saving", ![r].snap.checks = c,
                                   ![r].snap.upd = now_iso8601(now')]
           /\ UNCHANGED mutex
  <2>1. PICK c \in {"passing", "failing"} :
            job' = [job EXCEPT ![r].pc = "saving", ![r].snap.checks = c,
                               ![r].snap.upd = now_iso8601(now')]
    BY <1>5
  <2>2. now' \in [s : Nat, k : Nat] /\ now_iso8601(now') \in Nat
    BY <1>5, ClockIs DEF PullsInv
  <2> DEFINE t == now_iso8601(now')
             snap == [job[r].snap EXCEPT !.checks = c, !.upd = t]
             j == [job[r] EXCEPT !.pc = "saving", !.snap = snap]
  <2>3. /\ snap \in PullType /\ snap.by = job[r].snap.by /\ snap.state = "open"
        /\ snap.reviews = job[r].snap.reviews
    BY <1>3, <2>2, PullTypeIs
  <2>4. job' = [job EXCEPT ![r] = j]
    BY <1>2, <2>1 DEF Jobs, PullsInv, Types
  <2> HIDE DEF snap
  <2>5. j \in Jobs /\ j.pc = "saving" /\ j.n = job[r].n /\ j.snap = snap
    BY <1>2, <2>3 DEF Jobs, PCs
  <2> HIDE DEF j
  <2>6. Older(j.snap, j.n)
    BY <1>3, <2>3, <2>5 DEF Older
  <2>7. mutex' \in Requests \cup {Nobody}
    BY <1>2, <1>5
  <2> QED
    BY <1>1, <1>2, <2>2, <2>3, <2>4, <2>5, <2>6, <2>7, JobStep
<1> QED
  BY <1>4, <1>5 DEF FinishChecks

LEMMA SaveChecksStep ==
    ASSUME PullsInv, NEW r \in Requests, SaveChecks(r)
    PROVE  StepOk
<1> DEFINE n == job[r].n
           snap == job[r].snap
<1>1. /\ prs' = SavedPull(prs, n, snap) /\ Goto(r, "done")
      /\ replaced' \in {replaced, replaced \cup {n}}
      /\ n \in replaced' \/ [prs[n] EXCEPT !.checks = snap.checks, !.upd = snap.upd] = snap
      /\ UNCHANGED <<next, rule, hist, head, mutex, cli, config, now, made, merges, tied, rolled>>
      /\ job[r].pc = "saving"
  BY DEF SaveChecks
<1>2. /\ n \in DOMAIN prs /\ snap.by = prs[n].by /\ snap.state = "open"
      /\ InOrder(snap.reviews)
  BY <1>1 DEF PullsInv, JobsOlder, JobsOpen, Older
<1>3. snap \in PullType /\ prs[n] \in PullType
  BY <1>2 DEF PullsInv, Types, Jobs, WellFormed
<1>4. n \in replaced' \/ (snap.reviews = prs[n].reviews /\ snap.state = prs[n].state)
  BY <1>1, <1>3, PullTypeIs
<1>5. PICK j \in Jobs : job' = [job EXCEPT ![r] = j] /\ j.pc = "done"
  BY <1>1, GotoIs DEF PullsInv, PCs
<1>6. Begins(prs[n].reviews, prs[n].reviews)
  BY <1>3, ReviewsLength, BeginsItself
<1> HIDE DEF n, snap
<1>7. DOMAIN prs' = DOMAIN prs /\ \A m \in DOMAIN prs : prs'[m] = IF m = n THEN snap ELSE prs[m]
  BY <1>1, <1>2 DEF SavedPull
<1>8. \A m \in DOMAIN prs : Begins(prs[m].reviews, prs[m].reviews)
  BY ReviewsLength, BeginsItself DEF PullsInv, Types, WellFormed
<1>9. Growth /\ StaysMerged
  BY <1>1, <1>2, <1>4, <1>6, <1>7, <1>8 DEF Growth, StaysMerged, PullsInv, Types
<1>10. Types'
  <2>1. \A m \in DOMAIN prs' : WellFormed(prs'[m])
    BY <1>2, <1>3, <1>7 DEF PullsInv, Types, WellFormed
  <2> QED
    BY <1>1, <1>5, <1>7, <2>1 DEF PullsInv, Types, WellFormed, Histories
<1>11. JobsOlder' /\ JobsOpen' /\ JobsApproved'
  BY <1>5, <1>9, <1>10, JobsKept
<1>12. CopyTypes' /\ CopyOlder' /\ CopyMerged'
  BY <1>1, <1>9, <1>10, CopyKept
<1>13. FileMerged'
  BY <1>1, <1>2, <1>7 DEF PullsInv, FileMerged, Merged
<1>14. MergesOnce'
  BY <1>1, <1>9, MergesKept
<1> QED
  BY <1>9, <1>10, <1>11, <1>12, <1>13, <1>14 DEF StepOk, PullsInv

LEMMA GateStep ==
    ASSUME PullsInv, NEW r \in Requests, PassGate(r) \/ RunMergeHooks(r)
    PROVE  StepOk
<1>1. /\ UNCHANGED <<prs, hist, head, next, made, cli, ghosts, mutex, now, rule>>
      /\ job[r].pc \in {"gate", "hooks"}
  BY DEF PassGate, RunMergeHooks, store
<1>2. /\ rule' \in Rules /\ mutex' \in Requests \cup {Nobody} /\ now' \in [s : Nat, k : Nat]
      /\ rule.approvals \in 0..1 /\ job[r] \in Jobs
  BY <1>1 DEF PullsInv, Types, Rules
<1>3. Older(job[r].snap, job[r].n)
  BY <1>1 DEF PullsInv, JobsOlder
<1>4. \E j \in Jobs :
          /\ job' = [job EXCEPT ![r] = j] /\ j.n = job[r].n /\ j.snap = job[r].snap
          /\ j.pc \notin {"checking", "saving"}
          /\ j.pc \in {"hooks", "merging"} => Approvals(j.snap) >= j.need
  <2>1. CASE PassGate(r)
    <3> DEFINE at == IF GateHolds(job[r].snap) THEN "hooks" ELSE "done"
               j  == [job[r] EXCEPT !.pc = at, !.need = rule.approvals]
    <3>1. /\ job' = [job EXCEPT ![r] = j] /\ at \in {"hooks", "done"}
          /\ at = "hooks" => Approvals(job[r].snap) >= rule.approvals
      BY <1>2, <2>1 DEF PullsInv, Types, PassGate, GateHolds
    <3> HIDE DEF at
    <3>2. j \in Jobs /\ j.pc = at /\ j.n = job[r].n /\ j.snap = job[r].snap
          /\ j.need = rule.approvals
      BY <1>2, <3>1 DEF Jobs, PCs
    <3> HIDE DEF j
    <3> QED
      BY <3>1, <3>2
  <2>2. CASE RunMergeHooks(r)
    <3> DEFINE at == IF config = "none" THEN "merging" ELSE "panicked"
    <3>1. Goto(r, at) /\ at \in {"merging", "panicked"} /\ job[r].pc = "hooks"
      BY <2>2 DEF RunMergeHooks
    <3> HIDE DEF at
    <3>2. PICK j \in Jobs :
              /\ job' = [job EXCEPT ![r] = j]
              /\ j.pc = at /\ j.n = job[r].n /\ j.snap = job[r].snap /\ j.need = job[r].need
      BY <3>1, GotoIs DEF PullsInv, PCs
    <3>3. Approvals(job[r].snap) >= job[r].need
      BY <3>1 DEF PullsInv, JobsApproved
    <3> QED
      BY <3>1, <3>2, <3>3
  <2> QED
    BY <2>1, <2>2
<1>5. PICK j \in Jobs :
          /\ job' = [job EXCEPT ![r] = j] /\ j.n = job[r].n /\ j.snap = job[r].snap
          /\ j.pc \notin {"checking", "saving"}
          /\ j.pc \in {"hooks", "merging"} => Approvals(j.snap) >= j.need
  BY <1>4
<1>6. Older(j.snap, j.n)
  BY <1>3, <1>5
<1> QED
  BY <1>1, <1>2, <1>5, <1>6, JobStep

LEMMA MergeStep ==
    ASSUME PullsInv, NEW r \in Requests, MergePullRequest(r)
    PROVE  StepOk
<1> DEFINE n == job[r].n
           snap == job[r].snap
           need == job[r].need
<1>1. /\ Goto(r, "done") /\ job[r].pc = "merging"
      /\ UNCHANGED <<next, rule, head, mutex, cli, config, replaced, tied, rolled>>
  BY DEF MergePullRequest
<1>2. PICK j \in Jobs : job' = [job EXCEPT ![r] = j] /\ j.pc = "done"
  BY <1>1, GotoIs DEF PullsInv, PCs
<1>3. CASE UNCHANGED <<prs, hist, now, made, merges>>
  <2>1. /\ UNCHANGED <<prs, hist, head, next, made, cli, ghosts>>
        /\ rule' \in Rules /\ mutex' \in Requests \cup {Nobody} /\ now' \in [s : Nat, k : Nat]
    BY <1>1, <1>3 DEF ghosts, PullsInv, Types
  <2> QED
    BY <1>2, <2>1, JobStep
<1>4. CASE /\ StillOpen(prs[n])
           /\ CreateCommit(MergeHead(Target))
           /\ now' \in Clock
           /\ prs' = [prs EXCEPT ![n].state = "merged", ![n].upd = now_iso8601(now'),
                                 ![n].commit = made', ![n].need = need]
           /\ merges' = [merges EXCEPT ![n] = @ + 1]
  <2>1. /\ made < MaxCommits /\ made' = made + 1 /\ made \in Nat /\ MaxCommits \in Nat
        /\ hist' = [hist EXCEPT ![Target] = @ \cup {made'}]
        /\ prs[n].state = "open"
    BY <1>4, PullAssumptions DEF CreateCommit, MergeHead, StillOpen, PullsInv, Types
  <2>2. /\ n \in DOMAIN prs /\ snap \in PullType /\ need \in 0..1
        /\ Approvals(snap) >= need
        /\ n \in replaced \/ Begins(snap.reviews, prs[n].reviews)
    BY <1>1 DEF PullsInv, JobsOlder, JobsApproved, Older, Types, Jobs
  <2>3. /\ hist' \in [Branches -> SUBSET (1..made')] /\ made' \in hist'[Target]
        /\ hist[Target] \subseteq hist'[Target]
    <3>1. hist \in [Branches -> SUBSET (1..made)] /\ Target \in Branches
      BY DEF PullsInv, Types, Histories, Branches
    <3>2. 1..made \subseteq 1..made' /\ made' \in 1..made'
      BY <2>1
    <3> QED
      BY <2>1, <3>1, <3>2
  <2>4. now' \in [s : Nat, k : Nat] /\ now_iso8601(now') \in Nat
    BY <1>4, ClockIs DEF PullsInv
  <2> DEFINE t == now_iso8601(now')
             pr == [prs[n] EXCEPT !.state = "merged", !.upd = t, !.commit = made', !.need = need]
  <2>5. prs[n] \in PullType /\ InOrder(prs[n].reviews) /\ n \in 1..MaxPulls /\ next \in Nat
    BY <2>2, PullAssumptions DEF PullsInv, Types, WellFormed
  <2>6. /\ pr \in PullType /\ pr.reviews = prs[n].reviews /\ pr.by = prs[n].by
        /\ pr.state = "merged" /\ pr.commit = made' /\ pr.need = need
    <3>1. made' \in 0..MaxCommits
      BY <2>1
    <3> QED
      BY <2>2, <2>4, <2>5, <3>1, PullTypeIs DEF States
  <2>7. /\ DOMAIN prs' = DOMAIN prs
        /\ \A m \in DOMAIN prs : prs'[m] = IF m = n THEN pr ELSE prs[m]
    BY <1>4, <2>2, <2>5, PullTypeIs
  <2> HIDE DEF pr, n, snap, need
  <2>8. \A m \in DOMAIN prs : Begins(prs[m].reviews, prs[m].reviews)
    BY ReviewsLength, BeginsItself DEF PullsInv, Types, WellFormed
  <2>9. Growth /\ StaysMerged
    BY <1>1, <2>1, <2>2, <2>6, <2>7, <2>8 DEF Growth, StaysMerged, PullsInv, Types
  <2>10. Types'
    <3>1. \A m \in DOMAIN prs' : prs'[m] \in PullType /\ InOrder(prs'[m].reviews)
      BY <2>5, <2>6, <2>7 DEF PullsInv, Types, WellFormed
    <3>2. merges' \in [1..MaxPulls -> Nat]
      BY <1>4, <2>5 DEF PullsInv, Types, n
    <3> QED
      BY <1>1, <1>2, <2>1, <2>3, <2>4, <2>7, <3>1, <3>2
      DEF PullsInv, Types, WellFormed, Histories
  <2>11. JobsOlder' /\ JobsOpen' /\ JobsApproved'
    BY <1>2, <2>9, <2>10, JobsKept
  <2>12. CopyTypes' /\ CopyOlder' /\ CopyMerged'
    BY <1>1, <2>9, <2>10, CopyKept
  <2>13. n \in replaced \/ Approvals(pr) >= need
    <3>1. CASE Begins(snap.reviews, prs[n].reviews)
      <4>1. snap.reviews \in Reviews /\ pr.reviews \in Reviews
        BY <2>2, <2>6, ReviewsLength
      <4>2. /\ Approvals(snap) \in Nat /\ Approvals(pr) \in Nat
            /\ Approvals(snap) <= Approvals(pr)
        BY <2>6, <3>1, <4>1, ApprovalsGrow
      <4> QED
        BY <2>2, <4>2
    <3> QED
      BY <2>2, <3>1
  <2>14. FileMerged'
    <3> SUFFICES ASSUME NEW m \in DOMAIN prs PROVE Merged(prs[m], m, hist)'
      BY <2>7 DEF FileMerged
    <3>1. CASE m = n
      BY <1>1, <2>3, <2>6, <2>7, <2>13, <3>1 DEF Merged
    <3>2. CASE m # n
      BY <1>1, <2>3, <2>7, <3>2 DEF Merged, PullsInv, FileMerged
    <3> QED
      BY <3>1, <3>2
  <2>15. MergesOnce'
    <3> SUFFICES ASSUME NEW m \in (1..MaxPulls) \ (replaced \cup tied)
                 PROVE  /\ merges'[m] <= 1
                        /\ merges'[m] = 1 => m \in DOMAIN prs' /\ prs'[m].state = "merged"
      BY <1>1 DEF MergesOnce
    <3>1. /\ merges[m] <= 1 /\ merges[m] \in Nat
          /\ merges[m] = 1 => m \in DOMAIN prs /\ prs[m].state = "merged"
      BY DEF PullsInv, MergesOnce, Types
    <3>2. merges'[m] = IF m = n THEN merges[m] + 1 ELSE merges[m]
      BY <1>4 DEF PullsInv, Types, n
    <3>3. CASE m = n
      <4>1. merges[m] = 0 /\ merges'[m] = 1
        BY <2>1, <3>1, <3>2, <3>3 DEF n
      <4> QED
        BY <2>2, <2>6, <2>7, <3>3, <4>1
    <3>4. CASE m # n
      BY <2>7, <3>1, <3>2, <3>4
    <3> QED
      BY <3>3, <3>4
  <2> QED
    BY <2>9, <2>10, <2>11, <2>12, <2>14, <2>15 DEF StepOk, PullsInv
<1> QED
  BY <1>3, <1>4 DEF MergePullRequest

-----------------------------------------------------------------------------
(* The command line *)

LEMMA CliOpenStep ==
    ASSUME PullsInv, CliOpen
    PROVE  StepOk
<1>1. UNCHANGED <<prs, hist, head, next, made, ghosts, mutex, now, rule, job>> /\ cli' = OnDisk
  BY DEF CliOpen, store
<1>2. Types'
  BY <1>1 DEF PullsInv, Types, ghosts, WellFormed, Histories
<1>3. Growth /\ StaysMerged /\ MergesOnce' /\ FileMerged'
  BY <1>1, <1>2, Unchanged DEF PullsInv, Types
<1>4. /\ cli'.prs = prs /\ cli'.next = next /\ cli'.rule = rule /\ cli'.hist = hist
      /\ cli' = [open |-> cli'.open, prs |-> cli'.prs, next |-> cli'.next,
                 rule |-> cli'.rule, hist |-> cli'.hist]
  BY <1>1 DEF OnDisk
<1>5. CopyTypes'
  BY <1>1, <1>4 DEF PullsInv, Types, CopyTypes, Histories, WellFormed
<1>6. \A n \in DOMAIN prs : Begins(prs[n].reviews, prs[n].reviews)
  BY ReviewsLength, BeginsItself DEF PullsInv, Types, WellFormed
<1>7. CopyOlder' /\ CopyMerged'
  BY <1>1, <1>4, <1>6
  DEF PullsInv, Types, WellFormed, FileMerged, CopyOlder, CopyMerged, Older, Merged, ghosts
<1>8. JobsOlder' /\ JobsOpen' /\ JobsApproved'
  BY <1>1 DEF PullsInv, JobsOlder, JobsOpen, JobsApproved, Older, ghosts
<1> QED
  BY <1>2, <1>3, <1>5, <1>7, <1>8 DEF StepOk, PullsInv

(* A process that has saved holds no copy. *)
LEMMA ClosedCopy ==
    ASSUME Types', cli' = Closed
    PROVE  CopyTypes' /\ CopyOlder' /\ CopyMerged'
<1>1. /\ DOMAIN cli'.prs = {} /\ cli'.next = 1 /\ cli'.rule = NoRule
      /\ cli'.hist = [b \in Branches |-> {}]
      /\ cli' = [open |-> cli'.open, prs |-> cli'.prs, next |-> cli'.next,
                 rule |-> cli'.rule, hist |-> cli'.hist]
  BY DEF Closed
<1>2. NoRule \in Rules /\ [b \in Branches |-> {}] \in Histories' /\ 1 \in 1..next'
  BY PullAssumptions DEF NoRule, Rules, Histories, Types
<1> QED
  BY <1>1, <1>2 DEF CopyTypes, CopyOlder, CopyMerged

LEMMA JobsStay ==
    ASSUME PullsInv, Types', Growth, job' = job
    PROVE  JobsOlder' /\ JobsOpen' /\ JobsApproved'
<1>1. JobsOpen' /\ JobsApproved'
  BY DEF PullsInv, JobsOpen, JobsApproved
<1>2. ASSUME NEW r \in Requests,
             job[r].pc \in {"checking", "saving", "gate", "hooks", "merging"}
      PROVE  Older(job[r].snap, job[r].n)'
  <2>1. Older(job[r].snap, job[r].n) /\ job[r].snap \in PullType
    BY <1>2 DEF PullsInv, JobsOlder, Types, Jobs
  <2>2. /\ job[r].n \in DOMAIN prs' /\ job[r].snap.by = prs'[job[r].n].by
        /\ job[r].n \in replaced' \/ Begins(job[r].snap.reviews, prs'[job[r].n].reviews)
    BY <2>1, OlderKept DEF PullsInv
  <2> QED
    BY <2>1, <2>2 DEF Older
<1> QED
  BY <1>1, <1>2 DEF JobsOlder

LEMMA CliDeleteSourceStep ==
    ASSUME PullsInv, CliDeleteSource
    PROVE  StepOk
<1>1. /\ UNCHANGED <<prs, head, next, made, ghosts, mutex, now, rule, job>> /\ cli' = Closed
      /\ hist' = [hist EXCEPT ![Source] = {}] \/ hist' = hist
  BY DEF CliDeleteSource
<1>2. hist' \in Histories' /\ hist'[Target] = hist[Target]
  BY <1>1, PullAssumptions DEF PullsInv, Types, Histories, Branches
<1>3. Types'
  BY <1>1, <1>2 DEF PullsInv, Types, ghosts, WellFormed
<1>4. Growth /\ StaysMerged /\ MergesOnce' /\ FileMerged'
  BY <1>1, <1>2, <1>3, Unchanged DEF PullsInv, Types
<1>5. CopyTypes' /\ CopyOlder' /\ CopyMerged'
  BY <1>1, <1>3, ClosedCopy
<1>6. JobsOlder' /\ JobsOpen' /\ JobsApproved'
  BY <1>1, <1>3, <1>4, JobsStay
<1> QED
  BY <1>3, <1>4, <1>5, <1>6 DEF StepOk, PullsInv

(* The pull requests that a merging save writes: those of both copies,     *)
(* each with the reviews of the file's, which the older copy's are the     *)
(* beginning of.                                                           *)
LEMMA MergedPulls ==
    ASSUME PullsInv, NEW n \in DOMAIN prs, NEW new,
           new = IF n \in DOMAIN cli.prs THEN MergePull(cli.prs[n], prs[n]) ELSE prs[n]
    PROVE  /\ WellFormed(new) /\ new.by = prs[n].by
           /\ n \in replaced \/ new.reviews = prs[n].reviews
           /\ \/ /\ new.state = prs[n].state /\ new.commit = prs[n].commit
                 /\ new.need = prs[n].need
              \/ /\ n \in Tied \/ (n \in DOMAIN cli.prs /\ cli.prs[n] = prs[n])
                 /\ n \in DOMAIN cli.prs
                 /\ new.state = cli.prs[n].state /\ new.commit = cli.prs[n].commit
                 /\ new.need = cli.prs[n].need
<1>1. prs[n] \in PullType /\ InOrder(prs[n].reviews) /\ prs[n].upd \in Nat
  BY PullTypeIs DEF PullsInv, Types, WellFormed
<1>2. CASE n \notin DOMAIN cli.prs
  BY <1>1, <1>2 DEF WellFormed
<1>3. CASE n \in DOMAIN cli.prs
  <2>1. /\ cli.prs[n] \in PullType /\ InOrder(cli.prs[n].reviews) /\ cli.prs[n].upd \in Nat
        /\ cli.prs[n].by = prs[n].by
        /\ n \in replaced \/ Begins(cli.prs[n].reviews, prs[n].reviews)
    BY <1>3, PullTypeIs DEF PullsInv, CopyTypes, CopyOlder, Older, WellFormed
  <2>2. /\ new \in PullType /\ InOrder(new.reviews) /\ new.by = cli.prs[n].by
        /\ Begins(cli.prs[n].reviews, prs[n].reviews) => new.reviews = prs[n].reviews
        /\ \/ /\ prs[n].upd > cli.prs[n].upd
              /\ new.state = prs[n].state /\ new.commit = prs[n].commit
              /\ new.need = prs[n].need
           \/ /\ ~ (prs[n].upd > cli.prs[n].upd)
              /\ new.state = cli.prs[n].state /\ new.commit = cli.prs[n].commit
              /\ new.need = cli.prs[n].need
    BY <1>1, <1>3, <2>1, MergePullIs
  <2>3. prs[n].upd > cli.prs[n].upd \/ n \in Tied \/ cli.prs[n] = prs[n]
    BY <1>1, <1>3, <2>1 DEF Tied
  <2> QED
    BY <1>3, <2>1, <2>2, <2>3 DEF WellFormed
<1> QED
  BY <1>2, <1>3

(* What a commit of the command line writes. *)
LEMMA CommitIs ==
    ASSUME PullsInv, CliCommit
    PROVE  /\ made' = made + 1 /\ cli' = Closed
           /\ tied' = tied \cup Tied
           /\ rolled' = (rolled \/ cli.hist[Target] # hist[Target])
           /\ UNCHANGED <<head, mutex, job, config, now, merges, replaced>>
           /\ rule' \in Rules /\ next' = next
           /\ hist' \in Histories'
           /\ cli.hist[Target] = hist[Target] => hist[Target] \subseteq hist'[Target]
           /\ cli.hist[Target] \subseteq hist'[Target]
           /\ DOMAIN prs' = DOMAIN prs
           /\ \A n \in DOMAIN prs :
                prs'[n] = IF cli # OnDisk /\ n \in DOMAIN cli.prs
                            THEN MergePull(cli.prs[n], prs[n]) ELSE prs[n]
<1> DEFINE local == [cli EXCEPT !.hist[head] = @ \cup {made'}]
           file  == IF cli = OnDisk THEN local ELSE MergedCopy(local)
<1>1. /\ made' = made + 1 /\ cli' = Closed
      /\ prs' = file.prs /\ next' = file.next /\ rule' = file.rule /\ hist' = file.hist
      /\ tied' = tied \cup Tied
      /\ rolled' = (rolled \/ cli.hist[Target] # hist[Target])
      /\ UNCHANGED <<head, mutex, job, config, now, merges, replaced>>
  BY DEF CliCommit, CliSave
<1>2. /\ local.prs = cli.prs /\ local.next = cli.next /\ local.rule = cli.rule
      /\ local.hist = [cli.hist EXCEPT ![head] = @ \cup {made'}]
  BY DEF PullsInv, CopyTypes
<1> HIDE DEF local
<1>3. /\ local.hist \in [Branches -> SUBSET (1..made')] /\ hist \in [Branches -> SUBSET (1..made')]
      /\ \A b \in Branches : cli.hist[b] \subseteq local.hist[b]
      /\ Target \in Branches
  <2>1. /\ cli.hist \in [Branches -> SUBSET (1..made)] /\ hist \in [Branches -> SUBSET (1..made)]
        /\ head \in Branches /\ made \in Nat
    BY DEF PullsInv, CopyTypes, Types, Histories
  <2>2. 1..made \subseteq 1..made' /\ made' \in 1..made'
    BY <1>1, <2>1
  <2> QED
    BY <1>2, <2>1, <2>2 DEF Branches
<1>4. CASE cli = OnDisk
  <2>1. /\ prs' = cli.prs /\ next' = cli.next /\ rule' = cli.rule /\ hist' = local.hist
    BY <1>1, <1>2, <1>4
  <2>2. cli.prs = prs /\ cli.next = next /\ cli.rule = rule /\ cli.hist = hist
    BY <1>4 DEF OnDisk
  <2> QED
    BY <1>1, <1>3, <1>4, <2>1, <2>2 DEF PullsInv, Types, Histories
<1>5. CASE cli # OnDisk
  <2> DEFINE m == MergeFrom(local, OnDisk)
             disk == OnDisk
  <2>1. /\ prs' = m.prs /\ next' = m.next
        /\ rule' = IF local.rule = NoRule THEN rule ELSE local.rule
        /\ hist' = [b \in Branches |->
                      IF local.hist[b] = {} THEN hist[b] ELSE local.hist[b]]
    BY <1>1, <1>5 DEF MergedCopy
  <2>2. /\ disk.prs = prs /\ disk.next = next
    BY DEF OnDisk
  <2> HIDE DEF disk
  <2>3. /\ m.prs = [n \in DOMAIN local.prs \cup DOMAIN disk.prs |->
                      IF n \notin DOMAIN local.prs THEN disk.prs[n]
                      ELSE IF n \notin DOMAIN disk.prs THEN local.prs[n]
                      ELSE MergePull(local.prs[n], disk.prs[n])]
        /\ m.next = IF disk.next > local.next THEN disk.next ELSE local.next
    BY DEF MergeFrom, disk
  <2> HIDE DEF m
  <2>4. DOMAIN cli.prs \subseteq DOMAIN prs /\ cli.next \in 1..next /\ next \in Nat
        /\ cli.rule \in Rules /\ rule \in Rules
    BY PullAssumptions DEF PullsInv, CopyTypes, Types
  <2>5. /\ DOMAIN prs' = DOMAIN prs
        /\ \A n \in DOMAIN prs :
             prs'[n] = IF n \in DOMAIN cli.prs THEN MergePull(cli.prs[n], prs[n]) ELSE prs[n]
    BY <1>2, <2>1, <2>2, <2>3, <2>4
  <2>6. next' = next /\ rule' \in Rules
    BY <1>2, <2>1, <2>2, <2>3, <2>4
  <2>7. /\ hist' \in [Branches -> SUBSET (1..made')]
        /\ hist'[Target] = IF local.hist[Target] = {} THEN hist[Target] ELSE local.hist[Target]
    BY <1>3, <2>1
  <2> QED
    BY <1>1, <1>3, <1>5, <2>5, <2>6, <2>7 DEF Histories
<1> QED
  BY <1>4, <1>5

LEMMA CliCommitStep ==
    ASSUME PullsInv, CliCommit
    PROVE  StepOk
<1> DEFINE Copies == IF cli = OnDisk THEN {} ELSE DOMAIN cli.prs
<1>1. \A n \in DOMAIN prs :
          prs'[n] = IF n \in Copies THEN MergePull(cli.prs[n], prs[n]) ELSE prs[n]
  BY CommitIs
<1>0. Copies \subseteq DOMAIN cli.prs
  OBVIOUS
<1> HIDE DEF Copies
<1>2. ASSUME NEW n \in DOMAIN prs
      PROVE  /\ WellFormed(prs'[n]) /\ prs'[n].by = prs[n].by
             /\ n \in replaced \/ prs'[n].reviews = prs[n].reviews
             /\ \/ /\ prs'[n].state = prs[n].state /\ prs'[n].commit = prs[n].commit
                   /\ prs'[n].need = prs[n].need
                \/ /\ n \in tied' \/ cli.prs[n] = prs[n]
                   /\ n \in DOMAIN cli.prs
                   /\ prs'[n].state = cli.prs[n].state /\ prs'[n].commit = cli.prs[n].commit
                   /\ prs'[n].need = cli.prs[n].need
  <2>1. CASE n \in Copies
    BY <1>0, <1>1, <2>1, MergedPulls, CommitIs
  <2>2. CASE n \notin Copies
    BY <1>1, <2>2 DEF PullsInv, Types
  <2> QED
    BY <2>1, <2>2
<1>3. /\ made' = made + 1 /\ made \in Nat /\ cli' = Closed /\ tied \subseteq tied'
      /\ rolled' = (rolled \/ cli.hist[Target] # hist[Target])
      /\ UNCHANGED <<head, mutex, job, now, merges, replaced>>
      /\ rule' \in Rules /\ next' = next /\ next \in Nat
      /\ hist' \in Histories'
      /\ cli.hist[Target] = hist[Target] => hist[Target] \subseteq hist'[Target]
      /\ cli.hist[Target] \subseteq hist'[Target]
      /\ DOMAIN prs' = DOMAIN prs
  BY CommitIs, PullAssumptions DEF PullsInv, Types
<1>4. Types'
  BY <1>2, <1>3 DEF PullsInv, Types
<1>5. \A n \in DOMAIN prs : Begins(prs[n].reviews, prs[n].reviews)
  BY ReviewsLength, BeginsItself DEF PullsInv, Types, WellFormed
<1>6. Growth
  <2>1. \A n \in DOMAIN prs : n \in replaced' \/ Begins(prs[n].reviews, prs'[n].reviews)
    BY <1>2, <1>3, <1>5
  <2>2. rolled => rolled'
    BY <1>3, Zenon
  <2>3. /\ replaced \subseteq replaced' /\ tied \subseteq tied'
        /\ made <= made' /\ next <= next'
    BY <1>3
  <2> QED
    BY <1>2, <1>3, <2>1, <2>2, <2>3, Zenon DEF Growth
<1>7. StaysMerged
  BY <1>2 DEF StaysMerged
<1>8. MergesOnce'
  BY <1>3, <1>6, <1>7, MergesKept
<1>9. CopyTypes' /\ CopyOlder' /\ CopyMerged'
  BY <1>3, <1>4, ClosedCopy
<1>10. JobsOlder' /\ JobsOpen' /\ JobsApproved'
  BY <1>3, <1>4, <1>6, JobsStay
<1>11. FileMerged'
  <2> SUFFICES ASSUME NEW n \in DOMAIN prs, prs'[n].state = "merged"
               PROVE  /\ n \in replaced \/ Approvals(prs'[n]) >= prs'[n].need
                      /\ prs'[n].commit \in hist'[Target] \/ rolled'
    BY <1>3 DEF FileMerged, Merged
  <2>1. prs[n] \in PullType /\ prs'[n] \in PullType /\ prs'[n].need \in Nat
    BY <1>2, PullTypeIs DEF PullsInv, Types, WellFormed
  <2>2. CASE /\ prs'[n].state = prs[n].state /\ prs'[n].commit = prs[n].commit
             /\ prs'[n].need = prs[n].need
    <3>1. /\ n \in replaced \/ Approvals(prs[n]) >= prs[n].need
          /\ prs[n].commit \in hist[Target] \/ rolled
      BY <2>2 DEF PullsInv, FileMerged, Merged
    <3>2. prs'[n].reviews = prs[n].reviews => Approvals(prs'[n]) = Approvals(prs[n])
      BY DEF Approvals
    <3>3. hist[Target] \subseteq hist'[Target] \/ rolled'
      BY <1>3
    <3> QED
      BY <1>2, <1>3, <2>2, <3>1, <3>2, <3>3
  <2>3. CASE /\ n \in DOMAIN cli.prs
             /\ prs'[n].state = cli.prs[n].state /\ prs'[n].commit = cli.prs[n].commit
             /\ prs'[n].need = cli.prs[n].need
    <3>1. /\ n \in replaced \/ Approvals(cli.prs[n]) >= cli.prs[n].need
          /\ cli.prs[n].commit \in cli.hist[Target] \/ rolled
          /\ n \in replaced \/ Begins(cli.prs[n].reviews, prs[n].reviews)
          /\ cli.prs[n] \in PullType
      BY <2>3 DEF PullsInv, CopyMerged, Merged, CopyOlder, Older, CopyTypes, WellFormed
    <3>2. ASSUME n \notin replaced
          PROVE  Approvals(prs'[n]) >= prs'[n].need
      <4>1. /\ Begins(cli.prs[n].reviews, prs'[n].reviews)
            /\ Approvals(cli.prs[n]) >= prs'[n].need
        BY <1>2, <2>3, <3>1, <3>2
      <4>2. cli.prs[n].reviews \in Reviews /\ prs'[n].reviews \in Reviews
        BY <2>1, <3>1, ReviewsLength
      <4>3. /\ Approvals(cli.prs[n]) \in Nat /\ Approvals(prs'[n]) \in Nat
            /\ Approvals(cli.prs[n]) <= Approvals(prs'[n])
        BY <4>1, <4>2, ApprovalsGrow
      <4> QED
        BY <2>1, <4>1, <4>3
    <3> QED
      BY <1>3, <2>3, <3>1, <3>2
  <2> QED
    BY <1>2, <2>2, <2>3
<1> QED
  BY <1>4, <1>6, <1>7, <1>8, <1>9, <1>10, <1>11 DEF StepOk, PullsInv

-----------------------------------------------------------------------------
(* The theorems *)

LEMMA NextStep ==
    ASSUME PullsInv, [Next]_vars
    PROVE  StepOk
<1>1. ASSUME NEW r \in Requests, NEW n \in DOMAIN prs, OnPull(r, n) PROVE StepOk
  BY <1>1, UpdatePullStep, CreateReviewStep, CommentStep, BeginStep DEF OnPull
<1>2. ASSUME NEW r \in Requests, CreatePull(r) PROVE StepOk
  BY <1>2, CreatePullStep
<1>3. ASSUME NEW r \in Requests, SetBranchProtection(r) \/ RemoveBranchProtection(r)
      PROVE  StepOk
  <2>1. NoRule \in Rules
    BY DEF NoRule, Rules
  <2> QED
    BY <1>3, <2>1, RuleStep DEF SetBranchProtection, RemoveBranchProtection
<1>4. ASSUME NEW r \in Requests, Continue(r) PROVE StepOk
  BY <1>4, FinishChecksStep, SaveChecksStep, GateStep, MergeStep DEF Continue
<1>5. CASE CliOpen \/ CliCommit \/ CliDeleteSource
  BY <1>5, CliOpenStep, CliCommitStep, CliDeleteSourceStep
<1>6. CASE UNCHANGED vars
  <2>1. UNCHANGED <<prs, hist, head, next, made, cli, ghosts, mutex, now, rule, job>>
    BY <1>6 DEF vars, store
  <2>2. Types'
    BY <2>1 DEF PullsInv, Types, ghosts, WellFormed, Histories
  <2>3. Growth /\ StaysMerged /\ MergesOnce' /\ FileMerged'
    BY <2>1, <2>2, Unchanged DEF PullsInv, Types
  <2>4. CopyTypes' /\ CopyOlder' /\ CopyMerged'
    BY <2>1, <2>2, <2>3, CopyKept
  <2>5. JobsOlder' /\ JobsOpen' /\ JobsApproved'
    BY <2>1, <2>2, <2>3, JobsStay
  <2> QED
    BY <2>2, <2>3, <2>4, <2>5 DEF StepOk, PullsInv
<1> QED
  BY <1>1, <1>2, <1>3, <1>4, <1>5, <1>6 DEF Next

(* The invariant holds in every reachable state: a copy that a handler or  *)
(* the command line keeps is an earlier state of the file's pull request,  *)
(* and what is merged, in the file or in a copy, was approved and is on    *)
(* the target branch.                                                      *)
THEOREM PullsInvariant == Spec => []PullsInv
<1>1. PullsInv /\ [Next]_vars => PullsInv'
  BY NextStep DEF StepOk
<1> QED
  BY InitInv, <1>1, PTL DEF Spec

(* A merged pull request has the approvals that the rule asked its merge   *)
(* for, was merged by one commit, and that commit is on the target branch, *)
(* except after the stale writes that the history variables record         *)
(* (merge_pull_request, run_checks_for_pr, merge_from).                    *)
THEOREM MergesAreSound == Spec => []MergesSound
<1>1. ASSUME PullsInv PROVE MergesSound
  <2>1. TypeOK
    BY <1>1, PullAssumptions DEF PullsInv, Types, TypeOK, WellFormed, Histories, Jobs, PCs
  <2>2. ApprovedMerges /\ MergeOnTarget
    BY <1>1 DEF PullsInv, FileMerged, Merged, ApprovedMerges, MergeOnTarget
  <2>3. OneMergeCommit
    BY <1>1 DEF PullsInv, Types, MergesOnce, OneMergeCommit
  <2> QED
    BY <2>1, <2>2, <2>3 DEF MergesSound
<1> QED
  BY <1>1, PullsInvariant, PTL

(* No step takes back what a handler answered: a number stays with its     *)
(* pull request, a merge stays a merge and a review stays, except where a  *)
(* stale copy is written (PullRequestStore::merge_from and the handlers).  *)
THEOREM AnswersStay == Spec => AnswersKept
<1>1. ASSUME PullsInv, [Next]_vars
      PROVE  \A n \in DOMAIN prs : n \in DOMAIN prs' /\ prs'[n].by = prs[n].by
  BY <1>1, NextStep DEF StepOk, Growth
<1>2. ASSUME PullsInv, [Next]_vars
      PROVE  \A n \in DOMAIN prs \ (replaced' \cup tied') :
                prs[n].state = "merged" => prs'[n].state = "merged"
  BY <1>2, NextStep DEF StepOk, StaysMerged
<1>3. ASSUME PullsInv, [Next]_vars, NEW n \in DOMAIN prs \ replaced'
      PROVE  Range(prs[n].reviews) \subseteq Range(prs'[n].reviews)
  <2>1. /\ prs[n] \in PullType /\ prs'[n] \in PullType
        /\ Begins(prs[n].reviews, prs'[n].reviews)
    BY <1>3, NextStep DEF StepOk, Growth, PullsInv, Types, WellFormed
  <2> QED
    BY <2>1, ReviewsLength, BeginsRange
<1>4. /\ PullsInv /\ [Next]_vars => [\A n \in DOMAIN prs :
           n \in DOMAIN prs' /\ prs'[n].by = prs[n].by]_vars
      /\ PullsInv /\ [Next]_vars => [\A n \in DOMAIN prs \ (replaced' \cup tied') :
           prs[n].state = "merged" => prs'[n].state = "merged"]_vars
      /\ PullsInv /\ [Next]_vars => [\A n \in DOMAIN prs \ replaced' :
           Range(prs[n].reviews) \subseteq Range(prs'[n].reviews)]_vars
  BY <1>1, <1>2, <1>3
<1> QED
  BY <1>4, PullsInvariant, PTL
  DEF Spec, AnswersKept, PullsKept, MergedIsFinal, ReviewsKept
=============================================================================
