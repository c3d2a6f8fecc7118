---------------------------- MODULE WorkTreeProofs ---------------------------
(***************************************************************************)
(* Theorems about WorkTree for any number of paths, branches, tags,        *)
(* commits, commands and deaths, and about the walks of CommitGraph that   *)
(* they use.                                                               *)
(***************************************************************************)
EXTENDS WorkTree, FiniteSetTheorems, SequenceTheorems, WellFoundedInduction, TLAPS

LEMMA SetInduction ==
    ASSUME NEW P, 0 \in P, \A n \in P \cap Nat : n + 1 \in P
    PROVE  Nat \subseteq P
<1> DEFINE B == {n \in Nat : n \notin P}
<1>1. SUFFICES ASSUME B # {} PROVE FALSE
  OBVIOUS
<1>2. PICK x \in B : \A y \in B : ~ (<<y, x>> \in OpToRel(<, Nat))
  BY <1>1, WFMin, NatLessThanWellFounded, B \subseteq Nat, Zenon
<1>3. \A y \in B : ~ (y < x)
  BY <1>2 DEF OpToRel
<1>4. x # 0 /\ x - 1 \in Nat /\ x - 1 < x
  OBVIOUS
<1>5. x - 1 \in P \cap Nat
  BY <1>3, <1>4
<1> QED
  BY <1>5, <1>4, (x - 1) + 1 = x

-----------------------------------------------------------------------------
(* A history: a commit has commits with smaller numbers as its parents. *)
History(G, n) ==
    /\ n \in Nat /\ DOMAIN G = 1..n
    /\ \A i \in 1..n : \A k \in DOMAIN G[i] : G[i][k] \in 1 .. i - 1

(* f gives the ancestors of the commits of S. *)
AncestorSets(G, S, f) ==
    f = [i \in S |-> {i} \cup UNION {f[G[i][k]] : k \in DOMAIN G[i]}]

LEMMA AncestorsExist ==
    ASSUME NEW G, NEW n, History(G, n)
    PROVE  \E f : AncestorSets(G, 1..n, f)
<1> DEFINE P == {m \in Nat : m <= n => \E f : AncestorSets(G, 1..m, f)}
           Up(i, f) == {i} \cup UNION {f[G[i][k]] : k \in DOMAIN G[i]}
<1>1. 0 \in P
  <2>1. AncestorSets(G, 1..0, [i \in 1..0 |-> {}])
    BY DEF AncestorSets
  <2> QED
    BY <2>1, Zenon
<1>2. ASSUME NEW m \in P \cap Nat PROVE m + 1 \in P
  <2> SUFFICES ASSUME m + 1 <= n PROVE \E f : AncestorSets(G, 1 .. m + 1, f)
    OBVIOUS
  <2>1. m <= n
    BY DEF History
  <2>2. PICK g : AncestorSets(G, 1..m, g)
    BY <2>1
  <2> DEFINE f == [i \in 1 .. m + 1 |-> IF i = m + 1 THEN Up(m + 1, g) ELSE g[i]]
  <2>3. \A i \in 1..m : g[i] = Up(i, g)
    BY <2>2 DEF AncestorSets
  <2>4. \A i \in 1 .. m + 1 : Up(i, f) = Up(i, g)
    <3> SUFFICES ASSUME NEW i \in 1 .. m + 1 PROVE Up(i, f) = Up(i, g)
      OBVIOUS
    <3>1. \A k \in DOMAIN G[i] : G[i][k] \in 1..m
      BY DEF History
    <3>2. \A k \in DOMAIN G[i] : f[G[i][k]] = g[G[i][k]]
      BY <3>1
    <3> HIDE DEF f
    <3> QED
      BY <3>2
  <2>5. ASSUME NEW i \in 1 .. m + 1 PROVE f[i] = Up(i, f)
    <3>1. CASE i = m + 1
      <4>1. f[i] = Up(i, g)
        BY <3>1
      <4> HIDE DEF f, Up
      <4> QED
        BY <2>4, <4>1
    <3>2. CASE i \in 1..m
      <4>1. f[i] = g[i]
        BY <3>2
      <4> HIDE DEF f, Up
      <4> QED
        BY <2>3, <2>4, <3>2, <4>1, Zenon
    <3>3. m \in Nat
      OBVIOUS
    <3> HIDE DEF P, f, Up
    <3>4. i = m + 1 \/ i \in 1..m
      BY <3>3
    <3> QED
      BY <3>1, <3>2, <3>4, Zenon
  <2>6. f = [i \in 1 .. m + 1 |-> f[i]]
    OBVIOUS
  <2> HIDE DEF f
  <2>7. AncestorSets(G, 1 .. m + 1, f)
    BY <2>5, <2>6 DEF AncestorSets
  <2> QED
    BY <2>7, Zenon
<1>3. Nat \subseteq P
  <2> HIDE DEF P
  <2> QED BY <1>1, <1>2, SetInduction, Zenon
<1> QED
  BY <1>3 DEF History

(* What the recursion of Ancestors gives. *)
LEMMA AncestorsAre ==
    ASSUME NEW G, NEW n, History(G, n)
    PROVE  \A i \in 1..n :
              Ancestors(G, i) = {i} \cup UNION {Ancestors(G, G[i][k]) : k \in DOMAIN G[i]}
<1> DEFINE f == CHOOSE g : AncestorSets(G, DOMAIN G, g)
<1>2. DOMAIN G = 1..n
  BY DEF History
<1>0. \E g : AncestorSets(G, DOMAIN G, g)
  BY <1>2, AncestorsExist
<1>1. AncestorSets(G, DOMAIN G, f)
  BY <1>0, Zenon
<1>3. ASSUME NEW c PROVE Ancestors(G, c) = IF c = None THEN {} ELSE f[c]
  BY Zenon DEF Ancestors, AncestorSets, Ids
<1> HIDE DEF f
<1> SUFFICES ASSUME NEW i \in 1..n
             PROVE  Ancestors(G, i) = {i} \cup UNION {Ancestors(G, G[i][k]) : k \in DOMAIN G[i]}
  OBVIOUS
<1>4. f[i] = {i} \cup UNION {f[G[i][k]] : k \in DOMAIN G[i]}
  BY <1>1, <1>2 DEF AncestorSets
<1>5. \A k \in DOMAIN G[i] : Ancestors(G, G[i][k]) = f[G[i][k]]
  BY <1>3 DEF None, History
<1>6. Ancestors(G, i) = f[i]
  BY <1>3 DEF None
<1> QED
  BY <1>4, <1>5, <1>6

(* A set with the parents of its members has all their ancestors. *)
LEMMA AncestorsWithin ==
    ASSUME NEW G, NEW n, History(G, n), NEW S \in SUBSET (1..n),
           \A c \in S : \A k \in DOMAIN G[c] : G[c][k] \in S
    PROVE  \A c \in S : Ancestors(G, c) \subseteq S
<1> DEFINE P == {m \in Nat : \A c \in S : c <= m => Ancestors(G, c) \subseteq S}
<1>1. 0 \in P
  OBVIOUS
<1>2. ASSUME NEW m \in P \cap Nat PROVE m + 1 \in P
  <2> SUFFICES ASSUME NEW c \in S, c <= m + 1 PROVE Ancestors(G, c) \subseteq S
    OBVIOUS
  <2>1. \A k \in DOMAIN G[c] : G[c][k] \in S /\ G[c][k] <= m
    BY DEF History
  <2>2. \A k \in DOMAIN G[c] : Ancestors(G, G[c][k]) \subseteq S
    BY <2>1
  <2>3. Ancestors(G, c) = {c} \cup UNION {Ancestors(G, G[c][k]) : k \in DOMAIN G[c]}
    BY AncestorsAre
  <2> QED
    BY <2>2, <2>3
<1>3. Nat \subseteq P
  <2> HIDE DEF P
  <2> QED BY <1>1, <1>2, SetInduction, Zenon
<1> QED
  BY <1>3 DEF History

(* The ancestors of a commit have their parents among them. *)
LEMMA AncestorsClosed ==
    ASSUME NEW G, NEW n, History(G, n), NEW c \in 1..n
    PROVE  /\ c \in Ancestors(G, c) /\ Ancestors(G, c) \subseteq 1..n
           /\ \A a \in Ancestors(G, c) : \A k \in DOMAIN G[a] : G[a][k] \in Ancestors(G, c)
<1> DEFINE Closed(x) ==
             \A a \in Ancestors(G, x) : \A k \in DOMAIN G[a] : G[a][k] \in Ancestors(G, x)
           P == {m \in Nat : \A x \in 1..n : x <= m => Closed(x)}
<1>1. \A i \in 1..n :
          Ancestors(G, i) = {i} \cup UNION {Ancestors(G, G[i][k]) : k \in DOMAIN G[i]}
  BY AncestorsAre
<1>2. \A i \in 1..n : i \in Ancestors(G, i)
  BY <1>1
<1>3. 0 \in P
  OBVIOUS
<1>4. ASSUME NEW m \in P \cap Nat PROVE m + 1 \in P
  <2> SUFFICES ASSUME NEW x \in 1..n, x <= m + 1, NEW a \in Ancestors(G, x),
                      NEW k \in DOMAIN G[a]
               PROVE  G[a][k] \in Ancestors(G, x)
    OBVIOUS
  <2>1. \A j \in DOMAIN G[x] : G[x][j] \in 1..n /\ G[x][j] <= m
    BY DEF History
  <2>2. CASE a = x
    BY <1>1, <1>2, <2>1, <2>2
  <2>3. CASE a # x
    <3>1. PICK j \in DOMAIN G[x] : a \in Ancestors(G, G[x][j])
      BY <1>1, <2>3
    <3>2. G[a][k] \in Ancestors(G, G[x][j])
      BY <2>1, <3>1
    <3> QED
      BY <1>1, <3>2
  <2> QED
    BY <2>2, <2>3
<1>5. Nat \subseteq P
  <2> HIDE DEF P
  <2> QED BY <1>3, <1>4, SetInduction, Zenon
<1>6. Ancestors(G, c) \subseteq 1..n
  <2>1. \A x \in 1..n : \A k \in DOMAIN G[x] : G[x][k] \in 1..n
    BY DEF History
  <2> QED
    BY <2>1, AncestorsWithin
<1> QED
  BY <1>2, <1>5, <1>6 DEF History

-----------------------------------------------------------------------------
(* f gives the first-parent chains of the commits of S. *)
Chains(G, S, f) ==
    f = [i \in S |-> IF G[i] = <<>> THEN <<i>> ELSE <<i>> \o f[G[i][1]]]

LEMMA ChainsExist ==
    ASSUME NEW G \in Seq(Seq(Nat)), NEW n, History(G, n)
    PROVE  \E f : Chains(G, 1..n, f)
<1> DEFINE P == {m \in Nat : m <= n => \E f : Chains(G, 1..m, f)}
           Up(i, f) == IF G[i] = <<>> THEN <<i>> ELSE <<i>> \o f[G[i][1]]
<1>0. ASSUME NEW i \in 1..n, G[i] # <<>> PROVE G[i][1] \in 1 .. i - 1
  <2>1. G[i] \in Seq(Nat)
    BY DEF History
  <2>2. 1 \in DOMAIN G[i]
    BY <1>0, <2>1
  <2> QED
    BY <2>2 DEF History
<1>1. 0 \in P
  <2>1. Chains(G, 1..0, [i \in 1..0 |-> {}])
    BY DEF Chains
  <2> QED
    BY <2>1, Zenon
<1>2. ASSUME NEW m \in P \cap Nat PROVE m + 1 \in P
  <2> SUFFICES ASSUME m + 1 <= n PROVE \E f : Chains(G, 1 .. m + 1, f)
    OBVIOUS
  <2>0. n \in Nat /\ m \in Nat
    BY DEF History
  <2>1. m <= n
    BY <2>0
  <2>2. PICK g : Chains(G, 1..m, g)
    BY <2>1
  <2> DEFINE f == [i \in 1 .. m + 1 |-> IF i = m + 1 THEN Up(m + 1, g) ELSE g[i]]
  <2>3. \A i \in 1..m : g[i] = Up(i, g)
    BY <2>2 DEF Chains
  <2>4. \A i \in 1 .. m + 1 : Up(i, f) = Up(i, g)
    <3> SUFFICES ASSUME NEW i \in 1 .. m + 1 PROVE Up(i, f) = Up(i, g)
      OBVIOUS
    <3>1. G[i] # <<>> => G[i][1] \in 1..m
      BY <1>0, <2>0
    <3>2. G[i] # <<>> => f[G[i][1]] = g[G[i][1]]
      BY <3>1
    <3> HIDE DEF f
    <3> QED
      BY <3>2
  <2>5. ASSUME NEW i \in 1 .. m + 1 PROVE f[i] = Up(i, f)
    <3>1. CASE i = m + 1
      <4>1. f[i] = Up(i, g)
        BY <3>1
      <4> HIDE DEF f, Up
      <4> QED
        BY <2>4, <4>1
    <3>2. CASE i \in 1..m
      <4>1. f[i] = g[i]
        BY <2>0, <3>2
      <4> HIDE DEF f, Up
      <4> QED
        BY <2>3, <2>4, <3>2, <4>1, Zenon
    <3> HIDE DEF P, f, Up
    <3>3. i = m + 1 \/ i \in 1..m
      BY <2>0
    <3> QED
      BY <3>1, <3>2, <3>3, Zenon
  <2>6. f = [i \in 1 .. m + 1 |-> f[i]]
    OBVIOUS
  <2> HIDE DEF f
  <2>7. Chains(G, 1 .. m + 1, f)
    BY <2>5, <2>6 DEF Chains
  <2> QED
    BY <2>7, Zenon
<1>3. Nat \subseteq P
  <2> HIDE DEF P
  <2> QED BY <1>1, <1>2, SetInduction, Zenon
<1> QED
  BY <1>3 DEF History

LEMMA FirstParentsIs ==
    ASSUME NEW G \in Seq(Seq(Nat)), NEW n, History(G, n)
    PROVE  \A c \in 1..n : FirstParents(G, c) \in Seq(Nat)
<1> DEFINE f == CHOOSE g : Chains(G, DOMAIN G, g)
<1>1. DOMAIN G = 1..n
  BY DEF History
<1>2. \E g : Chains(G, DOMAIN G, g)
  BY <1>1, ChainsExist
<1>3. Chains(G, DOMAIN G, f)
  BY <1>2, Zenon
<1>4. ASSUME NEW c PROVE FirstParents(G, c) = f[c]
  BY Zenon DEF FirstParents, Chains, Ids
<1> HIDE DEF f
<1>5. \A i \in 1..n : f[i] = IF G[i] = <<>> THEN <<i>> ELSE <<i>> \o f[G[i][1]]
  BY <1>1, <1>3 DEF Chains
<1>6. ASSUME NEW i \in 1..n, G[i] # <<>> PROVE G[i][1] \in 1 .. i - 1
  <2>1. G[i] \in Seq(Nat)
    BY DEF History
  <2>2. 1 \in DOMAIN G[i]
    BY <1>6, <2>1
  <2> QED
    BY <2>2 DEF History
<1> DEFINE P == {m \in Nat : \A c \in 1..n : c <= m => f[c] \in Seq(Nat)}
<1>7. 0 \in P
  OBVIOUS
<1>8. ASSUME NEW m \in P \cap Nat PROVE m + 1 \in P
  <2> SUFFICES ASSUME NEW c \in 1..n, c <= m + 1 PROVE f[c] \in Seq(Nat)
    OBVIOUS
  <2>1. <<c>> \in Seq(Nat)
    OBVIOUS
  <2>2. CASE G[c] = <<>>
    BY <1>5, <2>1, <2>2
  <2>3. CASE G[c] # <<>>
    <3>1. G[c][1] \in 1..n /\ G[c][1] <= m
      BY <1>6, <2>3 DEF History
    <3>2. f[G[c][1]] \in Seq(Nat)
      BY <3>1
    <3>3. f[c] = <<c>> \o f[G[c][1]]
      BY <1>5, <2>3
    <3> QED
      BY <2>1, <3>2, <3>3
  <2> QED
    BY <2>2, <2>3
<1>9. Nat \subseteq P
  <2> HIDE DEF P
  <2> QED BY <1>7, <1>8, SetInduction, Zenon
<1> QED
  BY <1>4, <1>9 DEF History

LEMMA Least ==
    ASSUME NEW S \in SUBSET Nat, S # {}
    PROVE  \E x \in S : \A y \in S : x <= y
<1>1. PICK x \in S : \A y \in S : ~ (<<y, x>> \in OpToRel(<, Nat))
  BY WFMin, NatLessThanWellFounded, Zenon
<1>2. \A y \in S : ~ (y < x)
  BY <1>1 DEF OpToRel
<1> QED
  BY <1>2

LEMMA RebaseWalkIs ==
    ASSUME NEW G \in Seq(Seq(Nat)), NEW n, History(G, n), NEW tip \in 1..n, NEW base
    PROVE  Len(Reverse(RebaseWalk(G, tip, base))) \in Nat
<1> DEFINE walk == FirstParents(G, tip)
           at == SelectInSeq(walk, LAMBDA c : c = base)
<1>1. walk \in Seq(Nat)
  BY FirstParentsIs
<1>2. PICK k : /\ k = at
               /\ RebaseWalk(G, tip, base) = IF k = 0 THEN walk ELSE SubSeq(walk, 1, k - 1)
  BY DEF RebaseWalk
<1> DEFINE I == {i \in 1..Len(walk) : walk[i] = base}
<1>3. k \in Nat /\ k <= Len(walk)
  <2>1. k = IF I # {} THEN Min(I) ELSE 0
    BY <1>2 DEF SelectInSeq
  <2>2. I \subseteq 1..Len(walk) /\ I \subseteq Nat /\ Len(walk) \in Nat
    BY <1>1
  <2> HIDE DEF I, walk
  <2>3. I # {} => Min(I) \in I
    BY <2>2, Least DEF Min
  <2>4. k \in I \/ k = 0
    BY <2>1, <2>3
  <2>5. k \in 1..Len(walk) \/ k = 0
    BY <2>2, <2>4, Zenon
  <2>6. Len(walk) \in Nat
    BY <2>2
  <2> QED
    BY <2>5, <2>6
<1> HIDE DEF at, walk
<1>4. RebaseWalk(G, tip, base) \in Seq(Nat)
  <2>1. k # 0 => k - 1 \in 0..Len(walk)
    BY <1>1, <1>3
  <2>2. k # 0 => \A i \in 1 .. k - 1 : i \in 1..Len(walk)
    BY <1>1, <1>3
  <2> QED
    BY <1>1, <1>2, <1>3, <2>1
<1>5. Len(RebaseWalk(G, tip, base)) \in Nat
  BY <1>4
<1> QED
  BY <1>5 DEF Reverse

-----------------------------------------------------------------------------
(* Repositories *)

Object   == [tree : Tree, parents : Seq(Oid)]
Objects  == Seq(Object)
LogEntry == [old : 0 .. MaxCommits, new : Oid]
Logs     == Seq(LogEntry)
Kept     == [tree : Tree, base : Oid]
Stashes  == Seq(Kept)

LEMMA RepoIs ==
    Repo = [commits : Objects, have : SUBSET Oid, blobs : SUBSET Data,
            refs : [Branch -> 0 .. MaxCommits], tags : [Tag -> 0 .. MaxCommits],
            head : Branch, headRef : Branch, reflog : Logs, index : Tree,
            stash : Stashes, notes : SUBSET Oid]
BY DEF Repo, Objects, Object, Logs, LogEntry, Stashes, Kept

(* The files of t are in X. *)
In(t, X) == \A p \in Path : t[p] = NoFile \/ t[p] \in X

LEMMA ContentsIn ==
    ASSUME NEW t, NEW X
    PROVE  Contents(t) \subseteq X <=> In(t, X)
BY DEF Contents, Files, In

(* Whole, member by member. *)
Sound(r, lost) ==
    /\ Len(r.commits) <= MaxCommits /\ Len(r.reflog) <= MaxReflog
    /\ r.have \subseteq DOMAIN r.commits
    /\ \A i \in DOMAIN r.commits : \A k \in DOMAIN r.commits[i].parents :
          r.commits[i].parents[k] < i
    /\ \A c \in r.have :
          /\ \A k \in DOMAIN r.commits[c].parents : r.commits[c].parents[k] \in r.have
          /\ In(r.commits[c].tree, r.blobs \cup lost)
    /\ \A b \in Branch : r.refs[b] \in r.have \cup {None}
    /\ \A t \in Tag : r.tags[t] \in r.have \cup {None}
    /\ \A k \in DOMAIN r.stash :
          r.stash[k].base \in r.have \cup {None} /\ In(r.stash[k].tree, r.blobs \cup lost)
    /\ \A k \in DOMAIN r.reflog :
          r.reflog[k].old \in r.have \cup {None} /\ r.reflog[k].new \in r.have \cup {None}
    /\ In(r.index, r.blobs \cup lost)

LEMMA WholeIsSound ==
    ASSUME NEW r, NEW lost
    PROVE  Whole(r, lost) <=> Sound(r, lost)
<1> DEFINE H == r.have \cup {None}
<1>1. Roots(r) \subseteq H <=>
        /\ \A b \in Branch : r.refs[b] \in H
        /\ \A t \in Tag : r.tags[t] \in H
        /\ \A k \in DOMAIN r.stash : r.stash[k].base \in H
        /\ \A k \in DOMAIN r.reflog : r.reflog[k].old \in H /\ r.reflog[k].new \in H
  <2> HIDE DEF H
  <2> QED BY DEF Roots
<1>2. \A c \in r.have :
        ToSet(r.commits[c].parents) \subseteq r.have
           <=> \A k \in DOMAIN r.commits[c].parents : r.commits[c].parents[k] \in r.have
  BY DEF ToSet
<1>3. \A c \in r.have :
        Contents(r.commits[c].tree) \subseteq r.blobs \cup lost
           <=> In(r.commits[c].tree, r.blobs \cup lost)
  BY ContentsIn
<1>4. \A k \in DOMAIN r.stash :
        Contents(r.stash[k].tree) \subseteq r.blobs \cup lost
           <=> In(r.stash[k].tree, r.blobs \cup lost)
  BY ContentsIn
<1>5. Contents(r.index) \subseteq r.blobs \cup lost <=> In(r.index, r.blobs \cup lost)
  BY ContentsIn
<1> QED
  BY <1>1, <1>2, <1>3, <1>4, <1>5, Zenon DEF Whole, Sound

News(r) == {r.reflog[k].new : k \in DOMAIN r.reflog}

(* A handle that is fit to be worked on, or saved. *)
Fit(r, lost) == r \in Repo /\ Sound(r, lost)

LEMMA FieldsOf ==
    ASSUME NEW r \in Repo
    PROVE  /\ r.commits \in Objects /\ r.reflog \in Logs /\ r.stash \in Stashes
           /\ Len(r.commits) \in Nat /\ DOMAIN r.commits = 1..Len(r.commits)
           /\ \A i \in DOMAIN r.commits : r.commits[i] \in Object
           /\ r.refs \in [Branch -> 0 .. MaxCommits] /\ r.tags \in [Tag -> 0 .. MaxCommits]
           /\ r.have \subseteq Oid /\ r.blobs \subseteq Data /\ r.index \in Tree
           /\ r.head \in Branch /\ r.headRef \in Branch /\ r.notes \subseteq Oid
<1>1. r.commits \in Objects
  BY RepoIs
<1>2. /\ Len(r.commits) \in Nat /\ DOMAIN r.commits = 1..Len(r.commits)
      /\ \A i \in DOMAIN r.commits : r.commits[i] \in Object
  BY <1>1 DEF Objects
<1> QED
  BY <1>1, <1>2, RepoIs

LEMMA TipsAreOids ==
    ASSUME NEW r \in Repo
    PROVE  {r.refs[b] : b \in Branch} \ {None} \subseteq Oid
<1>1. r.refs \in [Branch -> 0 .. MaxCommits] /\ MaxCommits \in Nat
  BY FieldsOf, WorkTreeAssumption
<1>2. \A x \in 0 .. MaxCommits : x = None \/ x \in Oid
  BY <1>1 DEF None, Oid
<1> QED
  BY <1>1, <1>2

(* Every commit has a tree: that of an absent one is empty. *)
LEMMA TreeIs ==
    ASSUME NEW lost, NEW r, Fit(r, lost), NEW c
    PROVE  TreeOf(r, c) \in Tree /\ In(TreeOf(r, c), r.blobs \cup lost)
<1>1. EmptyTree \in Tree /\ In(EmptyTree, r.blobs \cup lost)
  BY DEF EmptyTree, Tree, In
<1>2. c \in r.have => r.commits[c] \in Object
  BY FieldsOf DEF Fit, Sound
<1>3. c \in r.have => r.commits[c].tree \in Tree
  BY <1>2 DEF Object
<1> QED
  BY <1>1, <1>3 DEF Fit, Sound, TreeOf

(* What a log has after an entry is added: the entry, and entries it had; *)
(* all it had, if it begins as it was.                                    *)
LEMMA LoggedIs ==
    ASSUME NEW log \in Logs, NEW e \in LogEntry, Len(log) <= MaxReflog
    PROVE  /\ Logged(log, e) \in Logs /\ Len(Logged(log, e)) <= MaxReflog
           /\ \A k \in DOMAIN Logged(log, e) :
                Logged(log, e)[k] = e \/ \E j \in DOMAIN log : Logged(log, e)[k] = log[j]
           /\ \E k \in DOMAIN Logged(log, e) : Logged(log, e)[k] = e
           /\ IsPrefix(log, Logged(log, e)) =>
                \A j \in DOMAIN log : \E k \in DOMAIN Logged(log, e) : Logged(log, e)[k] = log[j]
<1> DEFINE l == Append(log, e)
           n == Len(log)
           q == Logged(log, e)
<1>1. /\ n \in Nat /\ DOMAIN log = 1..n /\ l \in Logs /\ Len(l) = n + 1
      /\ DOMAIN l = 1 .. n + 1 /\ l[n + 1] = e /\ \A i \in 1..n : l[i] = log[i]
      /\ MaxReflog \in Nat \ {0}
  BY WorkTreeAssumption DEF Logs
<1>2. CASE ~ (n + 1 > MaxReflog)
  <2>1. q = l
    BY <1>1, <1>2 DEF Logged
  <2> HIDE DEF l, n, q
  <2>2. \A k \in DOMAIN q : q[k] = e \/ \E j \in DOMAIN log : q[k] = log[j]
    BY <1>1, <2>1
  <2>3. \E k \in DOMAIN q : q[k] = e
    BY <1>1, <2>1
  <2>4. \A j \in DOMAIN log : \E k \in DOMAIN q : q[k] = log[j]
    BY <1>1, <2>1
  <2> QED
    BY <1>1, <1>2, <2>1, <2>2, <2>3, <2>4 DEF q
<1>3. CASE n + 1 > MaxReflog
  <2>0. n \in Nat /\ MaxReflog \in Nat /\ n <= MaxReflog /\ MaxReflog # 0
    BY <1>1
  <2>1. n = MaxReflog /\ n # 0
    <3> HIDE DEF n, l, q
    <3> QED BY <1>3, <2>0
  <2>2. q = SubSeq(l, 2, n + 1)
    BY <1>1, <2>1 DEF Logged
  <2> HIDE DEF l, n, q
  <2>3. /\ q \in Logs /\ Len(q) = n /\ DOMAIN q = 1..n /\ \A k \in 1..n : q[k] = l[k + 1]
    BY <1>1, <2>1, <2>2 DEF Logs
  <2>4. \A k \in DOMAIN q : q[k] = e \/ \E j \in DOMAIN log : q[k] = log[j]
    <3> SUFFICES ASSUME NEW k \in 1..n PROVE q[k] = e \/ \E j \in DOMAIN log : q[k] = log[j]
      BY <2>3
    <3>1. CASE k = n
      BY <1>1, <2>3, <3>1
    <3>2. CASE k # n
      <4>1. k + 1 \in 1..n
        BY <1>1, <3>2
      <4> QED
        BY <1>1, <2>3, <4>1
    <3> QED
      BY <3>1, <3>2
  <2>5. q[n] = e /\ n \in DOMAIN q
    BY <1>1, <2>1, <2>3
  <2>6. ASSUME IsPrefix(log, q) PROVE \A j \in DOMAIN log : \E k \in DOMAIN q : q[k] = log[j]
    <3>1. SubSeq(log, 1, n) = SubSeq(q, 1, n)
      BY <2>6 DEF IsPrefix, n
    <3>2. \A j \in 1..n : log[j] = q[j]
      <4>1. \A j \in 1..n : SubSeq(log, 1, n)[j] = log[j] /\ SubSeq(q, 1, n)[j] = q[j]
        BY <1>1, <2>3 DEF Logs
      <4> QED
        BY <3>1, <4>1
    <3> QED
      BY <1>1, <2>3, <3>2
  <2> QED
    BY <2>1, <2>3, <2>4, <2>5, <2>6 DEF q
<1> QED
  BY <1>2, <1>3

-----------------------------------------------------------------------------
(* The operations on a handle *)

(* The log of q goes on from that of r, and has the tips of q. *)
LogOk(r, q) ==
    IsPrefix(r.reflog, q.reflog) /\ TipsLogged(r) => TipsLogged(q) /\ News(r) \subseteq News(q)

(* A change of the index, of HEAD's name or of the notes. *)
LEMMA StagedFits ==
    ASSUME NEW lost, NEW r, Fit(r, lost), NEW q \in Repo,
           q.commits = r.commits, q.have = r.have, r.blobs \subseteq q.blobs,
           q.refs = r.refs, q.tags = r.tags, q.reflog = r.reflog, q.stash = r.stash,
           In(q.index, q.blobs \cup lost)
    PROVE  Fit(q, lost) /\ LogOk(r, q)
<1>1. Sound(q, lost)
  BY DEF Fit, Sound, In
<1>2. LogOk(r, q)
  BY DEF LogOk, TipsLogged, News
<1> QED
  BY <1>1, <1>2 DEF Fit

(* q is r with branch b on commit c. *)
Moved(lost, r, b, c, q) ==
    /\ Fit(q, lost) /\ LogOk(r, q)
    /\ q.commits = r.commits /\ q.have = r.have /\ q.blobs = r.blobs
    /\ q.refs = [r.refs EXCEPT ![b] = c] /\ q.head = r.head /\ q.index = r.index
    /\ q.headRef = r.headRef

LEMMA SetBranchFits ==
    ASSUME NEW lost, NEW r, Fit(r, lost), NEW b \in Branch, NEW c \in r.have, NEW q,
           q = SetBranch(r, b, c)
    PROVE  Moved(lost, r, b, c, q)
<1> DEFINE e == [old |-> r.refs[b], new |-> c]
           log == Logged(r.reflog, e)
<1>1. /\ r \in Repo /\ c \in Oid /\ r.reflog \in Logs /\ Len(r.reflog) <= MaxReflog
      /\ r.refs \in [Branch -> 0 .. MaxCommits]
  BY FieldsOf DEF Fit, Sound
<1>2. e \in LogEntry /\ e.new = c /\ e.old = r.refs[b]
  BY <1>1 DEF LogEntry
<1>3. q = [r EXCEPT !.refs[b] = c, !.reflog = log]
  BY DEF SetBranch
<1> HIDE DEF e
<1>4. /\ log \in Logs /\ Len(log) <= MaxReflog
      /\ \A k \in DOMAIN log : log[k] = e \/ \E j \in DOMAIN r.reflog : log[k] = r.reflog[j]
      /\ \E k \in DOMAIN log : log[k] = e
      /\ IsPrefix(r.reflog, log) =>
            \A j \in DOMAIN r.reflog : \E k \in DOMAIN log : log[k] = r.reflog[j]
  BY <1>1, <1>2, LoggedIs
<1> HIDE DEF log
<1>5. q \in Repo
  <2>1. c \in 0 .. MaxCommits
    BY <1>1 DEF Oid
  <2> DEFINE refs == [r.refs EXCEPT ![b] = c]
  <2>2. refs \in [Branch -> 0 .. MaxCommits]
    BY <1>1, <2>1
  <2>3. q = [r EXCEPT !.refs = refs, !.reflog = log]
    BY <1>3
  <2> HIDE DEF refs
  <2> QED
    BY <1>1, <1>4, <2>2, <2>3, RepoIs
<1>6. /\ q.commits = r.commits /\ q.have = r.have /\ q.blobs = r.blobs
      /\ q.refs = [r.refs EXCEPT ![b] = c] /\ q.head = r.head /\ q.index = r.index
      /\ q.headRef = r.headRef /\ q.reflog = log /\ q.tags = r.tags /\ q.stash = r.stash
  BY <1>1, <1>3, RepoIs
<1>7. \A x \in Branch : q.refs[x] = IF x = b THEN c ELSE r.refs[x]
  BY <1>1, <1>6
<1>8. Sound(q, lost)
  <2>1. \A x \in Branch : q.refs[x] \in q.have \cup {None}
    BY <1>6, <1>7 DEF Fit, Sound
  <2>2. \A k \in DOMAIN q.reflog :
          q.reflog[k].old \in q.have \cup {None} /\ q.reflog[k].new \in q.have \cup {None}
    BY <1>2, <1>4, <1>6 DEF Fit, Sound
  <2> QED
    BY <1>4, <1>6, <2>1, <2>2 DEF Fit, Sound
<1>9. LogOk(r, q)
  <2> SUFFICES ASSUME IsPrefix(r.reflog, log), TipsLogged(r)
               PROVE  TipsLogged(q) /\ News(r) \subseteq News(q)
    BY <1>6 DEF LogOk
  <2>1. News(r) \subseteq News(q) /\ c \in News(q)
    BY <1>2, <1>4, <1>6 DEF News
  <2>2. TipsLogged(q)
    BY <1>7, <2>1 DEF TipsLogged, News
  <2> QED
    BY <2>1, <2>2
<1> QED
  BY <1>5, <1>6, <1>8, <1>9 DEF Fit, Moved

(* r can take a commit with tree t and parents ps. *)
Addable(r, lost, t, ps) ==
    /\ Fit(r, lost) /\ Len(r.commits) < MaxCommits
    /\ t \in Tree /\ In(t, r.blobs \cup lost)
    /\ ps \in Seq(Oid) /\ \A k \in DOMAIN ps : ps[k] \in r.have

LEMMA AddCommitFits ==
    ASSUME NEW lost, NEW r, NEW t, NEW ps, Addable(r, lost, t, ps), NEW q, q = AddCommit(r, t, ps)
    PROVE  /\ Fit(q, lost)
           /\ q.commits = Append(r.commits, [tree |-> t, parents |-> ps])
           /\ NewOid(r) = Len(r.commits) + 1 /\ NewOid(r) \in Oid /\ NewOid(r) \in q.have
           /\ q.have = r.have \cup {NewOid(r)} /\ q.blobs = r.blobs
           /\ q.refs = r.refs /\ q.head = r.head /\ q.headRef = r.headRef
           /\ q.index = r.index /\ q.reflog = r.reflog
           /\ TreeOf(q, NewOid(r)) = t
           /\ \A c \in r.have : q.commits[c] = r.commits[c]
<1> DEFINE o == [tree |-> t, parents |-> ps]
           n == Len(r.commits)
           cs == Append(r.commits, o)
<1>0. /\ Fit(r, lost) /\ Len(r.commits) < MaxCommits
      /\ t \in Tree /\ In(t, r.blobs \cup lost)
      /\ ps \in Seq(Oid) /\ \A k \in DOMAIN ps : ps[k] \in r.have
  BY DEF Addable
<1> USE <1>0
<1>1. /\ r \in Repo /\ r.commits \in Objects /\ n \in Nat /\ DOMAIN r.commits = 1..n
      /\ n + 1 \in Oid /\ MaxCommits \in Nat /\ r.have \subseteq 1..n /\ r.have \subseteq Oid
  BY FieldsOf, WorkTreeAssumption DEF Fit, Sound, Oid
<1>2. o \in Object /\ o.tree = t /\ o.parents = ps
  BY DEF Object
<1> HIDE DEF o
<1>3. /\ cs \in Objects /\ Len(cs) = n + 1 /\ DOMAIN cs = 1 .. n + 1 /\ cs[n + 1] = o
      /\ \A i \in 1..n : cs[i] = r.commits[i]
  BY <1>1, <1>2 DEF Objects
<1>4. q = [r EXCEPT !.commits = cs, !.have = @ \cup {n + 1}]
  BY DEF AddCommit, o
<1> HIDE DEF cs, n
<1>5. q \in Repo
  <2> DEFINE H == r.have \cup {n + 1}
  <2>1. H \in SUBSET Oid
    BY <1>1
  <2>2. q = [r EXCEPT !.commits = cs, !.have = H]
    BY <1>4
  <2> HIDE DEF H
  <2> QED
    BY <1>1, <1>3, <2>1, <2>2, RepoIs
<1>6. /\ q.commits = cs /\ q.have = r.have \cup {n + 1} /\ q.blobs = r.blobs
      /\ q.refs = r.refs /\ q.head = r.head /\ q.index = r.index
      /\ q.headRef = r.headRef /\ q.reflog = r.reflog /\ q.tags = r.tags /\ q.stash = r.stash
  BY <1>1, <1>4, RepoIs
<1>7. \A c \in r.have : c \in 1..n /\ cs[c] = r.commits[c]
  BY <1>1, <1>3
<1>8. \A i \in DOMAIN cs : \A k \in DOMAIN cs[i].parents : cs[i].parents[k] < i
  <2> SUFFICES ASSUME NEW i \in 1 .. n + 1, NEW k \in DOMAIN cs[i].parents
               PROVE  cs[i].parents[k] < i
    BY <1>3
  <2>1. CASE i = n + 1
    <3>1. cs[i] = o /\ ps[k] \in 1..n /\ cs[i].parents = ps
      BY <1>1, <1>2, <1>3, <2>1
    <3> QED
      BY <1>1, <2>1, <3>1
  <2>2. CASE i # n + 1
    <3>1. i \in 1..n
      BY <1>1, <2>2
    <3> QED
      BY <1>1, <1>3, <3>1 DEF Fit, Sound
  <2> QED
    BY <2>1, <2>2
<1>9. \A c \in q.have :
        /\ \A k \in DOMAIN q.commits[c].parents : q.commits[c].parents[k] \in q.have
        /\ In(q.commits[c].tree, q.blobs \cup lost)
  <2> SUFFICES ASSUME NEW c \in r.have \cup {n + 1}
               PROVE  /\ \A k \in DOMAIN cs[c].parents : cs[c].parents[k] \in q.have
                      /\ In(cs[c].tree, r.blobs \cup lost)
    BY <1>6
  <2>1. CASE c = n + 1
    BY <1>2, <1>3, <1>6, <2>1
  <2>2. CASE c \in r.have
    BY <1>6, <1>7, <2>2 DEF Fit, Sound
  <2> QED
    BY <2>1, <2>2
<1>10. Sound(q, lost)
  <2>1. Len(cs) <= MaxCommits /\ q.have \subseteq DOMAIN cs
    BY <1>1, <1>3, <1>6 DEF n
  <2>2. /\ \A b \in Branch : q.refs[b] \in q.have \cup {None}
        /\ \A b \in Tag : q.tags[b] \in q.have \cup {None}
        /\ \A k \in DOMAIN q.stash :
              q.stash[k].base \in q.have \cup {None} /\ In(q.stash[k].tree, q.blobs \cup lost)
        /\ \A k \in DOMAIN q.reflog :
              q.reflog[k].old \in q.have \cup {None} /\ q.reflog[k].new \in q.have \cup {None}
        /\ In(q.index, q.blobs \cup lost) /\ Len(q.reflog) <= MaxReflog
    BY <1>6 DEF Fit, Sound
  <2> QED
    BY <1>6, <1>8, <1>9, <2>1, <2>2 DEF Sound
<1>11. TreeOf(q, n + 1) = t
  BY <1>2, <1>3, <1>6 DEF TreeOf
<1>12. NewOid(r) = n + 1
  BY DEF NewOid, n
<1> QED
  BY <1>1, <1>5, <1>6, <1>7, <1>10, <1>11, <1>12 DEF Fit, cs, o, n

(* Whatever a branch names is in the store. *)
LEMMA TipsAre ==
    ASSUME NEW lost, NEW r, Fit(r, lost)
    PROVE  /\ \A b \in Branch : r.refs[b] \in r.have \cup {None}
           /\ r.head \in Branch /\ HeadOid(r) \in r.have \cup {None}
           /\ None \notin r.have /\ r.have \subseteq Oid /\ r.blobs \subseteq Data
<1>1. r.head \in Branch /\ r.have \subseteq Oid /\ r.blobs \subseteq Data
  BY FieldsOf DEF Fit
<1>2. \A b \in Branch : r.refs[b] \in r.have \cup {None}
  BY DEF Fit, Sound
<1>3. None \notin Oid
  BY DEF None, Oid
<1> QED
  BY <1>1, <1>2, <1>3 DEF HeadOid

(* q is r with a commit of tree t and parents ps on top of HEAD. *)
OnTop(r, lost, t, ps, q) ==
    /\ Fit(q, lost) /\ LogOk(r, q) /\ Headed(q)
    /\ q.commits = Append(r.commits, [tree |-> t, parents |-> ps])
    /\ q.have = r.have \cup {NewOid(r)} /\ q.blobs = r.blobs /\ q.index = r.index
    /\ q.head = r.head /\ HeadOid(q) = NewOid(r) /\ HeadTree(q) = t
    /\ NewOid(r) = Len(r.commits) + 1

LEMMA CommitOnFits ==
    ASSUME NEW lost, NEW r, NEW t, NEW ps, Addable(r, lost, t, ps)
    PROVE  OnTop(r, lost, t, ps, CommitOn(r, t, ps))
<1> DEFINE q == CommitOn(r, t, ps)
<1> HIDE DEF q
<1>0. PICK a : a = AddCommit(r, t, ps)
  OBVIOUS
<1>1. /\ Fit(a, lost)
      /\ a.commits = Append(r.commits, [tree |-> t, parents |-> ps])
      /\ NewOid(r) = Len(r.commits) + 1 /\ NewOid(r) \in Oid /\ NewOid(r) \in a.have
      /\ a.have = r.have \cup {NewOid(r)} /\ a.blobs = r.blobs
      /\ a.refs = r.refs /\ a.head = r.head /\ a.index = r.index /\ a.reflog = r.reflog
      /\ TreeOf(a, NewOid(r)) = t
  BY <1>0, AddCommitFits
<1>2. r.head \in Branch
  BY TipsAre DEF Addable
<1>3. q = SetBranch(a, r.head, NewOid(r))
  BY <1>0 DEF CommitOn, q
<1>4. /\ Fit(q, lost) /\ LogOk(a, q)
      /\ q.commits = a.commits /\ q.have = a.have /\ q.blobs = a.blobs
      /\ q.refs = [a.refs EXCEPT ![r.head] = NewOid(r)] /\ q.head = a.head
      /\ q.index = a.index
  BY <1>1, <1>2, <1>3, SetBranchFits DEF Moved
<1>5. LogOk(r, q)
  <2>1. News(a) = News(r) /\ (TipsLogged(a) <=> TipsLogged(r))
    BY <1>1 DEF TipsLogged, News
  <2> QED
    BY <1>1, <1>4, <2>1 DEF LogOk
<1>6. a.refs \in [Branch -> 0 .. MaxCommits]
  BY <1>1, FieldsOf DEF Fit
<1>7. HeadOid(q) = NewOid(r)
  BY <1>1, <1>2, <1>4, <1>6 DEF HeadOid
<1>8. HeadTree(q) = t
  BY <1>1, <1>4, <1>7 DEF HeadTree, TreeOf
<1>9. Headed(q)
  BY <1>1, <1>7 DEF Headed, None, Oid
<1> QED
  BY <1>1, <1>4, <1>5, <1>7, <1>8, <1>9 DEF OnTop, q

(* q has a new commit of the index of r. *)
Settled(r, lost, q) ==
    /\ Fit(q, lost) /\ LogOk(r, q) /\ Headed(q) /\ q.index = HeadTree(q)
    /\ r.have \subseteq q.have /\ q.blobs = r.blobs

LEMMA CreateCommitFits ==
    ASSUME NEW lost, NEW r, Fit(r, lost), Len(r.commits) < MaxCommits,
           NEW q, q = CreateCommit(r)
    PROVE  Settled(r, lost, q)
<1> DEFINE ps == IF HeadOid(r) = None THEN <<>> ELSE <<HeadOid(r)>>
<1>1. q = CommitOn(r, r.index, ps)
  BY DEF CreateCommit, CommitOn
<1>2. HeadOid(r) \in r.have \cup {None} /\ r.have \subseteq Oid
  BY TipsAre
<1>3. ps \in Seq(Oid) /\ \A k \in DOMAIN ps : ps[k] \in r.have
  <2>1. CASE HeadOid(r) = None
    BY <2>1
  <2>2. CASE HeadOid(r) # None
    <3>1. ps = <<HeadOid(r)>> /\ HeadOid(r) \in r.have
      BY <1>2, <2>2
    <3> QED
      BY <1>2, <3>1
  <2> QED
    BY <2>1, <2>2
<1>4. r.index \in Tree /\ In(r.index, r.blobs \cup lost)
  BY FieldsOf DEF Fit, Sound
<1> HIDE DEF ps
<1>5. Addable(r, lost, r.index, ps)
  BY <1>3, <1>4 DEF Addable
<1>6. /\ Fit(q, lost) /\ LogOk(r, q) /\ Headed(q) /\ q.have = r.have \cup {NewOid(r)}
      /\ q.blobs = r.blobs /\ q.index = r.index /\ HeadTree(q) = r.index
  <2>1. OnTop(r, lost, r.index, ps, q)
    BY <1>1, <1>5, CommitOnFits
  <2> QED
    BY <2>1 DEF OnTop
<1> QED
  BY <1>6 DEF Settled

LEMMA AmendedFits ==
    ASSUME NEW lost, NEW r, Fit(r, lost), Len(r.commits) < MaxCommits, HeadOid(r) # None,
           NEW q, q = Amended(r)
    PROVE  Settled(r, lost, q)
<1> DEFINE ps == r.commits[HeadOid(r)].parents
<1>1. q = CommitOn(r, r.index, ps)
  BY DEF Amended
<1>2. HeadOid(r) \in r.have /\ HeadOid(r) \in DOMAIN r.commits
  BY TipsAre DEF Fit, Sound
<1>3. ps \in Seq(Oid)
  <2>1. r.commits[HeadOid(r)] \in Object
    BY <1>2, FieldsOf DEF Fit
  <2> QED
    BY <2>1 DEF Object
<1>4. \A k \in DOMAIN ps : ps[k] \in r.have
  BY <1>2 DEF Fit, Sound
<1>5. r.index \in Tree /\ In(r.index, r.blobs \cup lost)
  BY FieldsOf DEF Fit, Sound
<1> HIDE DEF ps
<1>6. Addable(r, lost, r.index, ps)
  BY <1>3, <1>4, <1>5 DEF Addable
<1>7. /\ Fit(q, lost) /\ LogOk(r, q) /\ Headed(q) /\ q.have = r.have \cup {NewOid(r)}
      /\ q.blobs = r.blobs /\ q.index = r.index /\ HeadTree(q) = r.index
  <2>1. OnTop(r, lost, r.index, ps, q)
    BY <1>1, <1>6, CommitOnFits
  <2> QED
    BY <2>1 DEF OnTop
<1> QED
  BY <1>7 DEF Settled

(* HEAD on branch b with its tree in the index. *)
Loaded(r, b) == [r EXCEPT !.index = TreeOf(r, r.refs[b]), !.head = b, !.headRef = b]

IsLoaded(lost, r, b, q) ==
    /\ Fit(q, lost) /\ LogOk(r, q) /\ Headed(q) /\ q.index = HeadTree(q)
    /\ q.have = r.have /\ q.blobs = r.blobs /\ q.commits = r.commits
    /\ q.refs = r.refs /\ q.reflog = r.reflog /\ q.head = b
    /\ HeadTree(q) = TreeOf(r, r.refs[b]) /\ HeadOid(q) = r.refs[b]

LEMMA LoadedFits ==
    ASSUME NEW lost, NEW r, Fit(r, lost), NEW b \in Branch, r.refs[b] \in r.have,
           NEW q, q = Loaded(r, b)
    PROVE  IsLoaded(lost, r, b, q)
<1> DEFINE t == TreeOf(r, r.refs[b])
<1>1. t \in Tree /\ In(t, r.blobs \cup lost)
  BY TreeIs
<1>2. q = [r EXCEPT !.index = t, !.head = b, !.headRef = b] /\ r \in Repo
  BY DEF Fit, Loaded
<1> HIDE DEF t
<1>3. q \in Repo
  BY <1>1, <1>2, RepoIs
<1>4. /\ q.commits = r.commits /\ q.have = r.have /\ q.blobs = r.blobs /\ q.refs = r.refs
      /\ q.tags = r.tags /\ q.reflog = r.reflog /\ q.stash = r.stash /\ q.head = b
      /\ q.index = t
  BY <1>2, RepoIs
<1>5. Fit(q, lost) /\ LogOk(r, q)
  BY <1>1, <1>3, <1>4, StagedFits
<1>6. HeadOid(q) = r.refs[b]
  BY <1>4 DEF HeadOid
<1>7. HeadTree(q) = t
  <2>1. \A c : TreeOf(q, c) = TreeOf(r, c)
    BY <1>4 DEF TreeOf
  <2> QED
    BY <1>6, <2>1 DEF HeadTree, t
<1>8. Headed(q)
  BY <1>6, TipsAre DEF Headed
<1> QED
  BY <1>4, <1>5, <1>6, <1>7, <1>8 DEF t, IsLoaded

(* Merging takes each path from one of the two sides. *)
LEMMA MergedIs ==
    ASSUME NEW X, NEW o \in Tree, NEW t \in Tree, In(o, X), In(t, X), NEW b, NEW r,
           NEW m, m = MergeTrees(r, b, o, t)
    PROVE  /\ MergedTree(m) \in Tree /\ In(MergedTree(m), X)
           /\ \A p \in Path : m[p].text \in Data \cup {NoFile}
<1>1. ASSUME NEW x, NEW y, NEW z, NEW bl
      PROVE  /\ MergePath(x, y, z, bl).to \in {y, z}
             /\ MergePath(x, y, z, bl).text \in {NoFile, Marked, Empty}
  BY DEF MergePath
<1>2. \A p \in Path : m[p].to \in {o[p], t[p]} /\ m[p].text \in {NoFile, Marked, Empty}
  BY <1>1 DEF MergeTrees
<1>3. \A p \in Path : o[p] \in Data \cup {NoFile} /\ t[p] \in Data \cup {NoFile}
  BY DEF Tree
<1>4. MergedTree(m) \in Tree /\ In(MergedTree(m), X)
  BY <1>2, <1>3 DEF MergedTree, Tree, In
<1> QED
  BY <1>2, <1>4 DEF Data

(* Writing and deleting files makes a directory of a directory. *)
LEMMA WrittenIs ==
    ASSUME NEW lost, NEW r, Fit(r, lost), NEW d \in Tree, NEW t
    PROVE  /\ WriteOut(r, d, t) \in Tree
           /\ \A P : Deleted(d, P) \in Tree /\ WriteOut(r, Deleted(d, P), t) \in Tree
           /\ \A ignore : Replaced(r, d, t, ignore) \in Tree
<1>1. r.blobs \subseteq Data
  BY TipsAre
<1>2. ASSUME NEW x \in Tree PROVE WriteOut(r, x, t) \in Tree
  BY <1>1 DEF WriteOut, Tree
<1>3. ASSUME NEW P PROVE Deleted(d, P) \in Tree
  BY DEF Deleted, Tree
<1> QED
  BY <1>2, <1>3 DEF Replaced

(* Another index t and the contents B. *)
WithIndex(r, t, B) == [r EXCEPT !.index = t, !.blobs = B]
WithTree(r, t) == [r EXCEPT !.index = t]

CanIndex(lost, r, t, B) ==
    /\ Fit(r, lost) /\ t \in Tree /\ B \subseteq Data
    /\ r.blobs \subseteq B /\ In(t, B \cup lost)

Indexed(lost, r, t, B, q) ==
    /\ Fit(q, lost) /\ LogOk(r, q) /\ (Headed(r) => Headed(q))
    /\ q.index = t /\ HeadTree(q) = HeadTree(r) /\ HeadOid(q) = HeadOid(r)
    /\ q.have = r.have /\ q.blobs = B /\ q.commits = r.commits
    /\ q.refs = r.refs /\ q.reflog = r.reflog /\ q.head = r.head /\ q.stash = r.stash

LEMMA ContentFits ==
    ASSUME NEW lost, NEW r, NEW t, NEW B, CanIndex(lost, r, t, B)
    PROVE  /\ Indexed(lost, r, t, B, WithIndex(r, t, B))
           /\ B = r.blobs => Indexed(lost, r, t, B, WithTree(r, t))
<1>1. r \in Repo /\ Fit(r, lost) /\ t \in Tree /\ B \in SUBSET Data
      /\ r.blobs \subseteq B /\ In(t, B \cup lost)
  BY DEF CanIndex, Fit
<1>2. SUFFICES ASSUME NEW q, q \in Repo,
                      \/ q = [r EXCEPT !.index = t, !.blobs = B]
                      \/ B = r.blobs /\ q = [r EXCEPT !.index = t]
               PROVE  Indexed(lost, r, t, B, q)
  <2>1. [r EXCEPT !.index = t, !.blobs = B] \in Repo /\ [r EXCEPT !.index = t] \in Repo
    BY <1>1, RepoIs
  <2> QED
    BY <2>1 DEF WithIndex, WithTree
<1>3. /\ q.commits = r.commits /\ q.have = r.have /\ q.blobs = B /\ q.refs = r.refs
      /\ q.tags = r.tags /\ q.reflog = r.reflog /\ q.stash = r.stash /\ q.head = r.head
      /\ q.index = t
  <2>1. CASE q = [r EXCEPT !.index = t, !.blobs = B]
    BY <1>1, <2>1, RepoIs
  <2>2. CASE B = r.blobs /\ q = [r EXCEPT !.index = t]
    BY <1>1, <2>2, RepoIs
  <2> QED
    BY <1>2, <2>1, <2>2
<1>4. Fit(q, lost) /\ LogOk(r, q)
  BY <1>1, <1>2, <1>3, StagedFits
<1>5. HeadOid(q) = HeadOid(r)
  BY <1>3 DEF HeadOid
<1>6. HeadTree(q) = HeadTree(r)
  BY <1>3, <1>5 DEF HeadTree, TreeOf
<1>7. Headed(r) => Headed(q)
  BY <1>3, <1>5 DEF Headed
<1> QED
  BY <1>3, <1>4, <1>5, <1>6, <1>7 DEF Indexed

(* q has the index and HEAD's commit of r. *)
Alike(lost, r, q) ==
    /\ Fit(q, lost) /\ LogOk(r, q) /\ (Headed(r) => Headed(q))
    /\ q.index = r.index /\ HeadTree(q) = HeadTree(r)
    /\ q.have = r.have /\ q.blobs = r.blobs

(* Another stash. *)
WithStash(r, st) == [r EXCEPT !.stash = st]

LEMMA StashFits ==
    ASSUME NEW lost, NEW r, Fit(r, lost), NEW st \in Stashes,
           \A k \in DOMAIN st :
              st[k].base \in r.have \cup {None} /\ In(st[k].tree, r.blobs \cup lost),
           NEW q, q = WithStash(r, st)
    PROVE  Alike(lost, r, q)
<1>1. r \in Repo /\ q = [r EXCEPT !.stash = st]
  BY DEF Fit, WithStash
<1>2. q \in Repo
  BY <1>1, RepoIs
<1>3. /\ q.commits = r.commits /\ q.have = r.have /\ q.blobs = r.blobs /\ q.refs = r.refs
      /\ q.tags = r.tags /\ q.reflog = r.reflog /\ q.stash = st /\ q.head = r.head
      /\ q.index = r.index
  BY <1>1, RepoIs
<1>4. Sound(q, lost)
  BY <1>3 DEF Fit, Sound
<1>5. HeadOid(q) = HeadOid(r)
  BY <1>3 DEF HeadOid
<1>6. HeadTree(q) = HeadTree(r)
  BY <1>3, <1>5 DEF HeadTree, TreeOf
<1>7. Headed(r) => Headed(q)
  BY <1>3, <1>5 DEF Headed
<1>8. LogOk(r, q)
  BY <1>3 DEF LogOk, TipsLogged, News
<1> QED
  BY <1>2, <1>3, <1>4, <1>6, <1>7, <1>8 DEF Fit, Alike

(* Other tags. *)
LEMMA TagsFit ==
    ASSUME NEW lost, NEW r, Fit(r, lost), NEW t \in Tag, NEW c \in r.have \cup {None},
           NEW q, q = Tagged(r, t, c)
    PROVE  Alike(lost, r, q)
<1> DEFINE tags == [r.tags EXCEPT ![t] = c]
<1>1. r \in Repo /\ r.tags \in [Tag -> 0 .. MaxCommits] /\ MaxCommits \in Nat
  BY FieldsOf, WorkTreeAssumption DEF Fit
<1>2. c \in 0 .. MaxCommits
  BY <1>1, TipsAre DEF Oid, None
<1>3. tags \in [Tag -> 0 .. MaxCommits]
  BY <1>1, <1>2
<1>4. \A x \in Tag : tags[x] \in r.have \cup {None}
  BY <1>1 DEF Fit, Sound
<1>5. q = [r EXCEPT !.tags = tags]
  BY DEF Tagged
<1> HIDE DEF tags
<1>6. q \in Repo
  BY <1>1, <1>3, <1>5, RepoIs
<1>7. /\ q.commits = r.commits /\ q.have = r.have /\ q.blobs = r.blobs /\ q.refs = r.refs
      /\ q.tags = tags /\ q.reflog = r.reflog /\ q.stash = r.stash /\ q.head = r.head
      /\ q.index = r.index
  BY <1>1, <1>5, RepoIs
<1>8. Sound(q, lost)
  BY <1>4, <1>7 DEF Fit, Sound
<1>9. HeadOid(q) = HeadOid(r)
  BY <1>7 DEF HeadOid
<1>10. HeadTree(q) = HeadTree(r)
  BY <1>7, <1>9 DEF HeadTree, TreeOf
<1>11. Headed(r) => Headed(q)
  BY <1>7, <1>9 DEF Headed
<1>12. LogOk(r, q)
  BY <1>7 DEF LogOk, TipsLogged, News
<1> QED
  BY <1>6, <1>7, <1>8, <1>10, <1>11, <1>12 DEF Fit, Alike

(* Other notes. *)
WithNotes(r, N) == [r EXCEPT !.notes = N]

LEMMA NotesFit ==
    ASSUME NEW lost, NEW r, Fit(r, lost), NEW N \in SUBSET Oid,
           NEW q, q = WithNotes(r, N)
    PROVE  Alike(lost, r, q)
<1>1. r \in Repo /\ q = [r EXCEPT !.notes = N]
  BY DEF Fit, WithNotes
<1>2. q \in Repo
  BY <1>1, RepoIs
<1>3. /\ q.commits = r.commits /\ q.have = r.have /\ q.blobs = r.blobs /\ q.refs = r.refs
      /\ q.tags = r.tags /\ q.reflog = r.reflog /\ q.stash = r.stash /\ q.head = r.head
      /\ q.index = r.index
  BY <1>1, RepoIs
<1>4. In(q.index, q.blobs \cup lost)
  BY <1>3 DEF Fit, Sound
<1>5. Fit(q, lost) /\ LogOk(r, q)
  BY <1>2, <1>3, <1>4, StagedFits
<1>6. HeadOid(q) = HeadOid(r)
  BY <1>3 DEF HeadOid
<1>7. HeadTree(q) = HeadTree(r)
  BY <1>3, <1>6 DEF HeadTree, TreeOf
<1>8. Headed(r) => Headed(q)
  BY <1>3, <1>6 DEF Headed
<1> QED
  BY <1>3, <1>5, <1>7, <1>8 DEF Alike

(* A branch under another name: HEAD is never left on the old one, and was *)
(* not on the new one, which had no commit.                                *)
LEMMA RenamedFits ==
    ASSUME NEW lost, NEW r, Fit(r, lost), Headed(r), NEW b \in Branch, NEW n \in Branch,
           r.refs[b] # None, r.refs[n] = None, NEW q, q = Renamed(r, b, n)
    PROVE  Alike(lost, r, q)
<1> DEFINE e == [old |-> None, new |-> r.refs[b]]
           refs == [r.refs EXCEPT ![b] = None, ![n] = r.refs[b]]
           h == IF r.head = b THEN n ELSE r.head
           log == Logged(r.reflog, e)
<1>1. /\ r \in Repo /\ r.reflog \in Logs /\ Len(r.reflog) <= MaxReflog
      /\ r.refs \in [Branch -> 0 .. MaxCommits] /\ MaxCommits \in Nat /\ r.head \in Branch
  BY FieldsOf, WorkTreeAssumption DEF Fit, Sound
<1>2. r.refs[b] \in r.have /\ r.refs[b] \in Oid
  BY TipsAre
<1>3. e \in LogEntry /\ e.old = None /\ e.new = r.refs[b]
  BY <1>1, <1>2 DEF LogEntry, None
<1>4. refs \in [Branch -> 0 .. MaxCommits]
  BY <1>1 DEF None
<1>5. \A x \in Branch : refs[x] = IF x = n THEN r.refs[b] ELSE IF x = b THEN None ELSE r.refs[x]
  BY <1>1
<1>6. q = [r EXCEPT !.refs = refs, !.reflog = log, !.head = h]
  BY DEF Renamed
<1>7. h \in Branch
  BY <1>1
<1> HIDE DEF e
<1>8. /\ log \in Logs /\ Len(log) <= MaxReflog
      /\ \A k \in DOMAIN log : log[k] = e \/ \E j \in DOMAIN r.reflog : log[k] = r.reflog[j]
      /\ \E k \in DOMAIN log : log[k] = e
      /\ IsPrefix(r.reflog, log) =>
            \A j \in DOMAIN r.reflog : \E k \in DOMAIN log : log[k] = r.reflog[j]
  BY <1>1, <1>3, LoggedIs
<1> HIDE DEF log, refs
<1>9. refs[h] = HeadOid(r)
  <2>1. r.head # n
    BY <1>2 DEF Headed, HeadOid
  <2> QED
    BY <1>1, <1>5, <1>7, <2>1 DEF HeadOid
<1> HIDE DEF h
<1>10. q \in Repo
  BY <1>1, <1>4, <1>6, <1>7, <1>8, RepoIs
<1>11. /\ q.commits = r.commits /\ q.have = r.have /\ q.blobs = r.blobs
       /\ q.refs = refs /\ q.head = h /\ q.index = r.index
       /\ q.reflog = log /\ q.tags = r.tags /\ q.stash = r.stash
  BY <1>1, <1>6, RepoIs
<1>12. Sound(q, lost)
  <2>1. \A x \in Branch : q.refs[x] \in q.have \cup {None}
    BY <1>2, <1>5, <1>11 DEF Fit, Sound
  <2>2. \A k \in DOMAIN q.reflog :
          q.reflog[k].old \in q.have \cup {None} /\ q.reflog[k].new \in q.have \cup {None}
    BY <1>2, <1>3, <1>8, <1>11 DEF Fit, Sound
  <2> QED
    BY <1>8, <1>11, <2>1, <2>2 DEF Fit, Sound
<1>13. LogOk(r, q)
  <2> SUFFICES ASSUME IsPrefix(r.reflog, log), TipsLogged(r)
               PROVE  TipsLogged(q) /\ News(r) \subseteq News(q)
    BY <1>11 DEF LogOk
  <2>1. News(r) \subseteq News(q)
    BY <1>8, <1>11 DEF News
  <2>2. {q.refs[x] : x \in Branch} \ {None} \subseteq {r.refs[x] : x \in Branch} \ {None}
    BY <1>5, <1>11
  <2>3. TipsLogged(q)
    BY <2>1, <2>2 DEF TipsLogged, News
  <2> QED
    BY <2>1, <2>3
<1>14. HeadOid(q) = HeadOid(r)
  BY <1>9, <1>11 DEF HeadOid
<1>15. HeadTree(q) = HeadTree(r)
  BY <1>11, <1>14 DEF HeadTree, TreeOf
<1>16. Headed(q)
  BY <1>11, <1>14 DEF Headed
<1> QED
  BY <1>10, <1>11, <1>12, <1>13, <1>15, <1>16 DEF Fit, Alike

(* A branch that is not HEAD's is taken away. *)
WithoutBranch(r, b) == [r EXCEPT !.refs[b] = None]

LEMMA RemovedFits ==
    ASSUME NEW lost, NEW r, Fit(r, lost), NEW b \in Branch, b # r.head,
           NEW q, q = WithoutBranch(r, b)
    PROVE  Alike(lost, r, q)
<1> DEFINE refs == [r.refs EXCEPT ![b] = None]
<1>1. r \in Repo /\ r.refs \in [Branch -> 0 .. MaxCommits] /\ MaxCommits \in Nat
      /\ r.head \in Branch
  BY FieldsOf, WorkTreeAssumption DEF Fit
<1>2. refs \in [Branch -> 0 .. MaxCommits]
  BY <1>1 DEF None
<1>3. \A x \in Branch : refs[x] = IF x = b THEN None ELSE r.refs[x]
  BY <1>1
<1>4. q = [r EXCEPT !.refs = refs]
  BY DEF WithoutBranch
<1> HIDE DEF refs
<1>5. q \in Repo
  BY <1>1, <1>2, <1>4, RepoIs
<1>6. /\ q.commits = r.commits /\ q.have = r.have /\ q.blobs = r.blobs /\ q.refs = refs
      /\ q.tags = r.tags /\ q.reflog = r.reflog /\ q.stash = r.stash /\ q.head = r.head
      /\ q.index = r.index
  BY <1>1, <1>4, RepoIs
<1>7. Sound(q, lost)
  <2>1. \A x \in Branch : q.refs[x] \in q.have \cup {None}
    BY <1>3, <1>6 DEF Fit, Sound
  <2> QED
    BY <1>6, <2>1 DEF Fit, Sound
<1>8. HeadOid(q) = HeadOid(r)
  BY <1>1, <1>3, <1>6 DEF HeadOid
<1>9. HeadTree(q) = HeadTree(r)
  BY <1>6, <1>8 DEF HeadTree, TreeOf
<1>10. Headed(r) => Headed(q)
  BY <1>6, <1>8 DEF Headed
<1>11. LogOk(r, q)
  <2>1. News(q) = News(r)
    BY <1>6 DEF News
  <2>2. {q.refs[x] : x \in Branch} \ {None} \subseteq {r.refs[x] : x \in Branch} \ {None}
    BY <1>3, <1>6
  <2>3. TipsLogged(r) => TipsLogged(q)
    BY <2>1, <2>2 DEF TipsLogged, News
  <2> QED
    BY <2>1, <2>3 DEF LogOk
<1> QED
  BY <1>5, <1>6, <1>7, <1>9, <1>10, <1>11 DEF Fit, Alike

LEMMA RemoveAtIs ==
    ASSUME NEW S, NEW s \in Seq(S), NEW k \in DOMAIN s
    PROVE  /\ RemoveAt(s, k) \in Seq(S)
           /\ \A i \in DOMAIN RemoveAt(s, k) : \E j \in DOMAIN s : RemoveAt(s, k)[i] = s[j]
<1> DEFINE a == SubSeq(s, 1, k - 1)
           z == SubSeq(s, k + 1, Len(s))
<1>1. /\ Len(s) \in Nat /\ DOMAIN s = 1..Len(s) /\ k \in 1..Len(s)
      /\ k - 1 \in Nat /\ k - 1 <= Len(s)
  OBVIOUS
<1>2. /\ a \in Seq(S) /\ Len(a) = k - 1
      /\ \A i \in 1 .. k - 1 : a[i] = s[i] /\ i \in DOMAIN s
  BY <1>1
<1>3. /\ z \in Seq(S) /\ Len(z) = Len(s) - k
      /\ \A i \in 1 .. Len(s) - k : z[i] = s[i + k] /\ i + k \in DOMAIN s
  BY <1>1
<1> HIDE DEF a, z
<1>4. RemoveAt(s, k) = a \o z
  BY DEF RemoveAt, a, z
<1>5. /\ a \o z \in Seq(S) /\ DOMAIN (a \o z) = 1 .. Len(a) + Len(z)
      /\ \A i \in 1 .. Len(a) + Len(z) :
            (a \o z)[i] = IF i <= Len(a) THEN a[i] ELSE z[i - Len(a)]
  BY <1>2, <1>3
<1>6. ASSUME NEW i \in 1 .. Len(a) + Len(z) PROVE \E j \in DOMAIN s : (a \o z)[i] = s[j]
  <2>1. CASE i <= Len(a)
    <3>1. i \in 1 .. k - 1
      BY <1>1, <1>2, <2>1
    <3> QED
      BY <1>2, <1>5, <2>1, <3>1
  <2>2. CASE ~ (i <= Len(a))
    <3>1. i - Len(a) \in 1 .. Len(s) - k
      BY <1>1, <1>2, <1>3, <2>2
    <3> QED
      BY <1>3, <1>5, <2>2, <3>1
  <2> QED
    BY <2>1, <2>2
<1> QED
  BY <1>4, <1>5, <1>6

-----------------------------------------------------------------------------
(* Rebase *)

LEMMA GraphIs ==
    ASSUME NEW lost, NEW r, Fit(r, lost)
    PROVE  /\ Graph(r) \in Seq(Seq(Nat)) /\ History(Graph(r), Len(r.commits))
           /\ r.have \subseteq 1..Len(r.commits)
           /\ \A c \in r.have : Graph(r)[c] = r.commits[c].parents
<1> DEFINE n == Len(r.commits)
           G == Graph(r)
<1>1. /\ n \in Nat /\ DOMAIN r.commits = 1..n /\ r.have \subseteq 1..n
      /\ \A i \in 1..n : r.commits[i] \in Object
  BY FieldsOf DEF Fit, Sound
<1>2. \A i \in 1..n : r.commits[i].parents \in Seq(Oid)
  BY <1>1 DEF Object
<1>3. DOMAIN G = 1..n /\ \A i \in 1..n : G[i] = r.commits[i].parents
  BY <1>1 DEF Graph
<1>4. \A i \in 1..n : \A k \in DOMAIN r.commits[i].parents : r.commits[i].parents[k] < i
  BY <1>1 DEF Fit, Sound
<1>5. G = [i \in 1..n |-> r.commits[i].parents]
  BY <1>1 DEF Graph
<1> HIDE DEF G, n
<1>6. ASSUME NEW i \in 1..n
      PROVE  G[i] \in Seq(Nat) /\ \A k \in DOMAIN G[i] : G[i][k] \in 1 .. i - 1
  <2>1. G[i] \in Seq(Oid)
    BY <1>2, <1>3
  <2>2. \A x \in Oid : x \in Nat /\ x >= 1
    BY WorkTreeAssumption DEF Oid
  <2>3. G[i] \in Seq(Nat)
    BY <2>1, <2>2
  <2>4. ASSUME NEW k \in DOMAIN G[i] PROVE G[i][k] \in 1 .. i - 1
    <3>1. G[i][k] \in Oid /\ G[i][k] < i
      BY <1>3, <1>4, <2>1
    <3>2. i \in Nat
      BY <1>1
    <3> QED
      BY <2>2, <3>1, <3>2
  <2> QED
    BY <2>3, <2>4
<1>7. G \in Seq(Seq(Nat))
  BY <1>1, <1>5, <1>6
<1>8. History(G, n)
  BY <1>1, <1>3, <1>6 DEF History
<1> QED
  BY <1>1, <1>3, <1>7, <1>8 DEF G, n

(* The replay of k commits has made at most k commits and moved nothing. *)
RunOk(r, lost, s, k) ==
    /\ Fit(s.repo, lost) /\ s.tip \in s.repo.have
    /\ Len(s.repo.commits) <= Len(r.commits) + k
    /\ r.have \subseteq s.repo.have
    /\ s.repo.refs = r.refs /\ s.repo.head = r.head /\ s.repo.index = r.index
    /\ s.repo.reflog = r.reflog /\ s.repo.blobs = r.blobs
    /\ s = [repo |-> s.repo, tip |-> s.tip, bad |-> s.bad]

LEMMA ReplayOk ==
    ASSUME NEW lost, NEW r, NEW s, NEW k \in Nat, RunOk(r, lost, s, k), Fit(r, lost),
           Len(r.commits) + k < MaxCommits, NEW c
    PROVE  RunOk(r, lost, Replay(s, c), k + 1)
<1> DEFINE x == s.repo
           o == TreeOf(x, s.tip)
           t == TreeOf(x, c)
           m == MergeTrees(x, ParentTree(x, c), o, t)
           y == AddCommit(x, MergedTree(m), <<s.tip>>)
<1>1. Fit(x, lost) /\ s.tip \in x.have /\ Len(x.commits) <= Len(r.commits) + k
  BY DEF RunOk
<1>2. Len(x.commits) \in Nat /\ Len(r.commits) \in Nat /\ MaxCommits \in Nat
      /\ x.have \subseteq Oid
  BY <1>1, FieldsOf, WorkTreeAssumption DEF Fit
<1>3. Replay(s, c) = IF s.bad \/ Conflicts(m) # {} THEN [s EXCEPT !.bad = TRUE]
                     ELSE [repo |-> y, tip |-> NewOid(x), bad |-> FALSE]
  BY DEF Replay
<1>4. o \in Tree /\ In(o, x.blobs \cup lost) /\ t \in Tree /\ In(t, x.blobs \cup lost)
  BY <1>1, TreeIs
<1> HIDE DEF x, o, t
<1>5. MergedTree(m) \in Tree /\ In(MergedTree(m), x.blobs \cup lost)
  BY <1>4, MergedIs
<1> HIDE DEF m
<1>6. CASE s.bad \/ Conflicts(m) # {}
  <2>1. Replay(s, c) = [s EXCEPT !.bad = TRUE]
    BY <1>3, <1>6
  <2>2. s = [repo |-> s.repo, tip |-> s.tip, bad |-> s.bad]
    BY DEF RunOk
  <2>3. Replay(s, c) = [repo |-> s.repo, tip |-> s.tip, bad |-> TRUE]
    BY <2>1, <2>2
  <2>4. Len(x.commits) <= Len(r.commits) + (k + 1)
    BY <1>1, <1>2
  <2> QED
    BY <2>3, <2>4 DEF RunOk, x
<1>7. CASE ~ (s.bad \/ Conflicts(m) # {})
  <2>1. Replay(s, c) = [repo |-> y, tip |-> NewOid(x), bad |-> FALSE]
    BY <1>3, <1>7
  <2>2. Addable(x, lost, MergedTree(m), <<s.tip>>)
    <3>1. <<s.tip>> \in Seq(Oid) /\ \A j \in DOMAIN <<s.tip>> : <<s.tip>>[j] \in x.have
      BY <1>1, <1>2
    <3>2. Len(x.commits) < MaxCommits
      BY <1>1, <1>2
    <3> QED
      BY <1>1, <1>5, <3>1, <3>2 DEF Addable
  <2>3. PICK q : q = y
    OBVIOUS
  <2>4. /\ Fit(q, lost) /\ NewOid(x) \in q.have
        /\ q.commits = Append(x.commits, [tree |-> MergedTree(m), parents |-> <<s.tip>>])
        /\ q.have = x.have \cup {NewOid(x)} /\ q.blobs = x.blobs
        /\ q.refs = x.refs /\ q.head = x.head
        /\ q.index = x.index /\ q.reflog = x.reflog
    BY <2>2, <2>3, AddCommitFits
  <2> HIDE DEF y
  <2>5. Len(q.commits) = Len(x.commits) + 1
    <3>1. x.commits \in Objects
      BY <1>1, FieldsOf DEF Fit
    <3> QED
      BY <2>4, <3>1 DEF Objects
  <2>6. Len(q.commits) <= Len(r.commits) + (k + 1)
    <3>1. \A i, j, l \in Nat : i <= j + l => i + 1 <= j + (l + 1)
      OBVIOUS
    <3> QED
      BY <1>1, <1>2, <2>5, <3>1
  <2>7. r.have \subseteq x.have /\ x.refs = r.refs /\ x.head = r.head /\ x.index = r.index
        /\ x.reflog = r.reflog /\ x.blobs = r.blobs
    BY DEF RunOk, x
  <2>8. Replay(s, c) = [repo |-> q, tip |-> NewOid(x), bad |-> FALSE]
    BY <2>1, <2>3
  <2> QED
    BY <2>4, <2>6, <2>7, <2>8 DEF RunOk
<1> QED
  BY <1>6, <1>7

(* f gives the states of a replay of plan from s. *)
Runs(plan, s, S, f) ==
    f = [n \in S |-> IF n = 0 THEN s ELSE Replay(f[n - 1], plan[n])]

LEMMA RunsExist ==
    ASSUME NEW plan, NEW s, NEW n \in Nat
    PROVE  \E f : Runs(plan, s, 0..n, f)
<1> DEFINE P == {m \in Nat : \E f : Runs(plan, s, 0..m, f)}
<1>1. 0 \in P
  <2> DEFINE f == [i \in 0..0 |-> s]
  <2>1. \A i \in 0..0 : f[i] = IF i = 0 THEN s ELSE Replay(f[i - 1], plan[i])
    OBVIOUS
  <2>2. f = [i \in 0..0 |-> f[i]]
    OBVIOUS
  <2> HIDE DEF f
  <2>3. Runs(plan, s, 0..0, f)
    BY <2>1, <2>2 DEF Runs
  <2> QED
    BY <2>3, Zenon
<1>2. ASSUME NEW m \in P \cap Nat PROVE m + 1 \in P
  <2>1. PICK g : Runs(plan, s, 0..m, g)
    BY <1>2
  <2>2. m \in Nat
    BY <1>2
  <2> DEFINE f == [i \in 0 .. m + 1 |-> IF i = m + 1 THEN Replay(g[m], plan[m + 1]) ELSE g[i]]
  <2>3. \A i \in 0..m : g[i] = IF i = 0 THEN s ELSE Replay(g[i - 1], plan[i])
    BY <2>1 DEF Runs
  <2>4. ASSUME NEW i \in 0 .. m + 1
        PROVE  f[i] = IF i = 0 THEN s ELSE Replay(f[i - 1], plan[i])
    <3>1. CASE i = m + 1
      <4>1. f[i] = Replay(g[m], plan[m + 1]) /\ i # 0 /\ i - 1 = m
        BY <2>2, <3>1
      <4>2. f[m] = g[m]
        BY <2>2
      <4> HIDE DEF f
      <4> QED
        BY <3>1, <4>1, <4>2
    <3>2. CASE i \in 0..m
      <4>1. f[i] = g[i] /\ (i # 0 => f[i - 1] = g[i - 1])
        BY <2>2, <3>2
      <4> HIDE DEF f
      <4> QED
        BY <2>3, <3>2, <4>1
    <3> QED
      BY <2>2, <3>1, <3>2
  <2>5. f = [i \in 0 .. m + 1 |-> f[i]]
    OBVIOUS
  <2> HIDE DEF f
  <2>6. Runs(plan, s, 0 .. m + 1, f)
    BY <2>4, <2>5 DEF Runs
  <2>7. m + 1 \in Nat
    BY <2>2
  <2> QED
    BY <2>6, <2>7, Zenon
<1>3. Nat \subseteq P
  <2> HIDE DEF P
  <2> QED BY <1>1, <1>2, SetInduction, Zenon
<1> QED
  BY <1>3

LEMMA ReplayedOk ==
    ASSUME NEW lost, NEW r, Fit(r, lost), NEW b \in Branch, NEW onto \in Branch,
           RebaseWorks(r, b, onto)
    PROVE  \E k : RunOk(r, lost, Replayed(r, b, onto), k)
<1> DEFINE plan == RebasePlan(r, b, onto)
           L == Len(plan)
           first == [repo |-> r, tip |-> r.refs[onto], bad |-> FALSE]
           f == CHOOSE g : Runs(plan, first, 0..L, g)
<1>1. /\ r.refs[b] # None /\ r.refs[onto] # None /\ Len(r.commits) + L <= MaxCommits
  BY DEF RebaseWorks
<1>2. /\ r.refs[b] \in r.have /\ r.refs[onto] \in r.have
  BY <1>1, TipsAre
<1>3. Len(r.commits) \in Nat /\ MaxCommits \in Nat
  BY FieldsOf, WorkTreeAssumption DEF Fit
<1>4. L \in Nat
  <2>1. /\ Graph(r) \in Seq(Seq(Nat)) /\ History(Graph(r), Len(r.commits))
        /\ r.have \subseteq 1..Len(r.commits)
    BY GraphIs
  <2>2. r.refs[b] \in 1..Len(r.commits)
    BY <1>2, <2>1
  <2> QED
    BY <2>1, <2>2, RebaseWalkIs DEF RebasePlan
<1>5. Replayed(r, b, onto) = f[L]
  BY Zenon DEF Replayed, Runs
<1>6. \E g : Runs(plan, first, 0..L, g)
  <2> HIDE DEF first, plan, L
  <2> QED BY <1>4, RunsExist
<1>7. Runs(plan, first, 0..L, f)
  BY <1>6, Zenon
<1>8. RunOk(r, lost, first, 0)
  BY <1>2, <1>3 DEF RunOk
<1> HIDE DEF f, first, plan, L
<1>9. \A n \in 0..L : f[n] = IF n = 0 THEN first ELSE Replay(f[n - 1], plan[n])
  BY <1>7 DEF Runs
<1> DEFINE P == {n \in Nat : n <= L => RunOk(r, lost, f[n], n)}
<1>10. 0 \in P
  BY <1>4, <1>8, <1>9
<1>11. ASSUME NEW n \in P \cap Nat PROVE n + 1 \in P
  <2> SUFFICES ASSUME n + 1 <= L PROVE RunOk(r, lost, f[n + 1], n + 1)
    OBVIOUS
  <2>1. n \in Nat /\ n <= L /\ n + 1 \in 0..L /\ (n + 1) - 1 = n /\ n + 1 # 0
    BY <1>4
  <2>2. RunOk(r, lost, f[n], n)
    BY <2>1
  <2>3. f[n + 1] = Replay(f[n], plan[n + 1])
    BY <1>9, <2>1
  <2>4. Len(r.commits) + n < MaxCommits
    BY <1>1, <1>3, <1>4, <2>1 DEF L
  <2> HIDE DEF P
  <2> QED
    BY <2>1, <2>2, <2>3, <2>4, ReplayOk
<1>12. Nat \subseteq P
  <2> HIDE DEF P
  <2> QED BY <1>10, <1>11, SetInduction, Zenon
<1>13. RunOk(r, lost, f[L], L)
  BY <1>4, <1>12
<1> QED
  BY <1>5, <1>13

(* q is r with more commits and branch b on one of q's. *)
Rewritten(r, lost, b, q) ==
    /\ Fit(q, lost) /\ LogOk(r, q)
    /\ r.have \subseteq q.have /\ q.blobs = r.blobs /\ q.head = r.head
    /\ q.index = r.index /\ q.refs[b] \in q.have

LEMMA RebasedFits ==
    ASSUME NEW lost, NEW r, Fit(r, lost), NEW b \in Branch, NEW onto \in Branch,
           RebaseWorks(r, b, onto), NEW q, q = Rebased(r, b, onto)
    PROVE  Rewritten(r, lost, b, q)
<1>1. PICK s : s = Replayed(r, b, onto)
  OBVIOUS
<1>2. /\ Fit(s.repo, lost) /\ s.tip \in s.repo.have
      /\ r.have \subseteq s.repo.have
      /\ s.repo.refs = r.refs /\ s.repo.head = r.head /\ s.repo.index = r.index
      /\ s.repo.reflog = r.reflog /\ s.repo.blobs = r.blobs
  BY <1>1, ReplayedOk DEF RunOk
<1>3. q = SetBranch(s.repo, b, s.tip)
  BY <1>1 DEF Rebased
<1>4. PICK x : x = s.repo
  OBVIOUS
<1>5. /\ Fit(q, lost) /\ LogOk(x, q)
      /\ q.have = x.have /\ q.blobs = x.blobs
      /\ q.refs = [x.refs EXCEPT ![b] = s.tip] /\ q.head = x.head /\ q.index = x.index
  BY <1>2, <1>3, <1>4, SetBranchFits DEF Moved
<1>6. News(x) = News(r) /\ (TipsLogged(x) <=> TipsLogged(r)) /\ x.reflog = r.reflog
  BY <1>2, <1>4 DEF TipsLogged, News
<1>7. LogOk(r, q)
  BY <1>5, <1>6 DEF LogOk
<1>8. x.refs \in [Branch -> 0 .. MaxCommits]
  BY <1>2, <1>4, FieldsOf DEF Fit
<1>9. q.refs[b] = s.tip
  BY <1>5, <1>8
<1> QED
  BY <1>2, <1>4, <1>5, <1>7, <1>9 DEF Rewritten

-----------------------------------------------------------------------------
(* The invariant *)

WorkInv ==
    /\ Fit(repo, dropped) /\ Headed(repo)
    /\ trimmed \/ (TipsLogged(repo) /\ past \subseteq News(repo))
    /\ IndexExplained
    /\ disk \in Tree /\ touched \subseteq Path /\ past \subseteq Oid /\ dropped \subseteq Data
    /\ moved \in BOOLEAN /\ trimmed \in BOOLEAN /\ faults \in 0 .. MaxFaults

(* Where the index of q is not HEAD's tree somebody chose its entry. *)
Explained(q, chosen) ==
    \A p \in Path : q.index[p] # HeadTree(q)[p] => p \in touched \cup chosen

(* What a command may hand to Finish. *)
Ready(q, chosen, left) ==
    /\ Fit(q, dropped) /\ Headed(q)
    /\ repo.blobs \subseteq q.blobs /\ repo.have \subseteq q.have
    /\ LogOk(repo, q)
    /\ chosen \subseteq Path
    /\ left \/ moved \/ Explained(q, chosen)

LEMMA SavedStep ==
    ASSUME WorkInv, NEW q, NEW d \in Tree, NEW chosen, NEW left, Ready(q, chosen, left),
           Saved(q, d, chosen, left)
    PROVE  WorkInv'
<1>1. /\ repo' = q /\ disk' = d /\ faults' = faults
      /\ touched' = {p \in touched \cup chosen : q.index[p] # HeadTree(q)[p]}
      /\ moved' = ((moved \/ left) /\ q.index # HeadTree(q))
      /\ dropped' = dropped \ q.blobs
      /\ past' = past \cup ({q.refs[b] : b \in Branch} \ {None})
      /\ trimmed' = (trimmed \/ ~IsPrefix(repo.reflog, q.reflog))
  BY DEF Saved
<1>2. q \in Repo /\ Sound(q, dropped) /\ Headed(q)
  BY DEF Ready, Fit
<1>3. Fit(repo', dropped')
  <2>1. q.blobs \cup dropped' = q.blobs \cup dropped
    BY <1>1
  <2>2. Sound(q, dropped')
    BY <1>2, <2>1 DEF Sound
  <2> QED
    BY <1>1, <1>2, <2>2 DEF Fit
<1>4. Headed(repo')
  BY <1>1, <1>2
<1>5. trimmed' \/ (TipsLogged(repo') /\ past' \subseteq News(repo'))
  <2> SUFFICES ASSUME ~trimmed' PROVE TipsLogged(q) /\ past' \subseteq News(q)
    BY <1>1
  <2>1. ~trimmed /\ IsPrefix(repo.reflog, q.reflog)
    BY <1>1, Zenon
  <2>2. TipsLogged(q) /\ News(repo) \subseteq News(q) /\ past \subseteq News(repo)
    BY <2>1 DEF WorkInv, Ready, LogOk
  <2> QED
    BY <1>1, <2>2 DEF TipsLogged, News
<1>6. IndexExplained'
  <2>1. CASE q.index = HeadTree(q)
    BY <1>1, <2>1 DEF IndexExplained
  <2>2. CASE moved \/ left
    <3>1. q.index # HeadTree(q) => moved'
      BY <1>1, <2>2, Zenon
    <3> QED
      BY <1>1, <2>1, <3>1 DEF IndexExplained
  <2>3. CASE Explained(q, chosen)
    BY <1>1, <2>3 DEF IndexExplained, Explained
  <2> QED
    BY <2>2, <2>3 DEF Ready
<1>7. past' \subseteq Oid
  BY <1>1, <1>2, TipsAreOids DEF WorkInv
<1>8. /\ disk' \in Tree /\ touched' \subseteq Path /\ dropped' \subseteq Data
      /\ moved' \in BOOLEAN /\ trimmed' \in BOOLEAN /\ faults' \in 0 .. MaxFaults
  <2>1. disk' \in Tree /\ touched' \subseteq Path /\ dropped' \subseteq Data
        /\ faults' \in 0 .. MaxFaults
    BY <1>1 DEF WorkInv, Ready
  <2>2. moved' \in BOOLEAN /\ trimmed' \in BOOLEAN
    BY <1>1, Zenon
  <2> QED
    BY <2>1, <2>2
<1> QED
  BY <1>3, <1>4, <1>5, <1>6, <1>7, <1>8 DEF WorkInv

(* A step that leaves the file as it is. *)
LEMMA DirectoryStep ==
    ASSUME WorkInv, disk' \in Tree, faults' \in 0 .. MaxFaults,
           UNCHANGED <<repo, touched, moved, dropped, past, trimmed>>
    PROVE  WorkInv'
BY DEF WorkInv, IndexExplained

LEMMA FinishStep ==
    ASSUME WorkInv, NEW q, NEW d \in Tree, NEW chosen, NEW left, Ready(q, chosen, left),
           Finish(q, d, chosen, left)
    PROVE  WorkInv'
<1>1. CASE Saved(q, d, chosen, left)
  BY <1>1, SavedStep
<1>2. CASE DiesBeforeSave(d)
  <2>1. /\ disk' = d /\ faults < MaxFaults /\ faults' = faults + 1
        /\ UNCHANGED <<repo, touched, moved, dropped, past, trimmed>>
    BY <1>2 DEF DiesBeforeSave
  <2>2. faults' \in 0 .. MaxFaults
    BY <2>1, WorkTreeAssumption DEF WorkInv
  <2> QED
    BY <2>1, <2>2, DirectoryStep
<1> QED
  BY <1>1, <1>2 DEF Finish

(* The file itself is ready. *)
LEMMA RepoReady ==
    ASSUME WorkInv
    PROVE  Ready(repo, {}, FALSE)
BY DEF WorkInv, Ready, IndexExplained, Explained, LogOk

LEMMA InitWorkInv == Init => WorkInv
<1> SUFFICES ASSUME Init PROVE WorkInv
  OBVIOUS
<1>1. /\ repo \in Repo /\ Whole(repo, {}) /\ Headed(repo) /\ TipsLogged(repo)
      /\ repo.index = HeadTree(repo)
  BY StartAssumption DEF Init
<1>2. Fit(repo, dropped)
  BY <1>1, WholeIsSound DEF Fit, Init
<1>3. past \subseteq News(repo) /\ past \subseteq Oid
  BY <1>1, TipsAreOids DEF Init, TipsLogged, News
<1>4. disk \in Tree
  BY <1>1, FieldsOf DEF Init
<1>5. touched \subseteq Path /\ dropped \subseteq Data /\ moved \in BOOLEAN /\ trimmed \in BOOLEAN
  BY DEF Init
<1>6. faults \in 0 .. MaxFaults
  BY WorkTreeAssumption DEF Init
<1>7. IndexExplained
  BY <1>1 DEF IndexExplained
<1> QED
  BY <1>1, <1>2, <1>3, <1>4, <1>5, <1>6, <1>7 DEF WorkInv
-----------------------------------------------------------------------------
(* What the commands hand to Finish *)

LEMMA LogSame ==
    ASSUME NEW r, NEW x, NEW q, r.reflog = x.reflog, r.refs = x.refs
    PROVE  (LogOk(x, q) => LogOk(r, q)) /\ (LogOk(q, x) => LogOk(q, r))
BY DEF LogOk, TipsLogged, News

(* All of Ready but what it says of the index. *)
Steady(q) ==
    /\ Fit(q, dropped) /\ Headed(q)
    /\ repo.blobs \subseteq q.blobs /\ repo.have \subseteq q.have
    /\ LogOk(repo, q)

LEMMA ReadyKept ==
    ASSUME WorkInv, NEW q, Steady(q), NEW chosen \in SUBSET Path,
           HeadTree(q) = HeadTree(repo),
           \A p \in Path \ chosen : q.index[p] = repo.index[p]
    PROVE  Ready(q, chosen, FALSE)
<1>1. moved \/ Explained(q, chosen)
  BY DEF WorkInv, IndexExplained, Explained
<1> QED
  BY <1>1 DEF Ready, Steady

LEMMA ReadyLoaded ==
    ASSUME NEW q, Steady(q), q.index = HeadTree(q), NEW left
    PROVE  Ready(q, {}, left)
<1>1. Explained(q, {})
  BY DEF Explained
<1> QED
  BY <1>1 DEF Ready, Steady

LEMMA ReadyAll ==
    ASSUME NEW q, Steady(q), NEW left
    PROVE  Ready(q, Path, left)
<1>1. Explained(q, Path)
  BY DEF Explained
<1> QED
  BY <1>1 DEF Ready, Steady

LEMMA ReadyLeft ==
    ASSUME NEW q, Steady(q)
    PROVE  Ready(q, {}, TRUE)
BY DEF Ready, Steady

LEMMA RepoFits ==
    ASSUME WorkInv
    PROVE  /\ Fit(repo, dropped) /\ Headed(repo) /\ repo \in Repo /\ disk \in Tree
           /\ repo.index \in Tree /\ In(repo.index, repo.blobs \cup dropped)
           /\ repo.blobs \subseteq Data /\ repo.have \subseteq Oid
           /\ HeadTree(repo) \in Tree /\ In(HeadTree(repo), repo.blobs \cup dropped)
           /\ repo.head \in Branch
<1>1. Fit(repo, dropped) /\ Headed(repo) /\ disk \in Tree
  BY DEF WorkInv
<1>2. repo \in Repo /\ In(repo.index, repo.blobs \cup dropped)
  BY <1>1 DEF Fit, Sound
<1> QED
  BY <1>1, <1>2, FieldsOf, TreeIs DEF HeadTree

(* The entry of one path. *)
LEMMA EntryReady ==
    ASSUME WorkInv, NEW p \in Path, NEW x, x = NoFile \/ x \in Data \cap (repo.blobs \cup dropped),
           NEW q, q = [repo EXCEPT !.index[p] = x]
    PROVE  Ready(q, {p}, FALSE)
<1> DEFINE t == [repo.index EXCEPT ![p] = x]
<1>1. t \in Tree /\ In(t, repo.blobs \cup dropped)
  BY RepoFits DEF Tree, In
<1>2. \A y \in Path \ {p} : t[y] = repo.index[y]
  BY RepoFits DEF Tree
<1>3. q = WithTree(repo, t)
  BY DEF WithTree
<1> HIDE DEF t
<1>4. Indexed(dropped, repo, t, repo.blobs, q)
  <2>1. CanIndex(dropped, repo, t, repo.blobs)
    BY <1>1, RepoFits DEF CanIndex
  <2> QED
    BY <1>3, <2>1, ContentFits
<1>5. Steady(q) /\ q.index = t /\ HeadTree(q) = HeadTree(repo)
  BY <1>4, RepoFits DEF Steady, Indexed
<1> QED
  BY <1>2, <1>5, ReadyKept

LEMMA StageFileReady ==
    ASSUME WorkInv, NEW p \in Path, NEW x \in Data, NEW q, q = StageFile(repo, p, x)
    PROVE  Ready(q, {p}, FALSE)
<1> DEFINE t == [repo.index EXCEPT ![p] = x]
           B == repo.blobs \cup {x}
<1>1. t \in Tree /\ In(t, B \cup dropped) /\ B \in SUBSET Data /\ repo.blobs \subseteq B
  BY RepoFits DEF Tree, In
<1>2. \A y \in Path \ {p} : t[y] = repo.index[y]
  BY RepoFits DEF Tree
<1>3. q = WithIndex(repo, t, B)
  BY DEF StageFile, WithIndex
<1> HIDE DEF t, B
<1>4. Indexed(dropped, repo, t, B, q)
  <2>1. CanIndex(dropped, repo, t, B)
    BY <1>1, RepoFits DEF CanIndex
  <2> QED
    BY <1>3, <2>1, ContentFits
<1>5. Steady(q) /\ q.index = t /\ HeadTree(q) = HeadTree(repo)
  BY <1>1, <1>4, RepoFits DEF Steady, Indexed
<1> QED
  BY <1>2, <1>5, ReadyKept

LEMMA StageSetReady ==
    ASSUME WorkInv, NEW P \in SUBSET Path, \A p \in P : disk[p] # NoFile,
           NEW q, q = StageSet(repo, disk, P)
    PROVE  Ready(q, P, FALSE)
<1> DEFINE t == [p \in Path |-> IF p \in P THEN disk[p] ELSE repo.index[p]]
           B == repo.blobs \cup {disk[p] : p \in P}
<1>1. \A p \in P : disk[p] \in Data
  BY RepoFits DEF Tree
<1>2. t \in Tree /\ In(t, B \cup dropped) /\ B \in SUBSET Data /\ repo.blobs \subseteq B
  BY <1>1, RepoFits DEF Tree, In
<1>3. \A y \in Path \ P : t[y] = repo.index[y]
  OBVIOUS
<1>4. q = WithIndex(repo, t, B)
  BY DEF StageSet, WithIndex
<1> HIDE DEF t, B
<1>5. Indexed(dropped, repo, t, B, q)
  <2>1. CanIndex(dropped, repo, t, B)
    BY <1>2, RepoFits DEF CanIndex
  <2> QED
    BY <1>4, <2>1, ContentFits
<1>6. Steady(q) /\ q.index = t /\ HeadTree(q) = HeadTree(repo)
  BY <1>2, <1>5, RepoFits DEF Steady, Indexed
<1> QED
  BY <1>3, <1>6, ReadyKept

(* q is the file with other entries for the paths of P. *)
Restaged(P, q) ==
    /\ Steady(q) /\ HeadTree(q) = HeadTree(repo) /\ HeadOid(q) = HeadOid(repo)
    /\ \A p \in Path \ P : q.index[p] = repo.index[p]
    /\ q.commits = repo.commits /\ q.refs = repo.refs /\ q.reflog = repo.reflog

(* New files staged and gone ones unstaged. *)
LEMMA StagedSet ==
    ASSUME WorkInv, NEW P \in SUBSET Path, NEW N \in SUBSET Path,
           \A p \in P : disk[p] # NoFile,
           NEW q, q = [StageSet(repo, disk, P) EXCEPT
                          !.index = [p \in Path |-> IF p \in N THEN NoFile ELSE @[p]]]
    PROVE  Restaged(N \cup P, q)
<1> DEFINE s == [p \in Path |-> IF p \in P THEN disk[p] ELSE repo.index[p]]
           t == [p \in Path |-> IF p \in N THEN NoFile ELSE s[p]]
           B == repo.blobs \cup {disk[p] : p \in P}
<1>1. \A p \in P : disk[p] \in Data
  BY RepoFits DEF Tree
<1>2. t \in Tree /\ In(t, B \cup dropped) /\ B \in SUBSET Data /\ repo.blobs \subseteq B
  BY <1>1, RepoFits DEF Tree, In
<1>3. \A y \in Path \ (N \cup P) : t[y] = repo.index[y]
  OBVIOUS
<1>4. q = WithIndex(repo, t, B)
  <2>1. StageSet(repo, disk, P) = [repo EXCEPT !.index = s, !.blobs = B] /\ repo \in Repo
    BY RepoFits DEF StageSet
  <2>2. StageSet(repo, disk, P).index = s
    BY <2>1, RepoIs
  <2> HIDE DEF s, B
  <2> QED
    BY <2>1, <2>2, RepoIs DEF WithIndex
<1> HIDE DEF s, t, B
<1>5. Indexed(dropped, repo, t, B, q)
  <2>1. CanIndex(dropped, repo, t, B)
    BY <1>2, RepoFits DEF CanIndex
  <2> QED
    BY <1>4, <2>1, ContentFits
<1>6. Steady(q)
  BY <1>2, <1>5, RepoFits DEF Steady, Indexed
<1> QED
  BY <1>3, <1>5, <1>6 DEF Indexed, Restaged

LEMMA CommittedIs ==
    ASSUME WorkInv, NEW all \in BOOLEAN, NEW r, r = Committed(all)
    PROVE  /\ Steady(r) /\ r.commits = repo.commits /\ HeadOid(r) = HeadOid(repo)
           /\ r.refs = repo.refs /\ r.reflog = repo.reflog
<1>1. CASE all
  <2> DEFINE N == {p \in Path : Unstaged(repo, disk, p) = "deleted"}
             P == {p \in Path : Unstaged(repo, disk, p) = "modified"}
  <2>1. r = [StageSet(repo, disk, P) EXCEPT
                !.index = [p \in Path |-> IF p \in N THEN NoFile ELSE @[p]]]
    BY <1>1 DEF Committed, AllModified
  <2>2. \A p \in P : disk[p] # NoFile
    BY DEF Unstaged, Scan, Files
  <2>3. P \in SUBSET Path /\ N \in SUBSET Path
    OBVIOUS
  <2> HIDE DEF N, P
  <2>4. Restaged(N \cup P, r)
    BY <2>1, <2>2, <2>3, StagedSet
  <2> QED
    BY <2>4 DEF Restaged
<1>2. CASE ~all
  BY <1>2, RepoReady DEF Committed, Ready, Steady
<1> QED
  BY <1>1, <1>2

LEMMA CommitReady ==
    ASSUME WorkInv, NEW r, Steady(r), r.refs = repo.refs, r.reflog = repo.reflog,
           r.commits = repo.commits, CanCommit, NEW q,
           q = CreateCommit(r) \/ (q = Amended(r) /\ HeadOid(r) # None)
    PROVE  Ready(q, {}, FALSE)
<1>1. Fit(r, dropped) /\ Len(r.commits) < MaxCommits
  BY DEF Steady, CanCommit
<1>2. Settled(r, dropped, q)
  BY <1>1, CreateCommitFits, AmendedFits
<1>3. LogOk(repo, q)
  BY <1>2, LogSame DEF Settled
<1>4. Steady(q) /\ q.index = HeadTree(q)
  BY <1>2, <1>3 DEF Steady, Settled
<1> QED
  BY <1>4, ReadyLoaded


LEMMA FileStepOk ==
    ASSUME WorkInv, FileStep
    PROVE  WorkInv'
<1>1. disk \in Tree /\ repo \in Repo /\ NoFile \in Data \cup {NoFile}
  BY RepoFits
<1>2. /\ UNCHANGED <<repo, faults, touched, moved, dropped, past, trimmed>>
      /\ disk' \in Tree
  <2>1. ASSUME NEW d \in Tree, Edited(d)
        PROVE  /\ UNCHANGED <<repo, faults, touched, moved, dropped, past, trimmed>>
               /\ disk' \in Tree
    BY <2>1 DEF Edited
  <2>2. ASSUME NEW p \in Path, DeleteBlob(p)
        PROVE  Edited([disk EXCEPT ![p] = NoFile]) /\ [disk EXCEPT ![p] = NoFile] \in Tree
    BY <1>1, <2>2 DEF DeleteBlob, Tree
  <2>3. ASSUME NEW p \in Path, NEW x \in Text, PutBlob(p, x)
        PROVE  Edited([disk EXCEPT ![p] = x]) /\ [disk EXCEPT ![p] = x] \in Tree
    BY <1>1, <2>3 DEF PutBlob, Tree, Data
  <2>4. ASSUME NEW p \in Path, NEW q \in Path, MoveFile(p, q)
        PROVE  /\ Edited([disk EXCEPT ![p] = NoFile, ![q] = disk[p]])
               /\ [disk EXCEPT ![p] = NoFile, ![q] = disk[p]] \in Tree
    BY <1>1, <2>4 DEF MoveFile, Tree
  <2>5. ASSUME NEW x \in Text, Upload(Path, x)
        PROVE  /\ Edited([p \in Path |-> IF p \in Path THEN x ELSE disk[p]])
               /\ [p \in Path |-> IF p \in Path THEN x ELSE disk[p]] \in Tree
    BY <1>1, <2>5 DEF Upload, Tree, Data
  <2>6. ASSUME NEW P, ApiClean(P)
        PROVE  /\ UNCHANGED <<repo, faults, touched, moved, dropped, past, trimmed>>
               /\ disk' \in Tree
    BY <1>1, <2>6 DEF ApiClean, Deleted, Tree
  <2> QED
    BY <2>1, <2>2, <2>3, <2>4, <2>5, <2>6 DEF FileStep, Clean
<1>3. faults' \in 0 .. MaxFaults
  BY <1>2 DEF WorkInv
<1> QED
  BY <1>2, <1>3, DirectoryStep

LEMMA StageStepOk ==
    ASSUME WorkInv, StageStep
    PROVE  WorkInv'
<1>0. /\ disk \in Tree /\ HeadTree(repo) \in Tree
      /\ In(HeadTree(repo), repo.blobs \cup dropped) /\ repo.blobs \subseteq Data
  BY RepoFits
<1>1. CASE AddAll
  <2> DEFINE N == {p \in Path : Unstaged(repo, disk, p) = "deleted"}
             P == {p \in Path : Unstaged(repo, disk, p) = "modified"} \cup Untracked(repo, disk)
             q == [StageSet(repo, disk, P) EXCEPT
                     !.index = [p \in Path |-> IF p \in N THEN NoFile ELSE @[p]]]
  <2>1. Finish(q, disk, N \cup P, FALSE)
    BY <1>1 DEF AddAll
  <2>2. \A p \in P : disk[p] # NoFile
    BY DEF Unstaged, Scan, Files, Untracked
  <2>3. P \in SUBSET Path /\ N \in SUBSET Path
    BY DEF Untracked, Scan, Files
  <2>4. PICK x : x = q
    OBVIOUS
  <2>5. Restaged(N \cup P, x)
    <3> HIDE DEF N, P
    <3> QED BY <2>2, <2>3, <2>4, StagedSet
  <2> HIDE DEF q, N, P
  <2>6. Ready(x, N \cup P, FALSE)
    <3>1. /\ Steady(x) /\ HeadTree(x) = HeadTree(repo)
          /\ \A p \in Path \ (N \cup P) : x.index[p] = repo.index[p]
      BY <2>5 DEF Restaged
    <3>2. N \cup P \in SUBSET Path
      BY <2>3
    <3> QED
      BY <3>1, <3>2, ReadyKept
  <2> QED
    BY <1>0, <2>1, <2>4, <2>6, FinishStep
<1>2. ASSUME NEW f \in BOOLEAN, AddDir(f) PROVE WorkInv'
  <2> DEFINE P == Scan(disk, IF f THEN {} ELSE Ignored)
  <2>1. Finish(StageSet(repo, disk, P), disk, P, FALSE)
    BY <1>2 DEF AddDir
  <2>2. P \in SUBSET Path /\ \A p \in P : disk[p] # NoFile
    BY DEF Scan, Files
  <2> HIDE DEF P
  <2>3. Ready(StageSet(repo, disk, P), P, FALSE)
    BY <2>2, StageSetReady
  <2> QED
    BY <1>0, <2>1, <2>3, FinishStep
<1>3. ASSUME NEW p \in Path, NEW x \in Data, NEW d \in Tree,
             Finish(StageFile(repo, p, x), d, {p}, FALSE)
      PROVE  WorkInv'
  BY <1>3, StageFileReady, FinishStep
<1>4. ASSUME NEW p \in Path, NEW q, NEW x, x = NoFile \/ x \in Data \cap (repo.blobs \cup dropped),
             q = [repo EXCEPT !.index[p] = x], Finish(q, disk, {p}, FALSE)
      PROVE  WorkInv'
  BY <1>0, <1>4, EntryReady, FinishStep
<1>5. ASSUME NEW p \in Path PROVE disk[p] = NoFile \/ disk[p] \in Data
  BY <1>0 DEF Tree
<1>6. ASSUME NEW p \in Path
      PROVE  HeadTree(repo)[p] = NoFile \/ HeadTree(repo)[p] \in Data \cap (repo.blobs \cup dropped)
  BY <1>0 DEF Tree, In
<1>7. ASSUME NEW p \in Path, NEW f \in BOOLEAN, Add(p, f) PROVE WorkInv'
  BY <1>0, <1>3, <1>5, <1>7 DEF Add
<1>8. ASSUME NEW p \in Path, Finish(UnstageFile(repo, p), disk, {p}, FALSE) PROVE WorkInv'
  BY <1>4, <1>8 DEF UnstageFile
<1>9. ASSUME NEW p \in Path, ApiStage(p) PROVE WorkInv'
  <2>1. CASE disk[p] = NoFile
    BY <1>8, <1>9, <2>1 DEF ApiStage
  <2>2. CASE disk[p] # NoFile
    BY <1>0, <1>3, <1>5, <1>9, <2>2 DEF ApiStage
  <2> QED
    BY <2>1, <2>2
<1>10. ASSUME NEW p \in Path, ApiUnstage(p) PROVE WorkInv'
  BY <1>8, <1>10 DEF ApiUnstage
<1>11. ASSUME NEW p \in Path, ApiRestore(p) \/ UnstagePath(p) PROVE WorkInv'
  <2>1. Finish([repo EXCEPT !.index[p] = HeadTree(repo)[p]], disk, {p}, FALSE)
    BY <1>11 DEF ApiRestore, UnstagePath
  <2> QED
    BY <1>4, <1>6, <2>1
<1>12. ASSUME NEW p \in Path, RestorePath(p) PROVE WorkInv'
  <2>1. /\ HeadTree(repo)[p] \in Data
        /\ Finish(StageFile(repo, p, HeadTree(repo)[p]),
                  [disk EXCEPT ![p] = HeadTree(repo)[p]], {p}, FALSE)
    BY <1>0, <1>12 DEF RestorePath
  <2>2. [disk EXCEPT ![p] = HeadTree(repo)[p]] \in Tree
    BY <1>0, <2>1 DEF Tree
  <2> QED
    BY <1>3, <2>1, <2>2
<1> QED
  BY <1>1, <1>2, <1>7, <1>9, <1>10, <1>11, <1>12 DEF StageStep

LEMMA CommitStepOk ==
    ASSUME WorkInv, CommitStep
    PROVE  WorkInv'
<1>0. disk \in Tree
  BY RepoFits
<1>1. ASSUME NEW r, Steady(r), r.refs = repo.refs, r.reflog = repo.reflog,
             r.commits = repo.commits, CanCommit, NEW q,
             q = CreateCommit(r) \/ (q = Amended(r) /\ HeadOid(r) # None),
             Finish(q, disk, {}, FALSE)
      PROVE  WorkInv'
  <2>1. Ready(q, {}, FALSE)
    BY <1>1, CommitReady
  <2> QED
    BY <1>0, <1>1, <2>1, FinishStep
<1>2. Steady(repo)
  BY RepoReady DEF Ready, Steady
<1>3. ASSUME NEW all \in BOOLEAN
      PROVE  /\ Steady(Committed(all)) /\ Committed(all).commits = repo.commits
             /\ Committed(all).refs = repo.refs /\ Committed(all).reflog = repo.reflog
  BY CommittedIs
<1>4. ASSUME NEW all \in BOOLEAN, Commit(all) \/ Amend(all) PROVE WorkInv'
  <2>1. CASE Commit(all)
    BY <1>1, <1>3, <2>1 DEF Commit
  <2>2. CASE Amend(all)
    <3>1. HeadOid(Committed(all)) # None
      <4>1. HeadOid(Committed(all)) = HeadOid(repo)
        BY CommittedIs
      <4> QED BY <2>2, <4>1 DEF Amend
    <3> QED
      BY <1>1, <1>3, <2>2, <3>1 DEF Amend
  <2> QED
    BY <1>4, <2>1, <2>2
<1>5. CASE ApiCommit
  BY <1>1, <1>2, <1>5 DEF ApiCommit
<1>6. CASE ApiAmend
  BY <1>1, <1>2, <1>6 DEF ApiAmend
<1> QED
  BY <1>4, <1>5, <1>6 DEF CommitStep

(* A step that hands a handle to Finish, with the files of HEAD written. *)
Follows ==
    \E q, d, left : /\ d \in Tree /\ Ready(q, {}, left) /\ Finish(q, d, {}, left)
                    /\ ~Diverged(q, d)

LEMMA FollowsStep ==
    ASSUME WorkInv, Follows
    PROVE  WorkInv' /\ ~(repo' # repo /\ Diverged(repo', disk'))
<1>1. PICK q, d, left : /\ d \in Tree /\ Ready(q, {}, left) /\ Finish(q, d, {}, left)
                        /\ ~Diverged(q, d)
  BY Zenon DEF Follows
<1>2. WorkInv'
  BY <1>1, FinishStep
<1>3. repo' = repo \/ (repo' = q /\ disk' = d)
  BY <1>1 DEF Finish, Saved, DiesBeforeSave
<1> QED
  BY <1>1, <1>2, <1>3

(* Every file whose content the store has is written. *)
LEMMA WrittenFollows ==
    ASSUME NEW q, NEW r, r.blobs = q.blobs, q.index = HeadTree(q), NEW d, NEW t,
           t = HeadTree(q)
    PROVE  /\ ~Diverged(q, WriteOut(r, d, t))
           /\ \A ignore : ~Diverged(q, Replaced(r, d, t, ignore))
<1>1. ASSUME NEW x PROVE ~Diverged(q, WriteOut(r, x, t))
  BY DEF Diverged, WriteOut
<1> QED
  BY <1>1 DEF Replaced

OutIs(lost, r, b, s) ==
    IsLoaded(lost, r, b, s.r) /\ s.d \in Tree /\ ~Diverged(s.r, s.d)

LEMMA CheckedOutIs ==
    ASSUME NEW lost, NEW r, Fit(r, lost), NEW d \in Tree, NEW b \in Branch,
           r.refs[b] \in r.have
    PROVE  OutIs(lost, r, b, CheckedOut(r, d, b))
<1> DEFINE t == TreeOf(r, r.refs[b])
           n == Loaded(r, b)
           x == Deleted(d, Files(r.index) \ Files(t))
<1>1. CheckedOut(r, d, b) = [r |-> n, d |-> WriteOut(n, x, t)]
  BY DEF CheckedOut, Loaded
<1>2. IsLoaded(lost, r, b, n)
  BY LoadedFits
<1> HIDE DEF n
<1>3. Fit(n, lost) /\ n.index = HeadTree(n) /\ HeadTree(n) = t
  BY <1>2 DEF IsLoaded
<1>4. WriteOut(n, x, t) \in Tree
  BY <1>3, WrittenIs
<1>5. ~Diverged(n, WriteOut(n, x, t))
  BY <1>3, WrittenFollows
<1> QED
  BY <1>1, <1>2, <1>4, <1>5 DEF OutIs

LEMMA LoadedReady ==
    ASSUME NEW x, NEW b, NEW q, IsLoaded(dropped, x, b, q), LogOk(repo, x),
           repo.blobs \subseteq x.blobs, repo.have \subseteq x.have, NEW left
    PROVE  Ready(q, {}, left)
<1>1. LogOk(repo, q)
  BY DEF IsLoaded, LogOk, TipsLogged, News
<1>2. Steady(q) /\ q.index = HeadTree(q)
  BY <1>1 DEF IsLoaded, Steady
<1> QED
  BY <1>2, ReadyLoaded

LEMMA CheckoutFollows ==
    ASSUME WorkInv, NEW b \in Branch, NEW f \in BOOLEAN, Checkout(b, f)
    PROVE  Follows
<1>1. PICK s : s = CheckedOut(repo, disk, b)
  OBVIOUS
<1>2. Present(b) /\ Finish(s.r, s.d, {}, FALSE)
  BY <1>1 DEF Checkout
<1>3. OutIs(dropped, repo, b, s)
  BY <1>1, <1>2, RepoFits, CheckedOutIs DEF Present
<1>4. LogOk(repo, repo)
  BY DEF LogOk
<1>5. Ready(s.r, {}, FALSE)
  BY <1>3, <1>4, LoadedReady DEF OutIs
<1> QED
  BY <1>2, <1>3, <1>5 DEF Follows, OutIs

LEMMA CheckoutNewFollows ==
    ASSUME WorkInv, NEW n \in Branch, NEW start \in Branch, CheckoutNew(n, start)
    PROVE  Follows
<1>1. PICK s : s = CheckedOut(repo, disk, start)
  OBVIOUS
<1>2. PICK x : x = s.r
  OBVIOUS
<1>3. PICK r : r = SetBranch(x, n, HeadOid(x))
  OBVIOUS
<1>4. PICK z : z = CheckedOut(r, s.d, n)
  OBVIOUS
<1>5. Present(start) /\ Finish(z.r, z.d, {}, FALSE)
  BY <1>1, <1>2, <1>3, <1>4 DEF CheckoutNew
<1>6. OutIs(dropped, repo, start, s)
  BY <1>1, <1>5, RepoFits, CheckedOutIs DEF Present
<1>7. /\ Fit(x, dropped) /\ HeadOid(x) = repo.refs[start] /\ x.have = repo.have
      /\ x.blobs = repo.blobs /\ x.refs = repo.refs /\ x.reflog = repo.reflog
      /\ s.d \in Tree
  BY <1>2, <1>6 DEF OutIs, IsLoaded
<1>8. Moved(dropped, x, n, HeadOid(x), r)
  BY <1>3, <1>5, <1>7, SetBranchFits DEF Present
<1>9. Fit(r, dropped) /\ r.have = x.have /\ r.blobs = x.blobs
  BY <1>8 DEF Moved
<1>10. r.refs[n] \in r.have
  <2>1. x.refs \in [Branch -> 0 .. MaxCommits]
    BY <1>7, FieldsOf DEF Fit
  <2>2. r.refs[n] = HeadOid(x)
    BY <1>8, <2>1 DEF Moved
  <2> QED
    BY <1>5, <1>7, <1>9, <2>2 DEF Present
<1>11. OutIs(dropped, r, n, z)
  BY <1>4, <1>7, <1>9, <1>10, CheckedOutIs
<1>12. LogOk(repo, r)
  BY <1>7, <1>8, LogSame DEF Moved
<1>13. Ready(z.r, {}, FALSE)
  BY <1>7, <1>9, <1>11, <1>12, LoadedReady DEF OutIs
<1> QED
  BY <1>5, <1>11, <1>13 DEF Follows, OutIs

LEMMA ApiCheckoutFollows ==
    ASSUME WorkInv, NEW b \in Branch, ApiCheckout(b)
    PROVE  Follows
<1> DEFINE t == TreeOf(repo, repo.refs[b])
           q == Loaded(repo, b)
           d == Replaced(repo, disk, t, {})
<1>1. Present(b) /\ Finish(q, d, {}, FALSE)
  BY DEF ApiCheckout, Loaded
<1>2. IsLoaded(dropped, repo, b, q)
  BY <1>1, RepoFits, LoadedFits DEF Present
<1> HIDE DEF q
<1>3. LogOk(repo, repo)
  BY DEF LogOk
<1>4. Ready(q, {}, FALSE)
  BY <1>2, <1>3, LoadedReady
<1>5. q.index = HeadTree(q) /\ HeadTree(q) = t /\ repo.blobs = q.blobs
  BY <1>2 DEF IsLoaded
<1> HIDE DEF t
<1>6. d \in Tree
  BY RepoFits, WrittenIs
<1>7. ~Diverged(q, d)
  BY <1>5, WrittenFollows
<1> QED
  BY <1>1, <1>4, <1>6, <1>7, Zenon DEF Follows

(* The current branch on another commit, and its tree in the index. *)
LEMMA ResetOk ==
    ASSUME WorkInv, NEW c \in repo.have, NEW mode, NEW ignore, ResetTo(c, mode, ignore)
    PROVE  WorkInv' /\ (mode = "hard" => Follows)
<1>0. WorkInv /\ Fit(repo, dropped) /\ disk \in Tree /\ repo.head \in Branch
  BY RepoFits
<1>1. PICK r : r = SetBranch(repo, repo.head, c)
  OBVIOUS
<1>2. Moved(dropped, repo, repo.head, c, r)
  BY <1>0, <1>1, SetBranchFits
<1>3. repo.refs \in [Branch -> 0 .. MaxCommits]
  BY <1>0, FieldsOf DEF Fit
<1>4. HeadOid(r) = c
  BY <1>0, <1>2, <1>3 DEF Moved, HeadOid
<1>5. Headed(r)
  BY <1>0, <1>4, TipsAre DEF Headed
<1>6. Steady(r)
  BY <1>2, <1>5 DEF Moved, Steady
<1> DEFINE t == TreeOf(repo, c)
           q == WithTree(r, t)
           d == Replaced(repo, disk, t, ignore)
<1>7. Finish(IF mode = "soft" THEN r ELSE q, IF mode = "hard" THEN d ELSE disk,
             IF mode = "soft" THEN Path ELSE {}, FALSE)
  BY <1>1 DEF ResetTo, WithTree
<1>8. HeadTree(r) = t
  <2>1. \A a : TreeOf(r, a) = TreeOf(repo, a)
    BY <1>2 DEF Moved, TreeOf
  <2> QED
    BY <1>4, <2>1 DEF HeadTree
<1>9. t \in Tree /\ In(t, repo.blobs \cup dropped)
  BY <1>0, TreeIs
<1>10. d \in Tree
  BY <1>0, WrittenIs
<1> HIDE DEF t
<1>11. Indexed(dropped, r, t, r.blobs, q)
  <2>1. r.blobs = repo.blobs /\ r.blobs \subseteq Data /\ Fit(r, dropped)
    BY <1>2, RepoFits DEF Moved
  <2>2. CanIndex(dropped, r, t, r.blobs)
    BY <1>9, <2>1 DEF CanIndex
  <2> QED
    BY <2>2, ContentFits
<1> HIDE DEF q, d
<1>12. /\ Fit(q, dropped) /\ Headed(q) /\ q.index = HeadTree(q) /\ HeadTree(q) = t
       /\ q.have = r.have /\ q.blobs = r.blobs /\ q.reflog = r.reflog /\ q.refs = r.refs
  BY <1>5, <1>8, <1>11 DEF Indexed
<1>13. LogOk(repo, q)
  <2>1. LogOk(repo, r)
    BY <1>6 DEF Steady
  <2> QED
    BY <1>12, <2>1, LogSame
<1>14. Steady(q)
  BY <1>6, <1>12, <1>13 DEF Steady
<1>15. Ready(q, {}, FALSE)
  BY <1>12, <1>14, ReadyLoaded
<1>16. CASE mode = "soft"
  <2>1. Ready(r, Path, FALSE)
    BY <1>6, ReadyAll
  <2>2. Finish(r, disk, Path, FALSE)
    BY <1>7, <1>16
  <2>3. WorkInv'
    BY <1>0, <2>1, <2>2, FinishStep
  <2> QED
    BY <1>16, <2>3
<1>17. CASE mode = "hard"
  <2>1. ~Diverged(q, d)
    <3>1. repo.blobs = q.blobs
      BY <1>2, <1>12 DEF Moved
    <3> QED
      BY <1>12, <3>1, WrittenFollows DEF d
  <2>2. Finish(q, d, {}, FALSE)
    BY <1>7, <1>17
  <2>3. Follows
    BY <1>10, <1>15, <2>1, <2>2, Zenon DEF Follows
  <2> QED
    BY <2>3, FollowsStep
<1>18. CASE mode # "soft" /\ mode # "hard"
  <2>1. Finish(q, disk, {}, FALSE)
    BY <1>7, <1>18
  <2>2. WorkInv'
    BY <1>0, <1>15, <2>1, FinishStep
  <2> QED
    BY <1>18, <2>2
<1> QED
  BY <1>16, <1>17, <1>18

LEMMA AlikeReady ==
    ASSUME WorkInv, NEW q, Alike(dropped, repo, q)
    PROVE  Ready(q, {}, FALSE)
<1>1. Steady(q)
  BY RepoFits DEF Alike, Steady
<1>2. HeadTree(q) = HeadTree(repo) /\ \A p \in Path \ {} : q.index[p] = repo.index[p]
  BY DEF Alike
<1> QED
  BY <1>1, <1>2, ReadyKept

LEMMA AlikeStep ==
    ASSUME WorkInv, NEW q, Alike(dropped, repo, q), Finish(q, disk, {}, FALSE)
    PROVE  WorkInv'
BY AlikeReady, RepoFits, FinishStep

LEMMA CreateBranchOk ==
    ASSUME WorkInv, NEW n \in Branch, NEW c \in repo.have, CreateBranch(n, c)
    PROVE  WorkInv'
<1>0. Fit(repo, dropped) /\ Headed(repo) /\ disk \in Tree /\ repo.head \in Branch
  BY RepoFits
<1>1. PICK q : q = SetBranch(repo, n, c)
  OBVIOUS
<1>2. Finish(q, disk, {}, n = repo.head)
  BY <1>1 DEF CreateBranch
<1>3. Moved(dropped, repo, n, c, q)
  BY <1>0, <1>1, SetBranchFits
<1>4. repo.refs \in [Branch -> 0 .. MaxCommits]
  BY <1>0, FieldsOf DEF Fit
<1>5. CASE n = repo.head
  <2>1. HeadOid(q) = c
    BY <1>3, <1>4, <1>5 DEF Moved, HeadOid
  <2>2. Headed(q)
    BY <1>0, <2>1, TipsAre DEF Headed
  <2>3. Steady(q)
    BY <1>3, <2>2 DEF Moved, Steady
  <2>4. Ready(q, {}, TRUE)
    BY <2>3, ReadyLeft
  <2>5. Finish(q, disk, {}, TRUE)
    <3>1. (n = repo.head) = TRUE
      BY <1>5
    <3> QED
      BY <1>2, <3>1
  <2> QED
    BY <1>0, <2>4, <2>5, FinishStep
<1>6. CASE n # repo.head
  <2>1. HeadOid(q) = HeadOid(repo)
    BY <1>0, <1>3, <1>4, <1>6 DEF Moved, HeadOid
  <2>2. Headed(q)
    BY <1>0, <1>3, <2>1 DEF Headed, Moved
  <2>3. \A a : TreeOf(q, a) = TreeOf(repo, a)
    BY <1>3 DEF Moved, TreeOf
  <2>4. Alike(dropped, repo, q)
    BY <1>3, <2>1, <2>2, <2>3 DEF Moved, Alike, HeadTree
  <2>5. Finish(q, disk, {}, FALSE)
    <3>1. (n = repo.head) = FALSE
      BY <1>6
    <3> QED
      BY <1>2, <3>1
  <2> QED
    BY <2>4, <2>5, AlikeStep
<1> QED
  BY <1>5, <1>6

LEMMA BranchStepOk ==
    ASSUME WorkInv, BranchStep
    PROVE  WorkInv'
<1>0. Fit(repo, dropped) /\ Headed(repo) /\ disk \in Tree
  BY RepoFits
<1>1. ASSUME NEW n \in Branch, NEW c \in repo.have, CreateBranch(n, c) \/ ApiCreateBranch(n, c)
      PROVE  WorkInv'
  BY <1>1, CreateBranchOk DEF ApiCreateBranch
<1>2. ASSUME NEW b \in Branch, NEW n \in Branch, RenameBranch(b, n) PROVE WorkInv'
  <2>1. /\ repo.refs[b] # None /\ repo.refs[n] = None
        /\ Finish(Renamed(repo, b, n), disk, {}, FALSE)
    BY <1>2 DEF RenameBranch
  <2>2. Alike(dropped, repo, Renamed(repo, b, n))
    BY <1>0, <2>1, RenamedFits
  <2> QED
    BY <2>1, <2>2, AlikeStep
<1>3. ASSUME NEW b \in Branch, NEW f \in BOOLEAN, DeleteBranch(b, f) PROVE WorkInv'
  <2>1. b # repo.head /\ Finish(WithoutBranch(repo, b), disk, {}, FALSE)
    BY <1>3 DEF DeleteBranch, WithoutBranch
  <2>2. Alike(dropped, repo, WithoutBranch(repo, b))
    BY <1>0, <2>1, RemovedFits
  <2> QED
    BY <2>1, <2>2, AlikeStep
<1>4. ASSUME NEW b \in Branch, ApiDeleteBranch(b) PROVE WorkInv'
  BY <1>3, <1>4 DEF ApiDeleteBranch
<1>5. ASSUME NEW b \in Branch, NEW n \in Branch, CheckoutNew(n, b) PROVE WorkInv'
  BY <1>5, CheckoutNewFollows, FollowsStep
<1>6. ASSUME NEW b \in Branch, NEW f \in BOOLEAN, Checkout(b, f) PROVE WorkInv'
  BY <1>6, CheckoutFollows, FollowsStep
<1>7. ASSUME NEW b \in Branch, ApiCheckout(b) PROVE WorkInv'
  BY <1>7, ApiCheckoutFollows, FollowsStep
<1>8. ASSUME NEW c \in repo.have, NEW m, Reset(c, m) \/ ApiReset(c, m) PROVE WorkInv'
  BY <1>8, ResetOk DEF Reset, ApiReset
<1> QED
  BY <1>1, <1>2, <1>3, <1>4, <1>5, <1>6, <1>7, <1>8 DEF BranchStep

-----------------------------------------------------------------------------
(* Merge, rebase, cherry-pick and revert *)

(* What `ovc merge` hands to Finish. *)
LEMMA MergeBranchFollows ==
    ASSUME WorkInv, NEW b \in Branch, MergeBranch(b)
    PROVE  /\ Follows
           /\ repo' # repo =>
                {HeadOid(repo), repo.refs[b]} \subseteq Ancestors(Graph(repo'), HeadOid(repo'))
<1> DEFINE base == CliMergeBase(Graph(repo), HeadOid(repo), repo.refs[b])
           m == MergeOf(b, base)
           t == MergedTree(m)
           full == [p \in Path |-> IF t[p] = NoFile \/ t[p] \in repo.blobs THEN t[p] ELSE Empty]
           r == CommitOn(repo, t, MergeParents(b))
           B == r.blobs \cup Contents(full)
           q == WithIndex(r, full, B)
           d == [p \in Path |-> IF full[p] # NoFile THEN full[p] ELSE disk[p]]
           ps == MergeParents(b)
<1>1. /\ HeadOid(repo) # None /\ Present(b) /\ CanCommit
      /\ Finish(q, d, {}, full # t)
  BY DEF MergeBranch, WithIndex
<1>2. /\ Fit(repo, dropped) /\ disk \in Tree /\ repo.blobs \subseteq Data
      /\ repo.have \subseteq Oid
  BY RepoFits
<1>3. HeadOid(repo) \in repo.have /\ repo.refs[b] \in repo.have
  BY <1>1, <1>2, TipsAre DEF Present
<1>4. t \in Tree /\ In(t, repo.blobs \cup dropped)
  <2> DEFINE o == HeadTree(repo)
             u == TreeOf(repo, repo.refs[b])
  <2>1. m = MergeTrees(repo, TreeOf(repo, base), o, u)
    BY DEF MergeOf
  <2>2. o \in Tree /\ In(o, repo.blobs \cup dropped) /\ u \in Tree
        /\ In(u, repo.blobs \cup dropped)
    BY <1>2, TreeIs DEF HeadTree
  <2> HIDE DEF o, u, m
  <2> QED
    BY <2>1, <2>2, MergedIs DEF t
<1> HIDE DEF t, m, base
<1>5. /\ ps = <<HeadOid(repo), repo.refs[b]>> /\ ps \in Seq(Oid)
      /\ \A k \in DOMAIN ps : ps[k] \in repo.have
  BY <1>2, <1>3 DEF MergeParents
<1> HIDE DEF ps
<1>6. OnTop(repo, dropped, t, ps, r)
  <2>1. Addable(repo, dropped, t, ps)
    BY <1>1, <1>2, <1>4, <1>5 DEF Addable, CanCommit
  <2> QED
    BY <2>1, CommitOnFits DEF ps
<1> HIDE DEF r
<1>7. /\ Fit(r, dropped) /\ LogOk(repo, r) /\ Headed(r) /\ r.blobs = repo.blobs
      /\ HeadTree(r) = t /\ r.have = repo.have \cup {NewOid(repo)}
      /\ HeadOid(r) = NewOid(repo) /\ NewOid(repo) = Len(repo.commits) + 1
      /\ r.commits = Append(repo.commits, [tree |-> t, parents |-> ps])
  BY <1>6 DEF OnTop
<1>8. full \in Tree /\ full \in [Path -> Data \cup {NoFile}]
  BY <1>4 DEF Tree, Data
<1>9. \A p \in Path : full[p] = IF t[p] = NoFile \/ t[p] \in repo.blobs THEN t[p] ELSE Empty
  OBVIOUS
<1> HIDE DEF full
<1>10. /\ Contents(full) \subseteq Data /\ \A p \in Path : full[p] = NoFile \/ full[p] \in Contents(full)
       /\ \A x \in Contents(full) : x \in repo.blobs \cup {Empty}
  BY <1>4, <1>8, <1>9 DEF Contents, Files, Tree
<1>11. CanIndex(dropped, r, full, B)
  <2>1. B \subseteq Data /\ r.blobs \subseteq B
    BY <1>2, <1>7, <1>10
  <2>2. In(full, B \cup dropped)
    BY <1>10 DEF In
  <2> HIDE DEF B
  <2> QED
    BY <1>7, <1>8, <2>1, <2>2 DEF CanIndex
<1>12. Indexed(dropped, r, full, B, q)
  <2> HIDE DEF B
  <2> QED BY <1>11, ContentFits
<1> HIDE DEF q
<1>13. /\ Fit(q, dropped) /\ Headed(q) /\ q.index = full /\ HeadTree(q) = t
       /\ q.blobs = B /\ q.have = r.have /\ q.reflog = r.reflog /\ q.refs = r.refs
       /\ q.commits = r.commits /\ HeadOid(q) = HeadOid(r)
  BY <1>7, <1>12 DEF Indexed
<1>14. Steady(q)
  <2>1. LogOk(repo, q)
    BY <1>7, <1>13, LogSame
  <2>2. repo.blobs \subseteq q.blobs /\ repo.have \subseteq q.have
    BY <1>7, <1>13
  <2> QED
    BY <1>13, <2>1, <2>2 DEF Steady
<1>15. Ready(q, {}, full # t)
  <2>1. CASE full = t
    BY <1>13, <1>14, <2>1, ReadyLoaded
  <2>2. CASE full # t
    BY <1>14, <2>2 DEF Ready, Steady
  <2> QED
    BY <2>1, <2>2
<1>16. d \in Tree
  BY <1>2, <1>8 DEF Tree
<1>17. ~Diverged(q, d)
  <2> SUFFICES ASSUME NEW p \in Path, t[p] \in B PROVE full[p] = t[p] /\ d[p] = t[p]
    BY <1>13 DEF Diverged
  <2>1. t[p] \in repo.blobs \cup {Empty} /\ t[p] # NoFile
    BY <1>2, <1>7, <1>10, WorkTreeAssumption DEF Data
  <2>2. full[p] = t[p]
    BY <1>9, <2>1
  <2> QED
    BY <2>1, <2>2
<1> HIDE DEF d
<1>18. Follows
  BY <1>1, <1>15, <1>16, <1>17, Zenon DEF Follows
<1>19. ASSUME repo' # repo
       PROVE  {HeadOid(repo), repo.refs[b]} \subseteq Ancestors(Graph(repo'), HeadOid(repo'))
  <2>1. repo' = q
    BY <1>1, <1>19 DEF Finish, Saved, DiesBeforeSave
  <2>2. /\ Graph(q) \in Seq(Seq(Nat)) /\ History(Graph(q), Len(q.commits))
        /\ q.have \subseteq 1..Len(q.commits)
        /\ \A c \in q.have : Graph(q)[c] = q.commits[c].parents
    BY <1>13, GraphIs
  <2> DEFINE G == Graph(q)
             n == Len(q.commits)
             new == NewOid(repo)
  <2>3. new \in q.have /\ HeadOid(q) = new /\ repo.have \subseteq q.have
    BY <1>7, <1>13
  <2>4. q.commits[new].parents = ps
    <3>1. repo.commits \in Objects
      BY <1>2, FieldsOf DEF Fit
    <3>2. [tree |-> t, parents |-> ps] \in Object
      BY <1>4, <1>5 DEF Object
    <3> QED
      BY <1>7, <1>13, <3>1, <3>2 DEF Objects
  <2>5. G[new] = ps
    BY <2>2, <2>3, <2>4
  <2> HIDE DEF G, n, new
  <2>6. History(G, n) /\ new \in 1..n /\ HeadOid(repo) \in 1..n /\ repo.refs[b] \in 1..n
    BY <1>3, <2>2, <2>3 DEF G, n
  <2>7. Ancestors(G, new) = {new} \cup UNION {Ancestors(G, G[new][k]) : k \in DOMAIN G[new]}
    BY <2>6, AncestorsAre
  <2>8. /\ HeadOid(repo) \in Ancestors(G, HeadOid(repo))
        /\ repo.refs[b] \in Ancestors(G, repo.refs[b])
    BY <2>6, AncestorsClosed
  <2>9. 1 \in DOMAIN ps /\ 2 \in DOMAIN ps /\ ps[1] = HeadOid(repo) /\ ps[2] = repo.refs[b]
    BY <1>5
  <2>10. {HeadOid(repo), repo.refs[b]} \subseteq Ancestors(G, new)
    BY <2>5, <2>7, <2>8, <2>9
  <2> QED
    BY <2>1, <2>3, <2>10 DEF G
<1> QED
  BY <1>18, <1>19

(* A merged tree on top of HEAD, also in the index. *)
LEMMA PickedReady ==
    ASSUME WorkInv, CanCommit, HeadOid(repo) # None, NEW o \in Tree, NEW base,
           In(o, repo.blobs \cup dropped), NEW t,
           t = MergedTree(MergeTrees(repo, base, HeadTree(repo), o)),
           NEW q, q = WithTree(CommitOn(repo, t, <<HeadOid(repo)>>), t)
    PROVE  Ready(q, {}, FALSE) /\ Fit(q, dropped)
<1> DEFINE ps == <<HeadOid(repo)>>
           r == CommitOn(repo, t, ps)
<1>1. /\ Fit(repo, dropped) /\ HeadTree(repo) \in Tree /\ repo.have \subseteq Oid
      /\ In(HeadTree(repo), repo.blobs \cup dropped)
  BY RepoFits
<1>2. t \in Tree /\ In(t, repo.blobs \cup dropped)
  BY <1>1, MergedIs
<1>3. HeadOid(repo) \in repo.have
  BY <1>1, TipsAre
<1>4. ps \in Seq(Oid) /\ \A k \in DOMAIN ps : ps[k] \in repo.have
  BY <1>1, <1>3
<1> HIDE DEF ps
<1>5. OnTop(repo, dropped, t, ps, r)
  <2>1. Addable(repo, dropped, t, ps)
    BY <1>1, <1>2, <1>4 DEF Addable, CanCommit
  <2> QED
    BY <2>1, CommitOnFits
<1>6. q = WithTree(r, t)
  BY DEF ps
<1> HIDE DEF r
<1>7. /\ Fit(r, dropped) /\ LogOk(repo, r) /\ Headed(r) /\ r.blobs = repo.blobs
      /\ HeadTree(r) = t /\ repo.have \subseteq r.have
  BY <1>5 DEF OnTop
<1>8. Indexed(dropped, r, t, r.blobs, q)
  <2>1. r.blobs \subseteq Data
    BY <1>7, RepoFits
  <2>2. CanIndex(dropped, r, t, r.blobs)
    BY <1>2, <1>7, <2>1 DEF CanIndex
  <2> QED
    BY <1>6, <2>2, ContentFits
<1>9. LogOk(repo, q)
  BY <1>7, <1>8, LogSame DEF Indexed
<1>10. Steady(q) /\ q.index = HeadTree(q)
  BY <1>7, <1>8, <1>9 DEF Indexed, Steady
<1> QED
  BY <1>10, ReadyLoaded DEF Steady

LEMMA ParentTreeIs ==
    ASSUME NEW lost, NEW r, Fit(r, lost), NEW c
    PROVE  ParentTree(r, c) \in Tree /\ In(ParentTree(r, c), r.blobs \cup lost)
<1>1. EmptyTree \in Tree /\ In(EmptyTree, r.blobs \cup lost)
  BY DEF EmptyTree, Tree, In
<1> QED
  BY <1>1, TreeIs DEF ParentTree

(* The rebased branch, and a checkout of it. *)
LEMMA RebaseFollows ==
    ASSUME WorkInv, NEW onto \in Branch, Rebase(onto)
    PROVE  Follows
<1>1. PICK q : q = Rebased(repo, repo.head, onto)
  OBVIOUS
<1>2. PICK s : s = CheckedOut(q, disk, repo.head)
  OBVIOUS
<1>3. RebaseWorks(repo, repo.head, onto) /\ Finish(s.r, s.d, {}, FALSE)
  BY <1>1, <1>2 DEF Rebase
<1>4. Fit(repo, dropped) /\ repo.head \in Branch /\ disk \in Tree
  BY RepoFits
<1>5. Rewritten(repo, dropped, repo.head, q)
  BY <1>1, <1>3, <1>4, RebasedFits
<1>6. /\ Fit(q, dropped) /\ LogOk(repo, q) /\ repo.have \subseteq q.have
      /\ q.blobs = repo.blobs /\ q.refs[repo.head] \in q.have
  BY <1>5 DEF Rewritten
<1>7. OutIs(dropped, q, repo.head, s)
  BY <1>2, <1>4, <1>6, CheckedOutIs
<1>8. Ready(s.r, {}, FALSE)
  BY <1>6, <1>7, LoadedReady DEF OutIs
<1> QED
  BY <1>3, <1>7, <1>8 DEF Follows, OutIs

LEMMA ApiRebaseOk ==
    ASSUME WorkInv, NEW onto \in Branch, ApiRebase(onto)
    PROVE  WorkInv'
<1>1. PICK q : q = Rebased(repo, repo.head, onto)
  OBVIOUS
<1>2. RebaseWorks(repo, repo.head, onto) /\ Finish(q, disk, {}, TRUE)
  BY <1>1 DEF ApiRebase
<1>3. Fit(repo, dropped) /\ repo.head \in Branch /\ disk \in Tree
  BY RepoFits
<1>4. Rewritten(repo, dropped, repo.head, q)
  BY <1>1, <1>2, <1>3, RebasedFits
<1>5. Headed(q)
  BY <1>4, TipsAre DEF Rewritten, Headed, HeadOid
<1>6. Steady(q)
  BY <1>4, <1>5 DEF Rewritten, Steady
<1> QED
  BY <1>2, <1>3, <1>6, ReadyLeft, FinishStep

LEMMA MergeStepOk ==
    ASSUME WorkInv, MergeStep
    PROVE  WorkInv'
<1>0. Fit(repo, dropped) /\ disk \in Tree /\ HeadTree(repo) \in Tree
      /\ In(HeadTree(repo), repo.blobs \cup dropped) /\ repo.blobs \subseteq Data
  BY RepoFits
<1>1. ASSUME NEW b \in Branch, MergeBranch(b) PROVE WorkInv'
  BY <1>1, MergeBranchFollows, FollowsStep
<1>2. ASSUME NEW b \in Branch, Rebase(b) PROVE WorkInv'
  BY <1>2, RebaseFollows, FollowsStep
<1>3. ASSUME NEW b \in Branch, ApiRebase(b) PROVE WorkInv'
  BY <1>3, ApiRebaseOk
<1>4. ASSUME NEW b \in Branch, MergeConflict(b) PROVE WorkInv'
  <2> DEFINE base == CliMergeBase(Graph(repo), HeadOid(repo), repo.refs[b])
             u == TreeOf(repo, repo.refs[b])
             m == MergeOf(b, base)
  <2>1. /\ disk' = [p \in Path |-> IF m[p].kind = "modify" THEN m[p].text ELSE disk[p]]
        /\ UNCHANGED <<repo, faults, touched, moved, dropped, past, trimmed>>
    BY <1>4 DEF MergeConflict
  <2>2. m = MergeTrees(repo, TreeOf(repo, base), HeadTree(repo), u)
    BY DEF MergeOf
  <2>3. u \in Tree /\ In(u, repo.blobs \cup dropped)
    BY <1>0, TreeIs
  <2> HIDE DEF m, u, base
  <2>4. \A p \in Path : m[p].text \in Data \cup {NoFile}
    BY <1>0, <2>2, <2>3, MergedIs
  <2>5. disk' \in Tree
    BY <1>0, <2>1, <2>4 DEF Tree
  <2>6. faults' \in 0 .. MaxFaults
    BY <2>1 DEF WorkInv
  <2> QED
    BY <2>1, <2>5, <2>6, DirectoryStep
<1>5. ASSUME NEW b \in Branch, ApiMerge(b) PROVE WorkInv'
  <2> DEFINE base == ApiMergeBase(Graph(repo), HeadOid(repo), repo.refs[b])
             u == TreeOf(repo, repo.refs[b])
             m == MergeOf(b, base)
             t == MergedTree(m)
             r == WithTree(repo, t)
  <2>1. CanCommit /\ Finish(CreateCommit(r), disk, {}, FALSE)
    BY <1>5 DEF ApiMerge, WithTree
  <2>2. m = MergeTrees(repo, TreeOf(repo, base), HeadTree(repo), u)
    BY DEF MergeOf
  <2>3. u \in Tree /\ In(u, repo.blobs \cup dropped)
    BY <1>0, TreeIs
  <2> HIDE DEF m, u, base
  <2>4. t \in Tree /\ In(t, repo.blobs \cup dropped)
    BY <1>0, <2>2, <2>3, MergedIs
  <2> HIDE DEF t
  <2>5. Indexed(dropped, repo, t, repo.blobs, r)
    <3>1. CanIndex(dropped, repo, t, repo.blobs)
      BY <1>0, <2>4 DEF CanIndex
    <3> QED
      BY <3>1, ContentFits
  <2> HIDE DEF r
  <2>6. Steady(r) /\ r.refs = repo.refs /\ r.reflog = repo.reflog /\ r.commits = repo.commits
    BY <2>5, RepoFits DEF Indexed, Steady
  <2>7. Ready(CreateCommit(r), {}, FALSE)
    BY <2>1, <2>6, CommitReady
  <2> QED
    BY <1>0, <2>1, <2>7, FinishStep
<1>6. ASSUME NEW c \in repo.have, NEW q, NEW d, CanCommit, HeadOid(repo) # None,
             q = Picked(repo, c) \/ q = Reverted(repo, c), Finish(q, d, {}, FALSE),
             \/ d = disk \/ d = WriteOut(q, disk, q.index)
             \/ d = Replaced(q, disk, q.index, Ignored)
      PROVE  WorkInv'
  <2>1. TreeOf(repo, c) \in Tree /\ In(TreeOf(repo, c), repo.blobs \cup dropped)
    BY <1>0, TreeIs
  <2>2. ParentTree(repo, c) \in Tree /\ In(ParentTree(repo, c), repo.blobs \cup dropped)
    BY <1>0, ParentTreeIs
  <2>3. Ready(q, {}, FALSE) /\ Fit(q, dropped)
    <3>1. CASE q = Picked(repo, c)
      <4>1. PICK t : t = MergedTree(PickTrees(repo, c))
        OBVIOUS
      <4>2. /\ t = MergedTree(MergeTrees(repo, ParentTree(repo, c), HeadTree(repo), TreeOf(repo, c)))
            /\ q = WithTree(CommitOn(repo, t, <<HeadOid(repo)>>), t)
        BY <3>1, <4>1 DEF Picked, PickTrees, WithTree
      <4> QED
        BY <1>6, <2>1, <4>2, PickedReady
    <3>2. CASE q = Reverted(repo, c)
      <4>1. PICK t : t = MergedTree(RevertTrees(repo, c))
        OBVIOUS
      <4>2. /\ t = MergedTree(MergeTrees(repo, TreeOf(repo, c), HeadTree(repo), ParentTree(repo, c)))
            /\ q = WithTree(CommitOn(repo, t, <<HeadOid(repo)>>), t)
        BY <3>2, <4>1 DEF Reverted, RevertTrees, WithTree
      <4> QED
        BY <1>6, <2>2, <4>2, PickedReady
    <3> QED
      BY <1>6, <3>1, <3>2
  <2>4. d \in Tree
    BY <1>0, <1>6, <2>3, WrittenIs
  <2> QED
    BY <1>6, <2>3, <2>4, FinishStep
<1>7. ASSUME NEW c \in repo.have, CherryPick(c) \/ ApiCherryPick(c) PROVE WorkInv'
  BY <1>6, <1>7 DEF CherryPick, ApiCherryPick, CanPick
<1>8. ASSUME NEW c \in repo.have, RevertCommit(c) \/ ApiRevert(c) PROVE WorkInv'
  BY <1>6, <1>8 DEF RevertCommit, ApiRevert, CanRevert
<1> QED
  BY <1>1, <1>2, <1>3, <1>4, <1>5, <1>7, <1>8 DEF MergeStep

-----------------------------------------------------------------------------
(* Stash, tags, notes and garbage collection *)

(* A stash without entry k. *)
LEMMA DroppedFits ==
    ASSUME NEW lost, NEW r, Fit(r, lost), NEW k \in DOMAIN r.stash
    PROVE  Alike(lost, r, StashDropped(r, k))
<1>1. PICK st : st = RemoveAt(r.stash, k)
  OBVIOUS
<1>2. r.stash \in Seq(Kept)
  BY FieldsOf DEF Fit, Stashes
<1>3. st \in Stashes /\ \A i \in DOMAIN st : \E j \in DOMAIN r.stash : st[i] = r.stash[j]
  BY <1>1, <1>2, RemoveAtIs DEF Stashes
<1>4. \A i \in DOMAIN st :
         st[i].base \in r.have \cup {None} /\ In(st[i].tree, r.blobs \cup lost)
  BY <1>3 DEF Fit, Sound
<1>5. StashDropped(r, k) = WithStash(r, st)
  BY <1>1 DEF StashDropped, WithStash
<1> QED
  BY <1>3, <1>4, <1>5, StashFits

LEMMA StashLoadedFits ==
    ASSUME WorkInv, NEW k \in DOMAIN repo.stash, NEW r, r = StashLoaded(repo, k)
    PROVE  Steady(r) /\ r.stash = repo.stash
<1>1. PICK t : t = repo.stash[k].tree
  OBVIOUS
<1>2. t \in Tree /\ In(t, repo.blobs \cup dropped)
  <2>1. repo.stash \in Seq(Kept)
    BY RepoFits, FieldsOf DEF Stashes
  <2>2. repo.stash[k] \in Kept
    BY <2>1
  <2> QED
    BY <1>1, <2>2, RepoFits DEF Kept, Fit, Sound
<1>3. r = WithTree(repo, t)
  BY <1>1 DEF StashLoaded, WithTree
<1>4. Indexed(dropped, repo, t, repo.blobs, r)
  <2>1. CanIndex(dropped, repo, t, repo.blobs)
    BY <1>2, RepoFits DEF CanIndex
  <2> QED
    BY <1>3, <2>1, ContentFits
<1> QED
  BY <1>4, RepoFits DEF Indexed, Steady

LEMMA PushedReady ==
    ASSUME WorkInv, CanStash
    PROVE  Ready(Pushed(repo), {}, FALSE)
<1> DEFINE e == StashEntry(repo)
           st == <<e>> \o repo.stash
           x == WithStash(repo, st)
           t == HeadTree(repo)
<1>1. /\ Fit(repo, dropped) /\ Headed(repo) /\ repo \in Repo /\ repo.stash \in Seq(Kept)
      /\ t \in Tree /\ In(t, repo.blobs \cup dropped) /\ repo.index \in Tree
      /\ In(repo.index, repo.blobs \cup dropped) /\ repo.have \subseteq Oid
      /\ repo.blobs \subseteq Data
  BY RepoFits, FieldsOf DEF Stashes
<1>2. HeadOid(repo) \in repo.have
  BY <1>1, TipsAre DEF CanStash
<1>3. /\ e \in Kept /\ e.base \in repo.have /\ In(e.tree, repo.blobs \cup dropped)
  BY <1>1, <1>2 DEF StashEntry, Kept
<1> HIDE DEF e
<1>4. st \in Stashes /\ \A i \in DOMAIN st : st[i] = e \/ \E j \in DOMAIN repo.stash : st[i] = repo.stash[j]
  <2>1. <<e>> \in Seq(Kept) /\ Len(<<e>>) = 1 /\ <<e>>[1] = e
    BY <1>3
  <2>2. /\ st \in Seq(Kept) /\ DOMAIN st = 1 .. 1 + Len(repo.stash)
        /\ Len(repo.stash) \in Nat /\ DOMAIN repo.stash = 1..Len(repo.stash)
        /\ \A i \in DOMAIN st : st[i] = IF i <= 1 THEN <<e>>[i] ELSE repo.stash[i - 1]
    BY <1>1, <2>1
  <2> HIDE DEF st
  <2>3. ASSUME NEW i \in DOMAIN st
        PROVE  st[i] = e \/ \E j \in DOMAIN repo.stash : st[i] = repo.stash[j]
    <3>1. CASE i = 1
      BY <2>1, <2>2, <3>1
    <3>2. CASE i # 1
      <4>1. i - 1 \in DOMAIN repo.stash /\ st[i] = repo.stash[i - 1]
        BY <2>2, <3>2
      <4> QED
        BY <4>1
    <3> QED
      BY <3>1, <3>2
  <2> QED
    BY <2>2, <2>3 DEF Stashes
<1>5. \A i \in DOMAIN st :
         st[i].base \in repo.have \cup {None} /\ In(st[i].tree, repo.blobs \cup dropped)
  BY <1>1, <1>3, <1>4 DEF Fit, Sound
<1> HIDE DEF st
<1>6. Alike(dropped, repo, x)
  BY <1>1, <1>4, <1>5, StashFits
<1>7. Pushed(repo) = WithTree(x, t)
  <2>1. Pushed(repo) = [repo EXCEPT !.stash = st, !.index = t]
    BY DEF Pushed, st, e
  <2> HIDE DEF t
  <2> QED
    BY <1>1, <2>1, RepoIs DEF WithTree, WithStash
<1> HIDE DEF x
<1>8. /\ Fit(x, dropped) /\ LogOk(repo, x) /\ Headed(x) /\ HeadTree(x) = t
      /\ x.have = repo.have /\ x.blobs = repo.blobs
  BY <1>1, <1>6 DEF Alike
<1> HIDE DEF t
<1>9. Indexed(dropped, x, t, x.blobs, WithTree(x, t))
  <2>1. CanIndex(dropped, x, t, x.blobs)
    BY <1>1, <1>8 DEF CanIndex
  <2> QED
    BY <2>1, ContentFits
<1>10. PICK q : q = WithTree(x, t)
  OBVIOUS
<1>11. LogOk(repo, q)
  BY <1>8, <1>9, <1>10 DEF LogOk, Indexed, TipsLogged, News
<1>12. Steady(q) /\ q.index = HeadTree(q)
  BY <1>8, <1>9, <1>10, <1>11 DEF Indexed, Steady
<1> QED
  BY <1>7, <1>10, <1>12, ReadyLoaded

LEMMA StashStepOk ==
    ASSUME WorkInv, StashStep
    PROVE  WorkInv'
<1>0. Fit(repo, dropped) /\ disk \in Tree /\ Headed(repo)
  BY RepoFits
<1>1. ASSUME NEW q, NEW d \in Tree, Ready(q, {}, FALSE), Finish(q, d, {}, FALSE) PROVE WorkInv'
  BY <1>1, FinishStep
<1>2. CASE StashPush
  <2> DEFINE d == WriteOut(repo, disk, HeadTree(repo))
             z == Deleted(d, Scan(d, Ignored) \ Files(HeadTree(repo)))
  <2>1. CanStash /\ Finish(Pushed(repo), z, {}, FALSE)
    BY <1>2 DEF StashPush
  <2>2. d \in Tree
    BY <1>0, WrittenIs
  <2> HIDE DEF d
  <2>3. z \in Tree
    BY <1>0, <2>2, WrittenIs
  <2> QED
    BY <1>1, <2>1, <2>3, PushedReady
<1>3. CASE ApiStashPush
  BY <1>0, <1>1, <1>3, PushedReady DEF ApiStashPush
<1>4. CASE StashClear \/ ApiStashClear
  <2>1. Finish(WithStash(repo, <<>>), disk, {}, FALSE)
    BY <1>4 DEF StashClear, ApiStashClear, WithStash
  <2>2. Alike(dropped, repo, WithStash(repo, <<>>))
    <3>1. PICK st : st = <<>>
      OBVIOUS
    <3>2. st \in Stashes /\ DOMAIN st = {}
      BY <3>1 DEF Stashes
    <3> QED
      BY <1>0, <3>1, <3>2, StashFits
  <2> QED
    BY <2>1, <2>2, AlikeStep
<1>5. ASSUME NEW k \in DOMAIN repo.stash PROVE Alike(dropped, repo, StashDropped(repo, k))
  BY <1>0, DroppedFits
<1>6. ASSUME NEW k \in DOMAIN repo.stash, StashDrop(k) \/ ApiStashDrop(k) PROVE WorkInv'
  BY <1>5, <1>6, AlikeStep DEF StashDrop, ApiStashDrop
<1>7. ASSUME NEW k \in DOMAIN repo.stash,
             StashPop(k) \/ StashApply(k) \/ ApiStashPop(k) \/ ApiStashApply(k)
      PROVE  WorkInv'
  <2>1. PICK r : r = StashLoaded(repo, k)
    OBVIOUS
  <2>2. Steady(r) /\ r.stash = repo.stash
    BY <2>1, StashLoadedFits
  <2>3. PICK x : x = StashDropped(r, k)
    OBVIOUS
  <2>4. Alike(dropped, r, x)
    BY <2>2, <2>3, DroppedFits DEF Steady
  <2>5. Steady(x)
    <3>1. r.reflog = repo.reflog /\ r.refs = repo.refs
      BY <1>0, <2>1, RepoIs DEF StashLoaded, Fit
    <3>2. LogOk(repo, x)
      BY <2>4, <3>1, LogSame DEF Alike
    <3> QED
      BY <2>2, <2>4, <3>2 DEF Alike, Steady
  <2>6. Ready(r, Path, FALSE) /\ Ready(x, Path, FALSE)
    BY <2>2, <2>5, ReadyAll
  <2>7. \A d : d = disk \/ d = WriteOut(r, disk, r.index) => d \in Tree
    BY <1>0, <2>2, WrittenIs DEF Steady
  <2>8. PICK q \in {r, x}, d \in {disk, WriteOut(r, disk, r.index)} : Finish(q, d, Path, FALSE)
    BY <1>7, <2>1, <2>3, Zenon DEF StashPop, StashApply, ApiStashPop, ApiStashApply
  <2> QED
    BY <2>6, <2>7, <2>8, FinishStep
<1> QED
  BY <1>2, <1>3, <1>4, <1>6, <1>7 DEF StashStep

LEMMA ReachedAre ==
    ASSUME NEW r
    PROVE  \A c : c \in Reached(r)
                  <=> c \in r.have /\ \E x \in Roots(r) : c \in Ancestors(Graph(r), x)
BY DEF Reached

(* The contents that gc keeps when it keeps the commits of L. *)
KeptOf(r, L) ==
    (UNION {Contents(r.commits[c].tree) : c \in L})
        \cup UNION {Contents(r.stash[k].tree) : k \in DOMAIN r.stash}

LEMMA KeptAre ==
    ASSUME NEW r, NEW L
    PROVE  /\ \A c \in L : Contents(r.commits[c].tree) \subseteq KeptOf(r, L)
           /\ \A k \in DOMAIN r.stash : Contents(r.stash[k].tree) \subseteq KeptOf(r, L)
BY DEF KeptOf

LEMMA GcStep ==
    ASSUME WorkInv, Gc
    PROVE  WorkInv'
<1> DEFINE r == GcRepo(repo)
           G == Graph(repo)
           n == Len(repo.commits)
           live == Reached(repo)
           kept == KeptOf(repo, live)
           N == repo.notes \cap live
           B == repo.blobs \cap kept
<1>0. /\ Fit(repo, dropped) /\ Headed(repo) /\ repo \in Repo /\ Sound(repo, dropped)
      /\ repo.index \in Tree /\ repo.have \subseteq Oid /\ repo.blobs \subseteq Data
      /\ HeadOid(repo) \in repo.have \cup {None} /\ None \notin repo.have
  BY RepoFits, TipsAre DEF Fit
<1>1. /\ repo' = r /\ dropped' = dropped \cup (Contents(repo.index) \ r.blobs)
      /\ UNCHANGED <<disk, faults, touched, moved, past, trimmed>>
  BY DEF Gc
<1>2. /\ live \subseteq repo.have
      /\ \A c : c \in live <=> c \in repo.have /\ \E x \in Roots(repo) : c \in Ancestors(G, x)
  BY ReachedAre
<1>3. r = [repo EXCEPT !.have = live, !.blobs = B, !.notes = N]
  <2>1. Collected(repo) = [repo EXCEPT !.have = live, !.blobs = B]
    BY DEF Collected, KeptOf
  <2>2. Collected(repo).notes = repo.notes
    BY <1>0, <2>1, RepoIs
  <2>3. r = [Collected(repo) EXCEPT !.notes = N]
    BY <2>2 DEF GcRepo
  <2> HIDE DEF r, B, N, live
  <2> QED
    BY <1>0, <2>1, <2>3, RepoIs
<1> HIDE DEF live
<1>4. History(G, n) /\ repo.have \subseteq 1..n /\ \A c \in repo.have : G[c] = repo.commits[c].parents
  BY <1>0, GraphIs
<1>5. \A x \in Roots(repo) : x \in repo.have \cup {None}
  BY <1>0, WholeIsSound DEF Whole
<1>6. \A x \in repo.have : /\ x \in Ancestors(G, x)
                           /\ \A a \in Ancestors(G, x) : \A k \in DOMAIN G[a] : G[a][k] \in Ancestors(G, x)
  BY <1>4, AncestorsClosed
<1>7. Ancestors(G, None) = {}
  BY DEF Ancestors
<1> HIDE DEF G
<1>8. ASSUME NEW x \in Roots(repo), x # None PROVE x \in live
  <2>1. x \in repo.have /\ x \in Ancestors(G, x)
    BY <1>5, <1>6, <1>8
  <2> QED
    BY <1>2, <2>1
<1>9. ASSUME NEW c \in live, NEW k \in DOMAIN repo.commits[c].parents
      PROVE  repo.commits[c].parents[k] \in live
  <2>1. PICK x \in Roots(repo) : c \in Ancestors(G, x)
    BY <1>2
  <2>2. x \in repo.have
    BY <1>5, <1>7, <2>1
  <2>3. c \in repo.have /\ repo.commits[c].parents[k] \in repo.have
    BY <1>0, <1>2 DEF Sound
  <2>4. repo.commits[c].parents[k] \in Ancestors(G, x)
    BY <1>4, <1>6, <2>1, <2>2, <2>3
  <2> QED
    BY <1>2, <2>1, <2>3, <2>4
<1>10. /\ \A c \in live : Contents(repo.commits[c].tree) \subseteq kept
       /\ \A k \in DOMAIN repo.stash : Contents(repo.stash[k].tree) \subseteq kept
  BY KeptAre
<1> HIDE DEF kept, N, r
<1>11. r \in Repo
  <2>1. B \in SUBSET Data /\ live \in SUBSET Oid
    BY <1>0, <1>2
  <2>2. N \in SUBSET Oid
    BY <1>0, FieldsOf DEF N
  <2> HIDE DEF B
  <2> QED
    BY <1>0, <1>3, <2>1, <2>2, RepoIs
<1>12. /\ r.commits = repo.commits /\ r.have = live /\ r.blobs = B /\ r.refs = repo.refs
       /\ r.tags = repo.tags /\ r.reflog = repo.reflog /\ r.stash = repo.stash
       /\ r.head = repo.head /\ r.index = repo.index
  BY <1>0, <1>3, RepoIs
<1>13. ASSUME NEW t, Contents(t) \subseteq kept, In(t, repo.blobs \cup dropped)
       PROVE  In(t, r.blobs \cup dropped')
  <2>1. Contents(t) \subseteq repo.blobs \cup dropped
    BY <1>13, ContentsIn
  <2>2. Contents(t) \subseteq r.blobs \cup dropped'
    BY <1>1, <1>12, <1>13, <2>1
  <2> QED
    BY <2>2, ContentsIn
<1>14. In(r.index, r.blobs \cup dropped')
  <2>1. Contents(repo.index) \subseteq r.blobs \cup dropped'
    BY <1>1
  <2> QED
    BY <1>12, <2>1, ContentsIn
<1>15. ASSUME NEW x, x \in Roots(repo) PROVE x \in live \cup {None}
  BY <1>8, <1>15
<1>16. /\ \A b \in Branch : repo.refs[b] \in live \cup {None}
       /\ \A t \in Tag : repo.tags[t] \in live \cup {None}
       /\ \A k \in DOMAIN repo.stash : repo.stash[k].base \in live \cup {None}
       /\ \A k \in DOMAIN repo.reflog :
             repo.reflog[k].old \in live \cup {None} /\ repo.reflog[k].new \in live \cup {None}
  BY <1>15 DEF Roots
<1>17. Sound(r, dropped')
  <2>1. \A c \in r.have :
          /\ \A k \in DOMAIN r.commits[c].parents : r.commits[c].parents[k] \in r.have
          /\ In(r.commits[c].tree, r.blobs \cup dropped')
    BY <1>0, <1>2, <1>9, <1>10, <1>12, <1>13 DEF Sound
  <2>2. \A k \in DOMAIN r.stash :
          r.stash[k].base \in r.have \cup {None} /\ In(r.stash[k].tree, r.blobs \cup dropped')
    BY <1>0, <1>10, <1>12, <1>13, <1>16 DEF Sound
  <2>3. /\ Len(r.commits) <= MaxCommits /\ Len(r.reflog) <= MaxReflog
        /\ r.have \subseteq DOMAIN r.commits
        /\ \A i \in DOMAIN r.commits : \A k \in DOMAIN r.commits[i].parents :
              r.commits[i].parents[k] < i
    BY <1>0, <1>2, <1>12 DEF Sound
  <2> QED
    BY <1>12, <1>14, <1>16, <2>1, <2>2, <2>3 DEF Sound
<1>18. HeadOid(r) = HeadOid(repo)
  BY <1>12 DEF HeadOid
<1>19. Headed(r)
  BY <1>0, <1>2, <1>12, <1>18 DEF Headed
<1>20. HeadTree(r) = HeadTree(repo)
  <2>1. repo.head \in Branch
    BY RepoFits
  <2>2. HeadOid(repo) \in live \cup {None}
    BY <1>16, <2>1 DEF HeadOid
  <2>3. TreeOf(r, HeadOid(repo)) = TreeOf(repo, HeadOid(repo))
    BY <1>0, <1>2, <1>12, <2>2 DEF TreeOf
  <2> QED
    BY <1>18, <2>3 DEF HeadTree
<1>21. News(r) = News(repo) /\ (TipsLogged(r) <=> TipsLogged(repo))
  BY <1>12 DEF News, TipsLogged
<1>22. trimmed' \/ (TipsLogged(repo') /\ past' \subseteq News(repo'))
  BY <1>1, <1>21 DEF WorkInv
<1>23. IndexExplained'
  BY <1>1, <1>12, <1>20 DEF WorkInv, IndexExplained
<1>24. dropped' \subseteq Data
  <2>1. Contents(repo.index) \subseteq Data
    BY <1>0 DEF Contents, Files, Tree
  <2> QED
    BY <1>1, <2>1 DEF WorkInv
<1>25. Fit(repo', dropped') /\ Headed(repo')
  BY <1>1, <1>11, <1>17, <1>19 DEF Fit
<1> QED
  BY <1>1, <1>22, <1>23, <1>24, <1>25 DEF WorkInv

LEMMA NoteStepOk ==
    ASSUME WorkInv, NoteStep
    PROVE  WorkInv'
<1>0. Fit(repo, dropped) /\ disk \in Tree /\ repo.have \subseteq Oid /\ repo.notes \subseteq Oid
  BY RepoFits, FieldsOf
<1>1. ASSUME NEW t \in Tag, NEW c \in repo.have \cup {None},
             Finish(Tagged(repo, t, c), disk, {}, FALSE)
      PROVE  WorkInv'
  BY <1>0, <1>1, TagsFit, AlikeStep
<1>2. ASSUME NEW M \in SUBSET Oid, Finish(WithNotes(repo, M), disk, {}, FALSE) PROVE WorkInv'
  BY <1>0, <1>2, NotesFit, AlikeStep
<1>3. ASSUME NEW t \in Tag, CreateTag(t) \/ DeleteTag(t) \/ ApiDeleteTag(t) PROVE WorkInv'
  <2>1. HeadOid(repo) \in repo.have \cup {None}
    BY <1>0, TipsAre
  <2> QED
    BY <1>1, <1>3, <2>1 DEF CreateTag, DeleteTag, ApiDeleteTag
<1>4. ASSUME NEW t \in Tag, NEW c \in repo.have, ApiCreateTag(t, c) PROVE WorkInv'
  BY <1>1, <1>4 DEF ApiCreateTag
<1>5. ASSUME NEW c \in repo.have, SetNote(c) \/ ApiSetNote(c) PROVE WorkInv'
  <2>1. repo.notes \cup {c} \in SUBSET Oid
    BY <1>0
  <2>2. Finish(WithNotes(repo, repo.notes \cup {c}), disk, {}, FALSE)
    BY <1>5 DEF SetNote, ApiSetNote, WithNotes
  <2> QED
    BY <1>2, <2>1, <2>2
<1>6. ASSUME NEW c \in repo.have, RemoveNote(c) \/ ApiRemoveNote(c) PROVE WorkInv'
  <2>1. repo.notes \ {c} \in SUBSET Oid
    BY <1>0
  <2>2. Finish(WithNotes(repo, repo.notes \ {c}), disk, {}, FALSE)
    BY <1>6 DEF RemoveNote, ApiRemoveNote, WithNotes
  <2> QED
    BY <1>2, <2>1, <2>2
<1>7. CASE Gc \/ ApiGc
  BY <1>7, GcStep DEF ApiGc
<1> QED
  BY <1>3, <1>4, <1>5, <1>6, <1>7 DEF NoteStep

-----------------------------------------------------------------------------
(* Theorems *)

LEMMA NextWorkInv ==
    ASSUME WorkInv, [Next]_vars
    PROVE  WorkInv'
<1>1. CASE Next
  BY <1>1, FileStepOk, StageStepOk, CommitStepOk, BranchStepOk, MergeStepOk, StashStepOk,
     NoteStepOk DEF Next
<1>2. CASE UNCHANGED vars
  <2>1. /\ UNCHANGED <<repo, touched, moved, dropped, past, trimmed>>
        /\ disk' = disk /\ faults' = faults
    BY <1>2 DEF vars
  <2>2. disk' \in Tree /\ faults' \in 0 .. MaxFaults
    BY <2>1 DEF WorkInv
  <2> QED
    BY <2>1, <2>2, DirectoryStep
<1> QED
  BY <1>1, <1>2

(***************************************************************************)
(* Every command leaves a repository that lacks nothing: commits with      *)
(* their parents and files, references and logs of commits that are there, *)
(* a HEAD that names a commit.                                             *)
(***************************************************************************)
THEOREM WorkTreeInvariant == Spec => []WorkInv
<1>1. WorkInv /\ [Next]_vars => WorkInv'
  BY NextWorkInv
<1> QED
  BY <1>1, InitWorkInv, PTL DEF Spec

LEMMA StepsCounted == Spec => [](steps \in 0 .. MaxSteps)
<1>1. Init => steps \in 0 .. MaxSteps
  BY WorkTreeAssumption DEF Init
<1>2. steps \in 0 .. MaxSteps /\ [Next]_vars => (steps \in 0 .. MaxSteps)'
  BY WorkTreeAssumption DEF Next, vars
<1> QED
  BY <1>1, <1>2, PTL DEF Spec

LEMMA NothingIsLost ==
    ASSUME WorkInv, steps \in 0 .. MaxSteps
    PROVE  NothingLost
<1> DEFINE G == Graph(repo)
           n == Len(repo.commits)
<1>1. /\ Fit(repo, dropped) /\ Headed(repo) /\ repo \in Repo /\ Sound(repo, dropped)
      /\ None \notin repo.have
  BY RepoFits, TipsAre DEF Fit
<1>2. /\ History(G, n) /\ repo.have \subseteq 1..n
      /\ \A c \in repo.have : G[c] = repo.commits[c].parents
  BY <1>1, GraphIs
<1> HIDE DEF G
<1>3. TypeOK
  BY <1>1 DEF TypeOK, Sound, WorkInv
<1>4. HistoryComplete
  <2> SUFFICES ASSUME NEW c \in Roots(repo) \ {None}
               PROVE  /\ Ancestors(Graph(repo), c) \subseteq repo.have
                      /\ \A a \in Ancestors(Graph(repo), c) :
                            Contents(repo.commits[a].tree) \subseteq repo.blobs \cup dropped
    BY DEF HistoryComplete
  <2>1. c \in repo.have
    BY <1>1, WholeIsSound DEF Whole
  <2>2. \A a \in repo.have : \A k \in DOMAIN G[a] : G[a][k] \in repo.have
    BY <1>1, <1>2 DEF Sound
  <2>3. Ancestors(G, c) \subseteq repo.have
    BY <1>2, <2>1, <2>2, AncestorsWithin
  <2>4. \A a \in repo.have : Contents(repo.commits[a].tree) \subseteq repo.blobs \cup dropped
    BY <1>1, ContentsIn DEF Sound
  <2> QED
    BY <2>3, <2>4 DEF G
<1>5. OldTipsKept
  <2>1. News(repo) \subseteq repo.have \cup {None}
    BY <1>1 DEF Sound, News
  <2>2. None \notin Oid
    BY DEF None, Oid
  <2> QED
    BY <2>1, <2>2 DEF OldTipsKept, WorkInv
<1>6. HeadResolves
  BY <1>1 DEF HeadResolves, Headed, Sound
<1> QED
  BY <1>3, <1>4, <1>5, <1>6 DEF NothingLost

(***************************************************************************)
(* Nothing that a user can still name is ever lost: branches, tags, stash  *)
(* and reflog entries have their whole history and its files, old tips     *)
(* stay until the reflog overflows, and HEAD names a commit.               *)
(***************************************************************************)
THEOREM NothingIsEverLost == Spec => []NothingLost
<1>1. WorkInv /\ steps \in 0 .. MaxSteps => NothingLost
  BY NothingIsLost
<1> QED
  BY <1>1, WorkTreeInvariant, StepsCounted, PTL

(***************************************************************************)
(* No command but the three that are named leaves the index behind HEAD.   *)
(***************************************************************************)
THEOREM IndexIsExplained == Spec => []IndexExplained
<1>1. WorkInv => IndexExplained
  BY DEF WorkInv
<1> QED
  BY <1>1, WorkTreeInvariant, PTL

LEMMA CheckoutLosesNothing ==
    ASSUME WorkInv, NEW b \in Branch, Checkout(b, FALSE) \/ ApiCheckout(b)
    PROVE  ~EditLost
<1>1. \A p \in Path : repo.index[p] # NoFile =>
         HeadTree(repo)[p] = repo.index[p] /\ disk[p] = repo.index[p]
  <2>1. CASE Checkout(b, FALSE)
    <3>1. ~Dirty(repo, disk)
      BY <2>1 DEF Checkout
    <3>2. ASSUME NEW p \in Path, repo.index[p] # NoFile
          PROVE  HeadTree(repo)[p] = repo.index[p]
      BY <3>1, <3>2 DEF Dirty, HasStaged, Staged
    <3>3. ASSUME NEW p \in Path, repo.index[p] # NoFile PROVE disk[p] = repo.index[p]
      BY <3>1, <3>3 DEF Dirty, Unstaged
    <3> QED
      BY <3>2, <3>3
  <2>2. CASE ApiCheckout(b)
    <3>1. ~ApiDirty(repo, disk)
      BY <2>2 DEF ApiCheckout
    <3> QED
      BY <3>1 DEF ApiDirty, Files
  <2> QED
    BY <2>1, <2>2
<1> QED
  BY <1>1 DEF EditLost, Files

LEMMA FollowsHead ==
    ASSUME WorkInv, repo' # repo, Diverged(repo', disk')
    PROVE  ~\/ \E b \in Branch, f \in BOOLEAN : Checkout(b, f)
            \/ \E b \in Branch : ApiCheckout(b) \/ Rebase(b) \/ MergeBranch(b)
            \/ \E b, n \in Branch : CheckoutNew(n, b)
            \/ \E c \in repo.have : Reset(c, "hard") \/ ApiReset(c, "hard")
<1>1. ~Follows
  BY FollowsStep
<1>2. \A c \in repo.have : ~Reset(c, "hard") /\ ~ApiReset(c, "hard")
  BY <1>1, ResetOk DEF Reset, ApiReset
<1> QED
  BY <1>1, <1>2, CheckoutFollows, ApiCheckoutFollows, CheckoutNewFollows, RebaseFollows,
     MergeBranchFollows

(***************************************************************************)
(* A checkout that is not forced destroys no edit of a tracked file, and   *)
(* what replaces HEAD's commit replaces index and files with it.           *)
(***************************************************************************)
THEOREM DirectoryIsSafe == Spec => DirectorySafe
<1>1. WorkInv /\ [Next]_vars
        => [EditLost => ~\E b \in Branch : Checkout(b, FALSE) \/ ApiCheckout(b)]_vars
  BY CheckoutLosesNothing
<1>2. WorkInv /\ [Next]_vars
        => [repo' # repo /\ Diverged(repo', disk')
             => ~\/ \E b \in Branch, f \in BOOLEAN : Checkout(b, f)
                 \/ \E b \in Branch : ApiCheckout(b) \/ Rebase(b) \/ MergeBranch(b)
                 \/ \E b, n \in Branch : CheckoutNew(n, b)
                 \/ \E c \in repo.have : Reset(c, "hard") \/ ApiReset(c, "hard")]_vars
  <2> SUFFICES ASSUME WorkInv, repo' # repo, Diverged(repo', disk')
               PROVE  ~\/ \E b \in Branch, f \in BOOLEAN : Checkout(b, f)
                       \/ \E b \in Branch : ApiCheckout(b) \/ Rebase(b) \/ MergeBranch(b)
                       \/ \E b, n \in Branch : CheckoutNew(n, b)
                       \/ \E c \in repo.have : Reset(c, "hard") \/ ApiReset(c, "hard")
    OBVIOUS
  <2> QED
    BY FollowsHead
<1>3. Spec => CheckoutKeepsEdits
  BY <1>1, WorkTreeInvariant, PTL DEF Spec, CheckoutKeepsEdits
<1>4. Spec => DiskFollowsHead
  BY <1>2, WorkTreeInvariant, PTL DEF Spec, DiskFollowsHead
<1> QED
  BY <1>3, <1>4 DEF DirectorySafe

(***************************************************************************)
(* After `ovc merge` both merged tips are ancestors of HEAD.               *)
(***************************************************************************)
THEOREM MergesAreRemembered == Spec => MergeRemembered
<1>1. WorkInv /\ [Next]_vars
        => [\A b \in Branch :
              ~({HeadOid(repo), repo.refs[b]} \subseteq Ancestors(Graph(repo'), HeadOid(repo')))
                  => ~(repo' # repo /\ MergeBranch(b))]_vars
  BY MergeBranchFollows
<1> QED
  BY <1>1, WorkTreeInvariant, PTL DEF Spec, MergeRemembered
=============================================================================
