------------------------------ MODULE TextProofs ----------------------------
(***************************************************************************)
(* Theorems about TextMerge for texts of any length: what the search for   *)
(* an edit script finds is a shortest one, the hunks cut from it apply,    *)
(* and the merge of two edits of a text keeps what it must.                *)
(*                                                                         *)
(* Every algorithm here is a recursive function.  For each, <Name>Exists   *)
(* shows by induction that the recursion has a solution, and <Name>Is      *)
(* reads off its first value and its step; what holds along the steps is   *)
(* then shown by UpTo.                                                     *)
(***************************************************************************)
EXTENDS TextMerge, SequenceTheorems, FiniteSetTheorems, WellFoundedInduction, TLAPS

(* Induction over the numbers, and up to one of them.                      *)
LEMMA SetInduction ==
    ASSUME NEW P, 0 \in P, \A n \in P \cap Nat : n + 1 \in P
    PROVE  Nat \subseteq P
<1> DEFINE B == {n \in Nat : n \notin P}
<1>1. SUFFICES ASSUME B # {} PROVE FALSE
  OBVIOUS
<1>2. PICK x \in B : \A y \in B : ~ (<<y, x>> \in OpToRel(<, Nat))
  BY <1>1, WFMin, NatLessThanWellFounded, B \subseteq Nat, Zenon
<1>3. \A y \in B : ~ (y < x)
  BY <1>2 DEF OpToRel
<1>4. x # 0 /\ x - 1 \in Nat /\ x - 1 < x
  OBVIOUS
<1>5. x - 1 \in P \cap Nat
  BY <1>3, <1>4
<1> QED
  BY <1>5, <1>4, (x - 1) + 1 = x

LEMMA Least ==
    ASSUME NEW S \in SUBSET Nat, S # {}
    PROVE  \E x \in S : \A y \in S : x <= y
<1>1. PICK x \in S : \A y \in S : ~ (<<y, x>> \in OpToRel(<, Nat))
  BY WFMin, NatLessThanWellFounded, Zenon
<1>2. \A y \in S : ~ (y < x)
  BY <1>1 DEF OpToRel
<1> QED
  BY <1>2

LEMMA UpTo ==
    ASSUME NEW n \in Nat, NEW P, 0 \in P, \A i \in P : i \in Nat /\ i < n => i + 1 \in P
    PROVE  n \in P
<1> DEFINE Q == {i \in Nat : i <= n => i \in P}
<1>1. 0 \in Q
  OBVIOUS
<1>2. ASSUME NEW i \in Q \cap Nat PROVE i + 1 \in Q
  BY <1>2
<1>3. Nat \subseteq Q
  <2> HIDE DEF Q
  <2> QED BY <1>1, <1>2, SetInduction, Zenon
<1> QED
  BY <1>3

-----------------------------------------------------------------------------
(* The search for an edit script.                                            *)

(* A set of numbers up to n has a greatest one, which Max gives.             *)
LEMMA MaxIs ==
    ASSUME NEW n \in Nat, NEW S \in SUBSET (0..n), S # {}
    PROVE  Max(S) \in S /\ \A y \in S : y <= Max(S)
<1> DEFINE R == {n - y : y \in S}
<1>1. R \in SUBSET Nat /\ R # {}
  <2>1. \A y \in S : n - y \in Nat /\ n - y \in R
    OBVIOUS
  <2>2. \A r \in R : r \in Nat
    BY <2>1
  <2>3. PICK y : y \in S
    OBVIOUS
  <2>4. R # {}
    BY <2>1, <2>3
  <2> QED
    BY <2>2, <2>4
<1>2. PICK x \in R : \A y \in R : x <= y
  <2> HIDE DEF R
  <2> QED BY <1>1, Least
<1>3. PICK m \in S : x = n - m
  OBVIOUS
<1>4. \A y \in S : m >= y
  <2>1. ASSUME NEW y \in S PROVE m >= y
    <3>1. n - y \in R
      OBVIOUS
    <3>2. x <= n - y
      <4> HIDE DEF R
      <4> QED BY <1>2, <3>1
    <3> QED
      BY <1>3, <3>2
  <2> QED
    BY <2>1
<1>5. \E z \in S : \A y \in S : z >= y
  BY <1>3, <1>4
<1>6. Max(S) \in S /\ \A y \in S : Max(S) >= y
  BY <1>5 DEF Max
<1> QED
  BY <1>6

(* n lines, and no more, agree from col and row on.                          *)
AgreeSound(old, new, col, row, n) ==
    /\ n \in Nat
    /\ n > 0 => col + n <= Len(old) /\ row + n <= Len(new)
    /\ \A i \in 1..n : old[col + i] = new[row + i]
    /\ ~ (col + n < Len(old) /\ row + n < Len(new) /\ old[col + n + 1] = new[row + n + 1])

LEMMA AgreeIs ==
    ASSUME NEW old, NEW new, Len(old) \in Nat, Len(new) \in Nat, NEW col \in Nat, NEW row \in Nat
    PROVE  AgreeSound(old, new, col, row, Agree(old, new, col, row))
<1>1. PICK room : room = Larger(0, Smaller(Len(old) - col, Len(new) - row))
  OBVIOUS
<1>2. room \in Nat /\ (room > 0 => col + room <= Len(old) /\ row + room <= Len(new))
      /\ (col < Len(old) /\ row < Len(new) => col + room = Len(old) \/ row + room = Len(new))
  BY <1>1 DEF Larger, Smaller, Pick
<1> DEFINE S == {n \in 0..room : \A i \in 1..n : old[col + i] = new[row + i]}
<1>3. S \in SUBSET (0..room) /\ 0 \in S
  BY <1>2
<1>4. PICK g : g = Max(S)
  OBVIOUS
<1>5. Agree(old, new, col, row) = g
  BY <1>1, <1>4 DEF Agree
<1>6. g \in S /\ \A y \in S : y <= g
  <2> HIDE DEF S
  <2> QED BY <1>2, <1>3, <1>4, MaxIs
<1>7. g \in 0..room /\ \A i \in 1..g : old[col + i] = new[row + i]
  BY <1>6
<1>8. ~ (col + g < Len(old) /\ row + g < Len(new) /\ old[col + g + 1] = new[row + g + 1])
  <2> SUFFICES ASSUME col + g < Len(old), row + g < Len(new), old[col + g + 1] = new[row + g + 1]
               PROVE  FALSE
    OBVIOUS
  <2>1. g + 1 \in 0..room
    BY <1>2, <1>7
  <2>2. \A i \in 1..(g + 1) : old[col + i] = new[row + i]
    <3>1. \A i \in 1..(g + 1) : i \in 1..g \/ i = g + 1
      BY <1>7
    <3>2. col + (g + 1) = col + g + 1 /\ row + (g + 1) = row + g + 1
      BY <1>7
    <3> QED
      BY <1>7, <3>1, <3>2
  <2>3. g + 1 \in S
    BY <2>1, <2>2
  <2> HIDE DEF S
  <2> QED
    BY <1>6, <1>7, <2>3
<1>9. AgreeSound(old, new, col, row, g)
  BY <1>2, <1>7, <1>8 DEF AgreeSound
<1> QED
  BY <1>5, <1>9

(* The diagonals of a round, and the ends a path may have.                   *)
Diags(d) == {2 * j - 2 - d : j \in 1..(d + 1)}
Ends(old, new, x, k) == x >= Len(old) /\ x - k >= Len(new)

LEMMA DiagsAre ==
    ASSUME NEW d \in Nat, NEW k \in Diags(d)
    PROVE  /\ k \in Int /\ -d <= k /\ k <= d
           /\ k # -d => k - 1 \in Diags(d - 1) /\ k - 2 \in Diags(d)
           /\ k # d => k + 1 \in Diags(d - 1) /\ k + 2 \in Diags(d)
           /\ k + 1 \in Diags(d + 1) /\ k - 1 \in Diags(d + 1)
<1>1. PICK j \in 1..(d + 1) : k = 2 * j - 2 - d
  BY DEF Diags
<1>2. k # -d => /\ j - 1 \in 1..d /\ k - 1 = 2 * (j - 1) - 2 - (d - 1)
                /\ j - 1 \in 1..(d + 1) /\ k - 2 = 2 * (j - 1) - 2 - d
  BY <1>1
<1>3. k # d => /\ j \in 1..d /\ k + 1 = 2 * j - 2 - (d - 1)
               /\ j + 1 \in 1..(d + 1) /\ k + 2 = 2 * (j + 1) - 2 - d
  BY <1>1
<1>4. j \in 1..(d + 2) /\ j + 1 \in 1..(d + 2) /\ k - 1 = 2 * j - 2 - (d + 1) /\ k + 1 = 2 * (j + 1) - 2 - (d + 1)
  BY <1>1
<1>5. d - 1 + 1 = d /\ d + 1 + 1 = d + 2
  OBVIOUS
<1>6. k # -d => k - 1 \in Diags(d - 1) /\ k - 2 \in Diags(d)
  BY <1>2, <1>5 DEF Diags
<1>7. k # d => k + 1 \in Diags(d - 1) /\ k + 2 \in Diags(d)
  BY <1>3, <1>5 DEF Diags
<1>8. k + 1 \in Diags(d + 1) /\ k - 1 \in Diags(d + 1)
  BY <1>4, <1>5 DEF Diags
<1> QED
  BY <1>1, <1>6, <1>7, <1>8

Fronts(most) == [(-most)..most -> Nat]

(* A round looks only at the diagonals beside the one it extends.            *)
LEMMA ReachSame ==
    ASSUME NEW old, NEW new, NEW f, NEW g, NEW d \in Nat, NEW k \in Int,
           k # -d => f[k - 1] = g[k - 1],
           k # d \/ d = 0 => f[k + 1] = g[k + 1]
    PROVE  Reach(old, new, f, k, d) = Reach(old, new, g, k, d)
<1>1. StartCol(f, k, d) = StartCol(g, k, d)
  BY DEF StartCol, GoesDown, Pick
<1> QED
  BY <1>1 DEF Reach

LEMMA ReachNat ==
    ASSUME NEW old, NEW new, Len(old) \in Nat, Len(new) \in Nat, NEW most \in Nat, most >= 1,
           NEW f \in Fronts(most), NEW d \in 0..most, NEW k \in Diags(d)
    PROVE  Reach(old, new, f, k, d) \in Nat
<1>1. k \in Int /\ -d <= k /\ k <= d
  BY DiagsAre
<1>2. StartCol(f, k, d) \in Nat
  <2>1. k # -d => f[k - 1] \in Nat
    BY <1>1 DEF Fronts
  <2>2. k # d \/ d = 0 => f[k + 1] \in Nat
    BY <1>1 DEF Fronts
  <2> QED
    BY <1>1, <2>1, <2>2 DEF StartCol, GoesDown, Pick
<1>3. PICK s, r : s = StartCol(f, k, d) /\ r = Larger(0, s - k)
  OBVIOUS
<1>4. s \in Nat /\ r \in Nat
  BY <1>1, <1>2, <1>3 DEF Larger, Pick
<1>5. Agree(old, new, s, r) \in Nat
  BY <1>4, AgreeIs DEF AgreeSound
<1>6. Reach(old, new, f, k, d) = s + Agree(old, new, s, r)
  BY <1>3 DEF Reach
<1> QED
  BY <1>4, <1>5, <1>6

(* The recursion of Round. *)
RoundSteps(old, new, dist, search, n, w) ==
    w = [i \in 0..n |-> IF i = 0 THEN [search EXCEPT !.trace = Append(@, search.frontier)]
                        ELSE Extend(old, new, dist, w[i - 1], 2 * i - 2 - dist)]

LEMMA RoundExists ==
    ASSUME NEW old, NEW new, NEW dist, NEW search, NEW n \in Nat
    PROVE  \E w : RoundSteps(old, new, dist, search, n, w)
<1> DEFINE P == {m \in Nat : \E w : RoundSteps(old, new, dist, search, m, w)}
<1>1. 0 \in P
  <2> DEFINE w == [i \in 0..0 |-> [search EXCEPT !.trace = Append(@, search.frontier)]]
  <2>1. RoundSteps(old, new, dist, search, 0, w)
    BY DEF RoundSteps
  <2> QED
    BY <2>1, Zenon
<1>2. ASSUME NEW m \in P \cap Nat PROVE m + 1 \in P
  <2> SUFFICES \E w : RoundSteps(old, new, dist, search, m + 1, w)
    OBVIOUS
  <2>1. PICK g : RoundSteps(old, new, dist, search, m, g)
    OBVIOUS
  <2> DEFINE F(x, i) == Extend(old, new, dist, x, 2 * i - 2 - dist)
             B == [search EXCEPT !.trace = Append(@, search.frontier)]
             w == [i \in 0 .. m + 1 |-> IF i = m + 1 THEN F(g[m], m + 1) ELSE g[i]]
  <2>2. \A i \in 0..m : g[i] = IF i = 0 THEN B ELSE F(g[i - 1], i)
    BY <2>1 DEF RoundSteps
  <2> HIDE DEF F, B
  <2>3. ASSUME NEW i \in 0 .. m + 1
        PROVE  w[i] = IF i = 0 THEN B ELSE F(w[i - 1], i)
    <3>1. CASE i = m + 1
      <4>1. w[i] = F(g[m], m + 1) /\ w[i - 1] = g[m] /\ i # 0
        BY <3>1
      <4> HIDE DEF w
      <4> QED BY <4>1, <3>1
    <3>2. CASE i \in 0..m
      <4>1. w[i] = g[i] /\ (i # 0 => w[i - 1] = g[i - 1])
        BY <3>2
      <4> HIDE DEF w
      <4> QED BY <4>1, <3>2, <2>2
    <3> QED
      BY <3>1, <3>2
  <2>4. w = [i \in 0 .. m + 1 |-> w[i]]
    OBVIOUS
  <2>5. RoundSteps(old, new, dist, search, m + 1, w)
    <3> HIDE DEF w
    <3> QED BY <2>3, <2>4 DEF RoundSteps, F, B
  <2> QED
    BY <2>5, Zenon
<1>3. Nat \subseteq P
  <2> HIDE DEF P
  <2> QED BY <1>1, <1>2, SetInduction, Zenon
<1> QED
  BY <1>3

(* What a round has found out after j of its diagonals.                      *)
RoundPart(old, new, most, f, t, d, j, s) ==
    /\ s = [frontier |-> s.frontier, trace |-> Append(t, f), found |-> s.found]
    /\ s.frontier \in Fronts(most) /\ s.found \in BOOLEAN
    /\ ~ s.found => \A i \in 1..j : /\ s.frontier[2 * i - 2 - d] = Reach(old, new, f, 2 * i - 2 - d, d)
                                  /\ ~ Ends(old, new, s.frontier[2 * i - 2 - d], 2 * i - 2 - d)
    /\ ~ s.found => \A k \in (-most)..most : (\A i \in 1..j : k # 2 * i - 2 - d) => s.frontier[k] = f[k]
    /\ s.found => \E i \in 1..j : Ends(old, new, Reach(old, new, f, 2 * i - 2 - d, d), 2 * i - 2 - d)

LEMMA FrontierSet ==
    ASSUME NEW s, NEW h, NEW tr, NEW fo, NEW k, NEW col, NEW found, NEW g, g = [h EXCEPT ![k] = col],
           s = [frontier |-> h, trace |-> tr, found |-> fo],
           NEW e, e = [s EXCEPT !.frontier[k] = col, !.found = found]
    PROVE  e = [frontier |-> g, trace |-> tr, found |-> found]
<1>1. e.frontier = g /\ e.trace = tr /\ e.found = found /\ DOMAIN e = {"frontier", "trace", "found"}
  OBVIOUS
<1>2. e = [x \in DOMAIN e |-> e[x]]
  OBVIOUS
<1> QED
  BY <1>1, <1>2

LEMMA ExtendKeeps ==
    ASSUME NEW old, NEW new, Len(old) \in Nat, Len(new) \in Nat, NEW most \in Nat, most >= 1,
           NEW f \in Fronts(most), NEW t, NEW d \in 0..most, NEW j \in 0..d, NEW s,
           RoundPart(old, new, most, f, t, d, j, s)
    PROVE  RoundPart(old, new, most, f, t, d, j + 1, Extend(old, new, d, s, 2 * (j + 1) - 2 - d))
<1>0. PICK k : k = 2 * (j + 1) - 2 - d
  OBVIOUS
<1>1. k \in Int /\ k \in Diags(d) /\ k \in (-most)..most
  BY <1>0 DEF Diags
<1>2. CASE s.found
  <2>1. Extend(old, new, d, s, k) = s
    BY <1>2 DEF Extend
  <2>2. 1..j \subseteq 1..(j + 1)
    OBVIOUS
  <2> QED
    BY <1>0, <1>2, <2>1, <2>2 DEF RoundPart
<1>3. CASE ~ s.found
  <2>1. PICK col : col = Reach(old, new, s.frontier, k, d)
    OBVIOUS
  <2>2. k # -d => s.frontier[k - 1] = f[k - 1]
    <3>1. \A i \in 1..j : k - 1 # 2 * i - 2 - d
      BY <1>0
    <3>2. k # -d => k - 1 \in (-most)..most
      BY <1>0
    <3> QED
      BY <1>3, <3>1, <3>2 DEF RoundPart
  <2>3. k # d \/ d = 0 => s.frontier[k + 1] = f[k + 1]
    <3>1. \A i \in 1..j : k + 1 # 2 * i - 2 - d
      BY <1>0
    <3>2. k # d \/ d = 0 => k + 1 \in (-most)..most
      BY <1>0
    <3> QED
      BY <1>3, <3>1, <3>2 DEF RoundPart
  <2>4. col = Reach(old, new, f, k, d)
    BY <1>1, <2>1, <2>2, <2>3, ReachSame
  <2>5. col \in Nat
    BY <1>1, <2>4, ReachNat
  <2>6. PICK g : g = [s.frontier EXCEPT ![k] = col]
    OBVIOUS
  <2>7. g \in Fronts(most) /\ g[k] = col /\ \A l \in (-most)..most : l # k => g[l] = s.frontier[l]
    BY <1>1, <2>5, <2>6 DEF RoundPart, Fronts
  <2>8. PICK found : found = (col >= Len(old) /\ col - k >= Len(new))
    OBVIOUS
  <2>9. Extend(old, new, d, s, k) = [frontier |-> g, trace |-> Append(t, f), found |-> found]
    <3>1. s = [frontier |-> s.frontier, trace |-> Append(t, f), found |-> s.found]
      BY DEF RoundPart
    <3>2. Extend(old, new, d, s, k) = [s EXCEPT !.frontier[k] = col, !.found = found]
      BY <1>3, <2>1, <2>8 DEF Extend
    <3>3. PICK h, tr, fo : h = s.frontier /\ tr = Append(t, f) /\ fo = s.found
      OBVIOUS
    <3>4. s = [frontier |-> h, trace |-> tr, found |-> fo] /\ g = [h EXCEPT ![k] = col]
      BY <2>6, <3>1, <3>3
    <3>5. PICK e : e = [s EXCEPT !.frontier[k] = col, !.found = found]
      OBVIOUS
    <3>6. e = [frontier |-> g, trace |-> tr, found |-> found]
      BY <3>4, <3>5, FrontierSet, Zenon
    <3> QED
      BY <3>2, <3>3, <3>5, <3>6
  <2>10. PICK r : r = [frontier |-> g, trace |-> Append(t, f), found |-> found]
    OBVIOUS
  <2>11. r.frontier = g /\ r.found = found /\ r = [frontier |-> r.frontier, trace |-> Append(t, f), found |-> r.found]
    BY <2>10
  <2>12. found \in BOOLEAN /\ (found <=> Ends(old, new, col, k))
    BY <2>8 DEF Ends
  <2>13. ASSUME ~ found, NEW i \in 1..(j + 1)
         PROVE  /\ g[2 * i - 2 - d] = Reach(old, new, f, 2 * i - 2 - d, d)
                /\ ~ Ends(old, new, g[2 * i - 2 - d], 2 * i - 2 - d)
    <3>1. CASE i = j + 1
      <4>1. 2 * i - 2 - d = k
        BY <3>1, <1>0
      <4> QED
        BY <4>1, <2>4, <2>7, <2>12, <2>13
    <3>2. CASE i \in 1..j
      <4>1. PICK l : l = 2 * i - 2 - d
        OBVIOUS
      <4>2. l # k /\ l \in (-most)..most
        BY <3>2, <4>1, <1>0
      <4>3. s.frontier[l] = Reach(old, new, f, l, d) /\ ~ Ends(old, new, s.frontier[l], l)
        BY <1>3, <3>2, <4>1 DEF RoundPart
      <4> QED
        BY <2>7, <4>1, <4>2, <4>3
    <3> QED
      BY <3>1, <3>2
  <2>14. ASSUME ~ found, NEW l \in (-most)..most, \A i \in 1..(j + 1) : l # 2 * i - 2 - d
         PROVE  g[l] = f[l]
    <3>1. l # k
      BY <2>14, <1>0
    <3>2. ASSUME NEW i \in 1..j PROVE l # 2 * i - 2 - d
      <4>1. i \in 1..(j + 1)
        OBVIOUS
      <4> QED
        BY <2>14, <4>1
    <3>3. s.frontier[l] = f[l]
      BY <1>3, <3>2 DEF RoundPart
    <3> QED
      BY <2>7, <3>1, <3>3
  <2>15. found => \E i \in 1..(j + 1) : Ends(old, new, Reach(old, new, f, 2 * i - 2 - d, d), 2 * i - 2 - d)
    <3> SUFFICES ASSUME found
                 PROVE  \E i \in 1..(j + 1) : Ends(old, new, Reach(old, new, f, 2 * i - 2 - d, d), 2 * i - 2 - d)
      OBVIOUS
    <3> WITNESS j + 1 \in 1..(j + 1)
    <3> QED
      BY <2>4, <2>12, <1>0
  <2>16. RoundPart(old, new, most, f, t, d, j + 1, r)
    BY <2>7, <2>11, <2>12, <2>13, <2>14, <2>15 DEF RoundPart
  <2> QED
    BY <2>9, <2>10, <2>16, <1>0
<1> QED
  BY <1>2, <1>3

LEMMA RoundIs ==
    ASSUME NEW old, NEW new, Len(old) \in Nat, Len(new) \in Nat, NEW most \in Nat, most >= 1,
           NEW f \in Fronts(most), NEW t, NEW d \in 0..most, NEW s,
           s = [frontier |-> f, trace |-> t, found |-> FALSE]
    PROVE  RoundPart(old, new, most, f, t, d, d + 1, Round(old, new, d, s))
<1>1. d + 1 \in Nat
  OBVIOUS
<1> DEFINE w == CHOOSE g : RoundSteps(old, new, d, s, d + 1, g)
<1>2. RoundSteps(old, new, d, s, d + 1, w)
  BY <1>1, RoundExists, Zenon
<1>3. Round(old, new, d, s) = w[d + 1]
  BY Zenon DEF Round, RoundSteps
<1> HIDE DEF w
<1>4. w[0] = [s EXCEPT !.trace = Append(@, s.frontier)]
  BY <1>1, <1>2 DEF RoundSteps
<1>5. \A i \in 1..(d + 1) : w[i] = Extend(old, new, d, w[i - 1], 2 * i - 2 - d)
  <2>1. \A i \in 1..(d + 1) : i \in 0..(d + 1) /\ i # 0
    OBVIOUS
  <2> QED
    BY <1>2, <2>1 DEF RoundSteps
<1> DEFINE P == {j \in 0..(d + 1) : RoundPart(old, new, most, f, t, d, j, w[j])}
<1>6. 0 \in P
  <2>1. PICK r : r = [frontier |-> f, trace |-> Append(t, f), found |-> FALSE]
    OBVIOUS
  <2>2. w[0] = r
    BY <1>4, <2>1
  <2>3. r.frontier = f /\ r.found = FALSE /\ r = [frontier |-> r.frontier, trace |-> Append(t, f), found |-> r.found]
    BY <2>1
  <2>4. RoundPart(old, new, most, f, t, d, 0, r)
    <3>1. 1..0 = {}
      OBVIOUS
    <3> QED
      BY <2>3, <3>1 DEF RoundPart
  <2> QED
    BY <2>2, <2>4
<1>7. ASSUME NEW j \in P, j \in Nat, j < d + 1 PROVE j + 1 \in P
  <2>1. j \in 0..d /\ RoundPart(old, new, most, f, t, d, j, w[j])
    BY <1>7
  <2>2. RoundPart(old, new, most, f, t, d, j + 1, Extend(old, new, d, w[j], 2 * (j + 1) - 2 - d))
    BY <2>1, ExtendKeeps
  <2>3. j + 1 \in 1..(d + 1) /\ (j + 1) - 1 = j
    BY <2>1
  <2>4. w[j + 1] = Extend(old, new, d, w[j], 2 * (j + 1) - 2 - d)
    BY <1>5, <2>3
  <2>5. RoundPart(old, new, most, f, t, d, j + 1, w[j + 1])
    BY <2>2, <2>4
  <2> QED
    BY <2>3, <2>5
<1>8. d + 1 \in P
  <2> HIDE DEF P
  <2> QED BY <1>1, <1>6, <1>7, UpTo
<1> QED
  BY <1>3, <1>8

(* A trace of rounds none of which, but perhaps the last, comes to the end.  *)
GoodTrace(old, new, T) ==
    /\ T \in Seq(Fronts(Len(old) + Len(new)))
    /\ Len(T) > 0 => T[1] = [k \in -(Len(old) + Len(new))..(Len(old) + Len(new)) |-> 0]
    /\ \A d \in 1..(Len(T) - 1), k \in Int :
          k \in Diags(d - 1) => T[d + 1][k] = Reach(old, new, T[d], k, d - 1) /\ ~ Ends(old, new, T[d + 1][k], k)

(* The search after some rounds.                                             *)
SearchPart(old, new, n, s) ==
    /\ s = [frontier |-> s.frontier, trace |-> s.trace, found |-> s.found]
    /\ s.found \in BOOLEAN
    /\ ~ s.found => GoodTrace(old, new, Append(s.trace, s.frontier)) /\ Len(s.trace) = n
                    /\ s.trace \in Seq(Fronts(Len(old) + Len(new))) /\ s.frontier \in Fronts(Len(old) + Len(new))
    /\ s.found => /\ GoodTrace(old, new, s.trace) /\ Len(s.trace) \in 1..n
                  /\ \E k \in Diags(Len(s.trace) - 1) :
                        Ends(old, new, Reach(old, new, s.trace[Len(s.trace)], k, Len(s.trace) - 1), k)

LEMMA RoundKeeps ==
    ASSUME NEW old, NEW new, Len(old) \in Nat, Len(new) \in Nat, Len(old) + Len(new) >= 1,
           NEW n \in 0..(Len(old) + Len(new)), NEW s, SearchPart(old, new, n, s), ~ s.found
    PROVE  SearchPart(old, new, n + 1, Round(old, new, n, s))
<1>1. PICK most \in Nat : most = Len(old) + Len(new)
  OBVIOUS
<1>2. PICK f, t : f = s.frontier /\ t = s.trace
  OBVIOUS
<1>3. /\ s = [frontier |-> f, trace |-> t, found |-> FALSE] /\ f \in Fronts(most)
      /\ GoodTrace(old, new, Append(t, f)) /\ Len(t) = n /\ t \in Seq(Fronts(most))
  BY <1>1, <1>2 DEF SearchPart
<1>4. PICK r : r = Round(old, new, n, s)
  OBVIOUS
<1>5. RoundPart(old, new, most, f, t, n, n + 1, r)
  BY <1>1, <1>3, <1>4, RoundIs
<1>6. PICK T, g : T = Append(t, f) /\ g = r.frontier
  OBVIOUS
<1>7. T \in Seq(Fronts(most)) /\ Len(T) = n + 1 /\ T[n + 1] = f /\ \A i \in 1..n : T[i] = t[i]
  BY <1>3, <1>6
<1>8. r.trace = T /\ r = [frontier |-> g, trace |-> T, found |-> r.found] /\ r.found \in BOOLEAN /\ g \in Fronts(most)
  BY <1>5, <1>6 DEF RoundPart
<1>9. CASE r.found
  <2>1. PICK i \in 1..(n + 1) : Ends(old, new, Reach(old, new, f, 2 * i - 2 - n, n), 2 * i - 2 - n)
    BY <1>5, <1>9 DEF RoundPart
  <2>2. 2 * i - 2 - n \in Diags(n)
    BY DEF Diags
  <2>3. Len(T) - 1 = n /\ Len(T) \in 1..(n + 1) /\ T[Len(T)] = f
    BY <1>7
  <2>4. \E k \in Diags(Len(T) - 1) : Ends(old, new, Reach(old, new, T[Len(T)], k, Len(T) - 1), k)
    BY <2>1, <2>2, <2>3
  <2>5. GoodTrace(old, new, T)
    BY <1>3, <1>6
  <2> QED
    BY <1>4, <1>8, <1>9, <2>3, <2>4, <2>5 DEF SearchPart
<1>10. CASE ~ r.found
  <2>1. PICK U : U = Append(T, g)
    OBVIOUS
  <2>2. U \in Seq(Fronts(most)) /\ Len(U) = n + 2 /\ U[n + 2] = g /\ \A i \in 1..(n + 1) : U[i] = T[i]
    BY <1>7, <1>8, <2>1
  <2>3. GoodTrace(old, new, T)
    BY <1>3, <1>6
  <2>4. U[1] = [k \in -most..most |-> 0]
    BY <1>1, <1>7, <2>2, <2>3 DEF GoodTrace
  <2>5. ASSUME NEW d \in 1..(Len(U) - 1), NEW k \in Int, k \in Diags(d - 1)
        PROVE  U[d + 1][k] = Reach(old, new, U[d], k, d - 1) /\ ~ Ends(old, new, U[d + 1][k], k)
    <3>1. CASE d \in 1..n
      <4>1. d \in 1..(Len(T) - 1) /\ U[d] = T[d] /\ U[d + 1] = T[d + 1]
        BY <1>7, <2>2, <3>1
      <4> QED
        BY <2>3, <2>5, <4>1 DEF GoodTrace
    <3>2. CASE d = n + 1
      <4>1. U[d] = f /\ U[d + 1] = g /\ d - 1 = n
        BY <1>7, <2>2, <3>2
      <4>2. PICK i \in 1..(n + 1) : k = 2 * i - 2 - n
        BY <2>5, <4>1 DEF Diags
      <4>3. g[k] = Reach(old, new, f, k, n) /\ ~ Ends(old, new, g[k], k)
        BY <1>5, <1>6, <1>10, <4>2 DEF RoundPart
      <4> QED
        BY <4>1, <4>3
    <3> QED
      BY <2>2, <3>1, <3>2
  <2>6. GoodTrace(old, new, U)
    BY <1>1, <2>2, <2>4, <2>5 DEF GoodTrace
  <2> QED
    BY <1>1, <1>4, <1>7, <1>8, <1>10, <2>1, <2>6 DEF SearchPart
<1> QED
  BY <1>8, <1>9, <1>10

(* The recursion of Search. *)
SearchSteps(old, new, start, n, w) ==
    w = [i \in 0..n |-> IF i = 0 THEN start
                        ELSE RoundUnlessFound(old, new, i - 1, w[i - 1])]

LEMMA SearchExists ==
    ASSUME NEW old, NEW new, NEW start, NEW n \in Nat
    PROVE  \E w : SearchSteps(old, new, start, n, w)
<1> DEFINE P == {m \in Nat : \E w : SearchSteps(old, new, start, m, w)}
<1>1. 0 \in P
  <2> DEFINE w == [i \in 0..0 |-> start]
  <2>1. SearchSteps(old, new, start, 0, w)
    BY DEF SearchSteps
  <2> QED
    BY <2>1, Zenon
<1>2. ASSUME NEW m \in P \cap Nat PROVE m + 1 \in P
  <2> SUFFICES \E w : SearchSteps(old, new, start, m + 1, w)
    OBVIOUS
  <2>1. PICK g : SearchSteps(old, new, start, m, g)
    OBVIOUS
  <2> DEFINE F(x, i) == RoundUnlessFound(old, new, i - 1, x)
             B == start
             w == [i \in 0 .. m + 1 |-> IF i = m + 1 THEN F(g[m], m + 1) ELSE g[i]]
  <2>2. \A i \in 0..m : g[i] = IF i = 0 THEN B ELSE F(g[i - 1], i)
    BY <2>1 DEF SearchSteps
  <2> HIDE DEF F, B
  <2>3. ASSUME NEW i \in 0 .. m + 1
        PROVE  w[i] = IF i = 0 THEN B ELSE F(w[i - 1], i)
    <3>1. CASE i = m + 1
      <4>1. w[i] = F(g[m], m + 1) /\ w[i - 1] = g[m] /\ i # 0
        BY <3>1
      <4> HIDE DEF w
      <4> QED BY <4>1, <3>1
    <3>2. CASE i \in 0..m
      <4>1. w[i] = g[i] /\ (i # 0 => w[i - 1] = g[i - 1])
        BY <3>2
      <4> HIDE DEF w
      <4> QED BY <4>1, <3>2, <2>2
    <3> QED
      BY <3>1, <3>2
  <2>4. w = [i \in 0 .. m + 1 |-> w[i]]
    OBVIOUS
  <2>5. SearchSteps(old, new, start, m + 1, w)
    <3> HIDE DEF w
    <3> QED BY <2>3, <2>4 DEF SearchSteps, F, B
  <2> QED
    BY <2>5, Zenon
<1>3. Nat \subseteq P
  <2> HIDE DEF P
  <2> QED BY <1>1, <1>2, SetInduction, Zenon
<1> QED
  BY <1>3

LEMMA SearchParts ==
    ASSUME NEW old, NEW new, Len(old) \in Nat, Len(new) \in Nat, Len(old) + Len(new) >= 1
    PROVE  SearchPart(old, new, Len(old) + Len(new) + 1, Search(old, new))
<1> DEFINE most == Len(old) + Len(new)
           start == [frontier |-> [d \in -most..most |-> 0], trace |-> <<>>, found |-> FALSE]
           w == CHOOSE g : SearchSteps(old, new, start, most + 1, g)
<1>1. most \in Nat /\ most + 1 \in Nat
  OBVIOUS
<1>2. SearchSteps(old, new, start, most + 1, w)
  BY <1>1, SearchExists, Zenon
<1>3. Search(old, new) = w[most + 1]
  BY Zenon DEF Search, SearchSteps
<1> HIDE DEF w
<1>4. w[0] = start /\ \A i \in 1..(most + 1) : w[i] = RoundUnlessFound(old, new, i - 1, w[i - 1])
  <2>1. 0 \in 0..(most + 1) /\ \A i \in 1..(most + 1) : i \in 0..(most + 1) /\ i # 0
    OBVIOUS
  <2> HIDE DEF start, most
  <2> QED
    BY <1>2, <2>1 DEF SearchSteps
<1> DEFINE P == {n \in 0..(most + 1) : SearchPart(old, new, n, w[n])}
<1>5. 0 \in P
  <2>1. PICK f : f = [d \in -most..most |-> 0]
    OBVIOUS
  <2>2. f \in Fronts(most)
    BY <2>1 DEF Fronts
  <2>3. w[0] = [frontier |-> f, trace |-> <<>>, found |-> FALSE]
    BY <1>4, <2>1
  <2>4. Append(<<>>, f) = <<f>> /\ <<f>> \in Seq(Fronts(most)) /\ Len(<<f>>) = 1 /\ <<f>>[1] = f
    BY <2>2
  <2>5. GoodTrace(old, new, <<f>>)
    BY <2>1, <2>4 DEF GoodTrace
  <2>6. PICK s : s = [frontier |-> f, trace |-> <<>>, found |-> FALSE]
    OBVIOUS
  <2>7. s.frontier = f /\ s.trace = <<>> /\ s.found = FALSE /\ Len(<<>>) = 0
        /\ s = [frontier |-> s.frontier, trace |-> s.trace, found |-> s.found] /\ <<>> \in Seq(Fronts(most))
    BY <2>6
  <2>8. SearchPart(old, new, 0, s)
    BY <2>2, <2>4, <2>5, <2>7 DEF SearchPart
  <2> QED
    BY <1>1, <2>3, <2>6, <2>8
<1>6. ASSUME NEW n \in P, n \in Nat, n < most + 1 PROVE n + 1 \in P
  <2>1. n \in 0..most /\ SearchPart(old, new, n, w[n]) /\ n + 1 \in 1..(most + 1) /\ (n + 1) - 1 = n
    BY <1>6
  <2>2. w[n + 1] = RoundUnlessFound(old, new, n, w[n])
    BY <1>4, <2>1
  <2>3. CASE w[n].found
    <3>1. w[n + 1] = w[n]
      BY <2>2, <2>3 DEF RoundUnlessFound
    <3>2. 1..n \subseteq 1..(n + 1)
      BY <2>1
    <3>3. SearchPart(old, new, n + 1, w[n])
      <4> HIDE DEF P
      <4> QED BY <2>1, <2>3, <3>2 DEF SearchPart
    <3> QED
      BY <2>1, <3>1, <3>3
  <2>4. CASE ~ w[n].found
    <3>1. w[n + 1] = Round(old, new, n, w[n])
      BY <2>2, <2>4 DEF RoundUnlessFound
    <3>2. SearchPart(old, new, n + 1, Round(old, new, n, w[n]))
      BY <2>1, <2>4, RoundKeeps
    <3> QED
      BY <2>1, <3>1, <3>2
  <2> QED
    BY <2>3, <2>4
<1>7. most + 1 \in P
  <2> HIDE DEF P, most
  <2> QED BY <1>1, <1>5, <1>6, UpTo
<1> QED
  BY <1>3, <1>7

(* How far the search has come on a diagonal after some rounds.              *)
Far(old, new, T, d, k) == Reach(old, new, T[d + 1], k, d)

(* A trace of at least D rounds.                                             *)
Traced(old, new, T, D) ==
    /\ Len(old) \in Nat /\ Len(new) \in Nat /\ Len(old) + Len(new) >= 1
    /\ GoodTrace(old, new, T)
    /\ D \in 0..(Len(old) + Len(new)) /\ D < Len(T)

LEMMA TraceFar ==
    ASSUME NEW old, NEW new, NEW T, NEW D, Traced(old, new, T, D), NEW d \in 1..D, NEW k \in Diags(d - 1)
    PROVE  T[d + 1][k] = Far(old, new, T, d - 1, k) /\ ~ Ends(old, new, Far(old, new, T, d - 1, k), k)
<1>1. Len(T) \in Nat /\ D < Len(T) /\ D \in Nat
  BY DEF Traced, GoodTrace
<1>2. d \in 1..(Len(T) - 1) /\ d - 1 \in Nat /\ (d - 1) + 1 = d
  BY <1>1
<1>3. k \in Int
  BY <1>2, DiagsAre
<1>4. T[d + 1][k] = Reach(old, new, T[d], k, d - 1) /\ ~ Ends(old, new, T[d + 1][k], k)
  BY <1>2, <1>3 DEF Traced, GoodTrace
<1> QED
  BY <1>2, <1>4 DEF Far

LEMMA StartIs ==
    ASSUME NEW old, NEW new, NEW T, NEW D, Traced(old, new, T, D), NEW d \in 1..D, NEW k \in Diags(d),
           \A l \in Diags(d - 1) : Far(old, new, T, d - 1, l) \in Nat
    PROVE  LET s == StartCol(T[d + 1], k, d)
           IN  /\ GoesDown(T[d + 1], k, d) => k # d /\ s = Far(old, new, T, d - 1, k + 1)
               /\ ~ GoesDown(T[d + 1], k, d) => k # -d /\ s = Far(old, new, T, d - 1, k - 1) + 1
               /\ k # -d => s >= Far(old, new, T, d - 1, k - 1) + 1
               /\ k # d => s >= Far(old, new, T, d - 1, k + 1)
<1>1. k \in Int /\ -d <= k /\ k <= d /\ (k # -d => k - 1 \in Diags(d - 1)) /\ (k # d => k + 1 \in Diags(d - 1))
      /\ d \in Nat
  BY DiagsAre DEF Traced
<1>2. PICK f : f = T[d + 1]
  OBVIOUS
<1>3. k # -d => f[k - 1] = Far(old, new, T, d - 1, k - 1) /\ f[k - 1] \in Nat
  BY <1>1, <1>2, TraceFar
<1>4. k # d => f[k + 1] = Far(old, new, T, d - 1, k + 1) /\ f[k + 1] \in Nat
  BY <1>1, <1>2, TraceFar
<1>5. d # -d
  BY <1>1
<1>6. CASE GoesDown(f, k, d)
  <2>1. k # d
    BY <1>5, <1>6 DEF GoesDown
  <2>2. StartCol(f, k, d) = f[k + 1]
    BY <1>6 DEF StartCol, Pick
  <2>3. k # -d => f[k - 1] < f[k + 1]
    BY <1>6 DEF GoesDown
  <2> QED
    BY <1>2, <1>3, <1>4, <1>6, <2>1, <2>2, <2>3
<1>7. CASE ~ GoesDown(f, k, d)
  <2>1. k # -d /\ (k # d => ~ (f[k - 1] < f[k + 1]))
    BY <1>7 DEF GoesDown
  <2>2. StartCol(f, k, d) = f[k - 1] + 1
    BY <1>7 DEF StartCol, Pick
  <2> QED
    BY <1>2, <1>3, <1>4, <1>7, <2>1, <2>2
<1> QED
  BY <1>2, <1>6, <1>7

(* Where the last step of a path on a diagonal starts, and where it ends.    *)
FarSound(old, new, T, d, k) ==
    LET s == StartCol(T[d + 1], k, d)
    IN  /\ s \in Nat /\ s - k \in Nat /\ 2 * s - k >= d
        /\ Far(old, new, T, d, k) = s + Agree(old, new, s, s - k)
        /\ Far(old, new, T, d, k) \in Nat /\ Far(old, new, T, d, k) >= s

LEMMA FarSoundIf ==
    ASSUME NEW old, NEW new, NEW T, NEW D, Traced(old, new, T, D), NEW d \in 0..D, NEW k \in Int,
           NEW s \in Nat, s = StartCol(T[d + 1], k, d), s - k >= 0, 2 * s - k >= d
    PROVE  FarSound(old, new, T, d, k)
<1>1. s - k \in Nat /\ Larger(0, s - k) = s - k
  BY DEF Larger, Pick
<1>2. PICK g : g = Agree(old, new, s, s - k)
  OBVIOUS
<1>3. g \in Nat
  BY <1>1, <1>2, AgreeIs DEF Traced, AgreeSound
<1>4. Far(old, new, T, d, k) = s + g
  BY <1>1, <1>2 DEF Far, Reach
<1> QED
  BY <1>1, <1>2, <1>3, <1>4 DEF FarSound

LEMMA FirstDown ==
    ASSUME NEW f, NEW k \in Int, NEW d \in Int, k + d = 0
    PROVE  GoesDown(f, k, d) /\ StartCol(f, k, d) = f[k + 1]
<1>1. k = -d
  OBVIOUS
<1> QED
  BY <1>1 DEF GoesDown, StartCol, Pick

LEMMA AllFarSound ==
    ASSUME NEW old, NEW new, NEW T, NEW D, Traced(old, new, T, D)
    PROVE  \A d \in 0..D : \A k \in Diags(d) : FarSound(old, new, T, d, k)
<1> DEFINE P == {d \in 0..D : \A k \in Diags(d) : FarSound(old, new, T, d, k)}
<1>1. D \in Nat
  BY DEF Traced
<1>2. 0 \in P
  <2> SUFFICES ASSUME NEW k \in Diags(0) PROVE FarSound(old, new, T, 0, k)
    BY <1>1
  <2>1. k = 0
    BY DiagsAre
  <2>2. T[1][1] = 0
    <3>1. Len(T) > 0 /\ 1 \in -(Len(old) + Len(new))..(Len(old) + Len(new))
      BY DEF Traced, GoodTrace
    <3> QED
      BY <3>1 DEF Traced, GoodTrace
  <2>3. StartCol(T[0 + 1], k, 0) = 0
    <3>1. 0 + 1 = 1 /\ k + 1 = 1 /\ k + 0 = 0 /\ k \in Int /\ 0 \in Int
      BY <2>1
    <3>2. StartCol(T[0 + 1], k, 0) = T[0 + 1][k + 1]
      BY <3>1, FirstDown
    <3> QED
      BY <2>2, <3>1, <3>2
  <2> QED
    BY <1>1, <2>1, <2>3, FarSoundIf
<1>3. ASSUME NEW e \in P, e \in Nat, e < D PROVE e + 1 \in P
  <2>1. e + 1 \in 1..D /\ (e + 1) - 1 = e /\ e + 1 \in 0..D
    BY <1>1, <1>3
  <2>2. PICK d \in 1..D : d = e + 1
    BY <2>1
  <2> SUFFICES ASSUME NEW k \in Diags(d) PROVE FarSound(old, new, T, d, k)
    BY <2>1, <2>2
  <2>3. k \in Int /\ (k # -d => k - 1 \in Diags(d - 1)) /\ (k # d => k + 1 \in Diags(d - 1)) /\ d \in Nat /\ d - 1 = e
    BY <1>1, <2>2, DiagsAre
  <2>4. \A l \in Diags(d - 1) : FarSound(old, new, T, d - 1, l)
    BY <1>3, <2>3
  <2>5. \A l \in Diags(d - 1) : l \in Int /\ Far(old, new, T, d - 1, l) \in Nat
                                /\ Far(old, new, T, d - 1, l) - l >= 0
                                /\ 2 * Far(old, new, T, d - 1, l) - l >= d - 1
    <3> SUFFICES ASSUME NEW l \in Diags(d - 1)
                 PROVE  l \in Int /\ Far(old, new, T, d - 1, l) \in Nat
                        /\ Far(old, new, T, d - 1, l) - l >= 0
                        /\ 2 * Far(old, new, T, d - 1, l) - l >= d - 1
      OBVIOUS
    <3>1. l \in Int
      BY <2>3, <1>3, DiagsAre
    <3>2. PICK s : s = StartCol(T[(d - 1) + 1], l, d - 1)
      OBVIOUS
    <3> QED
      BY <2>3, <2>4, <3>1, <3>2 DEF FarSound
  <2>6. PICK s : s = StartCol(T[d + 1], k, d)
    OBVIOUS
  <2>7. \/ k + 1 \in Diags(d - 1) /\ s = Far(old, new, T, d - 1, k + 1)
        \/ k - 1 \in Diags(d - 1) /\ s = Far(old, new, T, d - 1, k - 1) + 1
    BY <2>3, <2>5, <2>6, StartIs
  <2>8. s \in Nat /\ s - k >= 0 /\ 2 * s - k >= d
    <3>1. CASE k + 1 \in Diags(d - 1) /\ s = Far(old, new, T, d - 1, k + 1)
      <4>1. s \in Nat /\ s - (k + 1) >= 0 /\ 2 * s - (k + 1) >= d - 1
        BY <2>5, <3>1
      <4> QED
        BY <2>3, <4>1
    <3>2. CASE k - 1 \in Diags(d - 1) /\ s = Far(old, new, T, d - 1, k - 1) + 1
      <4>1. PICK x : x = Far(old, new, T, d - 1, k - 1)
        OBVIOUS
      <4>2. x \in Nat /\ x - (k - 1) >= 0 /\ 2 * x - (k - 1) >= d - 1 /\ s = x + 1
        BY <2>5, <3>2, <4>1
      <4> QED
        BY <2>3, <4>2
    <3> QED
      BY <2>7, <3>1, <3>2
  <2>9. d \in 0..D
    BY <2>3
  <2> QED
    BY <2>3, <2>6, <2>8, <2>9, FarSoundIf
<1>4. \A d \in 0..D : d \in P
  <2> SUFFICES ASSUME NEW d \in 0..D PROVE d \in P
    OBVIOUS
  <2>1. \A e \in P : e \in Nat /\ e < d => e + 1 \in P
    BY <1>1, <1>3
  <2>2. d \in Nat
    BY <1>1
  <2> HIDE DEF P
  <2> QED BY <1>2, <2>1, <2>2, UpTo
<1> QED
  BY <1>4

(* The same, with the step that leads there.                                 *)
FarHow(old, new, T, d, k, s, x) ==
    /\ k \in Int /\ s \in Nat /\ s - k >= 0 /\ x \in Nat /\ x >= s /\ x - k >= 0 /\ 2 * x - k >= d
    /\ x > s => x <= Len(old) /\ x - k <= Len(new)
    /\ \A i \in 1..(x - s) : old[s + i] = new[s - k + i]
    /\ ~ (x < Len(old) /\ x - k < Len(new) /\ old[x + 1] = new[x - k + 1])
    /\ d = 0 => s = 0 /\ k = 0
    /\ d > 0 => /\ GoesDown(T[d + 1], k, d) => k # d /\ s = Far(old, new, T, d - 1, k + 1)
                /\ ~ GoesDown(T[d + 1], k, d) => k # -d /\ s = Far(old, new, T, d - 1, k - 1) + 1
                /\ k # -d => s >= Far(old, new, T, d - 1, k - 1) + 1
                /\ k # d => s >= Far(old, new, T, d - 1, k + 1)

LEMMA FarIs ==
    ASSUME NEW old, NEW new, NEW T, NEW D, Traced(old, new, T, D), NEW d \in 0..D, NEW k \in Diags(d)
    PROVE  FarHow(old, new, T, d, k, StartCol(T[d + 1], k, d), Far(old, new, T, d, k))
<1>1. PICK s, x : s = StartCol(T[d + 1], k, d) /\ x = Far(old, new, T, d, k)
  OBVIOUS
<1>2. PICK g : g = Agree(old, new, s, s - k)
  OBVIOUS
<1>3. D \in Nat /\ k \in Int /\ Len(old) \in Nat /\ Len(new) \in Nat /\ -d <= k /\ k <= d
  BY DiagsAre DEF Traced
<1>4. s \in Nat /\ s - k \in Nat /\ 2 * s - k >= d /\ x = s + g /\ x \in Nat /\ x >= s
  BY <1>1, <1>2, AllFarSound DEF FarSound
<1>5. /\ g \in Nat /\ (g > 0 => s + g <= Len(old) /\ (s - k) + g <= Len(new))
      /\ \A i \in 1..g : old[s + i] = new[(s - k) + i]
      /\ ~ (s + g < Len(old) /\ (s - k) + g < Len(new) /\ old[s + g + 1] = new[(s - k) + g + 1])
  <2>1. PICK y \in Nat : y = s - k
    BY <1>4
  <2>2. g = Agree(old, new, s, y) /\ s \in Nat
    BY <1>2, <1>4, <2>1
  <2>3. AgreeSound(old, new, s, y, g)
    BY <1>3, <2>2, AgreeIs
  <2> QED
    BY <2>1, <2>3 DEF AgreeSound
<1>6. x - s = g /\ x - k = (s - k) + g
  <2>1. g \in Nat
    BY <1>5
  <2> QED
    BY <1>3, <1>4, <2>1
<1>7. d = 0 => s = 0 /\ k = 0
  <2> SUFFICES ASSUME d = 0 PROVE s = 0 /\ k = 0
    OBVIOUS
  <2>1. k = 0
    BY <1>3
  <2>2. Len(T) > 0 /\ 1 \in -(Len(old) + Len(new))..(Len(old) + Len(new))
    BY DEF Traced, GoodTrace
  <2>3. T[1][1] = 0
    BY <2>2 DEF Traced, GoodTrace
  <2>4. d + 1 = 1 /\ k + 1 = 1 /\ k + d = 0 /\ k \in Int /\ d \in Int
    BY <2>1
  <2>5. StartCol(T[d + 1], k, d) = T[d + 1][k + 1]
    BY <2>4, FirstDown
  <2> QED
    BY <1>1, <2>1, <2>3, <2>4, <2>5
<1>8. d > 0 => /\ GoesDown(T[d + 1], k, d) => k # d /\ s = Far(old, new, T, d - 1, k + 1)
               /\ ~ GoesDown(T[d + 1], k, d) => k # -d /\ s = Far(old, new, T, d - 1, k - 1) + 1
               /\ k # -d => s >= Far(old, new, T, d - 1, k - 1) + 1
               /\ k # d => s >= Far(old, new, T, d - 1, k + 1)
  <2> SUFFICES ASSUME d > 0
               PROVE  /\ GoesDown(T[d + 1], k, d) => k # d /\ s = Far(old, new, T, d - 1, k + 1)
                      /\ ~ GoesDown(T[d + 1], k, d) => k # -d /\ s = Far(old, new, T, d - 1, k - 1) + 1
                      /\ k # -d => s >= Far(old, new, T, d - 1, k - 1) + 1
                      /\ k # d => s >= Far(old, new, T, d - 1, k + 1)
    OBVIOUS
  <2>1. d \in 1..D /\ d - 1 \in 0..D
    BY <1>3
  <2>2. \A l \in Diags(d - 1) : Far(old, new, T, d - 1, l) \in Nat
    <3> SUFFICES ASSUME NEW l \in Diags(d - 1) PROVE Far(old, new, T, d - 1, l) \in Nat
      OBVIOUS
    <3>1. PICK r : r = StartCol(T[(d - 1) + 1], l, d - 1)
      OBVIOUS
    <3>2. FarSound(old, new, T, d - 1, l)
      BY <2>1, AllFarSound
    <3> QED
      BY <3>1, <3>2 DEF FarSound
  <2> QED
    BY <1>1, <2>1, <2>2, StartIs
<1>9. \A i \in 1..g : old[s + i] = new[s - k + i]
  BY <1>5
<1>10. x - k >= 0 /\ 2 * x - k >= d
  BY <1>3, <1>4, <1>5
<1>11. x > s => x <= Len(old) /\ x - k <= Len(new)
  BY <1>3, <1>4, <1>5, <1>6
<1>12. ~ (x < Len(old) /\ x - k < Len(new) /\ old[x + 1] = new[x - k + 1])
  <2>1. s + g + 1 = x + 1 /\ (s - k) + g + 1 = x - k + 1 /\ s + g = x
    BY <1>3, <1>4, <1>5
  <2> QED
    BY <1>5, <1>6, <2>1
<1>13. FarHow(old, new, T, d, k, s, x)
  BY <1>3, <1>4, <1>6, <1>7, <1>8, <1>9, <1>10, <1>11, <1>12 DEF FarHow
<1> QED
  BY <1>1, <1>13

(* A path that has run past the last column has run past it on the diagonal  *)
(* beside it too.                                                            *)
LEMMA ColsOver ==
    ASSUME NEW old, NEW new, NEW T, NEW D, Traced(old, new, T, D)
    PROVE  \A d \in 0..D : \A k \in Diags(d) :
               Far(old, new, T, d, k) > Len(old)
                   => k # -d /\ Far(old, new, T, d, k - 2) >= Far(old, new, T, d, k) - 1
<1> DEFINE X(d, k) == Far(old, new, T, d, k)
           Holds(d) == \A k \in Diags(d) : X(d, k) > Len(old) => k # -d /\ X(d, k - 2) >= X(d, k) - 1
           P == {d \in 0..D : Holds(d)}
<1>1. D \in Nat /\ Len(old) \in Nat /\ Len(new) \in Nat
  BY DEF Traced
<1>2. ASSUME NEW d \in 0..D, d > 0 => Holds(d - 1) PROVE Holds(d)
  <2> SUFFICES ASSUME NEW k \in Diags(d), X(d, k) > Len(old)
               PROVE  k # -d /\ X(d, k - 2) >= X(d, k) - 1
    OBVIOUS
  <2>1. PICK x, s : x = X(d, k) /\ s = StartCol(T[d + 1], k, d)
    OBVIOUS
  <2>2. FarHow(old, new, T, d, k, s, x)
    BY <2>1, FarIs
  <2>3. x > Len(old) /\ x \in Nat /\ s \in Nat /\ k \in Int
    BY <2>1, <2>2 DEF FarHow
  <2>4. s = x
    BY <1>1, <2>2, <2>3 DEF FarHow
  <2>5. d > 0
    BY <1>1, <2>2, <2>3, <2>4 DEF FarHow
  <2>6. d - 1 \in 0..D /\ d - 1 \in Nat /\ d \in Nat /\ Holds(d - 1)
    BY <1>1, <1>2, <2>5
  <2>7. ASSUME k # -d, X(d - 1, k - 1) >= x - 1, k - 1 \in Diags(d - 1), X(d - 1, k - 1) \in Nat
        PROVE  X(d, k - 2) >= x - 1
    <3>1. k - 2 \in Diags(d) /\ k <= d
      BY <2>6, <2>7, DiagsAre
    <3>2. PICK y, r : y = X(d, k - 2) /\ r = StartCol(T[d + 1], k - 2, d)
      OBVIOUS
    <3>3. FarHow(old, new, T, d, k - 2, r, y)
      BY <3>1, <3>2, FarIs
    <3>4. k - 2 # d /\ (k - 2) + 1 = k - 1
      BY <2>3, <2>6, <3>1
    <3>5. r >= X(d - 1, k - 1) /\ y >= r /\ r \in Nat /\ y \in Nat
      BY <2>5, <3>3, <3>4 DEF FarHow
    <3> QED
      BY <2>3, <2>7, <3>2, <3>5
  <2>8. CASE GoesDown(T[d + 1], k, d)
    <3>1. k # d /\ x = X(d - 1, k + 1)
      BY <2>2, <2>4, <2>5, <2>8 DEF FarHow
    <3>2. k + 1 \in Diags(d - 1)
      BY <2>6, <3>1, DiagsAre
    <3>3. k + 1 # -(d - 1) /\ X(d - 1, (k + 1) - 2) >= X(d - 1, k + 1) - 1
      BY <2>3, <2>6, <3>1, <3>2
    <3>4. (k + 1) - 2 = k - 1 /\ k # -d
      BY <2>3, <2>6, <3>3
    <3>5. k - 1 \in Diags(d - 1)
      BY <2>6, <3>4, DiagsAre
    <3>6. X(d - 1, k - 1) \in Nat
      BY <2>6, <3>5, FarIs DEF FarHow
    <3> QED
      BY <2>1, <2>7, <3>1, <3>3, <3>4, <3>5, <3>6
  <2>9. CASE ~ GoesDown(T[d + 1], k, d)
    <3>1. k # -d /\ x = X(d - 1, k - 1) + 1
      BY <2>2, <2>4, <2>5, <2>9 DEF FarHow
    <3>2. k - 1 \in Diags(d - 1)
      BY <2>6, <3>1, DiagsAre
    <3>3. X(d - 1, k - 1) \in Nat
      BY <2>6, <3>2, FarIs DEF FarHow
    <3>4. X(d - 1, k - 1) >= x - 1
      BY <3>1, <3>3
    <3> QED
      BY <2>1, <2>7, <3>1, <3>2, <3>3, <3>4
  <2> QED
    BY <2>8, <2>9
<1>3. 0 \in P
  <2>1. 0 \in 0..D
    BY <1>1
  <2> HIDE DEF Holds
  <2> QED BY <1>2, <2>1
<1>4. ASSUME NEW e \in P, e \in Nat, e < D PROVE e + 1 \in P
  <2>1. e + 1 \in 0..D /\ (e + 1) - 1 = e
    BY <1>1, <1>4
  <2> HIDE DEF Holds
  <2> QED BY <1>2, <1>4, <2>1
<1>5. \A d \in 0..D : d \in P
  <2> SUFFICES ASSUME NEW d \in 0..D PROVE d \in P
    OBVIOUS
  <2>1. \A e \in P : e \in Nat /\ e < d => e + 1 \in P
    <3> HIDE DEF P
    <3> QED BY <1>1, <1>4
  <2>2. d \in Nat
    BY <1>1
  <2> HIDE DEF P
  <2> QED BY <1>3, <2>1, <2>2, UpTo
<1> QED
  BY <1>5

(* And so has one that has run past the last row.                            *)
LEMMA RowsOver ==
    ASSUME NEW old, NEW new, NEW T, NEW D, Traced(old, new, T, D)
    PROVE  \A d \in 0..D : \A k \in Diags(d) :
               Far(old, new, T, d, k) - k > Len(new)
                   => k # d /\ Far(old, new, T, d, k + 2) >= Far(old, new, T, d, k) + 1
<1> DEFINE X(d, k) == Far(old, new, T, d, k)
           Holds(d) == \A k \in Diags(d) : X(d, k) - k > Len(new) => k # d /\ X(d, k + 2) >= X(d, k) + 1
           P == {d \in 0..D : Holds(d)}
<1>1. D \in Nat /\ Len(old) \in Nat /\ Len(new) \in Nat
  BY DEF Traced
<1>2. ASSUME NEW d \in 0..D, d > 0 => Holds(d - 1) PROVE Holds(d)
  <2> SUFFICES ASSUME NEW k \in Diags(d), X(d, k) - k > Len(new)
               PROVE  k # d /\ X(d, k + 2) >= X(d, k) + 1
    OBVIOUS
  <2>1. PICK x, s : x = X(d, k) /\ s = StartCol(T[d + 1], k, d)
    OBVIOUS
  <2>2. FarHow(old, new, T, d, k, s, x)
    BY <2>1, FarIs
  <2>3. x - k > Len(new) /\ x \in Nat /\ s \in Nat /\ k \in Int
    BY <2>1, <2>2 DEF FarHow
  <2>4. s = x
    <3>1. x >= s /\ (x > s => x - k <= Len(new))
      BY <2>2 DEF FarHow
    <3>2. Len(new) \in Nat
      BY <1>1
    <3> QED
      BY ONLY <2>3, <3>1, <3>2
  <2>5. d > 0
    <3>1. d = 0 => s = 0 /\ k = 0
      BY <2>2 DEF FarHow
    <3> QED
      BY <1>1, <2>3, <2>4, <3>1
  <2>6. d - 1 \in 0..D /\ d - 1 \in Nat /\ d \in Nat /\ Holds(d - 1)
    BY <1>1, <1>2, <2>5
  <2>7. ASSUME k # d, X(d - 1, k + 1) >= x, k + 1 \in Diags(d - 1), X(d - 1, k + 1) \in Nat
        PROVE  X(d, k + 2) >= x + 1
    <3>1. k + 2 \in Diags(d) /\ -d <= k
      BY <2>6, <2>7, DiagsAre
    <3>2. PICK y, r : y = X(d, k + 2) /\ r = StartCol(T[d + 1], k + 2, d)
      OBVIOUS
    <3>3. FarHow(old, new, T, d, k + 2, r, y)
      BY <3>1, <3>2, FarIs
    <3>4. k + 2 # -d /\ (k + 2) - 1 = k + 1
      BY <2>3, <2>6, <3>1
    <3>5. r >= X(d - 1, k + 1) + 1 /\ y >= r /\ r \in Nat /\ y \in Nat
      BY <2>5, <3>3, <3>4 DEF FarHow
    <3> QED
      BY <2>3, <2>7, <3>2, <3>5
  <2>8. CASE ~ GoesDown(T[d + 1], k, d)
    <3>1. k # -d /\ x = X(d - 1, k - 1) + 1
      BY <2>2, <2>4, <2>5, <2>8 DEF FarHow
    <3>2. k - 1 \in Diags(d - 1)
      BY <2>6, <3>1, DiagsAre
    <3>3. X(d - 1, k - 1) \in Nat
      BY <2>6, <3>2, FarIs DEF FarHow
    <3>4. X(d - 1, k - 1) - (k - 1) > Len(new)
      BY <1>1, <2>3, <3>1, <3>3
    <3>5. k - 1 # d - 1 /\ X(d - 1, (k - 1) + 2) >= X(d - 1, k - 1) + 1
      BY <2>6, <3>2, <3>4
    <3>6. (k - 1) + 2 = k + 1 /\ k # d
      BY <2>3, <2>6, <3>5
    <3>7. k + 1 \in Diags(d - 1)
      BY <2>6, <3>6, DiagsAre
    <3>8. X(d - 1, k + 1) \in Nat
      BY <2>6, <3>7, FarIs DEF FarHow
    <3> QED
      BY <2>1, <2>7, <3>1, <3>5, <3>6, <3>7, <3>8
  <2>9. CASE GoesDown(T[d + 1], k, d)
    <3>1. k # d /\ x = X(d - 1, k + 1)
      BY <2>2, <2>4, <2>5, <2>9 DEF FarHow
    <3>2. k + 1 \in Diags(d - 1)
      BY <2>6, <3>1, DiagsAre
    <3>3. X(d - 1, k + 1) \in Nat /\ X(d - 1, k + 1) >= x
      BY <2>3, <3>1
    <3> QED
      BY <2>1, <2>7, <3>1, <3>2, <3>3
  <2> QED
    BY <2>8, <2>9
<1>3. 0 \in P
  <2>1. 0 \in 0..D
    BY <1>1
  <2> HIDE DEF Holds
  <2> QED BY <1>2, <2>1
<1>4. ASSUME NEW e \in P, e \in Nat, e < D PROVE e + 1 \in P
  <2>1. e + 1 \in 0..D /\ (e + 1) - 1 = e
    BY <1>1, <1>4
  <2> HIDE DEF Holds
  <2> QED BY <1>2, <1>4, <2>1
<1>5. \A d \in 0..D : d \in P
  <2> SUFFICES ASSUME NEW d \in 0..D PROVE d \in P
    OBVIOUS
  <2>1. \A e \in P : e \in Nat /\ e < d => e + 1 \in P
    <3> HIDE DEF P
    <3> QED BY <1>1, <1>4
  <2>2. d \in Nat
    BY <1>1
  <2> HIDE DEF P
  <2> QED BY <1>3, <2>1, <2>2, UpTo
<1> QED
  BY <1>5

(* The first path to get to the end ends exactly there.                      *)
LEMMA EndExact ==
    ASSUME NEW old, NEW new, NEW T, NEW D, Traced(old, new, T, D), NEW k \in Diags(D),
           Ends(old, new, Far(old, new, T, D, k), k)
    PROVE  Far(old, new, T, D, k) = Len(old) /\ k = Len(old) - Len(new)
<1> DEFINE X(d, l) == Far(old, new, T, d, l)
<1>1. D \in Nat /\ Len(old) \in Nat /\ Len(new) \in Nat /\ D \in 0..D
  BY DEF Traced
<1>2. PICK x, s : x = X(D, k) /\ s = StartCol(T[D + 1], k, D)
  OBVIOUS
<1>3. FarHow(old, new, T, D, k, s, x)
  BY <1>1, <1>2, FarIs
<1>4. x >= Len(old) /\ x - k >= Len(new) /\ x \in Nat /\ s \in Nat /\ k \in Int
  BY <1>2, <1>3 DEF Ends, FarHow
<1> SUFFICES ASSUME ~ (x = Len(old) /\ x - k = Len(new)) PROVE FALSE
  BY <1>1, <1>2, <1>4
<1>5. s = x
  BY <1>1, <1>3, <1>4 DEF FarHow
<1>6. D > 0
  <2>1. D = 0 => s = 0 /\ k = 0
    BY <1>3 DEF FarHow
  <2> QED
    BY <1>1, <1>4, <1>5, <2>1
<1>7. D - 1 \in 0..D /\ D \in 1..D /\ D - 1 \in Nat
  BY <1>1, <1>6
<1>8. \A l \in Diags(D - 1) : l \in Int /\ X(D - 1, l) \in Nat /\ ~ (X(D - 1, l) >= Len(old) /\ X(D - 1, l) - l >= Len(new))
  <2> SUFFICES ASSUME NEW l \in Diags(D - 1)
               PROVE  l \in Int /\ X(D - 1, l) \in Nat /\ ~ (X(D - 1, l) >= Len(old) /\ X(D - 1, l) - l >= Len(new))
    OBVIOUS
  <2>1. ~ Ends(old, new, X(D - 1, l), l)
    BY <1>7, TraceFar
  <2>2. l \in Int /\ X(D - 1, l) \in Nat
    BY <1>7, FarIs DEF FarHow
  <2> QED
    BY <2>1, <2>2 DEF Ends
<1>9. CASE GoesDown(T[D + 1], k, D)
  <2>1. k # D /\ x = X(D - 1, k + 1)
    BY <1>3, <1>5, <1>6, <1>9 DEF FarHow
  <2>2. k + 1 \in Diags(D - 1)
    BY <1>1, <2>1, DiagsAre
  <2>3. ~ (x - (k + 1) >= Len(new))
    BY <1>4, <1>8, <2>1, <2>2
  <2>4. x - k = Len(new) /\ x > Len(old)
    BY <1>1, <1>4, <2>3
  <2>5. k + 1 # -(D - 1) /\ X(D - 1, (k + 1) - 2) >= x - 1
    BY <1>7, <2>1, <2>2, <2>4, ColsOver
  <2>6. (k + 1) - 2 = k - 1 /\ k # -D
    BY <1>4, <1>7, <2>5
  <2>7. k - 1 \in Diags(D - 1)
    BY <1>1, <2>6, DiagsAre
  <2>8. X(D - 1, k - 1) >= Len(old) /\ X(D - 1, k - 1) - (k - 1) >= Len(new)
    <3>1. PICK y \in Nat : y = X(D - 1, k - 1)
      BY <1>8, <2>7
    <3>2. y >= x - 1
      BY <2>5, <2>6, <3>1
    <3> QED
      BY <1>1, <1>4, <2>4, <3>1, <3>2
  <2> QED
    BY <1>8, <2>7, <2>8
<1>10. CASE ~ GoesDown(T[D + 1], k, D)
  <2>1. k # -D /\ x = X(D - 1, k - 1) + 1
    BY <1>3, <1>5, <1>6, <1>10 DEF FarHow
  <2>2. k - 1 \in Diags(D - 1)
    BY <1>1, <2>1, DiagsAre
  <2>3. PICK y \in Nat : y = X(D - 1, k - 1)
    BY <1>8, <2>2
  <2>4. y = x - 1
    BY <1>4, <2>1, <2>3
  <2>5. ~ (y >= Len(old) /\ y - (k - 1) >= Len(new))
    BY <1>8, <2>2, <2>3
  <2>6. x = Len(old) /\ x - k > Len(new) /\ y - (k - 1) > Len(new)
    BY <1>1, <1>4, <2>4, <2>5
  <2>7. k - 1 # D - 1 /\ X(D - 1, (k - 1) + 2) >= y + 1
    BY <1>7, <2>2, <2>3, <2>6, RowsOver
  <2>8. (k - 1) + 2 = k + 1 /\ k # D
    BY <1>4, <1>7, <2>7
  <2>9. k + 1 \in Diags(D - 1)
    BY <1>1, <2>8, DiagsAre
  <2>10. X(D - 1, k + 1) >= Len(old) /\ X(D - 1, k + 1) - (k + 1) >= Len(new)
    <3>1. PICK z \in Nat : z = X(D - 1, k + 1)
      BY <1>8, <2>9
    <3>2. z >= y + 1
      BY <2>7, <2>8, <3>1
    <3> QED
      BY <1>1, <1>4, <2>4, <2>6, <3>1, <3>2
  <2> QED
    BY <1>8, <2>9, <2>10
<1> QED
  BY <1>9, <1>10

(* No search goes on past the round of all lines of both texts.              *)
LEMMA EndsByThen ==
    ASSUME NEW old, NEW new, NEW T, NEW D, Traced(old, new, T, D), D = Len(old) + Len(new)
    PROVE  Len(old) - Len(new) \in Diags(D) /\ Ends(old, new, Far(old, new, T, D, Len(old) - Len(new)), Len(old) - Len(new))
<1>1. PICK n \in Nat, m \in Nat : n = Len(old) /\ m = Len(new) /\ D = n + m
  BY DEF Traced
<1>2. n - m \in Diags(D)
  <2>1. n + 1 \in 1..(D + 1) /\ n - m = 2 * (n + 1) - 2 - D
    BY <1>1
  <2> QED
    BY <2>1 DEF Diags
<1>3. PICK x, s : x = Far(old, new, T, D, n - m) /\ s = StartCol(T[D + 1], n - m, D)
  OBVIOUS
<1>4. FarHow(old, new, T, D, n - m, s, x)
  BY <1>1, <1>2, <1>3, FarIs
<1>5. x \in Nat /\ 2 * x - (n - m) >= n + m
  BY <1>1, <1>4 DEF FarHow
<1> QED
  BY <1>1, <1>2, <1>3, <1>5 DEF Ends

(* What the search leaves: a trace whose last round gets to the end.         *)
Found(old, new, T) ==
    /\ Len(T) >= 1 /\ Traced(old, new, T, Len(T) - 1)
    /\ Len(old) - Len(new) \in Diags(Len(T) - 1)
    /\ Far(old, new, T, Len(T) - 1, Len(old) - Len(new)) = Len(old)

LEMMA SearchIs ==
    ASSUME NEW old, NEW new, Len(old) \in Nat, Len(new) \in Nat, Len(old) + Len(new) >= 1
    PROVE  Found(old, new, Search(old, new).trace)
<1>1. PICK most \in Nat : most = Len(old) + Len(new)
  OBVIOUS
<1>2. PICK s : s = Search(old, new)
  OBVIOUS
<1>3. SearchPart(old, new, most + 1, s)
  BY <1>1, <1>2, SearchParts
<1>4. PICK T : T = s.trace
  OBVIOUS
<1>5. s.found
  <2> SUFFICES ASSUME ~ s.found PROVE FALSE
    OBVIOUS
  <2>1. PICK f : f = s.frontier
    OBVIOUS
  <2>2. /\ GoodTrace(old, new, Append(T, f)) /\ Len(T) = most + 1 /\ T \in Seq(Fronts(most))
        /\ f \in Fronts(most)
    BY <1>1, <1>3, <1>4, <2>1 DEF SearchPart
  <2>3. PICK U : U = Append(T, f)
    OBVIOUS
  <2>4. Len(U) = most + 2 /\ GoodTrace(old, new, U)
    BY <2>2, <2>3
  <2>5. Traced(old, new, U, most)
    BY <1>1, <2>4 DEF Traced
  <2>6. PICK k : k = Len(old) - Len(new)
    OBVIOUS
  <2>7. k \in Diags(most) /\ Ends(old, new, Far(old, new, U, most, k), k)
    BY <1>1, <2>5, <2>6, EndsByThen
  <2>8. most + 1 \in 1..(Len(U) - 1) /\ (most + 1) - 1 = most
    BY <2>4
  <2>9. k \in Int
    BY <2>6
  <2>10. U[(most + 1) + 1][k] = Reach(old, new, U[most + 1], k, most) /\ ~ Ends(old, new, U[(most + 1) + 1][k], k)
    BY <2>4, <2>7, <2>8, <2>9 DEF GoodTrace
  <2> QED
    BY <2>7, <2>10 DEF Far
<1>6. /\ GoodTrace(old, new, T) /\ Len(T) \in 1..(most + 1)
      /\ \E k \in Diags(Len(T) - 1) : Ends(old, new, Reach(old, new, T[Len(T)], k, Len(T) - 1), k)
  BY <1>3, <1>4, <1>5 DEF SearchPart
<1>7. PICK D : D = Len(T) - 1
  OBVIOUS
<1>8. D \in Nat /\ D + 1 = Len(T) /\ D \in 0..most
  BY <1>6, <1>7
<1>9. Traced(old, new, T, D)
  BY <1>1, <1>6, <1>8 DEF Traced
<1>10. PICK k \in Diags(D) : Ends(old, new, Far(old, new, T, D, k), k)
  BY <1>6, <1>7, <1>8 DEF Far
<1>11. Far(old, new, T, D, k) = Len(old) /\ k = Len(old) - Len(new)
  BY <1>9, <1>10, EndExact
<1>12. Found(old, new, T)
  BY <1>6, <1>7, <1>9, <1>10, <1>11 DEF Found
<1> QED
  BY <1>2, <1>4, <1>12

-----------------------------------------------------------------------------
(* No edit script is shorter.                                                *)

(* A list that both texts hold, counted along each: how much of it is behind *)
(* a line, where the first p lines of each text were cut off.                *)
Counts(n, p, a) ==
    /\ a \in [0..n -> Nat]
    /\ \A i \in 0..n : a[i] <= p + i
    /\ \A i \in 1..n : a[i - 1] <= a[i] /\ a[i] <= a[i - 1] + 1
Shared(old, new, a, b) ==
    \A i \in 1..Len(old), j \in 1..Len(new) :
        a[i] = a[i - 1] + 1 /\ b[j] = b[j - 1] + 1 /\ a[i] = b[j] => old[i] = new[j]

(* The search is as far as any such list allows.                             *)
Reached(old, new, T, p, c, i, j) ==
    /\ i - j \in Diags(i + j + 2 * p - 2 * c)
    /\ Far(old, new, T, i + j + 2 * p - 2 * c, i - j) >= i

LEMMA Furthest ==
    ASSUME NEW old, NEW new, NEW T, NEW D, Traced(old, new, T, D), NEW p \in Nat, NEW a, NEW b,
           Counts(Len(old), p, a), Counts(Len(new), p, b), Shared(old, new, a, b)
    PROVE  \A i \in 0..Len(old), j \in 0..Len(new), c \in Nat :
               c <= a[i] /\ c <= b[j] /\ i + j + 2 * p - 2 * c <= D => Reached(old, new, T, p, c, i, j)
<1>1. PICK n \in Nat, m \in Nat : n = Len(old) /\ m = Len(new)
  BY DEF Traced
<1> DEFINE Holds(i, j) == \A c \in Nat : c <= a[i] /\ c <= b[j] /\ i + j + 2 * p - 2 * c <= D
                                              => Reached(old, new, T, p, c, i, j)
           P == {t \in Nat : \A i \in 0..n, j \in 0..m : i + j = t => Holds(i, j)}
<1>2. ASSUME NEW i \in 0..n, NEW j \in 0..m, i > 0 => Holds(i - 1, j), j > 0 => Holds(i, j - 1),
             i > 0 /\ j > 0 => Holds(i - 1, j - 1)
      PROVE  Holds(i, j)
  <2> SUFFICES ASSUME NEW c \in Nat, c <= a[i], c <= b[j], i + j + 2 * p - 2 * c <= D
               PROVE  Reached(old, new, T, p, c, i, j)
    OBVIOUS
  <2>1. PICK e, k : e = i + j + 2 * p - 2 * c /\ k = i - j
    OBVIOUS
  <2>2. a[i] \in Nat /\ b[j] \in Nat /\ a[i] <= p + i /\ b[j] <= p + j
    BY <1>1 DEF Counts
  <2>3. e \in 0..D /\ k \in Int /\ D \in Nat
    <3>1. D \in Nat
      BY DEF Traced
    <3> QED
      BY <2>1, <2>2, <3>1
  <2>4. k \in Diags(e)
    <3>1. i + p - c + 1 \in 1..(e + 1) /\ k = 2 * (i + p - c + 1) - 2 - e
      BY <2>1, <2>2
    <3> QED
      BY <3>1 DEF Diags
  <2>5. PICK x, s : x = Far(old, new, T, e, k) /\ s = StartCol(T[e + 1], k, e)
    OBVIOUS
  <2>6. FarHow(old, new, T, e, k, s, x)
    BY <2>3, <2>4, <2>5, FarIs
  <2>7. x \in Nat /\ s \in Nat /\ x >= s /\ x - k >= 0
    BY <2>6 DEF FarHow
  <2> SUFFICES x >= i
    BY <2>1, <2>4, <2>5 DEF Reached
  <2>13. i > 0 => a[i - 1] \in Nat /\ a[i - 1] <= p + (i - 1) /\ a[i] <= a[i - 1] + 1
    <3>1. i > 0 => i - 1 \in 0..n /\ i \in 1..n
      OBVIOUS
    <3> QED
      BY <1>1, <3>1 DEF Counts
  <2>14. j > 0 => b[j - 1] \in Nat /\ b[j - 1] <= p + (j - 1) /\ b[j] <= b[j - 1] + 1
    <3>1. j > 0 => j - 1 \in 0..m /\ j \in 1..m
      OBVIOUS
    <3> QED
      BY <1>1, <3>1 DEF Counts
  <2>15. PICK A \in Nat, B \in Nat : A = a[i] /\ B = b[j]
    BY <2>2
  <2>8. CASE i = 0 \/ j = 0
    BY <2>1, <2>7, <2>8
  <2>9. CASE i > 0 /\ c <= a[i - 1]
    <3>1. a[i - 1] \in Nat /\ a[i - 1] <= p + (i - 1)
      BY <2>9, <2>13
    <3>2. Holds(i - 1, j)
      BY <1>2, <2>9
    <3>3. (i - 1) + j + 2 * p - 2 * c = e - 1 /\ (i - 1) - j = k - 1 /\ e - 1 <= D
      BY <2>1, <2>3
    <3>4. Reached(old, new, T, p, c, i - 1, j)
      BY <2>9, <3>2, <3>3
    <3>5. k - 1 \in Diags(e - 1) /\ Far(old, new, T, e - 1, k - 1) >= i - 1
      BY <3>3, <3>4 DEF Reached
    <3>6. e > 0
      BY <2>1, <2>2, <2>9, <3>1
    <3>7. k # -e
      <4>1. e - 1 \in Nat
        BY <2>3, <3>6
      <4>2. -(e - 1) <= k - 1
        BY <3>5, <4>1, DiagsAre
      <4> QED
        BY <2>3, <4>2
    <3>8. PICK y : y = Far(old, new, T, e - 1, k - 1)
      OBVIOUS
    <3>9. y \in Nat
      BY <2>3, <3>5, <3>6, <3>8, FarIs DEF FarHow
    <3>10. s >= y + 1
      BY <2>6, <3>6, <3>7, <3>8 DEF FarHow
    <3> QED
      BY <2>7, <3>5, <3>8, <3>9, <3>10
  <2>10. CASE j > 0 /\ c <= b[j - 1]
    <3>1. b[j - 1] \in Nat /\ b[j - 1] <= p + (j - 1)
      BY <2>10, <2>14
    <3>2. Holds(i, j - 1)
      BY <1>2, <2>10
    <3>3. i + (j - 1) + 2 * p - 2 * c = e - 1 /\ i - (j - 1) = k + 1 /\ e - 1 <= D
      BY <2>1, <2>3
    <3>4. Reached(old, new, T, p, c, i, j - 1)
      BY <2>10, <3>2, <3>3
    <3>5. k + 1 \in Diags(e - 1) /\ Far(old, new, T, e - 1, k + 1) >= i
      BY <3>3, <3>4 DEF Reached
    <3>6. e > 0
      BY <2>1, <2>2, <2>10, <3>1
    <3>7. k # e
      <4>1. e - 1 \in Nat
        BY <2>3, <3>6
      <4>2. k + 1 <= e - 1
        BY <3>5, <4>1, DiagsAre
      <4> QED
        BY <2>3, <4>2
    <3>8. PICK y : y = Far(old, new, T, e - 1, k + 1)
      OBVIOUS
    <3>9. y \in Nat
      BY <2>3, <3>5, <3>6, <3>8, FarIs DEF FarHow
    <3>10. s >= y
      BY <2>6, <3>6, <3>7, <3>8 DEF FarHow
    <3> QED
      BY <2>7, <3>5, <3>8, <3>9, <3>10
  <2>11. CASE i > 0 /\ j > 0 /\ c > a[i - 1] /\ c > b[j - 1]
    <3>1. i \in 1..n /\ j \in 1..m
      BY <2>11
    <3>2. PICK A0 \in Nat, B0 \in Nat : A0 = a[i - 1] /\ B0 = b[j - 1] /\ A <= A0 + 1 /\ B <= B0 + 1
      BY <2>11, <2>13, <2>14, <2>15
    <3>3. c = a[i] /\ c = b[j] /\ a[i] = a[i - 1] + 1 /\ b[j] = b[j - 1] + 1
      <4>1. c <= A /\ c <= B /\ c > A0 /\ c > B0
        BY <2>11, <2>15, <3>2
      <4>2. /\ c \in Nat /\ A \in Nat /\ B \in Nat /\ A0 \in Nat /\ B0 \in Nat
            /\ A <= A0 + 1 /\ B <= B0 + 1
        BY <2>15, <3>2
      <4>3. c = A /\ c = B /\ A = A0 + 1 /\ B = B0 + 1
        BY ONLY <4>1, <4>2
      <4> QED
        BY <2>15, <3>2, <4>3
    <3>4. old[i] = new[j]
      BY <1>1, <3>1, <3>3 DEF Shared
    <3>5. c - 1 \in Nat /\ c - 1 <= a[i - 1] /\ c - 1 <= b[j - 1]
      <4>1. c = A0 + 1 /\ c = B0 + 1
        BY <3>2, <3>3
      <4>2. c - 1 = A0 /\ c - 1 = B0
        BY <4>1
      <4> QED
        BY <3>2, <4>2
    <3>6. (i - 1) + (j - 1) + 2 * p - 2 * (c - 1) = e /\ (i - 1) - (j - 1) = k
      BY <2>1
    <3>7. Reached(old, new, T, p, c - 1, i - 1, j - 1)
      BY <1>2, <2>3, <2>11, <3>5, <3>6
    <3>8. x >= i - 1
      BY <2>5, <3>6, <3>7 DEF Reached
    <3>9. ~ (x < n /\ x - k < m /\ old[x + 1] = new[x - k + 1])
      BY <1>1, <2>6 DEF FarHow
    <3>10. x = i - 1 => x < n /\ x - k < m /\ x + 1 = i /\ x - k + 1 = j
      BY <2>1, <3>1
    <3>11. x # i - 1
      BY <3>4, <3>9, <3>10
    <3> QED
      BY <2>7, <3>8, <3>11
  <2>12. /\ i > 0 => a[i - 1] \in Nat
         /\ j > 0 => b[j - 1] \in Nat
    BY <2>13, <2>14
  <2> QED
    BY <2>8, <2>9, <2>10, <2>11, <2>12
<1>3. ASSUME NEW t \in Nat, \A u \in 0..(t - 1) : u \in P PROVE t \in P
  <2> SUFFICES ASSUME NEW i \in 0..n, NEW j \in 0..m, i + j = t PROVE Holds(i, j)
    OBVIOUS
  <2> HIDE DEF Holds
  <2>1. i > 0 => Holds(i - 1, j)
    <3>1. i > 0 => i - 1 \in 0..n /\ (i - 1) + j = t - 1 /\ t - 1 \in 0..(t - 1)
      OBVIOUS
    <3> QED
      BY <1>3, <3>1
  <2>2. j > 0 => Holds(i, j - 1)
    <3>1. j > 0 => j - 1 \in 0..m /\ i + (j - 1) = t - 1 /\ t - 1 \in 0..(t - 1)
      OBVIOUS
    <3> QED
      BY <1>3, <3>1
  <2>3. i > 0 /\ j > 0 => Holds(i - 1, j - 1)
    <3>1. i > 0 /\ j > 0 => i - 1 \in 0..n /\ j - 1 \in 0..m /\ (i - 1) + (j - 1) = t - 2 /\ t - 2 \in 0..(t - 1)
      OBVIOUS
    <3> QED
      BY <1>3, <3>1
  <2> QED
    BY <1>2, <2>1, <2>2, <2>3
<1>4. Nat \subseteq P
  <2> DEFINE Q == {t \in Nat : \A u \in 0..(t - 1) : u \in P}
  <2> HIDE DEF P
  <2>1. 0 \in Q
    OBVIOUS
  <2>2. ASSUME NEW t \in Q \cap Nat PROVE t + 1 \in Q
    <3>1. t \in P
      BY <1>3, <2>2
    <3>2. \A u \in 0..t : u \in 0..(t - 1) \/ u = t
      BY <2>2
    <3>3. (t + 1) - 1 = t
      BY <2>2
    <3> QED
      BY <2>2, <3>1, <3>2, <3>3
  <2>3. Nat \subseteq Q
    <3> HIDE DEF Q
    <3> QED BY <2>1, <2>2, SetInduction, Zenon
  <2> QED
    BY <1>3, <2>3
<1>5. \A i \in 0..n, j \in 0..m : Holds(i, j)
  <2> SUFFICES ASSUME NEW i \in 0..n, NEW j \in 0..m PROVE Holds(i, j)
    OBVIOUS
  <2>1. i + j \in P
    <3> HIDE DEF P
    <3> QED BY <1>4
  <2> HIDE DEF Holds
  <2> QED BY <2>1
<1> QED
  BY <1>1, <1>5

-----------------------------------------------------------------------------
(* Scripts: steps that lead from one place of the two texts to another.      *)

Kinds == {"eq", "ins", "del"}
Places == [col : Nat, row : Nat, kept : Nat, last : Kinds]
PlaceAt(c, r, m, l) == [col |-> c, row |-> r, kept |-> m, last |-> l]

EqStep(old, new, op, p, q) ==
    /\ op = DiffOp("eq", p.col, p.row, op.n)
    /\ q = PlaceAt(p.col + op.n, p.row + op.n, p.kept + op.n, "eq")
    /\ \A i \in 1..op.n : old[p.col + i] = new[p.row + i]
InsStep(op, p, q) ==
    /\ op = DiffOp("ins", 0, p.row, op.n)
    /\ q = PlaceAt(p.col, p.row + op.n, p.kept, "ins")
DelStep(op, p, q) ==
    /\ op = DiffOp("del", p.col, 0, op.n)
    /\ p.last # "ins"
    /\ q = PlaceAt(p.col + op.n, p.row, p.kept, "del")
Follows(old, new, op, p, q) ==
    /\ op.n \in Nat /\ op.n > 0
    /\ EqStep(old, new, op, p, q) \/ InsStep(op, p, q) \/ DelStep(op, p, q)

DiffOps == [kind : Kinds, old : Nat, new : Nat, n : Nat]

(* The places a script passes, and that there are some.                      *)
Along(old, new, ops, at) ==
    /\ ops \in Seq(DiffOps) /\ at \in [0..Len(ops) -> Places]
    /\ \A i \in 1..Len(ops) : Follows(old, new, ops[i], at[i - 1], at[i])
Script(old, new, ops, p, q) ==
    \E at : Along(old, new, ops, at) /\ at[0] = p /\ at[Len(ops)] = q

LEMMA PlaceAtIs ==
    ASSUME NEW c \in Nat, NEW r \in Nat, NEW m \in Nat, NEW l \in Kinds
    PROVE  /\ PlaceAt(c, r, m, l) \in Places
           /\ PlaceAt(c, r, m, l).col = c /\ PlaceAt(c, r, m, l).row = r
           /\ PlaceAt(c, r, m, l).kept = m /\ PlaceAt(c, r, m, l).last = l
BY DEF PlaceAt, Places

LEMMA PlaceParts ==
    ASSUME NEW p \in Places
    PROVE  p.col \in Nat /\ p.row \in Nat /\ p.kept \in Nat /\ p.last \in Kinds
           /\ p = PlaceAt(p.col, p.row, p.kept, p.last)
BY DEF PlaceAt, Places

LEMMA DiffOpIs ==
    ASSUME NEW k \in Kinds, NEW o \in Nat, NEW e \in Nat, NEW n \in Nat
    PROVE  /\ DiffOp(k, o, e, n) \in DiffOps
           /\ DiffOp(k, o, e, n).kind = k /\ DiffOp(k, o, e, n).old = o
           /\ DiffOp(k, o, e, n).new = e /\ DiffOp(k, o, e, n).n = n
BY DEF DiffOp, DiffOps

(* A step is an operation, and leads from a place to a place.                *)
LEMMA FollowsTyped ==
    ASSUME NEW old, NEW new, NEW op, NEW p \in Places, NEW q, Follows(old, new, op, p, q)
    PROVE  op \in DiffOps /\ q \in Places /\ p.col <= q.col /\ p.row <= q.row /\ op.kind = q.last
           /\ p.kept <= q.kept
<1>1. PICK n \in Nat : n = op.n /\ n > 0
  BY DEF Follows
<1>2. PICK c \in Nat, r \in Nat, m \in Nat : c = p.col /\ r = p.row /\ m = p.kept
  BY PlaceParts
<1>3. "eq" \in Kinds /\ "ins" \in Kinds /\ "del" \in Kinds /\ 0 \in Nat
  BY DEF Kinds
<1>4. c + n \in Nat /\ r + n \in Nat /\ m + n \in Nat
  BY <1>1, <1>2
<1>5. CASE EqStep(old, new, op, p, q)
  <2>1. op = DiffOp("eq", c, r, n) /\ q = PlaceAt(c + n, r + n, m + n, "eq")
    BY <1>1, <1>2, <1>5 DEF EqStep
  <2>2. op \in DiffOps /\ op.kind = "eq"
    BY <1>1, <1>2, <1>3, <2>1 DEF DiffOp, DiffOps
  <2>3. q \in Places /\ q.col = c + n /\ q.row = r + n /\ q.kept = m + n /\ q.last = "eq"
    BY <1>3, <1>4, <2>1 DEF PlaceAt, Places
  <2> QED
    BY <1>1, <1>2, <2>2, <2>3
<1>6. CASE InsStep(op, p, q)
  <2>1. op = DiffOp("ins", 0, r, n) /\ q = PlaceAt(c, r + n, m, "ins")
    BY <1>1, <1>2, <1>6 DEF InsStep
  <2>2. op \in DiffOps /\ op.kind = "ins"
    BY <1>1, <1>2, <1>3, <2>1 DEF DiffOp, DiffOps
  <2>3. q \in Places /\ q.col = c /\ q.row = r + n /\ q.kept = m /\ q.last = "ins"
    BY <1>2, <1>3, <1>4, <2>1 DEF PlaceAt, Places
  <2> QED
    BY <1>1, <1>2, <2>2, <2>3
<1>7. CASE DelStep(op, p, q)
  <2>1. op = DiffOp("del", c, 0, n) /\ q = PlaceAt(c + n, r, m, "del")
    BY <1>1, <1>2, <1>7 DEF DelStep
  <2>2. op \in DiffOps /\ op.kind = "del"
    BY <1>1, <1>2, <1>3, <2>1 DEF DiffOp, DiffOps
  <2>3. q \in Places /\ q.col = c + n /\ q.row = r /\ q.kept = m /\ q.last = "del"
    BY <1>2, <1>3, <1>4, <2>1 DEF PlaceAt, Places
  <2> QED
    BY <1>1, <1>2, <2>2, <2>3
<1> QED
  BY <1>5, <1>6, <1>7 DEF Follows

LEMMA ScriptEmpty ==
    ASSUME NEW old, NEW new, NEW p \in Places
    PROVE  Script(old, new, <<>>, p, p)
<1>1. PICK at : at = [i \in 0..0 |-> p]
  OBVIOUS
<1>2. <<>> \in Seq(DiffOps) /\ Len(<<>>) = 0 /\ 1..0 = {}
  OBVIOUS
<1>3. at \in [0..0 -> Places] /\ at[0] = p
  BY <1>1
<1>4. Along(old, new, <<>>, at)
  BY <1>2, <1>3 DEF Along
<1> QED
  BY <1>2, <1>3, <1>4 DEF Script

LEMMA ScriptOne ==
    ASSUME NEW old, NEW new, NEW op, NEW p \in Places, NEW q, Follows(old, new, op, p, q)
    PROVE  Script(old, new, <<op>>, p, q)
<1>1. op \in DiffOps /\ q \in Places
  BY FollowsTyped
<1>2. PICK at : at = [i \in 0..1 |-> IF i = 0 THEN p ELSE q]
  OBVIOUS
<1>3. at \in [0..1 -> Places] /\ at[0] = p /\ at[1] = q
  BY <1>1, <1>2
<1>4. PICK ops : ops = <<op>>
  OBVIOUS
<1>5. ops \in Seq(DiffOps) /\ Len(ops) = 1 /\ ops[1] = op
  BY <1>1, <1>4
<1>6. \A i \in 1..Len(ops) : i = 1 /\ i - 1 = 0
  BY <1>5
<1>7. Along(old, new, ops, at)
  BY <1>3, <1>5, <1>6 DEF Along
<1> QED
  BY <1>3, <1>4, <1>5, <1>7 DEF Script

LEMMA ScriptConcat ==
    ASSUME NEW old, NEW new, NEW x, NEW y, NEW p, NEW q, NEW r,
           Script(old, new, x, p, q), Script(old, new, y, q, r)
    PROVE  Script(old, new, x \o y, p, r)
<1>1. PICK a : Along(old, new, x, a) /\ a[0] = p /\ a[Len(x)] = q
  BY DEF Script
<1>2. PICK b : Along(old, new, y, b) /\ b[0] = q /\ b[Len(y)] = r
  BY DEF Script
<1>3. x \in Seq(DiffOps) /\ y \in Seq(DiffOps) /\ a \in [0..Len(x) -> Places] /\ b \in [0..Len(y) -> Places]
  BY <1>1, <1>2 DEF Along
<1>4. PICK n \in Nat, m \in Nat : n = Len(x) /\ m = Len(y)
  BY <1>3
<1>5. PICK z : z = x \o y
  OBVIOUS
<1>6. z \in Seq(DiffOps) /\ Len(z) = n + m /\ (\A i \in 1..n : z[i] = x[i]) /\ (\A i \in (n + 1)..(n + m) : z[i] = y[i - n])
  BY <1>3, <1>4, <1>5
<1>7. PICK c : c = [i \in 0..(n + m) |-> IF i <= n THEN a[i] ELSE b[i - n]]
  OBVIOUS
<1>8. /\ \A i \in 0..n : c[i] = a[i]
      /\ \A i \in n..(n + m) : c[i] = b[i - n]
  <2>1. \A i \in 0..n : c[i] = a[i]
    BY <1>7
  <2>2. c[n] = b[n - n]
    BY <1>1, <1>2, <1>4, <2>1
  <2>3. \A i \in (n + 1)..(n + m) : c[i] = b[i - n]
    BY <1>7
  <2>4. \A i \in n..(n + m) : i = n \/ i \in (n + 1)..(n + m)
    OBVIOUS
  <2> QED
    BY <2>1, <2>2, <2>3, <2>4
<1>9. c \in [0..(n + m) -> Places]
  <2>1. \A i \in 0..(n + m) : c[i] \in Places
    <3> SUFFICES ASSUME NEW i \in 0..(n + m) PROVE c[i] \in Places
      OBVIOUS
    <3>1. CASE i <= n
      BY <1>3, <1>4, <1>8, <3>1
    <3>2. CASE i > n
      <4>1. i \in n..(n + m) /\ i - n \in 0..m
        BY <3>2
      <4> QED
        BY <1>3, <1>4, <1>8, <4>1
    <3> QED
      BY <3>1, <3>2
  <2> QED
    BY <1>7, <2>1
<1>10. ASSUME NEW i \in 1..(n + m) PROVE Follows(old, new, z[i], c[i - 1], c[i])
  <2>1. CASE i <= n
    <3>1. i \in 1..n /\ i - 1 \in 0..n /\ i \in 0..n
      BY <2>1
    <3>2. Follows(old, new, x[i], a[i - 1], a[i])
      BY <1>1, <1>4, <3>1 DEF Along
    <3> QED
      BY <1>6, <1>8, <3>1, <3>2
  <2>2. CASE i > n
    <3>1. i \in (n + 1)..(n + m) /\ i - n \in 1..m /\ i - 1 \in n..(n + m) /\ i \in n..(n + m) /\ (i - 1) - n = (i - n) - 1
      BY <2>2
    <3>2. Follows(old, new, y[i - n], b[(i - n) - 1], b[i - n])
      BY <1>2, <1>4, <3>1 DEF Along
    <3>3. c[i - 1] = b[(i - 1) - n] /\ c[i] = b[i - n] /\ z[i] = y[i - n]
      BY <1>6, <1>8, <3>1
    <3> QED
      BY <3>1, <3>2, <3>3
  <2> QED
    BY <2>1, <2>2
<1>11. Along(old, new, z, c)
  BY <1>6, <1>9, <1>10 DEF Along
<1>12. c[0] = p /\ c[n + m] = r
  <2>1. 0 \in 0..n /\ n + m \in n..(n + m) /\ (n + m) - n = m
    OBVIOUS
  <2> QED
    BY <1>1, <1>2, <1>4, <1>8, <2>1
<1> QED
  BY <1>5, <1>6, <1>11, <1>12 DEF Script

(* A run of single lines that both texts have.                               *)
EqRun(c, r, n) == [i \in 1..n |-> DiffOp("eq", c + i - 1, r + i - 1, 1)]

LEMMA EqRunIs ==
    ASSUME NEW old, NEW new, NEW c \in Nat, NEW r \in Nat, NEW m \in Nat, NEW l \in Kinds, NEW n \in Nat,
           \A i \in 1..n : old[c + i] = new[r + i]
    PROVE  Script(old, new, EqRun(c, r, n), PlaceAt(c, r, m, l),
                  PlaceAt(c + n, r + n, m + n, IF n = 0 THEN l ELSE "eq"))
<1>1. PICK at : at = [i \in 0..n |-> PlaceAt(c + i, r + i, m + i, IF i = 0 THEN l ELSE "eq")]
  OBVIOUS
<1>2. PICK ops : ops = EqRun(c, r, n)
  OBVIOUS
<1>3. "eq" \in Kinds
  BY DEF Kinds
<1>4. \A i \in 1..n : ops[i] = DiffOp("eq", c + i - 1, r + i - 1, 1) /\ c + i - 1 \in Nat /\ r + i - 1 \in Nat
  BY <1>2 DEF EqRun
<1>5. \A i \in 1..n : ops[i] \in DiffOps
  <2> SUFFICES ASSUME NEW i \in 1..n PROVE ops[i] \in DiffOps
    OBVIOUS
  <2>1. PICK x \in Nat, y \in Nat, one \in Nat : x = c + i - 1 /\ y = r + i - 1 /\ one = 1
    BY <1>4
  <2>2. ops[i] = DiffOp("eq", x, y, one)
    BY <1>4, <2>1
  <2>3. "eq" \in Kinds /\ x \in Nat /\ y \in Nat /\ one \in Nat
    BY <1>3
  <2>4. DiffOp("eq", x, y, one) \in DiffOps
    BY ONLY <2>3, DiffOpIs
  <2> QED
    BY ONLY <2>2, <2>4
<1>6. ops \in Seq(DiffOps) /\ Len(ops) = n
  BY <1>2, <1>5 DEF EqRun
<1>7. \A i \in 0..n : at[i] = PlaceAt(c + i, r + i, m + i, IF i = 0 THEN l ELSE "eq")
  BY <1>1
<1>8. at \in [0..n -> Places]
  <2>1. \A i \in 0..n : at[i] \in Places
    <3> SUFFICES ASSUME NEW i \in 0..n PROVE at[i] \in Places
      OBVIOUS
    <3>1. PICK k \in Kinds : k = IF i = 0 THEN l ELSE "eq"
      BY <1>3
    <3>2. c + i \in Nat /\ r + i \in Nat /\ m + i \in Nat
      OBVIOUS
    <3> QED
      BY <1>7, <3>1, <3>2, PlaceAtIs
  <2> QED
    BY <1>1, <2>1
<1>9. ASSUME NEW i \in 1..n PROVE Follows(old, new, ops[i], at[i - 1], at[i])
  <2>1. PICK k \in Kinds : k = IF i - 1 = 0 THEN l ELSE "eq"
    BY <1>3
  <2>2. PICK c0 \in Nat, r0 \in Nat, m0 \in Nat : c0 = c + (i - 1) /\ r0 = r + (i - 1) /\ m0 = m + (i - 1)
    OBVIOUS
  <2>3. i - 1 \in 0..n /\ i \in 0..n /\ i # 0
    OBVIOUS
  <2>4. at[i - 1] = PlaceAt(c0, r0, m0, k)
    BY <1>7, <2>1, <2>2, <2>3
  <2>5. at[i] = PlaceAt(c0 + 1, r0 + 1, m0 + 1, "eq")
    <3>1. c0 + 1 = c + i /\ r0 + 1 = r + i /\ m0 + 1 = m + i
      BY <2>2
    <3>2. at[i] = PlaceAt(c + i, r + i, m + i, "eq")
      BY <1>7, <2>3
    <3> QED
      BY <3>1, <3>2
  <2>6. PICK p, q, op : p = at[i - 1] /\ q = at[i] /\ op = ops[i]
    OBVIOUS
  <2>7. p.col = c0 /\ p.row = r0 /\ p.kept = m0
    BY <2>4, <2>6 DEF PlaceAt
  <2>8. op = DiffOp("eq", c0, r0, 1)
    <3>1. c0 = c + i - 1 /\ r0 = r + i - 1
      BY <2>2
    <3> QED
      BY <1>4, <2>6, <3>1
  <2>9. op.n = 1
    BY <2>8 DEF DiffOp
  <2>10. \A j \in 1..op.n : old[c0 + j] = new[r0 + j]
    <3>1. c0 + 1 = c + i /\ r0 + 1 = r + i
      BY <2>2
    <3>2. \A j \in 1..op.n : j = 1
      BY <2>9
    <3> QED
      BY <3>1, <3>2
  <2>11. EqStep(old, new, op, p, q)
    BY <2>5, <2>6, <2>7, <2>8, <2>9, <2>10 DEF EqStep
  <2> QED
    BY <2>6, <2>9, <2>11 DEF Follows
<1>10. Along(old, new, ops, at)
  BY <1>6, <1>8, <1>9 DEF Along
<1>11. at[0] = PlaceAt(c, r, m, l)
  <2>1. 0 \in 0..n /\ c + 0 = c /\ r + 0 = r /\ m + 0 = m
    OBVIOUS
  <2> QED
    BY <1>7, <2>1
<1>12. at[n] = PlaceAt(c + n, r + n, m + n, IF n = 0 THEN l ELSE "eq")
  BY <1>7
<1> QED
  BY <1>2, <1>6, <1>10, <1>11, <1>12 DEF Script

(* What is left to follow, from a place on to the end, whatever came before: *)
(* e lines are inserted or deleted on the way.                               *)
MayFollow(l, ops) == l = "ins" => ops = <<>> \/ ops[1].kind # "del"
RestKeeps(old, new, ops, c, r, C, R, g) ==
    \A m \in Nat, l \in Kinds : MayFollow(l, ops) =>
        \E l2 \in Kinds : Script(old, new, ops, PlaceAt(c, r, m, l), PlaceAt(C, R, m + g, l2))
Rest(old, new, ops, c, r, C, R, e) ==
    /\ ops \in Seq(DiffOps)
    /\ \E g \in Nat : 2 * g + e = (C - c) + (R - r) /\ RestKeeps(old, new, ops, c, r, C, R, g)

LEMMA RestEmpty ==
    ASSUME NEW old, NEW new, NEW c \in Nat, NEW r \in Nat
    PROVE  Rest(old, new, <<>>, c, r, c, r, 0)
<1>1. ASSUME NEW m \in Nat, NEW l \in Kinds
      PROVE  Script(old, new, <<>>, PlaceAt(c, r, m, l), PlaceAt(c, r, m + 0, l))
  <2>1. PlaceAt(c, r, m, l) \in Places /\ m + 0 = m
    BY PlaceAtIs
  <2> QED
    BY <2>1, ScriptEmpty
<1>2. RestKeeps(old, new, <<>>, c, r, c, r, 0)
  BY <1>1 DEF RestKeeps
<1>3. 2 * 0 + 0 = (c - c) + (r - r) /\ 0 \in Nat /\ <<>> \in Seq(DiffOps)
  OBVIOUS
<1> QED
  BY <1>2, <1>3 DEF Rest

LEMMA EqRunTyped ==
    ASSUME NEW c \in Nat, NEW r \in Nat, NEW n \in Nat
    PROVE  EqRun(c, r, n) \in Seq(DiffOps) /\ Len(EqRun(c, r, n)) = n
           /\ \A i \in 1..n : EqRun(c, r, n)[i].kind = "eq"
<1>1. PICK s : s = EqRun(c, r, n)
  OBVIOUS
<1>2. \A i \in 1..n : s[i] = DiffOp("eq", c + i - 1, r + i - 1, 1)
  BY <1>1 DEF EqRun
<1>3. ASSUME NEW i \in 1..n PROVE s[i] \in DiffOps /\ s[i].kind = "eq"
  <2>1. PICK x \in Nat, y \in Nat : x = c + i - 1 /\ y = r + i - 1
    OBVIOUS
  <2>2. s[i] = DiffOp("eq", x, y, 1)
    BY <1>2, <2>1
  <2> QED
    BY <2>2 DEF DiffOp, DiffOps, Kinds
<1>4. s \in Seq(DiffOps) /\ Len(s) = n
  <2>1. \A i \in 1..n : s[i] \in DiffOps
    BY <1>3
  <2> QED
    BY <1>1, <2>1 DEF EqRun
<1> QED
  BY <1>1, <1>3, <1>4

Alike(old, new, c, r, n) == \A i \in 1..n : old[c + i] = new[r + i]

LEMMA RestEq ==
    ASSUME NEW old, NEW new, NEW ops, NEW c \in Nat, NEW r \in Nat, NEW C \in Nat, NEW R \in Nat, NEW e \in Nat,
           NEW n \in Nat, Alike(old, new, c, r, n), Rest(old, new, ops, c + n, r + n, C, R, e)
    PROVE  /\ Rest(old, new, EqRun(c, r, n) \o ops, c, r, C, R, e)
           /\ EqRun(c, r, n) \o ops # <<>> /\ (EqRun(c, r, n) \o ops)[1].kind = "del"
                => n = 0 /\ ops # <<>> /\ ops[1].kind = "del"
<1>1. PICK run : run = EqRun(c, r, n)
  OBVIOUS
<1>2. run \in Seq(DiffOps) /\ Len(run) = n /\ \A i \in 1..n : run[i].kind = "eq"
  <2>1. c \in Nat /\ r \in Nat /\ n \in Nat
    OBVIOUS
  <2>2. EqRun(c, r, n) \in Seq(DiffOps) /\ Len(EqRun(c, r, n)) = n /\ \A i \in 1..n : EqRun(c, r, n)[i].kind = "eq"
    BY ONLY <2>1, EqRunTyped
  <2> QED
    BY ONLY <1>1, <2>2
<1>3. ops \in Seq(DiffOps)
  BY DEF Rest
<1>4. PICK z : z = run \o ops
  OBVIOUS
<1>5. z \in Seq(DiffOps) /\ (n > 0 => z[1] = run[1]) /\ (n = 0 => z = ops)
  <2>1. n = 0 => run = <<>>
    BY <1>2
  <2>2. n = 0 => z = ops
    BY <1>3, <1>4, <2>1, ConcatEmptySeq
  <2> QED
    BY <1>2, <1>3, <1>4, <2>2
<1>6. z # <<>> /\ z[1].kind = "del" => n = 0 /\ ops # <<>> /\ ops[1].kind = "del"
  <2>1. n > 0 => z[1].kind = "eq"
    BY <1>2, <1>5
  <2> QED
    BY <1>5, <2>1
<1>7. PICK g \in Nat : 2 * g + e = (C - (c + n)) + (R - (r + n)) /\ RestKeeps(old, new, ops, c + n, r + n, C, R, g)
  BY DEF Rest
<1>8. n + g \in Nat /\ 2 * (n + g) + e = (C - c) + (R - r)
  BY <1>7
<1>9. ASSUME NEW m \in Nat, NEW l \in Kinds, MayFollow(l, z)
      PROVE  \E l2 \in Kinds : Script(old, new, z, PlaceAt(c, r, m, l), PlaceAt(C, R, m + (n + g), l2))
  <2>1. PICK k : k = IF n = 0 THEN l ELSE "eq"
    OBVIOUS
  <2>2. k \in Kinds
    BY <2>1 DEF Kinds
  <2>3. Script(old, new, run, PlaceAt(c, r, m, l), PlaceAt(c + n, r + n, m + n, k))
    BY <1>1, <2>1, EqRunIs DEF Alike
  <2>4. MayFollow(k, ops)
    <3>1. CASE n = 0
      BY <1>5, <1>9, <2>1, <3>1
    <3>2. CASE n # 0
      BY <2>1, <3>2 DEF MayFollow
    <3> QED
      BY <3>1, <3>2
  <2>5. PICK l2 \in Kinds : Script(old, new, ops, PlaceAt(c + n, r + n, m + n, k), PlaceAt(C, R, (m + n) + g, l2))
    <3>1. m + n \in Nat
      OBVIOUS
    <3> QED
      BY <1>7, <2>2, <2>4, <3>1 DEF RestKeeps
  <2>6. Script(old, new, z, PlaceAt(c, r, m, l), PlaceAt(C, R, (m + n) + g, l2))
    BY <1>4, <2>3, <2>5, ScriptConcat
  <2>7. (m + n) + g = m + (n + g)
    BY <1>7
  <2> QED
    BY <2>6, <2>7
<1>10. RestKeeps(old, new, z, c, r, C, R, n + g)
  BY <1>9 DEF RestKeeps
<1>11. Rest(old, new, z, c, r, C, R, e)
  BY <1>5, <1>8, <1>10 DEF Rest
<1> QED
  BY <1>1, <1>4, <1>6, <1>11

LEMMA RestEdit ==
    ASSUME NEW old, NEW new, NEW ops, NEW c \in Nat, NEW r \in Nat, NEW c2 \in Nat, NEW r2 \in Nat,
           NEW C \in Nat, NEW R \in Nat, NEW e \in Nat, NEW op \in DiffOps, NEW k \in Kinds,
           (c2 - c) + (r2 - r) = 1, op.kind = k, MayFollow(k, ops),
           \A m \in Nat, l \in Kinds : (l = "ins" => k # "del") =>
                Follows(old, new, op, PlaceAt(c, r, m, l), PlaceAt(c2, r2, m, k)),
           Rest(old, new, ops, c2, r2, C, R, e)
    PROVE  Rest(old, new, <<op>> \o ops, c, r, C, R, e + 1)
<1>1. ops \in Seq(DiffOps)
  BY DEF Rest
<1>2. PICK z : z = <<op>> \o ops
  OBVIOUS
<1>3. z \in Seq(DiffOps) /\ z # <<>> /\ z[1] = op
  <2>1. <<op>> \in Seq(DiffOps) /\ Len(<<op>>) = 1 /\ <<op>>[1] = op
    OBVIOUS
  <2> QED
    BY <1>1, <1>2, <2>1
<1>4. PICK g \in Nat : 2 * g + e = (C - c2) + (R - r2) /\ RestKeeps(old, new, ops, c2, r2, C, R, g)
  BY DEF Rest
<1>5. 2 * g + (e + 1) = (C - c) + (R - r)
  BY <1>4
<1>6. ASSUME NEW m \in Nat, NEW l \in Kinds, MayFollow(l, z)
      PROVE  \E l2 \in Kinds : Script(old, new, z, PlaceAt(c, r, m, l), PlaceAt(C, R, m + g, l2))
  <2>1. l = "ins" => k # "del"
    BY <1>3, <1>6 DEF MayFollow
  <2>2. PlaceAt(c, r, m, l) \in Places
    BY PlaceAtIs
  <2>3. Script(old, new, <<op>>, PlaceAt(c, r, m, l), PlaceAt(c2, r2, m, k))
    BY <2>1, <2>2, ScriptOne
  <2>4. PICK l2 \in Kinds : Script(old, new, ops, PlaceAt(c2, r2, m, k), PlaceAt(C, R, m + g, l2))
    BY <1>4 DEF RestKeeps
  <2> QED
    BY <1>2, <2>3, <2>4, ScriptConcat
<1>7. RestKeeps(old, new, z, c, r, C, R, g)
  BY <1>6 DEF RestKeeps
<1> QED
  BY <1>2, <1>3, <1>4, <1>5, <1>7 DEF Rest

LEMMA RestIns ==
    ASSUME NEW old, NEW new, NEW ops, NEW c \in Nat, NEW r \in Nat, NEW C \in Nat, NEW R \in Nat, NEW e \in Nat,
           MayFollow("ins", ops), Rest(old, new, ops, c, r + 1, C, R, e)
    PROVE  Rest(old, new, <<DiffOp("ins", 0, r, 1)>> \o ops, c, r, C, R, e + 1)
<1>1. PICK op : op = DiffOp("ins", 0, r, 1)
  OBVIOUS
<1>2. op \in DiffOps /\ op.kind = "ins" /\ op.n = 1 /\ "ins" \in Kinds
  BY <1>1 DEF DiffOp, DiffOps, Kinds
<1>3. ASSUME NEW m \in Nat, NEW l \in Kinds
      PROVE  Follows(old, new, op, PlaceAt(c, r, m, l), PlaceAt(c, r + 1, m, "ins"))
  <2>1. PICK p : p = PlaceAt(c, r, m, l)
    OBVIOUS
  <2>2. p.col = c /\ p.row = r /\ p.kept = m
    BY <2>1 DEF PlaceAt
  <2>3. InsStep(op, p, PlaceAt(c, r + 1, m, "ins"))
    BY <1>1, <1>2, <2>2 DEF InsStep
  <2> QED
    BY <1>2, <2>1, <2>3 DEF Follows
<1>4. r + 1 \in Nat /\ (c - c) + ((r + 1) - r) = 1
  OBVIOUS
<1>5. Rest(old, new, <<op>> \o ops, c, r, C, R, e + 1)
  BY <1>2, <1>3, <1>4, RestEdit
<1> QED
  BY <1>1, <1>5

LEMMA RestDel ==
    ASSUME NEW old, NEW new, NEW ops, NEW c \in Nat, NEW r \in Nat, NEW C \in Nat, NEW R \in Nat, NEW e \in Nat,
           Rest(old, new, ops, c + 1, r, C, R, e)
    PROVE  Rest(old, new, <<DiffOp("del", c, 0, 1)>> \o ops, c, r, C, R, e + 1)
<1>1. PICK op : op = DiffOp("del", c, 0, 1)
  OBVIOUS
<1>2. op \in DiffOps /\ op.kind = "del" /\ op.n = 1 /\ "del" \in Kinds
  BY <1>1 DEF DiffOp, DiffOps, Kinds
<1>3. ASSUME NEW m \in Nat, NEW l \in Kinds, l = "ins" => "del" # "del"
      PROVE  Follows(old, new, op, PlaceAt(c, r, m, l), PlaceAt(c + 1, r, m, "del"))
  <2>1. PICK p : p = PlaceAt(c, r, m, l)
    OBVIOUS
  <2>2. p.col = c /\ p.row = r /\ p.kept = m /\ p.last # "ins"
    BY <1>3, <2>1 DEF PlaceAt
  <2>3. DelStep(op, p, PlaceAt(c + 1, r, m, "del"))
    BY <1>1, <1>2, <2>2 DEF DelStep
  <2> QED
    BY <1>2, <2>1, <2>3 DEF Follows
<1>4. c + 1 \in Nat /\ ((c + 1) - c) + (r - r) = 1
  OBVIOUS
<1>5. MayFollow("del", ops)
  BY DEF MayFollow
<1>6. Rest(old, new, <<op>> \o ops, c, r, C, R, e + 1)
  BY <1>2, <1>3, <1>4, <1>5, RestEdit
<1> QED
  BY <1>1, <1>6

-----------------------------------------------------------------------------
(* The walk back over the trace makes a script.                              *)

(* The texts without their common first lines.                               *)
Inner(old, new, u, v, o) ==
    /\ o \in Nat /\ Len(u) \in Nat /\ Len(v) \in Nat
    /\ \A i \in 1..Len(u) : old[o + i] = u[i]
    /\ \A i \in 1..Len(v) : new[o + i] = v[i]

(* The walk back, before round d.                                            *)
BackPart(old, new, u, v, o, T, d, w) ==
    /\ w.col \in Nat /\ w.row \in Nat
    /\ w.col - w.row \in Diags(d) /\ w.col = Far(u, v, T, d, w.col - w.row)
    /\ Rest(old, new, w.ops, o + w.col, o + w.row, o + Len(u), o + Len(v), Len(T) - 1 - d)
    /\ w.ops # <<>> /\ w.ops[1].kind = "del" =>
          d + 1 <= Len(T) - 1 /\ ~ GoesDown(T[d + 2], w.col - w.row + 1, d + 1)

(* A step down that nothing follows is not followed by a step to the right.  *)
LEMMA NotThenRight ==
    ASSUME NEW u, NEW v, NEW T, NEW D, Traced(u, v, T, D), NEW d \in 1..D, d + 1 <= D, NEW k \in Diags(d),
           GoesDown(T[d + 1], k, d), Far(u, v, T, d, k) = StartCol(T[d + 1], k, d)
    PROVE  GoesDown(T[d + 2], k + 1, d + 1)
<1>1. D \in Nat /\ d \in 0..D /\ d + 1 \in 1..D /\ d - 1 \in 0..D /\ d \in Nat /\ d - 1 \in Nat
      /\ (d + 1) - 1 = d /\ (d + 1) + 1 = d + 2
  BY DEF Traced
<1>2. PICK x : x = Far(u, v, T, d, k)
  OBVIOUS
<1>3. FarHow(u, v, T, d, k, x, x)
  BY <1>1, <1>2, FarIs
<1>4. k \in Int /\ x \in Nat /\ k # d /\ x = Far(u, v, T, d - 1, k + 1)
  BY <1>1, <1>3 DEF FarHow
<1>5. k + 2 \in Diags(d) /\ -d <= k /\ k <= d
  BY <1>1, <1>4, DiagsAre
<1>6. PICK y, s : y = Far(u, v, T, d, k + 2) /\ s = StartCol(T[d + 1], k + 2, d)
  OBVIOUS
<1>7. FarHow(u, v, T, d, k + 2, s, y)
  BY <1>1, <1>5, <1>6, FarIs
<1>8. k + 2 # -d /\ (k + 2) - 1 = k + 1
  BY <1>1, <1>4, <1>5
<1>9. s >= Far(u, v, T, d - 1, k + 1) + 1 /\ y >= s /\ y \in Nat /\ s \in Nat
  BY <1>1, <1>7, <1>8 DEF FarHow
<1>10. x < y
  BY <1>4, <1>9
<1>11. T[d + 2][k] = x /\ T[d + 2][k + 2] = y
  BY <1>1, <1>2, <1>5, <1>6, TraceFar
<1>12. k + 1 # d + 1 /\ (k + 1) - 1 = k /\ (k + 1) + 1 = k + 2
  BY <1>1, <1>4
<1> QED
  BY <1>10, <1>11, <1>12 DEF GoesDown

(* What a step of the walk back adds.                                        *)
BackFrom(T, w, d, s, x, y, c, r) ==
    /\ w.col = x /\ w.row = y /\ s <= x /\ s <= y
    /\ c = T[d + 1][Pick(GoesDown(T[d + 1], x - y, d), x - y + 1, x - y - 1)]
    /\ r = Larger(0, c - Pick(GoesDown(T[d + 1], x - y, d), x - y + 1, x - y - 1))
    /\ s = Larger(0, Smaller(x - c, y - r))
BackTo(T, o, w, d, s, x, y, c, r, b, run) ==
    /\ d = 0 => b.ops = run \o w.ops
    /\ d # 0 /\ x - s = c => /\ b.col = x - s /\ b.row = y - s - 1
                            /\ b.ops = <<DiffOp("ins", 0, y - s - 1 + o, 1)>> \o run \o w.ops
    /\ d # 0 /\ x - s # c => /\ b.col = x - s - 1 /\ b.row = y - s
                            /\ b.ops = <<DiffOp("del", x - s - 1 + o, 0, 1)>> \o run \o w.ops

LEMMA BackOverIs ==
    ASSUME NEW T, NEW o \in Nat, NEW w, NEW d, NEW s \in Nat, NEW x \in Nat, NEW y \in Nat, NEW c \in Nat,
           NEW r \in Nat, BackFrom(T, w, d, s, x, y, c, r)
    PROVE  BackTo(T, o, w, d, s, x, y, c, r, BackOver(T, o, w, d), EqRun(o + (x - s), o + (y - s), s))
<1>1. PICK col \in Nat, row \in Nat : col = x - s /\ row = y - s
  BY DEF BackFrom
<1>2. PICK kept : kept = [i \in 1..s |-> DiffOp("eq", col + i - 1 + o, row + i - 1 + o, 1)]
  OBVIOUS
<1>3. kept = EqRun(o + col, o + row, s)
  <2>1. \A i \in 1..s : col + i - 1 + o = o + col + i - 1 /\ row + i - 1 + o = o + row + i - 1
    BY <1>1
  <2> QED
    BY <1>2, <2>1 DEF EqRun
<1>4. PICK ops : ops = w.ops
  OBVIOUS
<1>5. BackOver(T, o, w, d) =
        IF d = 0 THEN [col |-> col, row |-> row, ops |-> kept \o ops]
        ELSE IF col = c
          THEN [col |-> col, row |-> row - 1, ops |-> <<DiffOp("ins", 0, row - 1 + o, 1)>> \o kept \o ops]
          ELSE [col |-> col - 1, row |-> row, ops |-> <<DiffOp("del", col - 1 + o, 0, 1)>> \o kept \o ops]
  BY <1>1, <1>2, <1>4 DEF BackOver, BackFrom
<1>6. PICK b, run : b = BackOver(T, o, w, d) /\ run = EqRun(o + (x - s), o + (y - s), s)
  OBVIOUS
<1>7. run = kept
  BY <1>1, <1>3, <1>6
<1>8. d = 0 => b.ops = run \o w.ops
  <2> SUFFICES ASSUME d = 0 PROVE b.ops = run \o w.ops
    OBVIOUS
  <2>1. b = [col |-> col, row |-> row, ops |-> kept \o ops]
    BY <1>5, <1>6
  <2>2. b.ops = kept \o ops
    BY <2>1
  <2> QED
    BY <1>4, <1>7, <2>2
<1>9. d # 0 /\ x - s = c => /\ b.col = x - s /\ b.row = y - s - 1
                           /\ b.ops = <<DiffOp("ins", 0, y - s - 1 + o, 1)>> \o run \o w.ops
  <2> SUFFICES ASSUME d # 0, x - s = c
               PROVE  /\ b.col = x - s /\ b.row = y - s - 1
                      /\ b.ops = <<DiffOp("ins", 0, y - s - 1 + o, 1)>> \o run \o w.ops
    OBVIOUS
  <2>1. b = [col |-> col, row |-> row - 1, ops |-> <<DiffOp("ins", 0, row - 1 + o, 1)>> \o kept \o ops]
    BY <1>1, <1>5, <1>6
  <2>2. b.col = col /\ b.row = row - 1 /\ b.ops = <<DiffOp("ins", 0, row - 1 + o, 1)>> \o kept \o ops
    BY <2>1
  <2> QED
    BY <1>1, <1>4, <1>7, <2>2
<1>10. d # 0 /\ x - s # c => /\ b.col = x - s - 1 /\ b.row = y - s
                            /\ b.ops = <<DiffOp("del", x - s - 1 + o, 0, 1)>> \o run \o w.ops
  <2> SUFFICES ASSUME d # 0, x - s # c
               PROVE  /\ b.col = x - s - 1 /\ b.row = y - s
                      /\ b.ops = <<DiffOp("del", x - s - 1 + o, 0, 1)>> \o run \o w.ops
    OBVIOUS
  <2>1. b = [col |-> col - 1, row |-> row, ops |-> <<DiffOp("del", col - 1 + o, 0, 1)>> \o kept \o ops]
    BY <1>1, <1>5, <1>6
  <2>2. b.col = col - 1 /\ b.row = row /\ b.ops = <<DiffOp("del", col - 1 + o, 0, 1)>> \o kept \o ops
    BY <2>1
  <2> QED
    BY <1>1, <1>4, <1>7, <2>2
<1> QED
  BY <1>6, <1>8, <1>9, <1>10 DEF BackTo

(* A line that two places away from the cut-off ones agree on.               *)
LEMMA SlideAgrees ==
    ASSUME NEW old, NEW new, NEW u, NEW v, NEW o, Inner(old, new, u, v, o), NEW s \in Nat, NEW t \in Nat, NEW n \in Nat,
           n > 0 => s + n <= Len(u) /\ t + n <= Len(v), Alike(u, v, s, t, n)
    PROVE  Alike(old, new, o + s, o + t, n)
<1> SUFFICES ASSUME NEW i \in 1..n PROVE old[(o + s) + i] = new[(o + t) + i]
  BY DEF Alike
<1>1. o \in Nat /\ Len(u) \in Nat /\ Len(v) \in Nat
  BY DEF Inner
<1>2. s + i \in 1..Len(u) /\ t + i \in 1..Len(v) /\ (o + s) + i = o + (s + i) /\ (o + t) + i = o + (t + i)
  BY <1>1
<1>3. old[o + (s + i)] = u[s + i] /\ new[o + (t + i)] = v[t + i]
  BY <1>2 DEF Inner
<1> QED
  BY <1>2, <1>3 DEF Alike

LEMMA BackStep ==
    ASSUME NEW old, NEW new, NEW u, NEW v, NEW o, Inner(old, new, u, v, o), NEW T, NEW D,
           Traced(u, v, T, D), D = Len(T) - 1, NEW d \in 1..D, NEW w, BackPart(old, new, u, v, o, T, d, w)
    PROVE  BackPart(old, new, u, v, o, T, d - 1, BackOver(T, o, w, d))
<1>1. /\ o \in Nat /\ Len(u) \in Nat /\ Len(v) \in Nat /\ D \in Nat /\ d \in Nat /\ d \in 0..D
      /\ d - 1 \in Nat /\ d - 1 \in 0..D /\ d # 0
  BY DEF Inner, Traced
<1>2. PICK x \in Nat, y \in Nat : x = w.col /\ y = w.row
  BY DEF BackPart
<1>0. PICK ops : ops = w.ops
  OBVIOUS
<1>3. PICK k : k = x - y
  OBVIOUS
<1>4. PICK s : s = StartCol(T[d + 1], k, d)
  OBVIOUS
<1>5. /\ k \in Diags(d) /\ x = Far(u, v, T, d, k)
      /\ Rest(old, new, ops, o + x, o + y, o + Len(u), o + Len(v), D - d)
      /\ ops # <<>> /\ ops[1].kind = "del" => d + 1 <= D /\ ~ GoesDown(T[d + 2], k + 1, d + 1)
  BY <1>2, <1>0, <1>3 DEF BackPart
<1>6. FarHow(u, v, T, d, k, s, x)
  BY <1>1, <1>4, <1>5, FarIs
<1>7. /\ k \in Int /\ s \in Nat /\ s - k >= 0 /\ x >= s /\ (x > s => x <= Len(u) /\ x - k <= Len(v))
      /\ \A i \in 1..(x - s) : u[s + i] = v[s - k + i]
  BY <1>6 DEF FarHow
<1>8. PICK n \in Nat, t \in Nat : n = x - s /\ t = s - k
  BY <1>7
<1>9. y = t + n /\ x = s + n /\ y - n = t /\ x - n = s
  <2>1. s \in Nat /\ x \in Nat /\ y \in Nat /\ n \in Nat /\ t \in Nat
    BY <1>7
  <2> QED
    BY ONLY <1>3, <1>8, <2>1
<1>10. PICK c0 \in Nat, r0 \in Nat : c0 = o + s /\ r0 = o + t
  BY <1>1, <1>7
<1>21. Alike(old, new, c0, r0, n)
  <2>1. n > 0 => s + n <= Len(u) /\ t + n <= Len(v)
    <3>1. s \in Nat /\ k \in Int /\ (x > s => x <= Len(u) /\ x - k <= Len(v))
      BY <1>7
    <3>2. x = s + n /\ x - k = t + n
      BY <1>3, <1>9, <3>1
    <3> QED
      BY <3>1, <3>2
  <2>2. Alike(u, v, s, t, n)
    BY <1>7, <1>8 DEF Alike
  <2> QED
    BY <1>7, <1>10, <2>1, <2>2, SlideAgrees
<1>11. PICK run, all : run = EqRun(c0, r0, n) /\ all = run \o ops
  OBVIOUS
<1>12. /\ Rest(old, new, all, c0, r0, o + Len(u), o + Len(v), D - d)
       /\ all # <<>> /\ all[1].kind = "del" => n = 0 /\ ops # <<>> /\ ops[1].kind = "del"
  <2>4. o + Len(u) \in Nat /\ o + Len(v) \in Nat /\ D - d \in Nat
    BY <1>1
  <2>1. PICK C \in Nat, R \in Nat, e \in Nat : C = o + Len(u) /\ R = o + Len(v) /\ e = D - d
    BY <2>4
  <2>2. o + x = c0 + n /\ o + y = r0 + n
    BY <1>1, <1>7, <1>9, <1>10
  <2>3. Rest(old, new, ops, c0 + n, r0 + n, C, R, e)
    BY <1>5, <2>1, <2>2
  <2> QED
    <3>1. /\ Rest(old, new, EqRun(c0, r0, n) \o ops, c0, r0, C, R, e)
          /\ EqRun(c0, r0, n) \o ops # <<>> /\ (EqRun(c0, r0, n) \o ops)[1].kind = "del"
                => n = 0 /\ ops # <<>> /\ ops[1].kind = "del"
      BY <1>21, <2>3, RestEq
    <3>2. all = EqRun(c0, r0, n) \o ops
      BY <1>11
    <3> QED
      BY <2>1, <3>1, <3>2
<1>13. run \in Seq(DiffOps) /\ ops \in Seq(DiffOps) /\ all \in Seq(DiffOps)
  BY <1>5, <1>11, <1>12, EqRunTyped DEF Rest
<1>14. PICK b : b = BackOver(T, o, w, d)
  OBVIOUS
<1>15. PICK E : E = D - d
  OBVIOUS
<1>16. E \in Nat /\ E + 1 = Len(T) - 1 - (d - 1) /\ E + 1 = D - (d - 1)
  BY <1>1, <1>15
<1>17. PICK f : f = T[d + 1]
  OBVIOUS
<1>18. CASE GoesDown(f, k, d)
  <2>1. k # d /\ s = Far(u, v, T, d - 1, k + 1)
    BY <1>1, <1>6, <1>17, <1>18 DEF FarHow
  <2>2. k + 1 \in Diags(d - 1)
    BY <1>1, <1>5, <2>1, DiagsAre
  <2>3. f[k + 1] = s
    BY <1>1, <1>17, <2>1, <2>2, TraceFar
  <2>4. s - (k + 1) >= 0
    BY <1>1, <2>1, <2>2, FarIs DEF FarHow
  <2>5. PICK r \in Nat : r = s - (k + 1)
    BY <1>7, <2>4
  <2>6. t = r + 1
    BY <1>7, <1>8, <2>5
  <2>7. Pick(GoesDown(f, x - y, d), x - y + 1, x - y - 1) = k + 1
    BY <1>3, <1>18 DEF Pick
  <2>8. r = Larger(0, s - (k + 1))
    BY <1>7, <2>4, <2>5 DEF Larger, Pick
  <2>9. n = Larger(0, Smaller(x - s, y - r)) /\ n <= x /\ n <= y
    <3>1. x - s = n /\ y - r = n + 1
      BY <1>9, <2>6
    <3>2. Smaller(x - s, y - r) = n
      BY <3>1 DEF Smaller, Pick
    <3> QED
      BY <1>7, <1>9, <3>2 DEF Larger, Pick
  <2>10. x - n = s
    BY <1>9
  <2>11. b.col = x - n /\ b.row = y - n - 1
         /\ b.ops = <<DiffOp("ins", 0, y - n - 1 + o, 1)>> \o EqRun(o + (x - n), o + (y - n), n) \o w.ops
    <3>1. BackFrom(T, w, d, n, x, y, s, r)
      BY <1>2, <1>0, <1>17, <2>3, <2>7, <2>8, <2>9 DEF BackFrom
    <3>2. BackTo(T, o, w, d, n, x, y, s, r, BackOver(T, o, w, d), EqRun(o + (x - n), o + (y - n), n))
      BY <1>1, <1>7, <3>1, BackOverIs
    <3> QED
      BY <1>1, <1>14, <2>10, <3>2 DEF BackTo
  <2>12. PICK op : op = DiffOp("ins", 0, o + r, 1)
    OBVIOUS
  <2>13. b.col = s /\ b.row = r /\ b.ops = <<op>> \o run \o ops
    <3>1. y - n - 1 = r /\ y - n - 1 + o = o + r /\ x - n = s /\ y - n = t /\ o + (x - n) = c0 /\ o + (y - n) = r0
      BY <1>1, <1>7, <1>9, <1>10, <2>6
    <3> QED
      BY <1>2, <1>0, <1>11, <2>11, <2>12, <3>1
  <2>14. op \in DiffOps /\ op.kind = "ins"
    <3>1. o + r \in Nat
      BY <1>1
    <3> QED
      BY <2>12, <3>1 DEF DiffOp, DiffOps, Kinds
  <2>15. b.ops = <<op>> \o all
    <3>1. PICK one : one = <<op>>
      OBVIOUS
    <3>2. one \in Seq(DiffOps)
      BY <2>14, <3>1
    <3>3. (one \o run) \o ops = one \o (run \o ops)
      BY ONLY <1>13, <3>2, ConcatAssociative
    <3> QED
      BY <1>11, <2>13, <3>1, <3>3
  <2>16. MayFollow("ins", all)
    <3> SUFFICES ASSUME all # <<>>, all[1].kind = "del" PROVE FALSE
      BY DEF MayFollow
    <3>1. n = 0 /\ d + 1 <= D /\ ~ GoesDown(T[d + 2], k + 1, d + 1)
      BY <1>5, <1>12
    <3>2. x = s
      BY <1>9, <3>1
    <3> QED
      BY <1>4, <1>5, <1>17, <1>18, <3>1, <3>2, NotThenRight
  <2>17. Rest(old, new, b.ops, o + s, o + r, o + Len(u), o + Len(v), E + 1)
    <3>1. PICK C \in Nat, R \in Nat, r1 \in Nat : C = o + Len(u) /\ R = o + Len(v) /\ r1 = o + r /\ r0 = r1 + 1
      BY <1>1, <1>10, <2>6
    <3>2. Rest(old, new, all, c0, r1 + 1, C, R, E)
      BY <1>12, <1>15, <3>1
    <3>3. Rest(old, new, <<op>> \o all, c0, r1, C, R, E + 1)
      BY <1>16, <2>12, <2>16, <3>1, <3>2, RestIns
    <3> QED
      BY <1>10, <2>15, <3>1, <3>3
  <2>18. b.ops[1] = op
    <3>1. <<op>> \in Seq(DiffOps) /\ Len(<<op>>) = 1 /\ <<op>>[1] = op
      BY <2>14
    <3> QED
      BY <1>13, <2>15, <3>1
  <2>19. s - r = k + 1
    BY <1>7, <2>5
  <2>20. b.ops[1].kind # "del"
    BY <2>14, <2>18
  <2>21. Rest(old, new, b.ops, o + b.col, o + b.row, o + Len(u), o + Len(v), Len(T) - 1 - (d - 1))
    BY <1>16, <2>13, <2>17
  <2>22. b.col \in Nat /\ b.row \in Nat /\ b.col - b.row = k + 1 /\ b.col = Far(u, v, T, d - 1, k + 1)
    BY <1>7, <2>1, <2>5, <2>13, <2>19
  <2>23. BackPart(old, new, u, v, o, T, d - 1, b)
    BY <2>2, <2>20, <2>21, <2>22 DEF BackPart
  <2> QED
    BY <1>14, <2>23
<1>19. CASE ~ GoesDown(f, k, d)
  <2>1. k # -d /\ s = Far(u, v, T, d - 1, k - 1) + 1
    BY <1>1, <1>6, <1>17, <1>19 DEF FarHow
  <2>2. k - 1 \in Diags(d - 1)
    BY <1>1, <1>5, <2>1, DiagsAre
  <2>3. PICK c : c = Far(u, v, T, d - 1, k - 1)
    OBVIOUS
  <2>4. c \in Nat /\ f[k - 1] = c /\ c - (k - 1) >= 0
    <3>1. f[k - 1] = c
      BY <1>17, <2>2, <2>3, TraceFar
    <3>2. FarHow(u, v, T, d - 1, k - 1, StartCol(T[(d - 1) + 1], k - 1, d - 1), c)
      BY <1>1, <2>2, <2>3, FarIs
    <3> QED
      BY <3>1, <3>2 DEF FarHow
  <2>5. s = c + 1 /\ t = c - (k - 1)
    BY <1>7, <1>8, <2>1, <2>3, <2>4
  <2>6. Pick(GoesDown(f, x - y, d), x - y + 1, x - y - 1) = k - 1
    BY <1>3, <1>19 DEF Pick
  <2>7. t = Larger(0, c - (k - 1))
    BY <1>7, <2>4, <2>5 DEF Larger, Pick
  <2>8. n = Larger(0, Smaller(x - c, y - t)) /\ n <= x /\ n <= y
    <3>1. x - c = n + 1 /\ y - t = n
      BY <1>9, <2>4, <2>5
    <3>2. Smaller(x - c, y - t) = n
      BY <3>1 DEF Smaller, Pick
    <3> QED
      BY <1>7, <1>9, <3>2 DEF Larger, Pick
  <2>9. x - n # c
    BY <1>9, <2>4, <2>5
  <2>10. b.col = x - n - 1 /\ b.row = y - n
         /\ b.ops = <<DiffOp("del", x - n - 1 + o, 0, 1)>> \o EqRun(o + (x - n), o + (y - n), n) \o w.ops
    <3>1. BackFrom(T, w, d, n, x, y, c, t)
      BY <1>2, <1>0, <1>17, <2>4, <2>6, <2>7, <2>8 DEF BackFrom
    <3>2. BackTo(T, o, w, d, n, x, y, c, t, BackOver(T, o, w, d), EqRun(o + (x - n), o + (y - n), n))
      BY <1>1, <2>4, <3>1, BackOverIs
    <3> QED
      BY <1>1, <1>14, <2>9, <3>2 DEF BackTo
  <2>11. PICK op : op = DiffOp("del", o + c, 0, 1)
    OBVIOUS
  <2>12. b.col = c /\ b.row = t /\ b.ops = <<op>> \o run \o ops
    <3>1. x - n - 1 = c /\ x - n - 1 + o = o + c /\ x - n = s /\ y - n = t /\ o + (x - n) = c0 /\ o + (y - n) = r0
      BY <1>1, <1>7, <1>9, <1>10, <2>4, <2>5
    <3> QED
      BY <1>2, <1>0, <1>11, <2>10, <2>11, <3>1
  <2>13. op \in DiffOps
    <3>1. o + c \in Nat
      BY <1>1, <2>4
    <3> QED
      BY <2>11, <3>1 DEF DiffOp, DiffOps, Kinds
  <2>14. b.ops = <<op>> \o all
    <3>1. PICK one : one = <<op>>
      OBVIOUS
    <3>2. one \in Seq(DiffOps)
      BY <2>13, <3>1
    <3>3. (one \o run) \o ops = one \o (run \o ops)
      BY ONLY <1>13, <3>2, ConcatAssociative
    <3> QED
      BY <1>11, <2>12, <3>1, <3>3
  <2>15. Rest(old, new, b.ops, o + c, o + t, o + Len(u), o + Len(v), E + 1)
    <3>1. PICK C \in Nat, R \in Nat, c1 \in Nat : C = o + Len(u) /\ R = o + Len(v) /\ c1 = o + c /\ c0 = c1 + 1
      <4>1. o + Len(u) \in Nat /\ o + Len(v) \in Nat
        BY <1>1
      <4>2. o + c \in Nat /\ c0 = (o + c) + 1
        BY <1>1, <1>10, <2>4, <2>5
      <4> QED
        BY ONLY <4>1, <4>2
    <3>2. Rest(old, new, all, c1 + 1, r0, C, R, E)
      BY <1>12, <1>15, <3>1
    <3>3. Rest(old, new, <<op>> \o all, c1, r0, C, R, E + 1)
      BY <1>16, <2>11, <3>1, <3>2, RestDel
    <3> QED
      BY <1>10, <2>14, <3>1, <3>3
  <2>16. c - t = k - 1
    BY <1>7, <2>4, <2>5
  <2>17. (d - 1) + 2 = d + 1 /\ (k - 1) + 1 = k /\ (d - 1) + 1 = d /\ d <= Len(T) - 1
    BY <1>1, <1>7
  <2> QED
    BY <1>14, <1>16, <1>17, <1>19, <2>2, <2>3, <2>4, <2>12, <2>15, <2>16, <2>17 DEF BackPart
<1> QED
  BY <1>17, <1>18, <1>19

LEMMA BackLast ==
    ASSUME NEW old, NEW new, NEW u, NEW v, NEW o, Inner(old, new, u, v, o), NEW T, NEW D,
           Traced(u, v, T, D), D = Len(T) - 1, NEW w, BackPart(old, new, u, v, o, T, 0, w)
    PROVE  Rest(old, new, BackOver(T, o, w, 0).ops, o, o, o + Len(u), o + Len(v), D)
<1>1. o \in Nat /\ Len(u) \in Nat /\ Len(v) \in Nat /\ D \in Nat /\ 0 \in 0..D
  BY DEF Inner, Traced
<1>2. PICK x \in Nat, y \in Nat : x = w.col /\ y = w.row
  BY DEF BackPart
<1>0. PICK ops : ops = w.ops
  OBVIOUS
<1>3. PICK k : k = x - y
  OBVIOUS
<1>4. PICK s : s = StartCol(T[0 + 1], k, 0)
  OBVIOUS
<1>5. /\ k \in Diags(0) /\ x = Far(u, v, T, 0, k)
      /\ Rest(old, new, ops, o + x, o + y, o + Len(u), o + Len(v), D)
  <2>1. Len(T) - 1 - 0 = D
    BY <1>1
  <2> QED
    BY <1>2, <1>0, <1>3, <2>1 DEF BackPart
<1>6. FarHow(u, v, T, 0, k, s, x)
  BY <1>1, <1>4, <1>5, FarIs
<1>7. /\ s = 0 /\ k = 0 /\ (x > 0 => x <= Len(u) /\ x <= Len(v))
      /\ \A i \in 1..x : u[i] = v[i]
  <2>1. s = 0 /\ k = 0
    BY <1>6 DEF FarHow
  <2>2. x > s => x <= Len(u) /\ x - k <= Len(v)
    BY <1>6 DEF FarHow
  <2>3. \A i \in 1..(x - s) : u[s + i] = v[s - k + i]
    BY <1>6 DEF FarHow
  <2>4. x - s = x /\ x - k = x /\ \A i \in 1..x : s + i = i /\ s - k + i = i
    BY <2>1
  <2> QED
    BY <2>1, <2>2, <2>3, <2>4
<1>8. x = y
  BY <1>3, <1>7
<1>9. Alike(old, new, o, o, x)
  <2>1. PICK z \in Nat : z = 0
    OBVIOUS
  <2>2. x > 0 => z + x <= Len(u) /\ z + x <= Len(v)
    BY <1>7, <2>1
  <2>3. \A i \in 1..x : z + i = i
    BY <2>1
  <2>4. Alike(u, v, z, z, x)
    BY <1>7, <2>3 DEF Alike
  <2>5. Alike(old, new, o + z, o + z, x)
    BY <2>2, <2>4, SlideAgrees
  <2>6. o + z = o
    BY <1>1, <2>1
  <2> QED
    BY <2>5, <2>6
<1>10. Rest(old, new, EqRun(o, o, x) \o ops, o, o, o + Len(u), o + Len(v), D)
  <2>1. PICK C \in Nat, R \in Nat : C = o + Len(u) /\ R = o + Len(v)
    BY <1>1
  <2>2. Rest(old, new, ops, o + x, o + x, C, R, D)
    BY <1>5, <1>8, <2>1
  <2> QED
    BY <1>1, <1>9, <2>1, <2>2, RestEq
<1>11. PICK f : f = T[0 + 1]
  OBVIOUS
<1>12. GoesDown(f, x - y, 0)
  <2>1. x - y \in Int /\ 0 \in Int /\ (x - y) + 0 = 0
    BY <1>8
  <2> QED
    BY <2>1, FirstDown
<1>13. Pick(GoesDown(f, x - y, 0), x - y + 1, x - y - 1) = 1
  BY <1>8, <1>12 DEF Pick
<1>14. f[1] = 0
  <2>1. Len(T) > 0 /\ 1 \in -(Len(u) + Len(v))..(Len(u) + Len(v)) /\ 0 + 1 = 1
    BY DEF Traced, GoodTrace
  <2> QED
    BY <1>11, <2>1 DEF Traced, GoodTrace
<1>15. 0 = Larger(0, 0 - 1)
  BY DEF Larger, Pick
<1>16. x = Larger(0, Smaller(x - 0, y - 0)) /\ x <= x /\ x <= y
  BY <1>8 DEF Larger, Smaller, Pick
<1>17. BackOver(T, o, w, 0).ops = EqRun(o + (x - x), o + (y - x), x) \o w.ops
  <2>1. PICK z \in Nat : z = 0
    OBVIOUS
  <2>2. BackFrom(T, w, 0, x, x, y, z, z)
    <3>1. z = Larger(0, z - 1) /\ x - z = x /\ y - z = y /\ x = Larger(0, Smaller(x, y))
      BY <1>8, <2>1 DEF Larger, Smaller, Pick
    <3>2. z = f[1]
      BY <1>14, <2>1
    <3>3. PICK pr : pr = Pick(GoesDown(f, x - y, 0), x - y + 1, x - y - 1)
      OBVIOUS
    <3>4. pr = 1
      BY <1>13, <3>3
    <3>5. z = f[pr] /\ z - pr = z - 1
      BY <3>2, <3>4
    <3>6. z = Larger(0, z - pr) /\ x = Larger(0, Smaller(x - z, y - z)) /\ x <= y
      BY <1>8, <3>1, <3>5
    <3> QED
      BY <1>2, <1>0, <1>11, <3>3, <3>5, <3>6 DEF BackFrom
  <2>3. BackTo(T, o, w, 0, x, x, y, z, z, BackOver(T, o, w, 0), EqRun(o + (x - x), o + (y - x), x))
    BY <1>1, <2>2, BackOverIs
  <2> QED
    BY <2>3 DEF BackTo
<1>18. o + (x - x) = o /\ o + (y - x) = o
  BY <1>1, <1>8
<1> QED
  BY <1>2, <1>0, <1>10, <1>17, <1>18

(* The recursion of backtrack. *)
BackSteps(trace, offset, start, n, w) ==
    w = [i \in 0..n |-> IF i = 0 THEN start
                        ELSE BackOver(trace, offset, w[i - 1], Len(trace) - i)]

LEMMA BackExists ==
    ASSUME NEW trace, NEW offset, NEW start, NEW n \in Nat
    PROVE  \E w : BackSteps(trace, offset, start, n, w)
<1> DEFINE P == {m \in Nat : \E w : BackSteps(trace, offset, start, m, w)}
<1>1. 0 \in P
  <2> DEFINE w == [i \in 0..0 |-> start]
  <2>1. BackSteps(trace, offset, start, 0, w)
    BY DEF BackSteps
  <2> QED
    BY <2>1, Zenon
<1>2. ASSUME NEW m \in P \cap Nat PROVE m + 1 \in P
  <2> SUFFICES \E w : BackSteps(trace, offset, start, m + 1, w)
    OBVIOUS
  <2>1. PICK g : BackSteps(trace, offset, start, m, g)
    OBVIOUS
  <2> DEFINE F(x, i) == BackOver(trace, offset, x, Len(trace) - i)
             B == start
             w == [i \in 0 .. m + 1 |-> IF i = m + 1 THEN F(g[m], m + 1) ELSE g[i]]
  <2>2. \A i \in 0..m : g[i] = IF i = 0 THEN B ELSE F(g[i - 1], i)
    BY <2>1 DEF BackSteps
  <2> HIDE DEF F, B
  <2>3. ASSUME NEW i \in 0 .. m + 1
        PROVE  w[i] = IF i = 0 THEN B ELSE F(w[i - 1], i)
    <3>1. CASE i = m + 1
      <4>1. w[i] = F(g[m], m + 1) /\ w[i - 1] = g[m] /\ i # 0
        BY <3>1
      <4> HIDE DEF w
      <4> QED BY <4>1, <3>1
    <3>2. CASE i \in 0..m
      <4>1. w[i] = g[i] /\ (i # 0 => w[i - 1] = g[i - 1])
        BY <3>2
      <4> HIDE DEF w
      <4> QED BY <4>1, <3>2, <2>2
    <3> QED
      BY <3>1, <3>2
  <2>4. w = [i \in 0 .. m + 1 |-> w[i]]
    OBVIOUS
  <2>5. BackSteps(trace, offset, start, m + 1, w)
    <3> HIDE DEF w
    <3> QED BY <2>3, <2>4 DEF BackSteps, F, B
  <2> QED
    BY <2>5, Zenon
<1>3. Nat \subseteq P
  <2> HIDE DEF P
  <2> QED BY <1>1, <1>2, SetInduction, Zenon
<1> QED
  BY <1>3

LEMMA BacktrackIs ==
    ASSUME NEW old, NEW new, NEW u, NEW v, NEW o, Inner(old, new, u, v, o), NEW T, Found(u, v, T)
    PROVE  Rest(old, new, backtrack(T, Len(u), Len(v), o), o, o, o + Len(u), o + Len(v), Len(T) - 1)
<1> DEFINE start == [col |-> Len(u), row |-> Len(v), ops |-> <<>>]
           w == CHOOSE g : BackSteps(T, o, start, Len(T), g)
<1>1. /\ Len(T) \in Nat /\ Len(T) >= 1 /\ o \in Nat /\ Len(u) \in Nat /\ Len(v) \in Nat
      /\ Traced(u, v, T, Len(T) - 1)
  BY DEF Found, Traced, GoodTrace, Inner
<1>2. BackSteps(T, o, start, Len(T), w)
  BY <1>1, BackExists, Zenon
<1>3. backtrack(T, Len(u), Len(v), o) = w[Len(T)].ops
  BY Zenon DEF backtrack, BackSteps
<1> HIDE DEF w
<1>4. w[0] = start /\ \A i \in 1..Len(T) : w[i] = BackOver(T, o, w[i - 1], Len(T) - i)
  <2>1. 0 \in 0..Len(T) /\ \A i \in 1..Len(T) : i \in 0..Len(T) /\ i # 0
    BY <1>1
  <2> HIDE DEF start
  <2> QED
    BY <1>2, <2>1 DEF BackSteps
<1>5. PICK D \in Nat : D = Len(T) - 1
  BY <1>1
<1> DEFINE P == {i \in 0..D : BackPart(old, new, u, v, o, T, D - i, w[i])}
<1>6. 0 \in P
  <2>1. w[0].col = Len(u) /\ w[0].row = Len(v) /\ w[0].ops = <<>>
    BY <1>4
  <2>2. D - 0 = D /\ Len(T) - 1 - D = 0 /\ o + Len(u) \in Nat /\ o + Len(v) \in Nat
    BY <1>1, <1>5
  <2>3. Rest(old, new, <<>>, o + Len(u), o + Len(v), o + Len(u), o + Len(v), 0)
    BY <2>2, RestEmpty
  <2>4. BackPart(old, new, u, v, o, T, D, w[0])
    BY <1>1, <1>5, <2>1, <2>2, <2>3 DEF BackPart, Found
  <2> QED
    BY <1>5, <2>2, <2>4
<1>7. ASSUME NEW i \in P, i \in Nat, i < D PROVE i + 1 \in P
  <2>1. i \in 0..D /\ BackPart(old, new, u, v, o, T, D - i, w[i])
    BY <1>7
  <2>2. D - i \in 1..D /\ (D - i) - 1 = D - (i + 1) /\ i + 1 \in 1..Len(T) /\ (i + 1) - 1 = i
        /\ Len(T) - (i + 1) = D - i /\ i + 1 \in 0..D
    BY <1>1, <1>5, <1>7
  <2>3. BackPart(old, new, u, v, o, T, (D - i) - 1, BackOver(T, o, w[i], D - i))
    BY <1>1, <1>5, <2>1, <2>2, BackStep
  <2>4. w[i + 1] = BackOver(T, o, w[i], D - i)
    BY <1>4, <2>2
  <2> QED
    BY <2>2, <2>3, <2>4
<1>8. D \in P
  <2> HIDE DEF P
  <2> QED BY <1>5, <1>6, <1>7, UpTo
<1>9. BackPart(old, new, u, v, o, T, 0, w[D])
  <2>1. D - D = 0
    BY <1>5
  <2> QED
    BY <1>8, <2>1
<1>10. Rest(old, new, BackOver(T, o, w[D], 0).ops, o, o, o + Len(u), o + Len(v), D)
  BY <1>1, <1>5, <1>9, BackLast
<1>11. Len(T) \in 1..Len(T) /\ Len(T) - 1 = D /\ Len(T) - Len(T) = 0
  BY <1>1, <1>5
<1>12. w[Len(T)] = BackOver(T, o, w[D], 0)
  BY <1>4, <1>11
<1> QED
  BY <1>3, <1>10, <1>11, <1>12

(* Two steps of a kind make one.                                             *)
LEMMA MergedStep ==
    ASSUME NEW old, NEW new, NEW a, NEW b, NEW p \in Places, NEW q, NEW r,
           Follows(old, new, a, p, q), Follows(old, new, b, q, r), a.kind = b.kind,
           NEW c, c = [a EXCEPT !.n = @ + b.n]
    PROVE  Follows(old, new, c, p, r)
<1>1. PICK n \in Nat, m \in Nat : n = a.n /\ m = b.n /\ n > 0 /\ m > 0
  BY DEF Follows
<1>2. PICK x \in Nat, y \in Nat, k \in Nat : x = p.col /\ y = p.row /\ k = p.kept
  BY PlaceParts
<1>3. CASE EqStep(old, new, a, p, q)
  <2>1. a = DiffOp("eq", x, y, n) /\ q = PlaceAt(x + n, y + n, k + n, "eq")
        /\ \A i \in 1..n : old[x + i] = new[y + i]
    BY <1>1, <1>2, <1>3 DEF EqStep
  <2>2. q.col = x + n /\ q.row = y + n /\ q.kept = k + n /\ a.kind = "eq"
    BY <2>1 DEF PlaceAt, DiffOp
  <2>3. EqStep(old, new, b, q, r)
    <3>1. b.kind = "eq"
      BY <2>2
    <3>2. ~ InsStep(b, q, r)
      <4> SUFFICES ASSUME InsStep(b, q, r) PROVE FALSE
        OBVIOUS
      <4>1. b.kind = "ins"
        BY DEF InsStep, DiffOp
      <4> QED
        BY <3>1, <4>1
    <3>3. ~ DelStep(b, q, r)
      <4> SUFFICES ASSUME DelStep(b, q, r) PROVE FALSE
        OBVIOUS
      <4>1. b.kind = "del"
        BY DEF DelStep, DiffOp
      <4> QED
        BY <3>1, <4>1
    <3> QED
      BY <3>2, <3>3 DEF Follows
  <2>4. r = PlaceAt(x + n + m, y + n + m, k + n + m, "eq") /\ \A i \in 1..m : old[x + n + i] = new[y + n + i]
    BY <1>1, <2>2, <2>3 DEF EqStep
  <2>5. c = DiffOp("eq", x, y, n + m) /\ c.n = n + m
    BY <1>1, <2>1 DEF DiffOp
  <2>6. \A i \in 1..(n + m) : old[x + i] = new[y + i]
    <3> SUFFICES ASSUME NEW i \in 1..(n + m) PROVE old[x + i] = new[y + i]
      OBVIOUS
    <3>1. CASE i <= n
      BY <2>1, <3>1
    <3>2. CASE i > n
      <4>1. i - n \in 1..m /\ x + n + (i - n) = x + i /\ y + n + (i - n) = y + i
        BY <3>2
      <4> QED
        BY <2>4, <4>1
    <3> QED
      BY <3>1, <3>2
  <2>7. r = PlaceAt(x + (n + m), y + (n + m), k + (n + m), "eq")
    BY <2>4
  <2>8. EqStep(old, new, c, p, r)
    BY <1>2, <2>5, <2>6, <2>7 DEF EqStep
  <2> QED
    BY <1>1, <2>5, <2>8 DEF Follows
<1>4. CASE InsStep(a, p, q)
  <2>1. a = DiffOp("ins", 0, y, n) /\ q = PlaceAt(x, y + n, k, "ins")
    BY <1>1, <1>2, <1>4 DEF InsStep
  <2>2. q.col = x /\ q.row = y + n /\ q.kept = k /\ a.kind = "ins"
    BY <2>1 DEF PlaceAt, DiffOp
  <2>3. InsStep(b, q, r)
    <3>1. b.kind = "ins"
      BY <2>2
    <3>2. ~ EqStep(old, new, b, q, r)
      <4> SUFFICES ASSUME EqStep(old, new, b, q, r) PROVE FALSE
        OBVIOUS
      <4>1. b.kind = "eq"
        BY DEF EqStep, DiffOp
      <4> QED
        BY <3>1, <4>1
    <3>3. ~ DelStep(b, q, r)
      <4> SUFFICES ASSUME DelStep(b, q, r) PROVE FALSE
        OBVIOUS
      <4>1. b.kind = "del"
        BY DEF DelStep, DiffOp
      <4> QED
        BY <3>1, <4>1
    <3> QED
      BY <3>2, <3>3 DEF Follows
  <2>4. r = PlaceAt(x, y + n + m, k, "ins")
    BY <1>1, <2>2, <2>3 DEF InsStep
  <2>5. c = DiffOp("ins", 0, y, n + m) /\ c.n = n + m
    BY <1>1, <2>1 DEF DiffOp
  <2>6. r = PlaceAt(x, y + (n + m), k, "ins")
    BY <2>4
  <2>7. InsStep(c, p, r)
    BY <1>2, <2>5, <2>6 DEF InsStep
  <2> QED
    BY <1>1, <2>5, <2>7 DEF Follows
<1>5. CASE DelStep(a, p, q)
  <2>1. a = DiffOp("del", x, 0, n) /\ q = PlaceAt(x + n, y, k, "del") /\ p.last # "ins"
    BY <1>1, <1>2, <1>5 DEF DelStep
  <2>2. q.col = x + n /\ q.row = y /\ q.kept = k /\ a.kind = "del"
    BY <2>1 DEF PlaceAt, DiffOp
  <2>3. DelStep(b, q, r)
    <3>1. b.kind = "del"
      BY <2>2
    <3>2. ~ EqStep(old, new, b, q, r)
      <4> SUFFICES ASSUME EqStep(old, new, b, q, r) PROVE FALSE
        OBVIOUS
      <4>1. b.kind = "eq"
        BY DEF EqStep, DiffOp
      <4> QED
        BY <3>1, <4>1
    <3>3. ~ InsStep(b, q, r)
      <4> SUFFICES ASSUME InsStep(b, q, r) PROVE FALSE
        OBVIOUS
      <4>1. b.kind = "ins"
        BY DEF InsStep, DiffOp
      <4> QED
        BY <3>1, <4>1
    <3> QED
      BY <3>2, <3>3 DEF Follows
  <2>4. r = PlaceAt(x + n + m, y, k, "del")
    BY <1>1, <2>2, <2>3 DEF DelStep
  <2>5. c = DiffOp("del", x, 0, n + m) /\ c.n = n + m
    BY <1>1, <2>1 DEF DiffOp
  <2>6. r = PlaceAt(x + (n + m), y, k, "del")
    BY <2>4
  <2>7. DelStep(c, p, r)
    BY <1>2, <2>1, <2>5, <2>6 DEF DelStep
  <2> QED
    BY <1>1, <2>5, <2>7 DEF Follows
<1> QED
  BY <1>3, <1>4, <1>5 DEF Follows

LEMMA JoinedIs ==
    ASSUME NEW old, NEW new, NEW ms, NEW op, NEW p, NEW q, NEW r,
           Script(old, new, ms, p, q), Follows(old, new, op, q, r)
    PROVE  Script(old, new, Joined(ms, op), p, r)
<1>1. PICK at : Along(old, new, ms, at) /\ at[0] = p /\ at[Len(ms)] = q
  BY DEF Script
<1>2. ms \in Seq(DiffOps) /\ at \in [0..Len(ms) -> Places] /\ \A i \in 1..Len(ms) : Follows(old, new, ms[i], at[i - 1], at[i])
  BY <1>1 DEF Along
<1>3. PICK n \in Nat : n = Len(ms)
  BY <1>2
<1>4. q \in Places /\ p \in Places
  BY <1>1, <1>2, <1>3
<1>5. op \in DiffOps /\ r \in Places
  BY <1>4, FollowsTyped
<1>6. CASE ms # <<>> /\ Continues(Last(ms), op)
  <2>1. n > 0
    BY <1>2, <1>3, <1>6
  <2>2. PICK a, c : a = ms[n] /\ c = [a EXCEPT !.n = @ + op.n]
    OBVIOUS
  <2>3. n \in 1..n /\ n - 1 \in 0..n
    BY <2>1
  <2>4. Follows(old, new, a, at[n - 1], q) /\ at[n - 1] \in Places /\ a.kind = op.kind
    BY <1>1, <1>2, <1>3, <1>6, <2>2, <2>3 DEF Continues, Last
  <2>5. Follows(old, new, c, at[n - 1], r)
    BY <2>2, <2>4, MergedStep
  <2>6. c \in DiffOps
    BY <2>4, <2>5, FollowsTyped
  <2>7. PICK zs : zs = [ms EXCEPT ![n] = c]
    OBVIOUS
  <2>8. Joined(ms, op) = zs
    <3>1. [ms EXCEPT ![n].n = @ + op.n] = [ms EXCEPT ![n] = [ms[n] EXCEPT !.n = ms[n].n + op.n]]
      OBVIOUS
    <3> QED
      BY <1>3, <1>6, <2>2, <2>7, <3>1 DEF Joined
  <2>9. PICK bt : bt = [at EXCEPT ![n] = r]
    OBVIOUS
  <2>10. zs \in Seq(DiffOps) /\ Len(zs) = n /\ zs[n] = c /\ \A i \in 1..(n - 1) : zs[i] = ms[i]
    BY <1>2, <1>3, <2>3, <2>6, <2>7
  <2>11. bt \in [0..n -> Places] /\ bt[n] = r /\ \A i \in 0..(n - 1) : bt[i] = at[i]
    BY <1>2, <1>3, <1>5, <2>3, <2>9
  <2>12. ASSUME NEW i \in 1..n PROVE Follows(old, new, zs[i], bt[i - 1], bt[i])
    <3>1. CASE i = n
      <4>1. n - 1 \in 0..(n - 1)
        BY <2>1
      <4> QED
        BY <2>5, <2>10, <2>11, <3>1, <4>1
    <3>2. CASE i # n
      <4>1. i \in 1..(n - 1) /\ i \in 0..(n - 1) /\ i - 1 \in 0..(n - 1)
        BY <3>2
      <4> QED
        BY <1>2, <1>3, <2>10, <2>11, <4>1
    <3> QED
      BY <3>1, <3>2
  <2>13. Along(old, new, zs, bt)
    BY <2>10, <2>11, <2>12 DEF Along
  <2>14. bt[0] = p
    BY <1>1, <2>1, <2>11
  <2> QED
    BY <2>8, <2>10, <2>11, <2>13, <2>14 DEF Script
<1>7. CASE ~ (ms # <<>> /\ Continues(Last(ms), op))
  <2>1. Joined(ms, op) = Append(ms, op)
    BY <1>7 DEF Joined
  <2>2. PICK one : one = <<op>>
    OBVIOUS
  <2>3. Append(ms, op) = ms \o one
    BY <1>2, <1>5, <2>2, AppendIsConcat
  <2>4. Script(old, new, one, q, r)
    BY <1>4, <2>2, ScriptOne
  <2> QED
    BY <2>1, <2>3, <2>4, ScriptConcat
<1> QED
  BY <1>6, <1>7

(* The recursion of merge_ops. *)
MergedSteps(ops, n, w) ==
    w = [i \in 0..n |-> IF i = 0 THEN <<>>
                        ELSE Joined(w[i - 1], ops[i])]

LEMMA MergedExists ==
    ASSUME NEW ops, NEW n \in Nat
    PROVE  \E w : MergedSteps(ops, n, w)
<1> DEFINE P == {m \in Nat : \E w : MergedSteps(ops, m, w)}
<1>1. 0 \in P
  <2> DEFINE w == [i \in 0..0 |-> <<>>]
  <2>1. MergedSteps(ops, 0, w)
    BY DEF MergedSteps
  <2> QED
    BY <2>1, Zenon
<1>2. ASSUME NEW m \in P \cap Nat PROVE m + 1 \in P
  <2> SUFFICES \E w : MergedSteps(ops, m + 1, w)
    OBVIOUS
  <2>1. PICK g : MergedSteps(ops, m, g)
    OBVIOUS
  <2> DEFINE F(x, i) == Joined(x, ops[i])
             B == <<>>
             w == [i \in 0 .. m + 1 |-> IF i = m + 1 THEN F(g[m], m + 1) ELSE g[i]]
  <2>2. \A i \in 0..m : g[i] = IF i = 0 THEN B ELSE F(g[i - 1], i)
    BY <2>1 DEF MergedSteps
  <2> HIDE DEF F, B
  <2>3. ASSUME NEW i \in 0 .. m + 1
        PROVE  w[i] = IF i = 0 THEN B ELSE F(w[i - 1], i)
    <3>1. CASE i = m + 1
      <4>1. w[i] = F(g[m], m + 1) /\ w[i - 1] = g[m] /\ i # 0
        BY <3>1
      <4> HIDE DEF w
      <4> QED BY <4>1, <3>1
    <3>2. CASE i \in 0..m
      <4>1. w[i] = g[i] /\ (i # 0 => w[i - 1] = g[i - 1])
        BY <3>2
      <4> HIDE DEF w
      <4> QED BY <4>1, <3>2, <2>2
    <3> QED
      BY <3>1, <3>2
  <2>4. w = [i \in 0 .. m + 1 |-> w[i]]
    OBVIOUS
  <2>5. MergedSteps(ops, m + 1, w)
    <3> HIDE DEF w
    <3> QED BY <2>3, <2>4 DEF MergedSteps, F, B
  <2> QED
    BY <2>5, Zenon
<1>3. Nat \subseteq P
  <2> HIDE DEF P
  <2> QED BY <1>1, <1>2, SetInduction, Zenon
<1> QED
  BY <1>3

LEMMA MergeIs ==
    ASSUME NEW old, NEW new, NEW ops, NEW p, NEW q, Script(old, new, ops, p, q)
    PROVE  Script(old, new, merge_ops(ops), p, q)
<1>1. PICK at : Along(old, new, ops, at) /\ at[0] = p /\ at[Len(ops)] = q
  BY DEF Script
<1>2. ops \in Seq(DiffOps) /\ at \in [0..Len(ops) -> Places] /\ \A i \in 1..Len(ops) : Follows(old, new, ops[i], at[i - 1], at[i])
  BY <1>1 DEF Along
<1>3. Len(ops) \in Nat
  BY <1>2
<1> DEFINE w == CHOOSE g : MergedSteps(ops, Len(ops), g)
<1>4. MergedSteps(ops, Len(ops), w)
  BY <1>3, MergedExists, Zenon
<1>5. merge_ops(ops) = w[Len(ops)]
  BY Zenon DEF merge_ops, MergedSteps
<1> HIDE DEF w
<1>6. w[0] = <<>> /\ \A i \in 1..Len(ops) : w[i] = Joined(w[i - 1], ops[i])
  <2>1. 0 \in 0..Len(ops) /\ \A i \in 1..Len(ops) : i \in 0..Len(ops) /\ i # 0
    BY <1>3
  <2> QED
    BY <1>4, <2>1 DEF MergedSteps
<1>7. PICK n \in Nat : n = Len(ops)
  BY <1>3
<1> DEFINE P == {i \in 0..n : Script(old, new, w[i], p, at[i])}
<1>8. 0 \in P
  <2>1. p \in Places
    BY <1>1, <1>2, <1>7
  <2>2. Script(old, new, <<>>, p, p)
    BY <2>1, ScriptEmpty
  <2> QED
    BY <1>1, <1>6, <2>2
<1>9. ASSUME NEW i \in P, i \in Nat, i < n PROVE i + 1 \in P
  <2>1. Script(old, new, w[i], p, at[i])
    BY <1>9
  <2>2. i + 1 \in 1..n /\ (i + 1) - 1 = i /\ i + 1 \in 0..n
    BY <1>9
  <2>3. Follows(old, new, ops[i + 1], at[i], at[i + 1])
    BY <1>2, <1>7, <2>2
  <2>4. w[i + 1] = Joined(w[i], ops[i + 1])
    BY <1>6, <1>7, <2>2
  <2>5. Script(old, new, w[i + 1], p, at[i + 1])
    BY <2>1, <2>3, <2>4, JoinedIs
  <2> QED
    BY <2>2, <2>5
<1>10. n \in P
  <2> HIDE DEF P
  <2> QED BY <1>8, <1>9, UpTo
<1> QED
  BY <1>1, <1>5, <1>7, <1>10

(* What the search and the walk back make of the texts without their common  *)
(* ends: a script, and the number of its rounds tells what it keeps.         *)
LEMMA CoreIs ==
    ASSUME NEW old, NEW new, NEW u, NEW v, NEW o, Inner(old, new, u, v, o), Len(u) + Len(v) >= 1
    PROVE  \E T : \E g \in Nat :
               /\ Found(u, v, T) /\ 2 * g + (Len(T) - 1) = Len(u) + Len(v)
               /\ \A m \in Nat : \E l \in Kinds :
                     Script(old, new, myers_core(u, v, o), PlaceAt(o, o, m, "eq"), PlaceAt(o + Len(u), o + Len(v), m + g, l))
<1>1. o \in Nat /\ Len(u) \in Nat /\ Len(v) \in Nat
  BY DEF Inner
<1>2. PICK T : T = Search(u, v).trace
  OBVIOUS
<1>3. Found(u, v, T)
  BY <1>1, <1>2, SearchIs
<1>4. PICK ops : ops = backtrack(T, Len(u), Len(v), o)
  OBVIOUS
<1>5. Rest(old, new, ops, o, o, o + Len(u), o + Len(v), Len(T) - 1)
  BY <1>3, <1>4, BacktrackIs
<1>6. PICK g \in Nat : 2 * g + (Len(T) - 1) = ((o + Len(u)) - o) + ((o + Len(v)) - o)
                       /\ RestKeeps(old, new, ops, o, o, o + Len(u), o + Len(v), g)
  BY <1>5 DEF Rest
<1>7. ((o + Len(u)) - o) + ((o + Len(v)) - o) = Len(u) + Len(v)
  BY <1>1
<1>8. myers_core(u, v, o) = merge_ops(ops)
  BY <1>2, <1>4 DEF myers_core
<1>9. ASSUME NEW m \in Nat
      PROVE  \E l \in Kinds : Script(old, new, myers_core(u, v, o), PlaceAt(o, o, m, "eq"), PlaceAt(o + Len(u), o + Len(v), m + g, l))
  <2>1. "eq" \in Kinds /\ MayFollow("eq", ops)
    BY DEF Kinds, MayFollow
  <2>2. PICK l \in Kinds : Script(old, new, ops, PlaceAt(o, o, m, "eq"), PlaceAt(o + Len(u), o + Len(v), m + g, l))
    BY <1>6, <2>1 DEF RestKeeps
  <2>3. Script(old, new, merge_ops(ops), PlaceAt(o, o, m, "eq"), PlaceAt(o + Len(u), o + Len(v), m + g, l))
    BY <2>2, MergeIs
  <2> QED
    BY <1>8, <2>3
<1>10. 2 * g + (Len(T) - 1) = Len(u) + Len(v)
  BY <1>6, <1>7
<1> WITNESS T
<1> WITNESS g \in Nat
<1> QED
  BY <1>3, <1>9, <1>10

-----------------------------------------------------------------------------
(* The script of two whole texts.                                            *)

(* The common ends of two texts, and what is between them.                   *)
Cut(old, new, pre, suf, u, v) ==
    /\ pre \in Nat /\ suf \in Nat
    /\ Len(old) = pre + Len(u) + suf /\ Len(new) = pre + Len(v) + suf
    /\ Alike(old, new, 0, 0, pre) /\ Inner(old, new, u, v, pre)
    /\ Alike(old, new, pre + Len(u), pre + Len(v), suf)
Middle(u, v, pre) ==
    IF u = <<>> THEN Unless0(DiffOp("ins", 0, pre, Len(v)))
    ELSE IF v = <<>> THEN <<DiffOp("del", pre, 0, Len(u))>>
    ELSE myers_core(u, v, pre)
Ended(pre, suf, u, v) ==
    Unless0(DiffOp("eq", 0, 0, pre)) \o Middle(u, v, pre)
        \o Unless0(DiffOp("eq", pre + Len(u), pre + Len(v), suf))

LEMMA ReverseIs ==
    ASSUME NEW S, NEW s \in Seq(S)
    PROVE  Reverse(s) \in Seq(S) /\ Len(Reverse(s)) = Len(s)
           /\ \A i \in 1..Len(s) : Reverse(s)[i] = s[(Len(s) - i) + 1]
<1>1. PICK n \in Nat : n = Len(s)
  OBVIOUS
<1>2. \A i \in 1..n : s[(n - i) + 1] \in S
  <2>1. \A i \in 1..n : (n - i) + 1 \in 1..n
    OBVIOUS
  <2> QED
    BY <1>1, <2>1
<1>3. Reverse(s) = [i \in 1..n |-> s[(n - i) + 1]]
  BY <1>1 DEF Reverse
<1>4. Reverse(s) \in Seq(S) /\ Len(Reverse(s)) = n
  BY <1>2, <1>3
<1> QED
  BY <1>1, <1>3, <1>4

(* The last lines of a text.                                                 *)
LEMMA RestOfIs ==
    ASSUME NEW S, NEW s \in Seq(S), NEW p \in Nat, p <= Len(s)
    PROVE  /\ SubSeq(s, p + 1, Len(s)) \in Seq(S) /\ Len(SubSeq(s, p + 1, Len(s))) = Len(s) - p
           /\ \A i \in 1..(Len(s) - p) : SubSeq(s, p + 1, Len(s))[i] = s[p + i]
<1>1. PICK n \in Nat : n = Len(s)
  OBVIOUS
<1>2. \A i \in (p + 1)..n : s[i] \in S
  BY <1>1
<1>3. PICK t : t = SubSeq(s, p + 1, n)
  OBVIOUS
<1>4. /\ t \in Seq(S) /\ Len(t) = IF p + 1 <= n THEN n - (p + 1) + 1 ELSE 0
      /\ \A i \in 1..(n - (p + 1) + 1) : t[i] = s[(p + 1) + i - 1]
  BY <1>1, <1>2, <1>3, SubSeqProperties
<1>5. \A i \in 1..(n - p) : t[i] = s[p + i]
  <2>1. \A i \in 1..(n - p) : i \in 1..(n - (p + 1) + 1) /\ (p + 1) + i - 1 = p + i
    BY <1>1
  <2> QED
    BY <1>4, <2>1
<1>6. Len(t) = n - p
  BY <1>1, <1>4
<1> QED
  BY <1>1, <1>3, <1>4, <1>5, <1>6

(* The first lines of a text.                                                *)
LEMMA FrontOfIs ==
    ASSUME NEW S, NEW s \in Seq(S), NEW k \in Nat, k <= Len(s)
    PROVE  SubSeq(s, 1, k) \in Seq(S) /\ Len(SubSeq(s, 1, k)) = k /\ \A i \in 1..k : SubSeq(s, 1, k)[i] = s[i]
<1>1. \A i \in 1..k : s[i] \in S
  OBVIOUS
<1>2. PICK t : t = SubSeq(s, 1, k)
  OBVIOUS
<1>3. t \in Seq(S) /\ Len(t) = (IF 1 <= k THEN k - 1 + 1 ELSE 0) /\ \A i \in 1..(k - 1 + 1) : t[i] = s[1 + i - 1]
  BY <1>1, <1>2, SubSeqProperties
<1>4. \A i \in 1..k : i \in 1..(k - 1 + 1) /\ 1 + i - 1 = i
  OBVIOUS
<1>5. \A i \in 1..k : t[i] = s[i]
  BY <1>3, <1>4
<1>6. Len(t) = k
  BY <1>3
<1> QED
  BY <1>2, <1>3, <1>5, <1>6

LEMMA MyersForm ==
    ASSUME NEW S, NEW old \in Seq(S), NEW new \in Seq(S)
    PROVE  \E pre, suf, u, v : /\ Cut(old, new, pre, suf, u, v) /\ u \in Seq(S) /\ v \in Seq(S)
                               /\ myers_diff(old, new) = Ended(pre, suf, u, v)
<1>1. PICK n \in Nat, m \in Nat : n = Len(old) /\ m = Len(new)
  OBVIOUS
<1>2. PICK pre : pre = Agree(old, new, 0, 0)
  OBVIOUS
<1>3. AgreeSound(old, new, 0, 0, pre)
  BY <1>1, <1>2, AgreeIs
<1>4. pre \in Nat /\ pre <= n /\ pre <= m /\ Alike(old, new, 0, 0, pre)
  BY <1>1, <1>3 DEF AgreeSound, Alike
<1>5. PICK x, y : x = SubSeq(old, pre + 1, Len(old)) /\ y = SubSeq(new, pre + 1, Len(new))
  OBVIOUS
<1>6. x \in Seq(S) /\ Len(x) = n - pre /\ \A i \in 1..(n - pre) : x[i] = old[pre + i]
  BY <1>1, <1>4, <1>5, RestOfIs
<1>7. y \in Seq(S) /\ Len(y) = m - pre /\ \A i \in 1..(m - pre) : y[i] = new[pre + i]
  BY <1>1, <1>4, <1>5, RestOfIs
<1>8. PICK a, b : a = Reverse(x) /\ b = Reverse(y)
  OBVIOUS
<1>9. Len(a) = n - pre /\ \A i \in 1..(n - pre) : a[i] = x[((n - pre) - i) + 1]
  BY <1>6, <1>8, ReverseIs
<1>10. Len(b) = m - pre /\ \A i \in 1..(m - pre) : b[i] = y[((m - pre) - i) + 1]
  BY <1>7, <1>8, ReverseIs
<1>11. PICK suf : suf = Agree(a, b, 0, 0)
  OBVIOUS
<1>12. n - pre \in Nat /\ m - pre \in Nat
  BY <1>4
<1>13. AgreeSound(a, b, 0, 0, suf)
  BY <1>9, <1>10, <1>11, <1>12, AgreeIs
<1>14. suf \in Nat /\ suf <= n - pre /\ suf <= m - pre /\ \A i \in 1..suf : a[i] = b[i]
  BY <1>9, <1>10, <1>12, <1>13 DEF AgreeSound
<1>15. PICK p \in Nat, q \in Nat : p = n - pre - suf /\ q = m - pre - suf
  <2>1. pre \in Nat /\ suf \in Nat /\ pre + suf <= n /\ pre + suf <= m
    BY <1>4, <1>12, <1>14
  <2>2. n - pre - suf \in Nat /\ m - pre - suf \in Nat
    BY ONLY <2>1, n \in Nat, m \in Nat
  <2> QED
    BY ONLY <2>2
<1>16. PICK u, v : u = SubSeq(x, 1, p) /\ v = SubSeq(y, 1, q)
  OBVIOUS
<1>17. u \in Seq(S) /\ Len(u) = p /\ \A i \in 1..p : u[i] = x[i]
  BY <1>4, <1>6, <1>14, <1>15, <1>16, FrontOfIs
<1>18. v \in Seq(S) /\ Len(v) = q /\ \A i \in 1..q : v[i] = y[i]
  BY <1>4, <1>7, <1>14, <1>15, <1>16, FrontOfIs
<1>19. Inner(old, new, u, v, pre)
  <2>1. \A i \in 1..p : i \in 1..(n - pre)
    BY <1>4, <1>14, <1>15
  <2>2. \A i \in 1..q : i \in 1..(m - pre)
    BY <1>4, <1>14, <1>15
  <2> QED
    BY <1>4, <1>6, <1>7, <1>15, <1>17, <1>18, <2>1, <2>2 DEF Inner
<1>20. Alike(old, new, pre + Len(u), pre + Len(v), suf)
  <2> SUFFICES ASSUME NEW i \in 1..suf PROVE old[pre + p + i] = new[pre + q + i]
    BY <1>17, <1>18 DEF Alike
  <2>1. PICK j : j = suf - i + 1
    OBVIOUS
  <2>2. j \in 1..suf /\ j \in 1..(n - pre) /\ j \in 1..(m - pre)
    BY <1>4, <1>14, <2>1
  <2>3. a[j] = x[((n - pre) - j) + 1] /\ b[j] = y[((m - pre) - j) + 1] /\ a[j] = b[j]
    BY <1>9, <1>10, <1>14, <2>2
  <2>4. ((n - pre) - j) + 1 = p + i /\ ((m - pre) - j) + 1 = q + i /\ p + i \in 1..(n - pre) /\ q + i \in 1..(m - pre)
    BY <1>4, <1>14, <1>15, <2>1
  <2>5. x[p + i] = old[pre + (p + i)] /\ y[q + i] = new[pre + (q + i)]
    BY <1>6, <1>7, <2>4
  <2>6. pre + (p + i) = pre + p + i /\ pre + (q + i) = pre + q + i
    BY <1>4, <1>15
  <2> QED
    BY <2>3, <2>4, <2>5, <2>6
<1>21. n = pre + Len(u) + suf /\ m = pre + Len(v) + suf
  BY <1>4, <1>14, <1>15, <1>17, <1>18
<1>22. Cut(old, new, pre, suf, u, v)
  BY <1>1, <1>4, <1>14, <1>19, <1>20, <1>21 DEF Cut
<1>23. myers_diff(old, new) = Ended(pre, suf, u, v)
  <2>1. p = Len(x) - suf /\ q = Len(y) - suf
    BY <1>6, <1>7, <1>15
  <2>2. Len(old) - suf = pre + Len(u) /\ Len(new) - suf = pre + Len(v)
    BY <1>1, <1>4, <1>14, <1>15, <1>17, <1>18
  <2> QED
    BY <1>2, <1>5, <1>8, <1>11, <1>16, <2>1, <2>2 DEF myers_diff, Ended, Middle
<1> QED
  BY <1>17, <1>18, <1>22, <1>23

(* A step of some lines, or none if there are none.                          *)
LEMMA RunEq ==
    ASSUME NEW old, NEW new, NEW c \in Nat, NEW r \in Nat, NEW m \in Nat, NEW l \in Kinds, NEW n \in Nat,
           Alike(old, new, c, r, n)
    PROVE  \E l2 \in Kinds : /\ l = "eq" => l2 = "eq"
                             /\ Script(old, new, Unless0(DiffOp("eq", c, r, n)), PlaceAt(c, r, m, l), PlaceAt(c + n, r + n, m + n, l2))
<1>1. PICK op, p, q : op = DiffOp("eq", c, r, n) /\ p = PlaceAt(c, r, m, l) /\ q = PlaceAt(c + n, r + n, m + n, "eq")
  OBVIOUS
<1>2. op.n = n /\ p.col = c /\ p.row = r /\ p.kept = m /\ p \in Places
  BY <1>1 DEF DiffOp, PlaceAt, Places
<1>3. CASE n = 0
  <2>1. Unless0(op) = <<>>
    BY <1>2, <1>3 DEF Unless0, Pick
  <2>2. Script(old, new, <<>>, p, p)
    BY <1>2, ScriptEmpty
  <2>3. c + n = c /\ r + n = r /\ m + n = m
    BY <1>3
  <2> QED
    BY <1>1, <2>1, <2>2, <2>3
<1>4. CASE n # 0
  <2>1. Unless0(op) = <<op>>
    BY <1>2, <1>4 DEF Unless0, Pick
  <2>2. EqStep(old, new, op, p, q)
    BY <1>1, <1>2 DEF EqStep, Alike
  <2>3. Follows(old, new, op, p, q)
    BY <1>2, <1>4, <2>2 DEF Follows
  <2>4. Script(old, new, <<op>>, p, q)
    BY <1>2, <2>3, ScriptOne
  <2>5. "eq" \in Kinds
    BY DEF Kinds
  <2> QED
    BY <1>1, <2>1, <2>4, <2>5
<1> QED
  BY <1>3, <1>4

LEMMA RunIns ==
    ASSUME NEW old, NEW new, NEW c \in Nat, NEW r \in Nat, NEW m \in Nat, NEW l \in Kinds, NEW n \in Nat
    PROVE  \E l2 \in Kinds : Script(old, new, Unless0(DiffOp("ins", 0, r, n)), PlaceAt(c, r, m, l), PlaceAt(c, r + n, m, l2))
<1>1. PICK op, p, q : op = DiffOp("ins", 0, r, n) /\ p = PlaceAt(c, r, m, l) /\ q = PlaceAt(c, r + n, m, "ins")
  OBVIOUS
<1>2. op.n = n /\ p.col = c /\ p.row = r /\ p.kept = m /\ p \in Places
  BY <1>1 DEF DiffOp, PlaceAt, Places
<1>3. CASE n = 0
  <2>1. Unless0(op) = <<>>
    BY <1>2, <1>3 DEF Unless0, Pick
  <2>2. Script(old, new, <<>>, p, p)
    BY <1>2, ScriptEmpty
  <2>3. r + n = r
    BY <1>3
  <2> QED
    BY <1>1, <2>1, <2>2, <2>3
<1>4. CASE n # 0
  <2>1. Unless0(op) = <<op>>
    BY <1>2, <1>4 DEF Unless0, Pick
  <2>2. InsStep(op, p, q)
    BY <1>1, <1>2 DEF InsStep
  <2>3. Follows(old, new, op, p, q)
    BY <1>2, <1>4, <2>2 DEF Follows
  <2>4. Script(old, new, <<op>>, p, q)
    BY <1>2, <2>3, ScriptOne
  <2>5. "ins" \in Kinds
    BY DEF Kinds
  <2> QED
    BY <1>1, <2>1, <2>4, <2>5
<1> QED
  BY <1>3, <1>4

LEMMA RunDel ==
    ASSUME NEW old, NEW new, NEW c \in Nat, NEW r \in Nat, NEW m \in Nat, NEW n \in Nat
    PROVE  \E l2 \in Kinds : Script(old, new, Unless0(DiffOp("del", c, 0, n)), PlaceAt(c, r, m, "eq"), PlaceAt(c + n, r, m, l2))
<1>1. PICK op, p, q : op = DiffOp("del", c, 0, n) /\ p = PlaceAt(c, r, m, "eq") /\ q = PlaceAt(c + n, r, m, "del")
  OBVIOUS
<1>2. op.n = n /\ p.col = c /\ p.row = r /\ p.kept = m /\ p \in Places /\ p.last # "ins" /\ "eq" \in Kinds
  BY <1>1 DEF DiffOp, PlaceAt, Places, Kinds
<1>3. CASE n = 0
  <2>1. Unless0(op) = <<>>
    BY <1>2, <1>3 DEF Unless0, Pick
  <2>2. Script(old, new, <<>>, p, p)
    BY <1>2, ScriptEmpty
  <2>3. c + n = c
    BY <1>3
  <2> QED
    BY <1>1, <1>2, <2>1, <2>2, <2>3
<1>4. CASE n # 0
  <2>1. Unless0(op) = <<op>>
    BY <1>2, <1>4 DEF Unless0, Pick
  <2>2. DelStep(op, p, q)
    BY <1>1, <1>2 DEF DelStep
  <2>3. Follows(old, new, op, p, q)
    BY <1>2, <1>4, <2>2 DEF Follows
  <2>4. Script(old, new, <<op>>, p, q)
    BY <1>2, <2>3, ScriptOne
  <2>5. "del" \in Kinds
    BY DEF Kinds
  <2> QED
    BY <1>1, <2>1, <2>4, <2>5
<1> QED
  BY <1>3, <1>4

(* No list that both texts hold has more than k lines.                       *)
Best(old, new, k) ==
    \A a, b : \A c \in Nat :
        /\ Counts(Len(old), 0, a) /\ Counts(Len(new), 0, b) /\ Shared(old, new, a, b)
        /\ c <= a[Len(old)] /\ c <= b[Len(new)]
        => c <= k
(* The same of what is between the common ends.                              *)
BestWithin(u, v, p, g) ==
    \A a, b : \A c \in Nat :
        /\ Counts(Len(u), p, a) /\ Counts(Len(v), p, b) /\ Shared(u, v, a, b)
        /\ c <= a[Len(u)] /\ c <= b[Len(v)]
        => c <= p + g

LEMMA FoundBest ==
    ASSUME NEW u, NEW v, NEW T, Found(u, v, T), NEW g \in Nat, 2 * g + (Len(T) - 1) = Len(u) + Len(v), NEW p \in Nat
    PROVE  BestWithin(u, v, p, g)
<1>1. PICK n \in Nat, m \in Nat, D \in Nat : n = Len(u) /\ m = Len(v) /\ D = Len(T) - 1
  <2>1. Traced(u, v, T, Len(T) - 1)
    BY DEF Found
  <2>2. Len(u) \in Nat /\ Len(v) \in Nat /\ Len(T) - 1 \in 0..(Len(u) + Len(v))
    BY <2>1 DEF Traced
  <2>3. Len(T) - 1 \in Nat
    BY <2>2
  <2> QED
    BY <2>2, <2>3
<1>2. Traced(u, v, T, D) /\ 2 * g + D = n + m
  BY <1>1 DEF Found
<1> SUFFICES ASSUME NEW a, NEW b, NEW c \in Nat, Counts(n, p, a), Counts(m, p, b), Shared(u, v, a, b), c <= a[n], c <= b[m]
             PROVE  c <= p + g
  BY <1>1 DEF BestWithin
<1>3. a[n] \in Nat /\ a[n] <= p + n /\ b[m] \in Nat /\ b[m] <= p + m
  <2>1. n \in 0..n /\ m \in 0..m
    OBVIOUS
  <2> QED
    BY <2>1 DEF Counts
<1> SUFFICES ASSUME c > p + g PROVE FALSE
  OBVIOUS
<1>4. PICK e : e = n + m + 2 * p - 2 * c
  OBVIOUS
<1>5. e \in Nat /\ e < D /\ e <= D
  <2>1. c <= p + n /\ c <= p + m
    BY <1>3
  <2> QED
    BY <1>2, <1>4, <2>1
<1>6. Reached(u, v, T, p, c, n, m)
  <2>1. n \in 0..n /\ m \in 0..m
    OBVIOUS
  <2> QED
    BY <1>1, <1>2, <1>4, <1>5, <2>1, Furthest
<1>7. n - m \in Diags(e) /\ Far(u, v, T, e, n - m) >= n
  BY <1>4, <1>6 DEF Reached
<1>8. e + 1 \in 1..D /\ (e + 1) - 1 = e
  BY <1>5
<1>9. ~ Ends(u, v, Far(u, v, T, e, n - m), n - m)
  BY <1>2, <1>7, <1>8, TraceFar
<1>10. PICK x : x = Far(u, v, T, e, n - m)
  OBVIOUS
<1>11. e \in 0..D
  BY <1>5
<1>12. x \in Nat
  BY <1>2, <1>7, <1>10, <1>11, FarIs DEF FarHow
<1> QED
  BY <1>1, <1>7, <1>9, <1>10, <1>12 DEF Ends

(* Between the common ends.                                                  *)
LEMMA MiddleIs ==
    ASSUME NEW S, NEW old, NEW new, NEW pre, NEW suf, NEW u \in Seq(S), NEW v \in Seq(S), Cut(old, new, pre, suf, u, v)
    PROVE  \E g \in Nat : \E l \in Kinds :
              /\ Script(old, new, Middle(u, v, pre), PlaceAt(pre, pre, pre, "eq"), PlaceAt(pre + Len(u), pre + Len(v), pre + g, l))
              /\ BestWithin(u, v, pre, g)
<1>1. pre \in Nat /\ Inner(old, new, u, v, pre)
  BY DEF Cut
<1>2. PICK n \in Nat, m \in Nat : n = Len(u) /\ m = Len(v)
  OBVIOUS
<1>3. "eq" \in Kinds /\ pre + 0 = pre /\ 0 \in Nat
  BY <1>1 DEF Kinds
<1>4. ASSUME n = 0 \/ m = 0 PROVE BestWithin(u, v, pre, 0)
  <2> SUFFICES ASSUME NEW a, NEW b, NEW c \in Nat, Counts(n, pre, a), Counts(m, pre, b), c <= a[n], c <= b[m]
               PROVE  c <= pre + 0
    BY <1>2 DEF BestWithin
  <2>1. a[n] \in Nat /\ a[n] <= pre + n /\ b[m] \in Nat /\ b[m] <= pre + m
    <3>1. n \in 0..n /\ m \in 0..m
      OBVIOUS
    <3> QED
      BY <3>1 DEF Counts
  <2> QED
    BY <1>1, <1>4, <2>1
<1>5. CASE u = <<>>
  <2>1. n = 0
    BY <1>2, <1>5
  <2>2. Middle(u, v, pre) = Unless0(DiffOp("ins", 0, pre, m))
    BY <1>2, <1>5 DEF Middle
  <2>3. PICK l \in Kinds : Script(old, new, Unless0(DiffOp("ins", 0, pre, m)), PlaceAt(pre, pre, pre, "eq"), PlaceAt(pre, pre + m, pre, l))
    BY <1>1, <1>3, RunIns
  <2>4. pre + n = pre
    BY <1>1, <2>1
  <2> QED
    BY <1>2, <1>3, <1>4, <2>1, <2>2, <2>3, <2>4
<1>6. CASE u # <<>> /\ v = <<>>
  <2>1. m = 0 /\ n # 0
    BY <1>2, <1>6
  <2>2. Middle(u, v, pre) = <<DiffOp("del", pre, 0, n)>>
    BY <1>2, <1>6 DEF Middle
  <2>3. Unless0(DiffOp("del", pre, 0, n)) = <<DiffOp("del", pre, 0, n)>>
    BY <2>1 DEF Unless0, Pick, DiffOp
  <2>4. PICK l \in Kinds : Script(old, new, Unless0(DiffOp("del", pre, 0, n)), PlaceAt(pre, pre, pre, "eq"), PlaceAt(pre + n, pre, pre, l))
    BY <1>1, RunDel
  <2>5. pre + m = pre
    BY <1>1, <2>1
  <2> QED
    BY <1>2, <1>3, <1>4, <2>1, <2>2, <2>3, <2>4, <2>5
<1>7. CASE u # <<>> /\ v # <<>>
  <2>1. Len(u) + Len(v) >= 1
    BY <1>7
  <2>2. Middle(u, v, pre) = myers_core(u, v, pre)
    BY <1>7 DEF Middle
  <2>3. PICK T : \E g \in Nat :
               /\ Found(u, v, T) /\ 2 * g + (Len(T) - 1) = Len(u) + Len(v)
               /\ \A x \in Nat : \E l \in Kinds :
                     Script(old, new, myers_core(u, v, pre), PlaceAt(pre, pre, x, "eq"), PlaceAt(pre + Len(u), pre + Len(v), x + g, l))
    BY <1>1, <2>1, CoreIs
  <2>4. PICK g \in Nat :
               /\ Found(u, v, T) /\ 2 * g + (Len(T) - 1) = Len(u) + Len(v)
               /\ \A x \in Nat : \E l \in Kinds :
                     Script(old, new, myers_core(u, v, pre), PlaceAt(pre, pre, x, "eq"), PlaceAt(pre + Len(u), pre + Len(v), x + g, l))
    BY <2>3
  <2>5. BestWithin(u, v, pre, g)
    BY <1>1, <2>4, FoundBest
  <2>6. \E l \in Kinds : Script(old, new, myers_core(u, v, pre), PlaceAt(pre, pre, pre, "eq"), PlaceAt(pre + Len(u), pre + Len(v), pre + g, l))
    BY <1>1, <2>4
  <2> QED
    BY <2>2, <2>5, <2>6
<1> QED
  BY <1>5, <1>6, <1>7

(* What is kept between the ends, with the ends, is the most there is.       *)
LEMMA WholeBest ==
    ASSUME NEW old, NEW new, NEW pre, NEW suf, NEW u, NEW v, Cut(old, new, pre, suf, u, v),
           NEW g \in Nat, BestWithin(u, v, pre, g)
    PROVE  Best(old, new, pre + g + suf)
<1>1. PICK n \in Nat, m \in Nat : n = Len(u) /\ m = Len(v)
  BY DEF Cut, Inner
<1>2. pre \in Nat /\ suf \in Nat /\ Len(old) = pre + n + suf /\ Len(new) = pre + m + suf
  BY <1>1 DEF Cut
<1>3. PICK N \in Nat, M \in Nat : N = pre + n + suf /\ M = pre + m + suf
  BY <1>2
<1> SUFFICES ASSUME NEW a, NEW b, NEW c \in Nat, Counts(N, 0, a), Counts(M, 0, b), Shared(old, new, a, b), c <= a[N], c <= b[M]
             PROVE  c <= pre + g + suf
  BY <1>2, <1>3 DEF Best
<1>4. ASSUME NEW h, NEW k \in Nat, NEW K \in Nat, K = pre + k + suf, Counts(K, 0, h)
      PROVE  h[pre + k] \in Nat /\ h[K] \in Nat /\ h[K] <= h[pre + k] + suf
  <2> DEFINE P == {j \in 0..suf : h[pre + k + j] \in Nat /\ h[pre + k + j] <= h[pre + k] + j}
  <2>1. h \in [0..K -> Nat]
    BY <1>4 DEF Counts
  <2>2. h[pre + k] \in Nat
    BY <1>2, <1>4, <2>1
  <2>3. 0 \in P
    <3>1. pre + k + 0 = pre + k /\ 0 \in 0..suf
      BY <1>2
    <3> QED
      BY <2>2, <3>1
  <2>4. ASSUME NEW j \in P, j \in Nat, j < suf PROVE j + 1 \in P
    <3>1. PICK i \in 1..K : i = pre + k + j + 1
      BY <1>2, <1>4, <2>4
    <3>2. i - 1 = pre + k + j /\ pre + k + (j + 1) = i /\ j + 1 \in 0..suf /\ i \in 0..K
      BY <1>2, <1>4, <2>4, <3>1
    <3>3. h[i] <= h[i - 1] + 1 /\ h[i] \in Nat
      BY <1>4, <2>1, <3>2 DEF Counts
    <3>4. h[i - 1] \in Nat /\ h[i - 1] <= h[pre + k] + j
      BY <2>4, <3>2
    <3>5. h[i] <= h[pre + k] + (j + 1)
      BY <2>2, <2>4, <3>3, <3>4
    <3> QED
      BY <3>2, <3>3, <3>5
  <2>5. suf \in P
    <3> HIDE DEF P
    <3> QED BY <1>2, <2>3, <2>4, UpTo
  <2>6. pre + k + suf = K
    BY <1>4
  <2> QED
    BY <2>2, <2>5, <2>6
<1>5. ASSUME NEW h, NEW k \in Nat, NEW K \in Nat, K = pre + k + suf, Counts(K, 0, h)
      PROVE  Counts(k, pre, [i \in 0..k |-> h[pre + i]])
  <2>1. PICK x : x = [i \in 0..k |-> h[pre + i]]
    OBVIOUS
  <2>2. \A i \in 0..k : x[i] = h[pre + i] /\ pre + i \in 0..K
    BY <1>2, <1>5, <2>1
  <2>3. h \in [0..K -> Nat] /\ \A i \in 0..K : h[i] <= i
    BY <1>5 DEF Counts
  <2>4. x \in [0..k -> Nat] /\ \A i \in 0..k : x[i] <= pre + i
    BY <2>1, <2>2, <2>3
  <2>5. ASSUME NEW i \in 1..k PROVE x[i - 1] <= x[i] /\ x[i] <= x[i - 1] + 1
    <3>1. i \in 0..k /\ i - 1 \in 0..k /\ pre + (i - 1) = (pre + i) - 1 /\ pre + i \in 1..K
      BY <1>2, <1>5
    <3>2. h[(pre + i) - 1] <= h[pre + i] /\ h[pre + i] <= h[(pre + i) - 1] + 1
      BY <1>5, <3>1 DEF Counts
    <3> QED
      BY <2>2, <3>1, <3>2
  <2>6. Counts(k, pre, x)
    BY <2>4, <2>5 DEF Counts
  <2> QED
    BY <2>1, <2>6
<1>6. PICK x, y : x = [i \in 0..n |-> a[pre + i]] /\ y = [i \in 0..m |-> b[pre + i]]
  OBVIOUS
<1>7. Counts(n, pre, x) /\ Counts(m, pre, y)
  BY <1>3, <1>5, <1>6
<1>8. Shared(u, v, x, y)
  <2> SUFFICES ASSUME NEW i \in 1..n, NEW j \in 1..m, x[i] = x[i - 1] + 1, y[j] = y[j - 1] + 1, x[i] = y[j]
               PROVE  u[i] = v[j]
    BY <1>1 DEF Shared
  <2>1. i \in 0..n /\ i - 1 \in 0..n /\ j \in 0..m /\ j - 1 \in 0..m
    OBVIOUS
  <2>2. x[i] = a[pre + i] /\ x[i - 1] = a[pre + (i - 1)] /\ y[j] = b[pre + j] /\ y[j - 1] = b[pre + (j - 1)]
    BY <1>6, <2>1
  <2>3. pre + (i - 1) = (pre + i) - 1 /\ pre + (j - 1) = (pre + j) - 1 /\ pre + i \in 1..N /\ pre + j \in 1..M
    BY <1>2, <1>3
  <2>4. a[pre + i] = a[(pre + i) - 1] + 1 /\ b[pre + j] = b[(pre + j) - 1] + 1 /\ a[pre + i] = b[pre + j]
    BY <2>2, <2>3
  <2>5. old[pre + i] = new[pre + j]
    BY <1>2, <1>3, <2>3, <2>4 DEF Shared
  <2>6. old[pre + i] = u[i] /\ new[pre + j] = v[j]
    BY <1>1 DEF Cut, Inner
  <2> QED
    BY <2>5, <2>6
<1>9. x[n] = a[pre + n] /\ y[m] = b[pre + m]
  BY <1>6
<1>10. a[pre + n] \in Nat /\ a[N] \in Nat /\ a[N] <= a[pre + n] + suf /\ b[pre + m] \in Nat /\ b[M] \in Nat /\ b[M] <= b[pre + m] + suf
  BY <1>3, <1>4
<1>11. CASE c <= suf
  BY <1>2, <1>11
<1>12. CASE c > suf
  <2>1. PICK d \in Nat : d = c - suf
    BY <1>2, <1>12
  <2>2. d <= x[n] /\ d <= y[m]
    <3>1. PICK a1 \in Nat, a2 \in Nat, b1 \in Nat, b2 \in Nat :
            a1 = a[pre + n] /\ a2 = a[N] /\ b1 = b[pre + m] /\ b2 = b[M]
      BY <1>10
    <3>2. a2 <= a1 + suf /\ b2 <= b1 + suf /\ c <= a2 /\ c <= b2
      BY <1>10, <3>1
    <3>3. d <= a1 /\ d <= b1
      BY <1>2, <2>1, <3>2
    <3> QED
      BY <1>9, <3>1, <3>3
  <2>3. d <= pre + g
    BY <1>1, <1>7, <1>8, <2>2 DEF BestWithin
  <2> QED
    BY <1>2, <2>1, <2>3
<1> QED
  BY <1>2, <1>11, <1>12

(* A script from the start of both texts to their end that keeps k lines.    *)
Edits(old, new, ops, k) ==
    \E l \in Kinds : Script(old, new, ops, PlaceAt(0, 0, 0, "eq"), PlaceAt(Len(old), Len(new), k, l))

LEMMA MyersIs ==
    ASSUME NEW S, NEW old \in Seq(S), NEW new \in Seq(S)
    PROVE  \E k \in Nat : Edits(old, new, myers_diff(old, new), k) /\ Best(old, new, k)
<1>1. PICK pre, suf, u, v : /\ Cut(old, new, pre, suf, u, v) /\ u \in Seq(S) /\ v \in Seq(S)
                            /\ myers_diff(old, new) = Ended(pre, suf, u, v)
  BY MyersForm
<1>2. PICK g \in Nat : \E l \in Kinds :
              /\ Script(old, new, Middle(u, v, pre), PlaceAt(pre, pre, pre, "eq"), PlaceAt(pre + Len(u), pre + Len(v), pre + g, l))
              /\ BestWithin(u, v, pre, g)
  BY <1>1, MiddleIs
<1>3. PICK l \in Kinds :
              /\ Script(old, new, Middle(u, v, pre), PlaceAt(pre, pre, pre, "eq"), PlaceAt(pre + Len(u), pre + Len(v), pre + g, l))
              /\ BestWithin(u, v, pre, g)
  BY <1>2
<1>4. Best(old, new, pre + g + suf)
  BY <1>1, <1>3, WholeBest
<1>5. pre \in Nat /\ suf \in Nat /\ Alike(old, new, 0, 0, pre) /\ Alike(old, new, pre + Len(u), pre + Len(v), suf)
      /\ Len(old) = pre + Len(u) + suf /\ Len(new) = pre + Len(v) + suf
  BY <1>1 DEF Cut
<1>6. PICK c \in Nat, r \in Nat, k \in Nat : c = pre + Len(u) /\ r = pre + Len(v) /\ k = pre + g
  BY <1>1, <1>5
<1>7. "eq" \in Kinds /\ 0 + pre = pre
  BY <1>5 DEF Kinds
<1>8. PICK first, last : first = Unless0(DiffOp("eq", 0, 0, pre)) /\ last = Unless0(DiffOp("eq", c, r, suf))
  OBVIOUS
<1>9. PICK l1 \in Kinds : /\ "eq" = "eq" => l1 = "eq"
                          /\ Script(old, new, first, PlaceAt(0, 0, 0, "eq"), PlaceAt(0 + pre, 0 + pre, 0 + pre, l1))
  BY <1>5, <1>7, <1>8, RunEq
<1>10. Script(old, new, first, PlaceAt(0, 0, 0, "eq"), PlaceAt(pre, pre, pre, "eq"))
  BY <1>7, <1>9
<1>11. PICK mid : mid = Middle(u, v, pre)
  OBVIOUS
<1>12. Script(old, new, mid, PlaceAt(pre, pre, pre, "eq"), PlaceAt(c, r, k, l))
  BY <1>3, <1>6, <1>11
<1>13. PICK l2 \in Kinds : /\ l = "eq" => l2 = "eq"
                           /\ Script(old, new, last, PlaceAt(c, r, k, l), PlaceAt(c + suf, r + suf, k + suf, l2))
  BY <1>5, <1>6, <1>8, RunEq
<1>14. Script(old, new, first \o mid, PlaceAt(0, 0, 0, "eq"), PlaceAt(c, r, k, l))
  BY <1>10, <1>12, ScriptConcat
<1>15. Script(old, new, (first \o mid) \o last, PlaceAt(0, 0, 0, "eq"), PlaceAt(c + suf, r + suf, k + suf, l2))
  BY <1>13, <1>14, ScriptConcat
<1>16. myers_diff(old, new) = (first \o mid) \o last
  BY <1>1, <1>6, <1>8, <1>11 DEF Ended
<1>17. c + suf = Len(old) /\ r + suf = Len(new) /\ k + suf = pre + g + suf /\ k + suf \in Nat
  BY <1>5, <1>6
<1>18. Edits(old, new, myers_diff(old, new), k + suf)
  BY <1>15, <1>16, <1>17 DEF Edits
<1> QED
  BY <1>4, <1>17, <1>18

LEMMA DiffIs ==
    ASSUME NEW S, NEW old \in Seq(S), NEW new \in Seq(S)
    PROVE  \E k \in Nat : Edits(old, new, diff_lines(old, new), k) /\ (TooLong(old, new) \/ Best(old, new, k))
<1>1. CASE ~ TooLong(old, new)
  BY <1>1, MyersIs DEF diff_lines
<1>2. CASE TooLong(old, new)
  <2>1. PICK n \in Nat, m \in Nat : n = Len(old) /\ m = Len(new)
    OBVIOUS
  <2>2. PICK x, y : x = Unless0(DiffOp("del", 0, 0, n)) /\ y = Unless0(DiffOp("ins", 0, 0, m))
    OBVIOUS
  <2>3. diff_lines(old, new) = x \o y
    BY <1>2, <2>1, <2>2 DEF diff_lines
  <2>4. 0 \in Nat /\ 0 + n = n /\ 0 + m = m
    OBVIOUS
  <2>5. PICK l \in Kinds : Script(old, new, x, PlaceAt(0, 0, 0, "eq"), PlaceAt(0 + n, 0, 0, l))
    BY <2>2, <2>4, RunDel
  <2>6. PICK l2 \in Kinds : Script(old, new, y, PlaceAt(n, 0, 0, l), PlaceAt(n, 0 + m, 0, l2))
    BY <2>2, <2>4, RunIns
  <2>7. Script(old, new, x \o y, PlaceAt(0, 0, 0, "eq"), PlaceAt(n, m, 0, l2))
    BY <2>4, <2>5, <2>6, ScriptConcat
  <2>8. Edits(old, new, diff_lines(old, new), 0)
    BY <2>1, <2>3, <2>7 DEF Edits
  <2> QED
    BY <1>2, <2>4, <2>8
<1> QED
  BY <1>1, <1>2

-----------------------------------------------------------------------------
(* Lines chosen from a list, and lists joined to one.                        *)

(* The recursion of Chosen.                                                  *)
ChosenSteps(list, is, n, w) ==
    w = [i \in 0..n |-> IF i = 0 THEN <<>>
                        ELSE IF i \in is THEN Append(w[i - 1], list[i]) ELSE w[i - 1]]

LEMMA ChosenExists ==
    ASSUME NEW list, NEW is, NEW n \in Nat
    PROVE  \E w : ChosenSteps(list, is, n, w)
<1> DEFINE P == {m \in Nat : \E w : ChosenSteps(list, is, m, w)}
<1>1. 0 \in P
  <2> DEFINE w == [i \in 0..0 |-> <<>>]
  <2>1. ChosenSteps(list, is, 0, w)
    BY DEF ChosenSteps
  <2> QED
    BY <2>1, Zenon
<1>2. ASSUME NEW m \in P \cap Nat PROVE m + 1 \in P
  <2> SUFFICES \E w : ChosenSteps(list, is, m + 1, w)
    OBVIOUS
  <2>1. PICK g : ChosenSteps(list, is, m, g)
    OBVIOUS
  <2> DEFINE F(x, i) == IF i \in is THEN Append(x, list[i]) ELSE x
             B == <<>>
             w == [i \in 0 .. m + 1 |-> IF i = m + 1 THEN F(g[m], m + 1) ELSE g[i]]
  <2>2. \A i \in 0..m : g[i] = IF i = 0 THEN B ELSE F(g[i - 1], i)
    BY <2>1 DEF ChosenSteps
  <2> HIDE DEF F, B
  <2>3. ASSUME NEW i \in 0 .. m + 1
        PROVE  w[i] = IF i = 0 THEN B ELSE F(w[i - 1], i)
    <3>1. CASE i = m + 1
      <4>1. w[i] = F(g[m], m + 1) /\ w[i - 1] = g[m] /\ i # 0
        BY <3>1
      <4> HIDE DEF w
      <4> QED BY <4>1, <3>1
    <3>2. CASE i \in 0..m
      <4>1. w[i] = g[i] /\ (i # 0 => w[i - 1] = g[i - 1])
        BY <3>2
      <4> HIDE DEF w
      <4> QED BY <4>1, <3>2, <2>2
    <3> QED
      BY <3>1, <3>2
  <2>4. w = [i \in 0 .. m + 1 |-> w[i]]
    OBVIOUS
  <2>5. ChosenSteps(list, is, m + 1, w)
    <3> HIDE DEF w
    <3> QED BY <2>3, <2>4 DEF ChosenSteps, F, B
  <2> QED
    BY <2>5, Zenon
<1>3. Nat \subseteq P
  <2> HIDE DEF P
  <2> QED BY <1>1, <1>2, SetInduction, Zenon
<1> QED
  BY <1>3

(* w[i] is what is kept of the first i.                                    *)
KeptBy(list, is, w) ==
    /\ Chosen(list, is) = w[Len(list)] /\ w[0] = <<>>
    /\ \A i \in 1..Len(list) : w[i] = IF i \in is THEN Append(w[i - 1], list[i]) ELSE w[i - 1]

LEMMA ChosenIs ==
    ASSUME NEW list, Len(list) \in Nat, NEW is
    PROVE  \E w : KeptBy(list, is, w)
<1> DEFINE w == CHOOSE g : ChosenSteps(list, is, Len(list), g)
<1>1. ChosenSteps(list, is, Len(list), w)
  BY ChosenExists, Zenon
<1>2. Chosen(list, is) = w[Len(list)]
  BY Zenon DEF Chosen, ChosenSteps
<1> HIDE DEF w
<1>3. \A i \in 0..Len(list) : w[i] = IF i = 0 THEN <<>>
                                     ELSE IF i \in is THEN Append(w[i - 1], list[i]) ELSE w[i - 1]
  BY <1>1 DEF ChosenSteps
<1>4. 0 \in 0..Len(list) /\ \A i \in 1..Len(list) : i \in 0..Len(list) /\ i # 0
  OBVIOUS
<1>5. w[0] = <<>>
  BY <1>3, <1>4
<1>6. \A i \in 1..Len(list) : w[i] = IF i \in is THEN Append(w[i - 1], list[i]) ELSE w[i - 1]
  BY <1>3, <1>4
<1> QED
  BY <1>2, <1>5, <1>6 DEF KeptBy

(* The recursion of FlattenSeq. *)
FlatSteps(parts, n, w) ==
    w = [i \in 0..n |-> IF i = 0 THEN <<>>
                        ELSE w[i - 1] \o parts[i]]

LEMMA FlatExists ==
    ASSUME NEW parts, NEW n \in Nat
    PROVE  \E w : FlatSteps(parts, n, w)
<1> DEFINE P == {m \in Nat : \E w : FlatSteps(parts, m, w)}
<1>1. 0 \in P
  <2> DEFINE w == [i \in 0..0 |-> <<>>]
  <2>1. FlatSteps(parts, 0, w)
    BY DEF FlatSteps
  <2> QED
    BY <2>1, Zenon
<1>2. ASSUME NEW m \in P \cap Nat PROVE m + 1 \in P
  <2> SUFFICES \E w : FlatSteps(parts, m + 1, w)
    OBVIOUS
  <2>1. PICK g : FlatSteps(parts, m, g)
    OBVIOUS
  <2> DEFINE F(x, i) == x \o parts[i]
             B == <<>>
             w == [i \in 0 .. m + 1 |-> IF i = m + 1 THEN F(g[m], m + 1) ELSE g[i]]
  <2>2. \A i \in 0..m : g[i] = IF i = 0 THEN B ELSE F(g[i - 1], i)
    BY <2>1 DEF FlatSteps
  <2> HIDE DEF F, B
  <2>3. ASSUME NEW i \in 0 .. m + 1
        PROVE  w[i] = IF i = 0 THEN B ELSE F(w[i - 1], i)
    <3>1. CASE i = m + 1
      <4>1. w[i] = F(g[m], m + 1) /\ w[i - 1] = g[m] /\ i # 0
        BY <3>1
      <4> HIDE DEF w
      <4> QED BY <4>1, <3>1
    <3>2. CASE i \in 0..m
      <4>1. w[i] = g[i] /\ (i # 0 => w[i - 1] = g[i - 1])
        BY <3>2
      <4> HIDE DEF w
      <4> QED BY <4>1, <3>2, <2>2
    <3> QED
      BY <3>1, <3>2
  <2>4. w = [i \in 0 .. m + 1 |-> w[i]]
    OBVIOUS
  <2>5. FlatSteps(parts, m + 1, w)
    <3> HIDE DEF w
    <3> QED BY <2>3, <2>4 DEF FlatSteps, F, B
  <2> QED
    BY <2>5, Zenon
<1>3. Nat \subseteq P
  <2> HIDE DEF P
  <2> QED BY <1>1, <1>2, SetInduction, Zenon
<1> QED
  BY <1>3

(* w[i] is the first i parts, one behind the other.                          *)
FlatBy(S, parts, w) ==
    /\ w \in [0..Len(parts) -> Seq(S)] /\ w[0] = <<>> /\ FlattenSeq(parts) = w[Len(parts)]
    /\ \A i \in 1..Len(parts) : w[i] = w[i - 1] \o parts[i]

LEMMA FlattenIs ==
    ASSUME NEW S, NEW parts \in Seq(Seq(S))
    PROVE  \E w : FlatBy(S, parts, w)
<1>1. PICK n \in Nat : n = Len(parts)
  OBVIOUS
<1>2. PICK g : FlatSteps(parts, n, g)
  BY FlatExists
<1>3. g = [i \in 0..n |-> IF i = 0 THEN <<>> ELSE g[i - 1] \o parts[i]]
  BY <1>2 DEF FlatSteps
<1>4. g[0] = <<>> /\ \A i \in 1..n : g[i] = g[i - 1] \o parts[i]
  <2>1. 0 \in 0..n /\ \A i \in 1..n : i \in 0..n /\ i # 0
    OBVIOUS
  <2> QED
    BY <1>3, <2>1
<1>5. \A i \in 0..n : g[i] \in Seq(S)
  <2> DEFINE P == {i \in 0..n : g[i] \in Seq(S)}
  <2> SUFFICES ASSUME NEW m \in 0..n PROVE m \in P
    OBVIOUS
  <2>1. 0 \in P
    <3>1. <<>> \in Seq(S) /\ 0 \in 0..n
      OBVIOUS
    <3> QED
      BY <1>4, <3>1
  <2>2. ASSUME NEW i \in P, i \in Nat, i < m PROVE i + 1 \in P
    <3>1. i + 1 \in 1..n /\ (i + 1) - 1 = i /\ i + 1 \in 0..n
      BY <2>2
    <3>2. parts[i + 1] \in Seq(S) /\ g[i] \in Seq(S)
      BY <1>1, <2>2, <3>1
    <3>3. g[i + 1] = g[i] \o parts[i + 1]
      BY <1>4, <3>1
    <3>4. g[i + 1] \in Seq(S)
      BY <3>2, <3>3, ConcatProperties
    <3> QED
      BY <3>1, <3>4
  <2>3. m \in Nat
    OBVIOUS
  <2> HIDE DEF P
  <2> QED
    BY <2>1, <2>2, <2>3, UpTo
<1>6. CASE n = 0
  <2>1. FlattenSeq(parts) = parts /\ parts = <<>>
    <3>1. Len(parts) = 0
      BY <1>1, <1>6
    <3>2. parts = <<>>
      BY <3>1
    <3> QED
      BY <3>1, <3>2, Zenon DEF FlattenSeq
  <2>2. g \in [0..n -> Seq(S)]
    BY <1>3, <1>5
  <2>3. FlatBy(S, parts, g)
    BY <1>1, <1>4, <1>6, <2>1, <2>2 DEF FlatBy
  <2> QED
    BY <2>3
<1>7. CASE n # 0
  <2>1. PICK h : h = [i \in 1..n |-> g[i]]
    OBVIOUS
  <2>2. h = [i \in 1..n |-> IF i = 1 THEN parts[i] ELSE h[i - 1] \o parts[i]]
    <3>1. ASSUME NEW i \in 1..n PROVE h[i] = IF i = 1 THEN parts[i] ELSE h[i - 1] \o parts[i]
      <4>1. CASE i = 1
        <5>1. parts[1] \in Seq(S) /\ 1 \in 1..n /\ 1 - 1 = 0
          BY <1>1, <1>7
        <5>2. g[1] = <<>> \o parts[1]
          BY <1>4, <5>1
        <5>3. g[1] = parts[1]
          BY <5>1, <5>2, ConcatEmptySeq
        <5> QED
          BY <2>1, <4>1, <5>3
      <4>2. CASE i # 1
        <5>1. i - 1 \in 1..n
          BY <4>2
        <5> QED
          BY <1>4, <2>1, <4>2, <5>1
      <4> QED
        BY <4>1, <4>2
    <3>2. h = [i \in 1..n |-> h[i]]
      BY <2>1
    <3> QED
      BY <3>1, <3>2
  <2> DEFINE f == CHOOSE x : x = [i \in 1..n |-> IF i = 1 THEN parts[i] ELSE x[i - 1] \o parts[i]]
  <2>3. f = [i \in 1..n |-> IF i = 1 THEN parts[i] ELSE f[i - 1] \o parts[i]]
    BY <2>2, Zenon
  <2>4. FlattenSeq(parts) = f[n]
    BY <1>1, <1>7, Zenon DEF FlattenSeq
  <2> HIDE DEF f
  <2>5. \A i \in 1..n : f[i] = IF i = 1 THEN parts[i] ELSE f[i - 1] \o parts[i]
    BY <2>3
  <2>6. \A i \in 1..n : f[i] = g[i]
    <3> DEFINE P == {i \in 0..n : i # 0 => f[i] = g[i]}
    <3> SUFFICES ASSUME NEW m \in 1..n PROVE m \in P
      OBVIOUS
    <3>1. 0 \in P
      OBVIOUS
    <3>2. ASSUME NEW i \in P, i \in Nat, i < m PROVE i + 1 \in P
      <4>1. i + 1 \in 1..n /\ (i + 1) - 1 = i /\ i + 1 \in 0..n
        BY <3>2
      <4>2. CASE i = 0
        <5>1. f[1] = parts[1] /\ 1 \in 1..n
          BY <2>5, <4>1, <4>2
        <5>2. h[1] = parts[1] /\ h[1] = g[1]
          BY <2>1, <2>2, <5>1
        <5> QED
          BY <4>1, <4>2, <5>1, <5>2
      <4>3. CASE i # 0
        <5>1. f[i + 1] = f[i] \o parts[i + 1]
          <6>1. i + 1 # 1
            BY <3>2, <4>3
          <6>2. f[i + 1] = f[(i + 1) - 1] \o parts[i + 1]
            BY <2>5, <4>1, <6>1
          <6> QED
            BY <4>1, <6>2
        <5>2. g[i + 1] = g[i] \o parts[i + 1]
          BY <1>4, <4>1
        <5>3. f[i] = g[i]
          BY <3>2, <4>3
        <5> QED
          BY <4>1, <5>1, <5>2, <5>3
      <4> QED
        BY <4>2, <4>3
    <3>3. m \in Nat
      OBVIOUS
    <3> HIDE DEF P
    <3> QED
      BY <3>1, <3>2, <3>3, UpTo
  <2>7. n \in 1..n
    BY <1>7
  <2>8. FlattenSeq(parts) = g[n]
    BY <2>4, <2>6, <2>7
  <2>9. g \in [0..n -> Seq(S)]
    BY <1>3, <1>5
  <2> QED
    BY <1>1, <1>4, <2>8, <2>9 DEF FlatBy
<1> QED
  BY <1>6, <1>7

(* Along a script the places only go forward.                                *)
LEMMA Onward ==
    ASSUME NEW old, NEW new, NEW ops, NEW at, Along(old, new, ops, at), NEW i \in 0..Len(ops), NEW j \in i..Len(ops)
    PROVE  at[i].col <= at[j].col /\ at[i].row <= at[j].row /\ at[i] \in Places /\ at[j] \in Places
<1>1. PICK n \in Nat : n = Len(ops)
  BY DEF Along
<1>2. /\ at \in [0..n -> Places] /\ \A x \in 1..n : Follows(old, new, ops[x], at[x - 1], at[x])
  BY <1>1 DEF Along
<1>3. PICK d \in Nat : d = j - i
  BY <1>1
<1> DEFINE P == {x \in 0..d : at[i].col <= at[i + x].col /\ at[i].row <= at[i + x].row}
<1>4. at[i] \in Places /\ at[j] \in Places /\ at[i].col \in Nat /\ at[i].row \in Nat
  <2>1. at[i] \in Places /\ at[j] \in Places
    BY <1>1, <1>2
  <2> QED
    BY <2>1, PlaceParts
<1>5. 0 \in P
  <2>1. i + 0 = i
    BY <1>1
  <2> QED
    BY <1>4, <2>1
<1>6. ASSUME NEW x \in P, x \in Nat, x < d PROVE x + 1 \in P
  <2>1. i + x \in 0..n /\ i + x + 1 \in 1..n /\ (i + x + 1) - 1 = i + x /\ i + (x + 1) = i + x + 1
    BY <1>1, <1>3, <1>6
  <2>2. Follows(old, new, ops[i + x + 1], at[i + x], at[i + x + 1]) /\ at[i + x] \in Places /\ at[i + x + 1] \in Places
    BY <1>2, <2>1
  <2>3. at[i + x].col <= at[i + x + 1].col /\ at[i + x].row <= at[i + x + 1].row
    BY <2>2, FollowsTyped
  <2>4. at[i + x].col \in Nat /\ at[i + x].row \in Nat /\ at[i + x + 1].col \in Nat /\ at[i + x + 1].row \in Nat
    BY <2>2, PlaceParts
  <2>5. at[i].col <= at[i + x].col /\ at[i].row <= at[i + x].row
    BY <1>6
  <2>6. at[i].col <= at[i + x + 1].col /\ at[i].row <= at[i + x + 1].row
    BY ONLY <1>4, <2>3, <2>4, <2>5
  <2> QED
    BY <1>6, <2>1, <2>6
<1>7. d \in P
  <2> HIDE DEF P
  <2> QED BY <1>5, <1>6, UpTo
<1>8. i + d = j
  BY <1>1, <1>3
<1> QED
  BY <1>4, <1>7, <1>8

(* What a step has of the old and of the new text.                           *)
OldPart(old, op) == SubSeq(old, op.old + 1, op.old + Pick(op.kind = "ins", 0, op.n))
NewPart(old, new, op) ==
    IF op.kind = "eq" THEN SubSeq(old, op.old + 1, op.old + op.n)
    ELSE SubSeq(new, op.new + 1, op.new + Pick(op.kind = "del", 0, op.n))

(* Part of a text, or nothing.                                               *)
LEMMA PartOfIs ==
    ASSUME NEW S, NEW s \in Seq(S), NEW c \in Nat, NEW n \in Nat, c + n <= Len(s)
    PROVE  /\ SubSeq(s, c + 1, c + n) \in Seq(S) /\ Len(SubSeq(s, c + 1, c + n)) = n
           /\ \A i \in 1..n : SubSeq(s, c + 1, c + n)[i] = s[c + i]
<1>1. PICK t : t = SubSeq(s, c + 1, c + n)
  OBVIOUS
<1>2. \A i \in (c + 1)..(c + n) : s[i] \in S
  OBVIOUS
<1>3. /\ t \in Seq(S) /\ Len(t) = IF c + 1 <= c + n THEN (c + n) - (c + 1) + 1 ELSE 0
      /\ \A i \in 1..((c + n) - (c + 1) + 1) : t[i] = s[(c + 1) + i - 1]
  BY <1>1, <1>2, SubSeqProperties
<1>4. \A i \in 1..n : i \in 1..((c + n) - (c + 1) + 1) /\ (c + 1) + i - 1 = c + i
  OBVIOUS
<1>5. Len(t) = n
  BY <1>3
<1> QED
  BY <1>1, <1>3, <1>4, <1>5

Part(s, c, n) == SubSeq(s, c + 1, c + n)
LEMMA PartsSame ==
    ASSUME NEW S, NEW old \in Seq(S), NEW new \in Seq(S), NEW c \in Nat, NEW r \in Nat, NEW n \in Nat,
           c + n <= Len(old), r + n <= Len(new), Alike(old, new, c, r, n)
    PROVE  Part(old, c, n) = Part(new, r, n)
<1>1. PICK a, b : a = Part(old, c, n) /\ b = Part(new, r, n)
  OBVIOUS
<1>2. a \in Seq(S) /\ Len(a) = n /\ \A i \in 1..n : a[i] = old[c + i]
  BY <1>1, PartOfIs DEF Part
<1>3. b \in Seq(S) /\ Len(b) = n /\ \A i \in 1..n : b[i] = new[r + i]
  BY <1>1, PartOfIs DEF Part
<1>4. \A i \in 1..n : a[i] = b[i]
  BY <1>2, <1>3 DEF Alike
<1>5. a = b
  BY ONLY <1>2, <1>3, <1>4, SeqEqual
<1> QED
  BY <1>1, <1>5

LEMMA PartsAre ==
    ASSUME NEW S, NEW old \in Seq(S), NEW new \in Seq(S), NEW op, NEW p \in Places, NEW q \in Places,
           Follows(old, new, op, p, q), q.col <= Len(old), q.row <= Len(new)
    PROVE  OldPart(old, op) = SubSeq(old, p.col + 1, q.col) /\ NewPart(old, new, op) = SubSeq(new, p.row + 1, q.row)
<1>1. PICK n \in Nat : n = op.n /\ n > 0
  BY DEF Follows
<1>2. PICK x \in Nat, y \in Nat : x = p.col /\ y = p.row
  BY PlaceParts
<1>3. \A s : SubSeq(s, 0 + 1, 0 + 0) = <<>> /\ SubSeq(s, x + 1, x) = <<>> /\ SubSeq(s, y + 1, y) = <<>>
  <2> TAKE s
  <2>1. 0 + 1 \in Int /\ 0 + 0 \in Int /\ 0 + 0 < 0 + 1 /\ x + 1 \in Int /\ x \in Int /\ x < x + 1
        /\ y + 1 \in Int /\ y \in Int /\ y < y + 1
    OBVIOUS
  <2> QED
    BY <2>1, SubSeqEmpty
<1>4. CASE EqStep(old, new, op, p, q)
  <2>1. op = DiffOp("eq", x, y, n) /\ q.col = x + n /\ q.row = y + n /\ \A i \in 1..n : old[x + i] = new[y + i]
    BY <1>1, <1>2, <1>4 DEF EqStep, PlaceAt
  <2>2. op.kind = "eq" /\ op.old = x /\ op.new = y
    BY <2>1 DEF DiffOp
  <2>3. SubSeq(old, x + 1, x + n) = SubSeq(new, y + 1, y + n)
    <3>1. x + n <= Len(old) /\ y + n <= Len(new)
      BY <2>1
    <3>2. Alike(old, new, x, y, n)
      BY <2>1 DEF Alike
    <3>3. Part(old, x, n) = Part(new, y, n)
      BY <3>1, <3>2, PartsSame
    <3> QED
      BY <3>3 DEF Part
  <2>4. OldPart(old, op) = SubSeq(old, x + 1, x + n)
    BY <1>1, <2>2 DEF OldPart, Pick
  <2>5. NewPart(old, new, op) = SubSeq(old, x + 1, x + n)
    BY <1>1, <2>2 DEF NewPart
  <2> QED
    BY <1>2, <2>1, <2>3, <2>4, <2>5
<1>5. CASE InsStep(op, p, q)
  <2>1. op = DiffOp("ins", 0, y, n) /\ q.col = x /\ q.row = y + n
    BY <1>1, <1>2, <1>5 DEF InsStep, PlaceAt
  <2>2. op.kind = "ins" /\ op.old = 0 /\ op.new = y
    BY <2>1 DEF DiffOp
  <2>3. OldPart(old, op) = SubSeq(old, 0 + 1, 0 + 0)
    BY <1>1, <2>2 DEF OldPart, Pick
  <2>4. NewPart(old, new, op) = SubSeq(new, y + 1, y + n)
    BY <1>1, <2>2 DEF NewPart, Pick
  <2> QED
    BY <1>2, <1>3, <2>1, <2>3, <2>4
<1>6. CASE DelStep(op, p, q)
  <2>1. op = DiffOp("del", x, 0, n) /\ q.col = x + n /\ q.row = y
    BY <1>1, <1>2, <1>6 DEF DelStep, PlaceAt
  <2>2. op.kind = "del" /\ op.old = x /\ op.new = 0
    BY <2>1 DEF DiffOp
  <2>3. OldPart(old, op) = SubSeq(old, x + 1, x + n)
    BY <1>1, <2>2 DEF OldPart, Pick
  <2>4. NewPart(old, new, op) = SubSeq(new, 0 + 1, 0 + 0)
    BY <1>1, <2>2 DEF NewPart, Pick
  <2> QED
    BY <1>2, <1>3, <2>1, <2>3, <2>4
<1> QED
  BY <1>4, <1>5, <1>6 DEF Follows

(* Parts that follow one another to the end of a text are the text.          *)
CutAt(s, n, c, parts) ==
    /\ n \in Nat /\ Len(parts) = n /\ c \in [0..n -> Nat] /\ c[0] = 0 /\ c[n] = Len(s)
    /\ \A i \in 1..n : c[i - 1] <= c[i] /\ c[i] <= Len(s) /\ parts[i] = SubSeq(s, c[i - 1] + 1, c[i])

LEMMA FlattenCuts ==
    ASSUME NEW S, NEW s \in Seq(S), NEW n, NEW c, NEW parts \in Seq(Seq(S)), CutAt(s, n, c, parts)
    PROVE  FlattenSeq(parts) = s
<1>1. PICK w : FlatBy(S, parts, w)
  BY FlattenIs
<1> DEFINE P == {i \in 0..n : w[i] = SubSeq(s, 1, c[i])}
<1>6. /\ n \in Nat /\ Len(parts) = n /\ c \in [0..n -> Nat] /\ c[0] = 0 /\ c[n] = Len(s)
      /\ \A i \in 1..n : c[i - 1] <= c[i] /\ c[i] <= Len(s) /\ parts[i] = SubSeq(s, c[i - 1] + 1, c[i])
  BY DEF CutAt
<1>2. 0 \in P
  <2>1. SubSeq(s, 1, 0) = <<>>
    BY SubSeqEmpty
  <2> QED
    BY <1>1, <1>6, <2>1 DEF FlatBy
<1>3. ASSUME NEW i \in P, i \in Nat, i < n PROVE i + 1 \in P
  <2>1. i + 1 \in 1..n /\ (i + 1) - 1 = i /\ i + 1 \in 0..n /\ i \in 0..n
    BY <1>3, <1>6
  <2>2. PICK a \in Nat, b \in Nat : a = c[i] /\ b = c[i + 1]
    BY <1>6, <2>1
  <2>3. a <= b /\ b <= Len(s) /\ parts[i + 1] = SubSeq(s, a + 1, b)
    BY <1>6, <2>1, <2>2
  <2>4. w[i + 1] = w[i] \o parts[i + 1]
    BY <1>1, <1>6, <2>1 DEF FlatBy
  <2>5. w[i] = SubSeq(s, 1, a)
    BY <1>3, <2>2
  <2>6. SubSeq(s, 1, a) \o SubSeq(s, a + 1, b) = SubSeq(s, 1, b)
    <3>1. 1 \in 1..(Len(s) + 1) /\ a \in (1 - 1)..Len(s) /\ b \in a..Len(s)
      <4>1. PICK L \in Nat : L = Len(s)
        OBVIOUS
      <4>2. a <= b /\ b <= L
        BY <2>3, <4>1
      <4>3. 1 \in 1..(L + 1) /\ a \in (1 - 1)..L /\ b \in a..L
        BY <2>2, <4>2
      <4> QED
        BY <4>1, <4>3
    <3> QED
      BY <3>1, ConcatAdjacentSubSeq
  <2> QED
    BY <2>1, <2>2, <2>3, <2>4, <2>5, <2>6
<1>4. n \in P
  <2> HIDE DEF P
  <2> QED BY <1>2, <1>3, <1>6, UpTo
<1>5. FlattenSeq(parts) = SubSeq(s, 1, Len(s))
  BY <1>1, <1>4, <1>6 DEF FlatBy
<1> QED
  BY <1>5, SubSeqFull

-----------------------------------------------------------------------------
(* The diff is a shortest one.                                               *)

(* The recursion of LinesKept. *)
KeptLinesSteps(ops, n, w) ==
    w = [i \in 0..n |-> IF i = 0 THEN 0
                        ELSE w[i - 1] + Pick(ops[i].kind = "eq", ops[i].n, 0)]

LEMMA KeptLinesExists ==
    ASSUME NEW ops, NEW n \in Nat
    PROVE  \E w : KeptLinesSteps(ops, n, w)
<1> DEFINE P == {m \in Nat : \E w : KeptLinesSteps(ops, m, w)}
<1>1. 0 \in P
  <2> DEFINE w == [i \in 0..0 |-> 0]
  <2>1. KeptLinesSteps(ops, 0, w)
    BY DEF KeptLinesSteps
  <2> QED
    BY <2>1, Zenon
<1>2. ASSUME NEW m \in P \cap Nat PROVE m + 1 \in P
  <2> SUFFICES \E w : KeptLinesSteps(ops, m + 1, w)
    OBVIOUS
  <2>1. PICK g : KeptLinesSteps(ops, m, g)
    OBVIOUS
  <2> DEFINE F(x, i) == x + Pick(ops[i].kind = "eq", ops[i].n, 0)
             B == 0
             w == [i \in 0 .. m + 1 |-> IF i = m + 1 THEN F(g[m], m + 1) ELSE g[i]]
  <2>2. \A i \in 0..m : g[i] = IF i = 0 THEN B ELSE F(g[i - 1], i)
    BY <2>1 DEF KeptLinesSteps
  <2> HIDE DEF F, B
  <2>3. ASSUME NEW i \in 0 .. m + 1
        PROVE  w[i] = IF i = 0 THEN B ELSE F(w[i - 1], i)
    <3>1. CASE i = m + 1
      <4>1. w[i] = F(g[m], m + 1) /\ w[i - 1] = g[m] /\ i # 0
        BY <3>1
      <4> HIDE DEF w
      <4> QED BY <4>1, <3>1
    <3>2. CASE i \in 0..m
      <4>1. w[i] = g[i] /\ (i # 0 => w[i - 1] = g[i - 1])
        BY <3>2
      <4> HIDE DEF w
      <4> QED BY <4>1, <3>2, <2>2
    <3> QED
      BY <3>1, <3>2
  <2>4. w = [i \in 0 .. m + 1 |-> w[i]]
    OBVIOUS
  <2>5. KeptLinesSteps(ops, m + 1, w)
    <3> HIDE DEF w
    <3> QED BY <2>3, <2>4 DEF KeptLinesSteps, F, B
  <2> QED
    BY <2>5, Zenon
<1>3. Nat \subseteq P
  <2> HIDE DEF P
  <2> QED BY <1>1, <1>2, SetInduction, Zenon
<1> QED
  BY <1>3

LEMMA LinesKeptIs ==
    ASSUME NEW old, NEW new, NEW ops, NEW at, Along(old, new, ops, at), at[0].kept = 0
    PROVE  LinesKept(ops) = at[Len(ops)].kept
<1>1. PICK n \in Nat : n = Len(ops)
  BY DEF Along
<1>2. /\ at \in [0..n -> Places] /\ \A x \in 1..n : Follows(old, new, ops[x], at[x - 1], at[x])
  BY <1>1 DEF Along
<1> DEFINE w == CHOOSE g : KeptLinesSteps(ops, n, g)
<1>3. KeptLinesSteps(ops, n, w)
  BY KeptLinesExists, Zenon
<1>4. LinesKept(ops) = w[n]
  BY <1>1, Zenon DEF LinesKept, KeptLinesSteps
<1> HIDE DEF w
<1>5. w[0] = 0 /\ \A i \in 1..n : w[i] = w[i - 1] + Pick(ops[i].kind = "eq", ops[i].n, 0)
  <2>1. 0 \in 0..n /\ \A i \in 1..n : i \in 0..n /\ i # 0
    OBVIOUS
  <2> QED
    BY <1>3, <2>1 DEF KeptLinesSteps
<1> DEFINE P == {i \in 0..n : w[i] = at[i].kept}
<1>6. 0 \in P
  BY <1>5
<1>7. ASSUME NEW i \in P, i \in Nat, i < n PROVE i + 1 \in P
  <2>1. i + 1 \in 1..n /\ (i + 1) - 1 = i /\ i + 1 \in 0..n /\ i \in 0..n
    BY <1>7
  <2>2. PICK op, p, q : op = ops[i + 1] /\ p = at[i] /\ q = at[i + 1]
    OBVIOUS
  <2>3. Follows(old, new, op, p, q) /\ p \in Places /\ q \in Places
    BY <1>2, <2>1, <2>2
  <2>4. PICK m \in Nat, l \in Nat : m = p.kept /\ l = op.n
    BY <2>3, PlaceParts DEF Follows
  <2>5. q.kept = m + Pick(op.kind = "eq", l, 0)
    <3>1. CASE EqStep(old, new, op, p, q)
      <4>1. op.kind = "eq" /\ q.kept = m + l
        BY <2>4, <3>1 DEF EqStep, DiffOp, PlaceAt
      <4> QED
        BY <4>1 DEF Pick
    <3>2. CASE InsStep(op, p, q)
      <4>1. op.kind = "ins" /\ q.kept = m
        BY <2>4, <3>2 DEF InsStep, DiffOp, PlaceAt
      <4> QED
        BY <2>4, <4>1 DEF Pick
    <3>3. CASE DelStep(op, p, q)
      <4>1. op.kind = "del" /\ q.kept = m
        BY <2>4, <3>3 DEF DelStep, DiffOp, PlaceAt
      <4> QED
        BY <2>4, <4>1 DEF Pick
    <3> QED
      BY <2>3, <3>1, <3>2, <3>3 DEF Follows
  <2>6. w[i + 1] = w[i] + Pick(op.kind = "eq", l, 0)
    BY <1>5, <2>1, <2>2, <2>4
  <2>7. w[i] = m
    BY <1>7, <2>2, <2>4
  <2> QED
    BY <2>1, <2>2, <2>5, <2>6, <2>7
<1>8. n \in P
  <2> HIDE DEF P
  <2> QED BY <1>6, <1>7, UpTo
<1> QED
  BY <1>1, <1>4, <1>8

(* A selection of lines, counted along the text.                             *)
CountsOf(text, s, a) ==
    /\ Counts(Len(text), 0, a) /\ a[Len(text)] = Len(s)
    /\ \A i \in 1..Len(text) : a[i] = a[i - 1] + 1 => s[a[i]] = text[i]

LEMMA ChosenCounts ==
    ASSUME NEW S, NEW text \in Seq(S), NEW is
    PROVE  \E a : CountsOf(text, Chosen(text, is), a) /\ \A i \in 1..Len(text) : i \notin is => a[i] = a[i - 1]
<1>1. PICK n \in Nat : n = Len(text)
  OBVIOUS
<1>2. PICK w : KeptBy(text, is, w)
  BY <1>1, ChosenIs
<1>3. /\ Chosen(text, is) = w[n] /\ w[0] = <<>>
      /\ \A i \in 1..n : w[i] = IF i \in is THEN Append(w[i - 1], text[i]) ELSE w[i - 1]
  BY <1>1, <1>2 DEF KeptBy
<1> DEFINE Q == {i \in 0..n : w[i] \in Seq(S)}
<1>4. ASSUME NEW m \in 0..n PROVE w[m] \in Seq(S)
  <2>1. 0 \in Q
    <3>1. <<>> \in Seq(S) /\ 0 \in 0..n
      OBVIOUS
    <3> QED
      BY <1>3, <3>1
  <2>2. ASSUME NEW i \in Q, i \in Nat, i < m PROVE i + 1 \in Q
    <3>1. i + 1 \in 1..n /\ (i + 1) - 1 = i /\ i + 1 \in 0..n
      BY <2>2
    <3>2. w[i] \in Seq(S) /\ text[i + 1] \in S
      BY <1>1, <2>2, <3>1
    <3>3. PICK v, e : v = w[i] /\ e = text[i + 1]
      OBVIOUS
    <3>4. w[i + 1] = Append(v, e) \/ w[i + 1] = v
      BY <1>3, <3>1, <3>3
    <3>5. Append(v, e) \in Seq(S) /\ v \in Seq(S)
      BY <3>2, <3>3
    <3> QED
      BY <3>1, <3>4, <3>5
  <2>3. m \in Nat
    OBVIOUS
  <2>4. m \in Q
    <3> HIDE DEF Q
    <3> QED BY <2>1, <2>2, <2>3, UpTo
  <2> QED
    BY <2>4
<1>5. ASSUME NEW i \in 1..n
      PROVE  /\ w[i - 1] \in Seq(S) /\ w[i] \in Seq(S)
             /\ i \in is => Len(w[i]) = Len(w[i - 1]) + 1 /\ w[i][Len(w[i])] = text[i]
             /\ i \notin is => w[i] = w[i - 1]
             /\ \A j \in 1..Len(w[i - 1]) : w[i][j] = w[i - 1][j]
  <2>1. PICK v : v = w[i - 1]
    OBVIOUS
  <2>2. i - 1 \in 0..n /\ i \in 0..n
    OBVIOUS
  <2>3. v \in Seq(S) /\ w[i] \in Seq(S) /\ text[i] \in S
    BY <1>1, <1>4, <2>1, <2>2
  <2>4. w[i] = IF i \in is THEN Append(v, text[i]) ELSE v
    BY <1>3, <2>1
  <2>5. Len(Append(v, text[i])) = Len(v) + 1 /\ Append(v, text[i])[Len(v) + 1] = text[i]
        /\ \A j \in 1..Len(v) : Append(v, text[i])[j] = v[j]
    BY <2>3
  <2> QED
    BY <2>1, <2>3, <2>4, <2>5
<1>6. PICK a : a = [i \in 0..n |-> Len(w[i])]
  OBVIOUS
<1>7. a \in [0..n -> Nat] /\ \A i \in 0..n : a[i] = Len(w[i])
  <2>1. \A i \in 0..n : Len(w[i]) \in Nat
    BY <1>4
  <2> QED
    BY <1>6, <2>1
<1>8. ASSUME NEW i \in 1..n
      PROVE  a[i - 1] <= a[i] /\ a[i] <= a[i - 1] + 1 /\ (a[i] = a[i - 1] + 1 => i \in is)
  <2>1. i - 1 \in 0..n /\ i \in 0..n
    OBVIOUS
  <2>2. a[i] = Len(w[i]) /\ a[i - 1] = Len(w[i - 1]) /\ Len(w[i - 1]) \in Nat
    BY <1>5, <1>7, <2>1
  <2>3. i \in is => a[i] = a[i - 1] + 1
    BY <1>5, <2>2
  <2>4. i \notin is => a[i] = a[i - 1]
    BY <1>5, <2>2
  <2> QED
    BY <2>2, <2>3, <2>4
<1>9. \A i \in 0..n : a[i] <= 0 + i
  <2> DEFINE P == {i \in 0..n : a[i] <= i}
  <2> SUFFICES ASSUME NEW m \in 0..n PROVE m \in P
    OBVIOUS
  <2>1. 0 \in P
    <3>1. Len(<<>>) = 0 /\ 0 \in 0..n
      OBVIOUS
    <3> QED
      BY <1>3, <1>7, <3>1
  <2>2. ASSUME NEW i \in P, i \in Nat, i < m PROVE i + 1 \in P
    <3>1. i + 1 \in 1..n /\ (i + 1) - 1 = i /\ i + 1 \in 0..n
      BY <2>2
    <3>2. a[i + 1] <= a[i] + 1
      BY <1>8, <3>1
    <3> QED
      BY <1>7, <2>2, <3>1, <3>2
  <2>3. m \in Nat
    OBVIOUS
  <2> HIDE DEF P
  <2> QED BY <2>1, <2>2, <2>3, UpTo
<1>10. ASSUME NEW i \in 1..n, i \in is PROVE w[n][a[i]] = text[i]
  <2> DEFINE R == {d \in 0..(n - i) : Len(w[i + d]) >= Len(w[i]) /\ w[i + d][Len(w[i])] = text[i]}
  <2>1. Len(w[i]) \in Nat /\ Len(w[i]) >= 1 /\ w[i][Len(w[i])] = text[i]
    <3>1. Len(w[i - 1]) \in Nat
      BY <1>5
    <3> QED
      BY <1>5, <1>10, <3>1
  <2>2. 0 \in R
    <3>1. i + 0 = i /\ 0 \in 0..(n - i)
      OBVIOUS
    <3> QED
      BY <2>1, <3>1
  <2>3. ASSUME NEW d \in R, d \in Nat, d < n - i PROVE d + 1 \in R
    <3>1. PICK x \in 1..n : x = i + d + 1
      BY <2>3
    <3>2. x - 1 = i + d /\ i + (d + 1) = x /\ d + 1 \in 0..(n - i)
      BY <2>3, <3>1
    <3>3. Len(w[x - 1]) >= Len(w[i]) /\ w[x - 1][Len(w[i])] = text[i]
      BY <2>3, <3>2
    <3>4. Len(w[x - 1]) \in Nat /\ Len(w[i]) \in 1..Len(w[x - 1])
      BY <1>5, <2>1, <3>3
    <3>5. w[x][Len(w[i])] = w[x - 1][Len(w[i])]
      BY <1>5, <3>4
    <3>6. Len(w[x]) >= Len(w[x - 1]) /\ Len(w[x]) \in Nat
      <4>1. CASE x \in is
        BY <1>5, <3>4, <4>1
      <4>2. CASE x \notin is
        BY <1>5, <3>4, <4>2
      <4> QED
        BY <4>1, <4>2
    <3>7. Len(w[x]) >= Len(w[i]) /\ w[x][Len(w[i])] = text[i]
      BY <2>1, <3>3, <3>4, <3>5, <3>6
    <3> QED
      BY <3>2, <3>7
  <2>4. PICK e \in Nat : e = n - i
    OBVIOUS
  <2>5. e \in R
    <3> HIDE DEF R
    <3> QED BY <2>2, <2>3, <2>4, UpTo
  <2>6. i + e = n
    BY <2>4
  <2>7. w[n][Len(w[i])] = text[i]
    BY <2>5, <2>6
  <2>8. a[i] = Len(w[i])
    BY <1>7
  <2> QED
    BY <2>7, <2>8
<1>11. Counts(n, 0, a)
  BY <1>7, <1>8, <1>9 DEF Counts
<1>12. a[n] = Len(Chosen(text, is))
  BY <1>3, <1>7
<1>13. \A i \in 1..n : a[i] = a[i - 1] + 1 => Chosen(text, is)[a[i]] = text[i]
  BY <1>3, <1>8, <1>10
<1>14. \A i \in 1..n : i \notin is => a[i] = a[i - 1]
  <2> SUFFICES ASSUME NEW i \in 1..n, i \notin is PROVE a[i] = a[i - 1]
    OBVIOUS
  <2>1. i - 1 \in 0..n /\ i \in 0..n
    OBVIOUS
  <2>2. a[i - 1] \in Nat /\ a[i] \in Nat
    BY <1>7, <2>1
  <2>3. a[i - 1] <= a[i] /\ a[i] <= a[i - 1] + 1 /\ a[i] # a[i - 1] + 1
    BY <1>8
  <2> QED
    BY <2>2, <2>3
<1>15. CountsOf(text, Chosen(text, is), a)
  BY <1>1, <1>11, <1>12, <1>13 DEF CountsOf
<1> QED
  BY <1>1, <1>14, <1>15

(* So no list that both texts hold is longer than what a best script keeps.  *)
LEMMA CommonShort ==
    ASSUME NEW S, NEW old \in Seq(S), NEW new \in Seq(S), NEW k \in Nat, Best(old, new, k),
           NEW s \in Subsequences(old) \cap Subsequences(new)
    PROVE  Len(s) <= k
<1>1. PICK is, js : s = Chosen(old, is) /\ s = Chosen(new, js)
  BY DEF Subsequences
<1>2. PICK a : CountsOf(old, s, a)
  <2>1. \E a : CountsOf(old, Chosen(old, is), a)
    BY ChosenCounts
  <2> QED
    BY <1>1, <2>1
<1>3. PICK b : CountsOf(new, s, b)
  <2>1. \E e : CountsOf(new, Chosen(new, js), e)
    BY ChosenCounts
  <2> QED
    BY <1>1, <2>1
<1>4. Shared(old, new, a, b)
  <2> SUFFICES ASSUME NEW i \in 1..Len(old), NEW j \in 1..Len(new), a[i] = a[i - 1] + 1, b[j] = b[j - 1] + 1, a[i] = b[j]
               PROVE  old[i] = new[j]
    BY DEF Shared
  <2>1. s[a[i]] = old[i] /\ s[b[j]] = new[j]
    BY <1>2, <1>3 DEF CountsOf
  <2> QED
    BY <2>1
<1>5. Counts(Len(old), 0, a) /\ Counts(Len(new), 0, b) /\ a[Len(old)] = Len(s) /\ b[Len(new)] = Len(s)
  BY <1>2, <1>3 DEF CountsOf
<1>6. Len(s) \in Nat
  <2>1. Len(old) \in 0..Len(old)
    OBVIOUS
  <2> QED
    BY <1>5, <2>1 DEF Counts
<1>7. Len(s) <= a[Len(old)] /\ Len(s) <= b[Len(new)]
  BY <1>5, <1>6
<1> QED
  BY <1>4, <1>5, <1>6, <1>7 DEF Best

(* What DiffShortest asks of a script.                                       *)
Shortest(old, new, ops) ==
    /\ FlattenSeq([i \in 1..Len(ops) |-> OldPart(old, ops[i])]) = old
    /\ FlattenSeq([i \in 1..Len(ops) |-> NewPart(old, new, ops[i])]) = new
    /\ TooLong(old, new) \/ \A s \in Subsequences(old) \cap Subsequences(new) : Len(s) <= LinesKept(ops)

LEMMA EditsRebuild ==
    ASSUME NEW S, NEW old \in Seq(S), NEW new \in Seq(S), NEW ops, NEW at, Along(old, new, ops, at),
           at[0].col = 0, at[0].row = 0, at[Len(ops)].col = Len(old), at[Len(ops)].row = Len(new)
    PROVE  /\ FlattenSeq([i \in 1..Len(ops) |-> OldPart(old, ops[i])]) = old
           /\ FlattenSeq([i \in 1..Len(ops) |-> NewPart(old, new, ops[i])]) = new
<1>1. PICK n \in Nat : n = Len(ops)
  BY DEF Along
<1>2. /\ at \in [0..n -> Places] /\ \A x \in 1..n : Follows(old, new, ops[x], at[x - 1], at[x])
  BY <1>1 DEF Along
<1>3. ASSUME NEW i \in 0..n
      PROVE  at[i] \in Places /\ at[i].col \in Nat /\ at[i].row \in Nat /\ at[i].col <= Len(old) /\ at[i].row <= Len(new)
  <2>1. i \in 0..Len(ops) /\ n \in i..Len(ops)
    BY <1>1
  <2>2. at[i].col <= at[n].col /\ at[i].row <= at[n].row /\ at[i] \in Places
    BY <2>1, Onward
  <2>3. at[i].col \in Nat /\ at[i].row \in Nat
    BY <2>2, PlaceParts
  <2> QED
    BY <1>1, <2>2, <2>3
<1>4. PICK x, y : x = [i \in 1..n |-> OldPart(old, ops[i])] /\ y = [i \in 1..n |-> NewPart(old, new, ops[i])]
  OBVIOUS
<1>5. PICK c, r : c = [i \in 0..n |-> at[i].col] /\ r = [i \in 0..n |-> at[i].row]
  OBVIOUS
<1>6. c \in [0..n -> Nat] /\ r \in [0..n -> Nat] /\ \A i \in 0..n : c[i] = at[i].col /\ r[i] = at[i].row
  BY <1>3, <1>5
<1>7. ASSUME NEW i \in 1..n
      PROVE  /\ c[i - 1] <= c[i] /\ c[i] <= Len(old) /\ x[i] = SubSeq(old, c[i - 1] + 1, c[i])
             /\ r[i - 1] <= r[i] /\ r[i] <= Len(new) /\ y[i] = SubSeq(new, r[i - 1] + 1, r[i])
             /\ x[i] \in Seq(S) /\ y[i] \in Seq(S)
  <2>1. i \in 0..n /\ i - 1 \in 0..n
    OBVIOUS
  <2>2. Follows(old, new, ops[i], at[i - 1], at[i]) /\ at[i - 1] \in Places /\ at[i] \in Places
        /\ at[i].col <= Len(old) /\ at[i].row <= Len(new)
    BY <1>2, <1>3, <2>1
  <2>3. at[i - 1].col <= at[i].col /\ at[i - 1].row <= at[i].row
    BY <2>2, FollowsTyped
  <2>4. x[i] = SubSeq(old, at[i - 1].col + 1, at[i].col) /\ y[i] = SubSeq(new, at[i - 1].row + 1, at[i].row)
    BY <1>4, <2>2, PartsAre
  <2>5. PICK c1 \in Nat, c2 \in Nat, r1 \in Nat, r2 \in Nat :
            c1 = at[i - 1].col /\ c2 = at[i].col /\ r1 = at[i - 1].row /\ r2 = at[i].row
    BY <1>3, <2>1
  <2>6. c1 <= c2 /\ c2 <= Len(old) /\ r1 <= r2 /\ r2 <= Len(new)
    BY <2>2, <2>3, <2>5
  <2>7. SubSeq(old, c1 + 1, c2) \in Seq(S)
    <3>1. \A j \in (c1 + 1)..c2 : old[j] \in S
      BY <2>5, <2>6
    <3>2. c1 + 1 \in Int /\ c2 \in Int
      BY <2>5
    <3> QED
      BY ONLY <3>1, <3>2, SubSeqProperties
  <2>8. SubSeq(new, r1 + 1, r2) \in Seq(S)
    <3>1. \A j \in (r1 + 1)..r2 : new[j] \in S
      BY <2>5, <2>6
    <3>2. r1 + 1 \in Int /\ r2 \in Int
      BY <2>5
    <3> QED
      BY ONLY <3>1, <3>2, SubSeqProperties
  <2> QED
    BY <1>6, <2>1, <2>4, <2>5, <2>6, <2>7, <2>8
<1>8. x \in Seq(Seq(S)) /\ y \in Seq(Seq(S)) /\ Len(x) = n /\ Len(y) = n
  <2>1. PICK T : T = Seq(S)
    OBVIOUS
  <2>2. \A i \in 1..n : x[i] \in T /\ y[i] \in T
    BY <1>7, <2>1
  <2>3. x = [i \in 1..n |-> x[i]] /\ y = [i \in 1..n |-> y[i]]
    BY <1>4
  <2>4. x \in [1..n -> T] /\ y \in [1..n -> T]
    BY <2>2, <2>3
  <2>5. \A f \in [1..n -> T] : f \in Seq(T) /\ Len(f) = n
    OBVIOUS
  <2> QED
    BY <2>1, <2>4, <2>5
<1>9. c[0] = 0 /\ r[0] = 0 /\ c[n] = Len(old) /\ r[n] = Len(new)
  BY <1>1, <1>6
<1>10. FlattenSeq(x) = old
  <2>1. CutAt(old, n, c, x)
    BY <1>6, <1>7, <1>8, <1>9 DEF CutAt
  <2> QED
    BY <1>8, <2>1, FlattenCuts
<1>11. FlattenSeq(y) = new
  <2>1. CutAt(new, n, r, y)
    BY <1>6, <1>7, <1>8, <1>9 DEF CutAt
  <2> QED
    BY <1>8, <2>1, FlattenCuts
<1> QED
  BY <1>1, <1>4, <1>10, <1>11

LEMMA DiffIsShortest ==
    ASSUME NEW S, NEW old \in Seq(S), NEW new \in Seq(S)
    PROVE  Shortest(old, new, diff_lines(old, new))
<1>1. PICK ops : ops = diff_lines(old, new)
  OBVIOUS
<1>2. PICK k \in Nat : Edits(old, new, ops, k) /\ (TooLong(old, new) \/ Best(old, new, k))
  BY <1>1, DiffIs
<1>3. PICK l \in Kinds : Script(old, new, ops, PlaceAt(0, 0, 0, "eq"), PlaceAt(Len(old), Len(new), k, l))
  BY <1>2 DEF Edits
<1>4. PICK at : Along(old, new, ops, at) /\ at[0] = PlaceAt(0, 0, 0, "eq") /\ at[Len(ops)] = PlaceAt(Len(old), Len(new), k, l)
  BY <1>3 DEF Script
<1>5. at[0].col = 0 /\ at[0].row = 0 /\ at[0].kept = 0 /\ at[Len(ops)].col = Len(old) /\ at[Len(ops)].row = Len(new)
      /\ at[Len(ops)].kept = k
  BY <1>4 DEF PlaceAt
<1>6. LinesKept(ops) = k
  BY <1>4, <1>5, LinesKeptIs
<1>7. /\ FlattenSeq([i \in 1..Len(ops) |-> OldPart(old, ops[i])]) = old
      /\ FlattenSeq([i \in 1..Len(ops) |-> NewPart(old, new, ops[i])]) = new
  BY <1>4, <1>5, EditsRebuild
<1>8. Best(old, new, k) => \A s \in Subsequences(old) \cap Subsequences(new) : Len(s) <= k
  BY CommonShort
<1> QED
  BY <1>1, <1>2, <1>6, <1>7, <1>8 DEF Shortest

(* One part more.                                                            *)
LEMMA FlattenMore ==
    ASSUME NEW S, NEW k \in Nat, NEW f, \A j \in 1..(k + 1) : f[j] \in Seq(S)
    PROVE  /\ FlattenSeq([j \in 1..k |-> f[j]]) \in Seq(S)
           /\ FlattenSeq([j \in 1..(k + 1) |-> f[j]]) = FlattenSeq([j \in 1..k |-> f[j]]) \o f[k + 1]
<1>1. PICK a, b : a = [j \in 1..k |-> f[j]] /\ b = [j \in 1..(k + 1) |-> f[j]]
  OBVIOUS
<1>2. a \in Seq(Seq(S)) /\ Len(a) = k /\ b \in Seq(Seq(S)) /\ Len(b) = k + 1
  <2>1. PICK T : T = Seq(S)
    OBVIOUS
  <2>2. a \in [1..k -> T] /\ b \in [1..(k + 1) -> T]
    BY <1>1, <2>1
  <2>3. \A n \in Nat : \A g \in [1..n -> T] : g \in Seq(T) /\ Len(g) = n
    OBVIOUS
  <2> QED
    BY <2>1, <2>2, <2>3
<1>3. PICK v : FlatBy(S, a, v)
  BY <1>2, FlattenIs
<1>4. PICK w : FlatBy(S, b, w)
  BY <1>2, FlattenIs
<1> DEFINE P == {i \in 0..k : v[i] = w[i]}
<1>5. 0 \in P
  BY <1>3, <1>4 DEF FlatBy
<1>6. ASSUME NEW i \in P, i \in Nat, i < k PROVE i + 1 \in P
  <2>1. i + 1 \in 1..k /\ i + 1 \in 1..(k + 1) /\ (i + 1) - 1 = i /\ i + 1 \in 0..k
    BY <1>6
  <2>2. v[i + 1] = v[i] \o a[i + 1] /\ w[i + 1] = w[i] \o b[i + 1]
    BY <1>2, <1>3, <1>4, <2>1 DEF FlatBy
  <2>3. a[i + 1] = b[i + 1] /\ v[i] = w[i]
    BY <1>1, <1>6, <2>1
  <2> QED
    BY <2>1, <2>2, <2>3
<1>7. k \in P
  <2> HIDE DEF P
  <2> QED BY <1>5, <1>6, UpTo
<1>8. w[k + 1] = w[k] \o b[k + 1] /\ b[k + 1] = f[k + 1]
  <2>1. k + 1 \in 1..(k + 1) /\ (k + 1) - 1 = k
    OBVIOUS
  <2> QED
    BY <1>1, <1>2, <1>4, <2>1 DEF FlatBy
<1>9. FlattenSeq(a) = v[k] /\ FlattenSeq(b) = w[k + 1] /\ v[k] \in Seq(S)
  <2>1. k \in 0..k
    OBVIOUS
  <2> QED
    BY <1>2, <1>3, <1>4, <2>1 DEF FlatBy
<1> QED
  BY <1>1, <1>7, <1>8, <1>9

LEMMA FlattenNone == ASSUME NEW f PROVE FlattenSeq([j \in 1..0 |-> f[j]]) = <<>>
<1>1. PICK a : a = [j \in 1..0 |-> f[j]]
  OBVIOUS
<1>2. a = <<>> /\ Len(a) = 0
  BY <1>1
<1>3. FlattenSeq(a) = a
  BY <1>2, Zenon DEF FlattenSeq
<1> QED
  BY <1>1, <1>2, <1>3

-----------------------------------------------------------------------------
(* Change maps.                                                              *)

(* What a map puts before a line of base, and whether it takes it away.      *)
Put(m, x) == IF x \in DOMAIN m THEN m[x].new_lines ELSE <<>>
Taken(m, x) == \E y \in DOMAIN m : x \in y..(y + m[y].base_count - 1)

(* The regions of a map lie in the first c lines of base, none in another.   *)
Regions(S, m, c) ==
    /\ m = [x \in DOMAIN m |-> m[x]] /\ DOMAIN m \subseteq 0..c
    /\ \A x \in DOMAIN m : m[x].base_count \in Nat /\ x + m[x].base_count <= c /\ m[x].new_lines \in Seq(S)
    /\ \A x, y \in DOMAIN m : x < y => x + m[x].base_count <= y

(* What two maps make of the first k lines of base.                          *)
Piece(base, a, b, k) ==
    Put(a, k - 1) \o Put(b, k - 1)
        \o (IF k > Len(base) \/ Taken(a, k - 1) \/ Taken(b, k - 1) THEN <<>> ELSE <<base[k]>>)
Written(base, a, b, k) == FlattenSeq([j \in 1..k |-> Piece(base, a, b, j)])

LEMMA PutTyped ==
    ASSUME NEW S, NEW m, NEW c, Regions(S, m, c), NEW x
    PROVE  Put(m, x) \in Seq(S)
<1>1. <<>> \in Seq(S)
  OBVIOUS
<1> QED
  BY <1>1 DEF Put, Regions

LEMMA PieceTyped ==
    ASSUME NEW S, NEW base \in Seq(S), NEW a, NEW b, NEW c, Regions(S, a, c), NEW d, Regions(S, b, d), NEW k \in Nat \ {0}
    PROVE  Piece(base, a, b, k) \in Seq(S)
<1>1. PICK x, y : x = Put(a, k - 1) /\ y = Put(b, k - 1)
  OBVIOUS
<1>2. x \in Seq(S) /\ y \in Seq(S)
  BY <1>1, PutTyped
<1>3. PICK z : z = IF k > Len(base) \/ Taken(a, k - 1) \/ Taken(b, k - 1) THEN <<>> ELSE <<base[k]>>
  OBVIOUS
<1>4. z \in Seq(S)
  <2>1. k <= Len(base) => <<base[k]>> \in Seq(S)
    OBVIOUS
  <2>2. <<>> \in Seq(S)
    OBVIOUS
  <2> QED
    BY <1>3, <2>1, <2>2
<1>5. Piece(base, a, b, k) = x \o y \o z
  BY <1>1, <1>3 DEF Piece
<1> QED
  BY <1>2, <1>4, <1>5

LEMMA WrittenIs ==
    ASSUME NEW S, NEW base \in Seq(S), NEW a, NEW b, NEW c, Regions(S, a, c), NEW d, Regions(S, b, d), NEW k \in Nat
    PROVE  /\ Written(base, a, b, 0) = <<>> /\ Written(base, a, b, k) \in Seq(S)
           /\ Written(base, a, b, k + 1) = Written(base, a, b, k) \o Piece(base, a, b, k + 1)
<1>1. PICK f : f = [j \in 1..(k + 1) |-> Piece(base, a, b, j)]
  OBVIOUS
<1>2. \A j \in 1..(k + 1) : f[j] = Piece(base, a, b, j) /\ f[j] \in Seq(S)
  <2>1. \A j \in 1..(k + 1) : j \in Nat \ {0}
    OBVIOUS
  <2> QED
    BY <1>1, <2>1, PieceTyped
<1>3. Written(base, a, b, k) = FlattenSeq([j \in 1..k |-> f[j]])
  <2>1. [j \in 1..k |-> f[j]] = [j \in 1..k |-> Piece(base, a, b, j)]
    BY <1>1
  <2> QED
    BY <2>1 DEF Written
<1>4. Written(base, a, b, k + 1) = FlattenSeq([j \in 1..(k + 1) |-> f[j]])
  <2>1. [j \in 1..(k + 1) |-> f[j]] = [j \in 1..(k + 1) |-> Piece(base, a, b, j)]
    BY <1>1
  <2> QED
    BY <2>1 DEF Written
<1>5. Written(base, a, b, 0) = <<>>
  <2>1. PICK g : g = [j \in {} |-> Piece(base, a, b, j)]
    OBVIOUS
  <2>2. [j \in 1..0 |-> g[j]] = [j \in 1..0 |-> Piece(base, a, b, j)]
    <3>1. 1..0 = {}
      OBVIOUS
    <3> QED
      BY <2>1, <3>1
  <2> QED
    BY <2>2, FlattenNone DEF Written
<1>6. k + 1 \in 1..(k + 1)
  OBVIOUS
<1> QED
  BY <1>2, <1>3, <1>4, <1>5, <1>6, FlattenMore

(* Maps that do the same to the first k lines.                               *)
SameTo(a, b, a2, b2, k) ==
    \A x \in 0..(k - 1) : /\ Put(a, x) = Put(a2, x) /\ Put(b, x) = Put(b2, x)
                          /\ (Taken(a, x) \/ Taken(b, x)) <=> (Taken(a2, x) \/ Taken(b2, x))

LEMMA WrittenSame ==
    ASSUME NEW base, NEW a, NEW b, NEW a2, NEW b2, NEW k \in Nat, SameTo(a, b, a2, b2, k)
    PROVE  Written(base, a, b, k) = Written(base, a2, b2, k)
<1>1. ASSUME NEW j \in 1..k PROVE Piece(base, a, b, j) = Piece(base, a2, b2, j)
  <2>1. j - 1 \in 0..(k - 1)
    OBVIOUS
  <2>2. /\ Put(a, j - 1) = Put(a2, j - 1) /\ Put(b, j - 1) = Put(b2, j - 1)
        /\ (Taken(a, j - 1) \/ Taken(b, j - 1)) <=> (Taken(a2, j - 1) \/ Taken(b2, j - 1))
    BY <2>1 DEF SameTo
  <2> QED
    BY <2>2 DEF Piece
<1> QED
  BY <1>1 DEF Written

LEMMA CombinedIs ==
    ASSUME NEW base, NEW a, NEW b
    PROVE  Combined(base, a, b) = Written(base, a, b, Len(base) + 1)
<1>1. ASSUME NEW i
      PROVE  (\E side \in {a, b}, at \in DOMAIN a \cup DOMAIN b :
                 at \in DOMAIN side /\ i \in at..(at + side[at].base_count - 1))
             <=> Taken(a, i) \/ Taken(b, i)
  BY DEF Taken
<1>2. ASSUME NEW k
      PROVE  Piece(base, a, b, k) =
               (IF k - 1 \in DOMAIN a THEN a[k - 1].new_lines ELSE <<>>)
               \o (IF k - 1 \in DOMAIN b THEN b[k - 1].new_lines ELSE <<>>)
               \o (IF k > Len(base) \/ (\E side \in {a, b}, at \in DOMAIN a \cup DOMAIN b :
                       at \in DOMAIN side /\ k - 1 \in at..(at + side[at].base_count - 1))
                   THEN <<>> ELSE <<base[k]>>)
  <2>1. (\E side \in {a, b}, at \in DOMAIN a \cup DOMAIN b :
                 at \in DOMAIN side /\ k - 1 \in at..(at + side[at].base_count - 1))
             <=> Taken(a, k - 1) \/ Taken(b, k - 1)
    BY <1>1
  <2> QED
    BY <2>1 DEF Piece, Put
<1> QED
  BY <1>2, Zenon DEF Combined, Written

(* The line an insertion stands before is where the script has come to.      *)
LEMMA AnchorIs ==
    ASSUME NEW old, NEW new, NEW ops, NEW at, Along(old, new, ops, at), at[0].col = 0, NEW i \in 1..Len(ops)
    PROVE  Anchor(ops, i) = at[i - 1].col
<1>1. PICK n \in Nat : n = Len(ops)
  BY DEF Along
<1>2. /\ at \in [0..n -> Places] /\ \A x \in 1..n : Follows(old, new, ops[x], at[x - 1], at[x])
  BY <1>1 DEF Along
<1>3. PICK c \in Nat : c = at[i - 1].col
  <2>1. at[i - 1] \in Places
    BY <1>1, <1>2
  <2> QED
    BY <2>1, PlaceParts
<1> DEFINE E == {0} \cup {ops[k].old + ops[k].n : k \in Before(ops, i)}
<1>4. ASSUME NEW k \in 1..n
      PROVE  /\ ops[k].kind # "ins" => ops[k].old + ops[k].n = at[k].col
             /\ ops[k].kind = "ins" => at[k].col = at[k - 1].col
  <2>1. k - 1 \in 0..n /\ k \in 0..n
    OBVIOUS
  <2>2. PICK op, p, q : op = ops[k] /\ p = at[k - 1] /\ q = at[k]
    OBVIOUS
  <2>3. Follows(old, new, op, p, q)
    BY <1>2, <2>2
  <2>4. CASE EqStep(old, new, op, p, q)
    <3>1. op.kind = "eq" /\ op.old = p.col /\ q.col = p.col + op.n
      BY <2>4 DEF EqStep, DiffOp, PlaceAt
    <3> QED
      BY <2>2, <3>1
  <2>5. CASE InsStep(op, p, q)
    <3>1. op.kind = "ins" /\ q.col = p.col
      BY <2>5 DEF InsStep, DiffOp, PlaceAt
    <3> QED
      BY <2>2, <3>1
  <2>6. CASE DelStep(op, p, q)
    <3>1. op.kind = "del" /\ op.old = p.col /\ q.col = p.col + op.n
      BY <2>6 DEF DelStep, DiffOp, PlaceAt
    <3> QED
      BY <2>2, <3>1
  <2> QED
    BY <2>3, <2>4, <2>5, <2>6 DEF Follows
<1>5. E \in SUBSET (0..c)
  <2> SUFFICES ASSUME NEW k \in Before(ops, i) PROVE ops[k].old + ops[k].n \in 0..c
    OBVIOUS
  <2>1. k \in 1..n /\ ops[k].kind # "ins" /\ k \in 0..Len(ops) /\ i - 1 \in k..Len(ops)
    BY <1>1 DEF Before
  <2>2. at[k].col <= at[i - 1].col /\ at[k] \in Places
    BY <2>1, Onward
  <2>3. at[k].col \in Nat
    BY <2>2, PlaceParts
  <2> QED
    BY <1>3, <1>4, <2>1, <2>2, <2>3
<1>6. c \in E
  <2> DEFINE P == {j \in 0..(i - 1) : at[j].col = 0 \/ \E k \in 1..j : ops[k].kind # "ins" /\ ops[k].old + ops[k].n = at[j].col}
  <2>1. 0 \in P
    BY <1>1
  <2>2. ASSUME NEW j \in P, j \in Nat, j < i - 1 PROVE j + 1 \in P
    <3>1. j + 1 \in 1..n /\ (j + 1) - 1 = j /\ j + 1 \in 0..(i - 1) /\ j + 1 \in 1..(j + 1)
      BY <1>1, <2>2
    <3>2. CASE ops[j + 1].kind # "ins"
      BY <1>4, <3>1, <3>2
    <3>3. CASE ops[j + 1].kind = "ins"
      <4>1. at[j + 1].col = at[j].col
        BY <1>4, <3>1, <3>3
      <4>2. \A k \in 1..j : k \in 1..(j + 1)
        BY <2>2
      <4> QED
        BY <2>2, <3>1, <4>1, <4>2
    <3> QED
      BY <3>2, <3>3
  <2>3. i - 1 \in Nat
    BY <1>1
  <2>4. i - 1 \in P
    <3> HIDE DEF P
    <3> QED BY <2>1, <2>2, <2>3, UpTo
  <2>5. at[i - 1].col = 0 \/ \E k \in 1..(i - 1) : ops[k].kind # "ins" /\ ops[k].old + ops[k].n = at[i - 1].col
    BY <2>4
  <2> QED
    BY <1>3, <2>5 DEF Before
<1>7. Max(E) \in E /\ \A y \in E : y <= Max(E)
  <2> HIDE DEF E
  <2>1. E # {}
    BY <1>6
  <2> QED
    BY <1>5, <2>1, MaxIs
<1>8. Max(E) = c
  <2>1. Max(E) \in 0..c
    <3> HIDE DEF E
    <3> QED BY <1>5, <1>7
  <2>2. c <= Max(E)
    <3> HIDE DEF E
    <3> QED BY <1>6, <1>7
  <2> QED
    BY <1>3, <2>1, <2>2
<1> QED
  BY <1>3, <1>8 DEF Anchor

(* The recursion of build_change_map. *)
ChangesSteps(ops, new, n, w) ==
    w = [i \in 0..n |-> IF i = 0 THEN <<>>
                        ELSE Enter(w[i - 1], ops, i, new)]

LEMMA ChangesExists ==
    ASSUME NEW ops, NEW new, NEW n \in Nat
    PROVE  \E w : ChangesSteps(ops, new, n, w)
<1> DEFINE P == {m \in Nat : \E w : ChangesSteps(ops, new, m, w)}
<1>1. 0 \in P
  <2> DEFINE w == [i \in 0..0 |-> <<>>]
  <2>1. ChangesSteps(ops, new, 0, w)
    BY DEF ChangesSteps
  <2> QED
    BY <2>1, Zenon
<1>2. ASSUME NEW m \in P \cap Nat PROVE m + 1 \in P
  <2> SUFFICES \E w : ChangesSteps(ops, new, m + 1, w)
    OBVIOUS
  <2>1. PICK g : ChangesSteps(ops, new, m, g)
    OBVIOUS
  <2> DEFINE F(x, i) == Enter(x, ops, i, new)
             B == <<>>
             w == [i \in 0 .. m + 1 |-> IF i = m + 1 THEN F(g[m], m + 1) ELSE g[i]]
  <2>2. \A i \in 0..m : g[i] = IF i = 0 THEN B ELSE F(g[i - 1], i)
    BY <2>1 DEF ChangesSteps
  <2> HIDE DEF F, B
  <2>3. ASSUME NEW i \in 0 .. m + 1
        PROVE  w[i] = IF i = 0 THEN B ELSE F(w[i - 1], i)
    <3>1. CASE i = m + 1
      <4>1. w[i] = F(g[m], m + 1) /\ w[i - 1] = g[m] /\ i # 0
        BY <3>1
      <4> HIDE DEF w
      <4> QED BY <4>1, <3>1
    <3>2. CASE i \in 0..m
      <4>1. w[i] = g[i] /\ (i # 0 => w[i - 1] = g[i - 1])
        BY <3>2
      <4> HIDE DEF w
      <4> QED BY <4>1, <3>2, <2>2
    <3> QED
      BY <3>1, <3>2
  <2>4. w = [i \in 0 .. m + 1 |-> w[i]]
    OBVIOUS
  <2>5. ChangesSteps(ops, new, m + 1, w)
    <3> HIDE DEF w
    <3> QED BY <2>3, <2>4 DEF ChangesSteps, F, B
  <2> QED
    BY <2>5, Zenon
<1>3. Nat \subseteq P
  <2> HIDE DEF P
  <2> QED BY <1>1, <1>2, SetInduction, Zenon
<1> QED
  BY <1>3

(* The lines of base that the first i steps take away.                       *)
Dropped(ops, i, x) == \E k \in 1..i : ops[k].kind = "del" /\ x \in ops[k].old..(ops[k].old + ops[k].n - 1)

(* The map after i steps, when the script has come to p.                     *)
MapPart(S, base, new, ops, p, i, m) ==
    /\ Regions(S, m, p.col)
    /\ p.col \in DOMAIN m => p.last = "ins" /\ m[p.col].base_count = 0
    /\ Written(base, m, <<>>, p.col) \o Put(m, p.col) = SubSeq(new, 1, p.row)
    /\ \A x : Taken(m, x) <=> Dropped(ops, i, x)

LEMMA DroppedNext ==
    ASSUME NEW ops, NEW i \in Nat, NEW x
    PROVE  Dropped(ops, i + 1, x) <=> (Dropped(ops, i, x) \/ (ops[i + 1].kind = "del" /\ x \in ops[i + 1].old..(ops[i + 1].old + ops[i + 1].n - 1)))
<1>1. \A k : k \in 1..(i + 1) <=> k \in 1..i \/ k = i + 1
  OBVIOUS
<1> QED
  BY <1>1 DEF Dropped

LEMMA NoChanges == ASSUME NEW S, NEW c \in Nat PROVE Regions(S, <<>>, c) /\ DOMAIN <<>> = {} /\ \A x : Put(<<>>, x) = <<>> /\ ~ Taken(<<>>, x)
<1>1. DOMAIN <<>> = {} /\ <<>> = [x \in DOMAIN <<>> |-> <<>>[x]]
  OBVIOUS
<1> QED
  BY <1>1 DEF Regions, Put, Taken

(* Beyond its regions a map does nothing.                                    *)
LEMMA Beyond ==
    ASSUME NEW S, NEW m, NEW c \in Nat, Regions(S, m, c), NEW x \in Nat
    PROVE  (x > c => Put(m, x) = <<>>) /\ (x >= c => ~ Taken(m, x))
<1>1. x > c => x \notin DOMAIN m
  BY DEF Regions
<1>2. ASSUME NEW y \in DOMAIN m, x >= c PROVE x \notin y..(y + m[y].base_count - 1)
  <2>1. y \in Nat /\ m[y].base_count \in Nat /\ y + m[y].base_count <= c
    BY DEF Regions
  <2> QED
    BY <1>2, <2>1
<1> QED
  BY <1>1, <1>2 DEF Put, Taken

LEMMA WrittenAlone ==
    ASSUME NEW S, NEW base \in Seq(S), NEW m, NEW c \in Nat, Regions(S, m, c), NEW k \in Nat
    PROVE  /\ Written(base, m, <<>>, 0) = <<>> /\ Written(base, m, <<>>, k) \in Seq(S)
           /\ Written(base, m, <<>>, k + 1) = Written(base, m, <<>>, k) \o Piece(base, m, <<>>, k + 1)
<1>1. PICK e : e = <<>>
  OBVIOUS
<1>2. Regions(S, e, c)
  BY <1>1, NoChanges
<1>3. /\ Written(base, m, e, 0) = <<>> /\ Written(base, m, e, k) \in Seq(S)
      /\ Written(base, m, e, k + 1) = Written(base, m, e, k) \o Piece(base, m, e, k + 1)
  BY <1>2, WrittenIs
<1> QED
  BY <1>1, <1>3

(* A step that both texts have.                                              *)
Copying(S, base, m, c, n) ==
    base \in Seq(S) /\ c \in Nat /\ n \in Nat /\ Regions(S, m, c) /\ c + n <= Len(base) /\ n > 0

LEMMA MapOverEq ==
    ASSUME NEW S, NEW base, NEW m, NEW c, NEW n, Copying(S, base, m, c, n), NEW d, d = c + n, NEW e, e = <<>>
    PROVE  Written(base, m, e, d) = (Written(base, m, e, c) \o Put(m, c)) \o Part(base, c, n)
<1> DEFINE W(k) == Written(base, m, <<>>, k)
           P == {j \in 1..n : W(c + j) = (W(c) \o Put(m, c)) \o SubSeq(base, c + 1, c + j)}
<1> USE DEF Copying
<1>1. Regions(S, <<>>, c) /\ \A x : Put(<<>>, x) = <<>> /\ ~ Taken(<<>>, x)
  BY NoChanges
<1>2. ASSUME NEW k \in Nat PROVE W(k) \in Seq(S) /\ W(k + 1) = W(k) \o Piece(base, m, <<>>, k + 1)
  BY WrittenAlone
<1>3. ASSUME NEW j \in 1..n
      PROVE  Piece(base, m, <<>>, c + j) = (IF j = 1 THEN Put(m, c) \o <<base[c + 1]>> ELSE <<base[c + j]>>)
  <2>1. (c + j) - 1 \in Nat /\ (c + j) - 1 >= c /\ (j = 1 => (c + j) - 1 = c) /\ (j # 1 => (c + j) - 1 > c) /\ c + j \in 1..Len(base)
    BY <1>3
  <2>2. ~ Taken(m, (c + j) - 1) /\ ((c + j) - 1 > c => Put(m, (c + j) - 1) = <<>>)
    BY <2>1, Beyond
  <2>3. PICK x, y : x = Put(m, (c + j) - 1) /\ y = <<base[c + j]>>
    OBVIOUS
  <2>4. x \in Seq(S) /\ y \in Seq(S)
    BY <2>1, <2>3, PutTyped
  <2>5. Piece(base, m, <<>>, c + j) = x \o <<>> \o y
    BY <1>1, <2>1, <2>2, <2>3 DEF Piece
  <2>6. x \o <<>> \o y = x \o y /\ (x = <<>> => x \o y = y)
    BY <2>4
  <2> QED
    BY <2>1, <2>2, <2>3, <2>5, <2>6
<1>4. Put(m, c) \in Seq(S) /\ W(c) \in Seq(S)
  BY <1>2, PutTyped
<1> HIDE DEF W
<1>5. 1 \in P
  <2>1. W(c + 1) = W(c) \o (Put(m, c) \o <<base[c + 1]>>)
    <3>1. 1 \in 1..n /\ c + 1 \in Nat
      OBVIOUS
    <3> QED
      BY <1>2, <1>3, <3>1
  <2>2. c + 1 \in 1..Len(base)
    OBVIOUS
  <2>4. PICK y : y = <<base[c + 1]>>
    OBVIOUS
  <2>5. y \in Seq(S) /\ Len(y) = 1 /\ y[1] = base[c + 1]
    BY <2>2, <2>4
  <2>3. SubSeq(base, c + 1, c + 1) = <<base[c + 1]>>
    <3>1. PICK z : z = SubSeq(base, c + 1, c + 1)
      OBVIOUS
    <3>2. z \in Seq(S) /\ Len(z) = 1 /\ \A i \in 1..1 : z[i] = base[c + i]
      <4>1. PICK one \in Nat : one = 1
        OBVIOUS
      <4>2. base \in Seq(S) /\ c \in Nat /\ one \in Nat /\ c + one <= Len(base)
        BY <4>1
      <4>3. /\ SubSeq(base, c + 1, c + one) \in Seq(S) /\ Len(SubSeq(base, c + 1, c + one)) = one
            /\ \A i \in 1..one : SubSeq(base, c + 1, c + one)[i] = base[c + i]
        BY ONLY <4>2, PartOfIs
      <4> QED
        BY ONLY <3>1, <4>1, <4>3
    <3>3. \A i \in 1..1 : z[i] = y[i]
      BY <2>5, <3>2
    <3>4. z = y
      BY ONLY <2>5, <3>2, <3>3, SeqEqual
    <3> QED
      BY <2>4, <3>1, <3>4
  <2>6. W(c) \o (Put(m, c) \o y) = (W(c) \o Put(m, c)) \o y
    <3>1. PICK a, b : a = W(c) /\ b = Put(m, c)
      OBVIOUS
    <3>2. a \in Seq(S) /\ b \in Seq(S) /\ y \in Seq(S)
      BY <1>4, <2>5, <3>1
    <3>3. (a \o b) \o y = a \o (b \o y)
      BY ONLY <3>2, ConcatAssociative
    <3> QED
      BY <3>1, <3>3
  <2>7. 1 \in 1..n
    OBVIOUS
  <2> QED
    BY <2>1, <2>3, <2>4, <2>6, <2>7
<1>6. ASSUME NEW j \in 1..n, j \in P, j < n PROVE j + 1 \in P
  <2>1. j + 1 \in 1..n /\ j + 1 # 1 /\ c + j \in Nat /\ (c + j) + 1 = c + (j + 1) /\ c + (j + 1) \in 1..Len(base)
    BY <1>6
  <2>2. W(c + (j + 1)) = W(c + j) \o <<base[c + (j + 1)]>>
    BY <1>2, <1>3, <2>1
  <2>3. PICK a, s, y : a = W(c) \o Put(m, c) /\ s = SubSeq(base, c + 1, c + j) /\ y = <<base[c + (j + 1)]>>
    OBVIOUS
  <2>4. a \in Seq(S) /\ y \in Seq(S)
    BY <1>4, <2>1, <2>3
  <2>5. s \in Seq(S)
    <3>1. c + j <= Len(base) /\ j \in Nat
      BY <1>6
    <3> QED
      BY <2>3, <3>1, PartOfIs
  <2>6. W(c + j) = a \o s
    BY <1>6, <2>3
  <2>7. (a \o s) \o y = a \o (s \o y)
    BY ONLY <2>4, <2>5, ConcatAssociative
  <2>8. SubSeq(base, c + 1, c + (j + 1)) = s \o y
    <3>1. PICK i \in Nat, b \in Nat : i = c + 1 /\ b = c + (j + 1)
      BY <2>1
    <3>2. i \in 1..Len(base) /\ b \in i..Len(base) /\ b - 1 = c + j
      BY <1>6, <2>1, <3>1
    <3>3. SubSeq(base, i, b) = SubSeq(base, i, b - 1) \o <<base[b]>>
      BY <3>2, SubSeqRecursiveSecond
    <3> QED
      BY <2>3, <3>1, <3>2, <3>3
  <2> QED
    BY <2>1, <2>2, <2>3, <2>6, <2>7, <2>8
<1>7. n \in P
  <2> DEFINE R == {j \in 0..n : j # 0 => j \in P}
  <2> HIDE DEF P
  <2>1. 0 \in R
    OBVIOUS
  <2>2. ASSUME NEW j \in R, j \in Nat, j < n PROVE j + 1 \in R
    <3>1. CASE j = 0
      BY <1>5, <2>2, <3>1
    <3>2. CASE j # 0
      <4>1. j \in 1..n /\ j \in P
        BY <2>2, <3>2
      <4>2. j + 1 \in P
        BY <1>6, <2>2, <4>1
      <4> QED
        BY <2>2, <4>2
    <3> QED
      BY <3>1, <3>2
  <2>3. n \in R
    <3> HIDE DEF R
    <3> QED BY <2>1, <2>2, UpTo
  <2> QED
    BY <2>3
<1> QED
  BY <1>7 DEF W, Part

(* A step that inserts.                                                      *)
Empty(m, c) == c \in DOMAIN m => m[c].base_count = 0

Insertion(S, m, c, s, m2) ==
    /\ c \in Nat /\ Regions(S, m, c) /\ Empty(m, c) /\ s \in Seq(S) /\ m2 = With(m, c, ChangeRegion(0, s))

LEMMA RegionsIns ==
    ASSUME NEW S, NEW m, NEW c, NEW s, NEW m2, Insertion(S, m, c, s, m2)
    PROVE  /\ Regions(S, m2, c) /\ c \in DOMAIN m2 /\ m2[c].base_count = 0 /\ Put(m2, c) = s
           /\ \A x : Taken(m2, x) <=> Taken(m, x)
           /\ \A x \in 0..(c - 1) : Put(m2, x) = Put(m, x)
<1> USE DEF Insertion
<1>1. PICK r : r = ChangeRegion(0, s)
  OBVIOUS
<1>2. r.base_count = 0 /\ r.new_lines = s
  BY <1>1 DEF ChangeRegion
<1>3. /\ DOMAIN m2 = DOMAIN m \cup {c} /\ m2[c] = r /\ \A x \in DOMAIN m \ {c} : m2[x] = m[x]
      /\ m2 = [x \in DOMAIN m2 |-> m2[x]]
  <2>1. m2 = With(m, c, r)
    BY <1>1
  <2>2. /\ DOMAIN m2 = DOMAIN m \cup {c} /\ m2[c] = r /\ \A x \in DOMAIN m \ {c} : m2[x] = m[x]
        /\ m2 = [x \in DOMAIN m2 |-> m2[x]]
    BY <2>1 DEF With
  <2> QED
    BY <2>2
<1>4. /\ DOMAIN m \subseteq 0..c
      /\ \A x \in DOMAIN m : m[x].base_count \in Nat /\ x + m[x].base_count <= c /\ m[x].new_lines \in Seq(S)
      /\ \A x, y \in DOMAIN m : x < y => x + m[x].base_count <= y
  BY DEF Regions
<1>5. \A x \in DOMAIN m : m2[x].base_count = m[x].base_count
  BY <1>2, <1>3 DEF Empty
<1>6. \A x \in DOMAIN m2 : m2[x].base_count \in Nat /\ x + m2[x].base_count <= c /\ m2[x].new_lines \in Seq(S)
  <2> SUFFICES ASSUME NEW x \in DOMAIN m2 PROVE m2[x].base_count \in Nat /\ x + m2[x].base_count <= c /\ m2[x].new_lines \in Seq(S)
    OBVIOUS
  <2>1. CASE x = c
    BY <1>2, <1>3, <2>1
  <2>2. CASE x # c
    BY <1>3, <1>4, <2>2
  <2> QED
    BY <2>1, <2>2
<1>7. \A x, y \in DOMAIN m2 : x < y => x + m2[x].base_count <= y
  <2> SUFFICES ASSUME NEW x \in DOMAIN m2, NEW y \in DOMAIN m2, x < y PROVE x + m2[x].base_count <= y
    OBVIOUS
  <2>1. x \in 0..c /\ y \in 0..c
    BY <1>3, <1>4
  <2>2. x \in DOMAIN m /\ x # c
    BY <1>3, <2>1
  <2>3. CASE y = c
    BY <1>4, <1>5, <2>2, <2>3
  <2>4. CASE y # c
    BY <1>3, <1>4, <1>5, <2>2, <2>4
  <2> QED
    BY <2>3, <2>4
<1>8. Regions(S, m2, c)
  BY <1>3, <1>4, <1>6, <1>7 DEF Regions
<1>9. ASSUME NEW x PROVE Taken(m2, x) <=> Taken(m, x)
  <2>1. c..(c + m2[c].base_count - 1) = {}
    BY <1>2, <1>3
  <2>2. \A y \in DOMAIN m : y..(y + m2[y].base_count - 1) = y..(y + m[y].base_count - 1)
    BY <1>5
  <2> QED
    BY <1>3, <2>1, <2>2 DEF Taken
<1>10. ASSUME NEW x \in 0..(c - 1) PROVE Put(m2, x) = Put(m, x)
  BY <1>3 DEF Put
<1>11. Put(m2, c) = s
  BY <1>2, <1>3 DEF Put
<1> QED
  BY <1>2, <1>3, <1>8, <1>9, <1>10, <1>11

(* A step that deletes.                                                      *)
Deletion(S, m, c, n, m2) ==
    /\ c \in Nat /\ n \in Nat /\ n > 0 /\ Regions(S, m, c) /\ c \notin DOMAIN m
    /\ m2 = With(m, c, ChangeRegion(n, <<>>))

LEMMA RegionsDel ==
    ASSUME NEW S, NEW m, NEW c, NEW n, NEW m2, Deletion(S, m, c, n, m2)
    PROVE  /\ Regions(S, m2, c + n) /\ c + n \notin DOMAIN m2
           /\ \A x : Taken(m2, x) <=> (Taken(m, x) \/ x \in c..(c + n - 1))
           /\ \A x \in Nat : Put(m2, x) = Put(m, x)
<1> USE DEF Deletion
<1>1. PICK r : r = ChangeRegion(n, <<>>)
  OBVIOUS
<1>2. r.base_count = n /\ r.new_lines = <<>> /\ <<>> \in Seq(S)
  BY <1>1 DEF ChangeRegion
<1>3. /\ DOMAIN m2 = DOMAIN m \cup {c} /\ m2[c] = r /\ \A x \in DOMAIN m : m2[x] = m[x]
      /\ m2 = [x \in DOMAIN m2 |-> m2[x]]
  <2>1. m2 = With(m, c, r)
    BY <1>1
  <2>2. /\ DOMAIN m2 = DOMAIN m \cup {c} /\ m2[c] = r /\ \A x \in DOMAIN m \ {c} : m2[x] = m[x]
        /\ m2 = [x \in DOMAIN m2 |-> m2[x]]
    BY <2>1 DEF With
  <2> QED
    BY <2>2
<1>4. /\ DOMAIN m \subseteq 0..c
      /\ \A x \in DOMAIN m : m[x].base_count \in Nat /\ x + m[x].base_count <= c /\ m[x].new_lines \in Seq(S)
      /\ \A x, y \in DOMAIN m : x < y => x + m[x].base_count <= y
  BY DEF Regions
<1>5. \A x \in DOMAIN m2 : m2[x].base_count \in Nat /\ x + m2[x].base_count <= c + n /\ m2[x].new_lines \in Seq(S)
  <2> SUFFICES ASSUME NEW x \in DOMAIN m2 PROVE m2[x].base_count \in Nat /\ x + m2[x].base_count <= c + n /\ m2[x].new_lines \in Seq(S)
    OBVIOUS
  <2>1. CASE x = c
    <3>1. m2[x] = r
      BY <1>3, <2>1
    <3>2. r.base_count \in Nat /\ r.new_lines \in Seq(S)
      BY <1>2
    <3>3. x + r.base_count <= c + n
      BY <1>2, <2>1
    <3> QED
      BY <3>1, <3>2, <3>3
  <2>2. CASE x # c
    <3>1. x \in DOMAIN m /\ m2[x] = m[x] /\ x \in Nat
      BY <1>3, <1>4, <2>2
    <3>2. m[x].base_count \in Nat /\ x + m[x].base_count <= c /\ m[x].new_lines \in Seq(S)
      BY <1>4, <3>1
    <3> QED
      BY <3>1, <3>2
  <2> QED
    BY <2>1, <2>2
<1>6. \A x, y \in DOMAIN m2 : x < y => x + m2[x].base_count <= y
  <2> SUFFICES ASSUME NEW x \in DOMAIN m2, NEW y \in DOMAIN m2, x < y PROVE x + m2[x].base_count <= y
    OBVIOUS
  <2>1. x \in 0..c /\ y \in 0..c
    BY <1>3, <1>4
  <2>2. x \in DOMAIN m /\ x # c /\ m2[x] = m[x]
    BY <1>3, <2>1
  <2>3. CASE y = c
    BY <1>4, <2>2, <2>3
  <2>4. CASE y # c
    BY <1>3, <1>4, <2>2, <2>4
  <2> QED
    BY <2>3, <2>4
<1>7. DOMAIN m2 \subseteq 0..(c + n)
  BY <1>3, <1>4
<1>8. Regions(S, m2, c + n)
  BY <1>3, <1>5, <1>6, <1>7 DEF Regions
<1>9. ASSUME NEW x PROVE Taken(m2, x) <=> (Taken(m, x) \/ x \in c..(c + n - 1))
  <2>1. c..(c + m2[c].base_count - 1) = c..(c + n - 1)
    BY <1>2, <1>3
  <2>2. \A y \in DOMAIN m : y..(y + m2[y].base_count - 1) = y..(y + m[y].base_count - 1)
    BY <1>3
  <2> QED
    BY <1>3, <2>1, <2>2 DEF Taken
<1>10. ASSUME NEW x \in Nat PROVE Put(m2, x) = Put(m, x)
  BY <1>2, <1>3 DEF Put
<1>11. c + n \notin DOMAIN m2
  BY <1>3, <1>4
<1> QED
  BY <1>8, <1>9, <1>10, <1>11

(* Over lines that are taken away.                                           *)
Skipped(a, b, c, n) ==
    /\ \A x \in c..(c + n - 1) : Taken(a, x) \/ Taken(b, x)
    /\ \A x \in (c + 1)..(c + n - 1) : Put(a, x) = <<>> /\ Put(b, x) = <<>>

Skipping(S, base, a, d, b, e, c, n) ==
    /\ base \in Seq(S) /\ Regions(S, a, d) /\ Regions(S, b, e)
    /\ c \in Nat /\ n \in Nat /\ n > 0 /\ Skipped(a, b, c, n)

LEMMA WrittenSkips ==
    ASSUME NEW S, NEW base, NEW a, NEW d, NEW b, NEW e, NEW c, NEW n, Skipping(S, base, a, d, b, e, c, n)
    PROVE  Written(base, a, b, c + n) = Written(base, a, b, c) \o (Put(a, c) \o Put(b, c))
<1> DEFINE W(k) == Written(base, a, b, k)
           P == {j \in 1..n : W(c + j) = W(c) \o (Put(a, c) \o Put(b, c))}
<1> USE DEF Skipping
<1>1. ASSUME NEW k \in Nat PROVE W(k) \in Seq(S) /\ W(k + 1) = W(k) \o Piece(base, a, b, k + 1)
  BY WrittenIs
<1>2. ASSUME NEW j \in 1..n
      PROVE  Piece(base, a, b, c + j) = IF j = 1 THEN Put(a, c) \o Put(b, c) ELSE <<>>
  <2>1. (c + j) - 1 \in c..(c + n - 1) /\ (j = 1 => (c + j) - 1 = c) /\ (j # 1 => (c + j) - 1 \in (c + 1)..(c + n - 1))
    BY <1>2
  <2>2. Taken(a, (c + j) - 1) \/ Taken(b, (c + j) - 1)
    BY <2>1 DEF Skipped
  <2>3. j # 1 => Put(a, (c + j) - 1) = <<>> /\ Put(b, (c + j) - 1) = <<>>
    BY <2>1 DEF Skipped
  <2>4. PICK x, y : x = Put(a, (c + j) - 1) /\ y = Put(b, (c + j) - 1)
    OBVIOUS
  <2>5. x \in Seq(S) /\ y \in Seq(S)
    BY <2>4, PutTyped
  <2>6. Piece(base, a, b, c + j) = x \o y \o <<>>
    BY <2>2, <2>4 DEF Piece
  <2>7. x \o y \o <<>> = x \o y /\ (x = <<>> /\ y = <<>> => x \o y = <<>>)
    BY <2>5
  <2> QED
    BY <2>1, <2>3, <2>4, <2>6, <2>7
<1>3. Put(a, c) \o Put(b, c) \in Seq(S) /\ W(c) \in Seq(S)
  <2>1. Put(a, c) \in Seq(S) /\ Put(b, c) \in Seq(S)
    BY PutTyped
  <2> QED
    BY <1>1, <2>1
<1> HIDE DEF W
<1>4. 1 \in P
  <2>1. 1 \in 1..n
    OBVIOUS
  <2> QED
    BY <1>1, <1>2, <2>1
<1>5. ASSUME NEW j \in 1..n, j \in P, j < n PROVE j + 1 \in P
  <2>1. j + 1 \in 1..n /\ j + 1 # 1 /\ c + j \in Nat /\ (c + j) + 1 = c + (j + 1)
    BY <1>5
  <2>2. W(c + (j + 1)) = W(c + j) \o <<>> /\ W(c + j) \in Seq(S)
    BY <1>1, <1>2, <2>1
  <2>3. W(c + j) \o <<>> = W(c + j)
    BY <2>2, ConcatEmptySeq
  <2> QED
    BY <1>5, <2>1, <2>2, <2>3
<1>6. n \in P
  <2> DEFINE R == {j \in 0..n : j # 0 => j \in P}
  <2> HIDE DEF P
  <2>1. 0 \in R
    OBVIOUS
  <2>2. ASSUME NEW j \in R, j \in Nat, j < n PROVE j + 1 \in R
    <3>1. CASE j = 0
      BY <1>4, <2>2, <3>1
    <3>2. CASE j # 0
      <4>1. j \in 1..n /\ j \in P
        BY <2>2, <3>2
      <4>2. j + 1 \in P
        BY <1>5, <2>2, <4>1
      <4> QED
        BY <2>2, <4>2
    <3> QED
      BY <3>1, <3>2
  <2>3. n \in R
    <3> HIDE DEF R
    <3> QED BY <2>1, <2>2, UpTo
  <2> QED
    BY <2>3
<1> QED
  BY <1>6 DEF W

LEMMA JoinParts ==
    ASSUME NEW S, NEW s \in Seq(S), NEW r \in Nat, NEW n \in Nat, r + n <= Len(s)
    PROVE  SubSeq(s, 1, r) \o SubSeq(s, r + 1, r + n) = SubSeq(s, 1, r + n)
           /\ SubSeq(s, 1, r) \in Seq(S) /\ SubSeq(s, r + 1, r + n) \in Seq(S)
<1>1. PICK L \in Nat, b \in Nat : L = Len(s) /\ b = r + n
  OBVIOUS
<1>2. 1 \in 1..(L + 1) /\ r \in (1 - 1)..L /\ b \in r..L
  BY <1>1
<1>3. SubSeq(s, 1, r) \o SubSeq(s, r + 1, b) = SubSeq(s, 1, b)
  BY <1>1, <1>2, ConcatAdjacentSubSeq
<1>4. SubSeq(s, r + 1, r + n) \in Seq(S)
  BY PartOfIs
<1>5. SubSeq(s, 1, r) \in Seq(S)
  <2>1. r <= Len(s)
    BY <1>1, <1>2
  <2> QED
    BY <2>1, FrontOfIs
<1> QED
  BY <1>1, <1>3, <1>4, <1>5

LEMMA RegionsGrow ==
    ASSUME NEW S, NEW m, NEW c \in Nat, NEW d \in Nat, c <= d, Regions(S, m, c)
    PROVE  Regions(S, m, d)
<1>1. DOMAIN m \subseteq 0..d
  BY DEF Regions
<1>2. ASSUME NEW x \in DOMAIN m PROVE x + m[x].base_count <= d
  <2>1. x \in Nat /\ m[x].base_count \in Nat /\ x + m[x].base_count <= c
    BY DEF Regions
  <2> QED
    BY <2>1
<1> QED
  BY <1>1, <1>2 DEF Regions

-----------------------------------------------------------------------------
(* The map after a step of the script.                                       *)

(* A script, from the first line of both texts to their ends.                *)
Leads(S, base, new, ops, at) ==
    /\ base \in Seq(S) /\ new \in Seq(S) /\ Along(base, new, ops, at)
    /\ at[0] = PlaceAt(0, 0, 0, "eq") /\ at[Len(ops)].col = Len(base) /\ at[Len(ops)].row = Len(new)

LEMMA LeadsTo ==
    ASSUME NEW S, NEW base, NEW new, NEW ops, NEW at, Leads(S, base, new, ops, at), NEW i \in 1..Len(ops)
    PROVE  /\ Follows(base, new, ops[i], at[i - 1], at[i]) /\ at[i - 1] \in Places /\ at[i] \in Places
           /\ at[i].col <= Len(base) /\ at[i].row <= Len(new) /\ Anchor(ops, i) = at[i - 1].col
<1>1. PICK n \in Nat : n = Len(ops)
  BY DEF Leads, Along
<1>2. /\ at \in [0..n -> Places] /\ \A x \in 1..n : Follows(base, new, ops[x], at[x - 1], at[x])
  BY <1>1 DEF Along, Leads
<1>3. i \in 0..Len(ops) /\ n \in i..Len(ops) /\ i - 1 \in 0..n /\ i \in 0..n /\ i \in 1..n
  BY <1>1
<1>4. at[i].col <= at[n].col /\ at[i].row <= at[n].row
  BY <1>3, Onward DEF Leads
<1>5. at[0].col = 0
  BY DEF Leads, PlaceAt
<1>6. Anchor(ops, i) = at[i - 1].col
  BY <1>5, AnchorIs DEF Leads
<1> QED
  BY <1>1, <1>2, <1>3, <1>4, <1>6 DEF Leads

LEMMA MapIns ==
    ASSUME NEW S, NEW base, NEW new, NEW ops, NEW at, Leads(S, base, new, ops, at), NEW i \in 0..(Len(ops) - 1), NEW m,
           MapPart(S, base, new, ops, at[i], i, m), InsStep(ops[i + 1], at[i], at[i + 1])
    PROVE  MapPart(S, base, new, ops, at[i + 1], i + 1, Enter(m, ops, i + 1, new))
<1>1. i + 1 \in 1..Len(ops) /\ (i + 1) - 1 = i /\ i \in Nat
  BY DEF Leads, Along
<1>2. PICK op, p, q : op = ops[i + 1] /\ p = at[i] /\ q = at[i + 1]
  OBVIOUS
<1>3. Follows(base, new, op, p, q) /\ p \in Places /\ q \in Places /\ q.col <= Len(base) /\ q.row <= Len(new)
      /\ Anchor(ops, i + 1) = p.col
  BY <1>1, <1>2, LeadsTo
<1>4. PICK c \in Nat, r \in Nat, l \in Nat : c = p.col /\ r = p.row /\ l = op.n
  BY <1>3, PlaceParts DEF Follows
<1>5. op.kind = "ins" /\ op.new = r /\ q.col = c /\ q.row = r + l /\ q.last = "ins"
  BY <1>2, <1>4 DEF InsStep, DiffOp, PlaceAt
<1>6. /\ Regions(S, m, c) /\ (c \in DOMAIN m => m[c].base_count = 0)
      /\ Written(base, m, <<>>, c) \o Put(m, c) = SubSeq(new, 1, r)
      /\ \A x : Taken(m, x) <=> Dropped(ops, i, x)
  BY <1>2, <1>4 DEF MapPart
<1>7. PICK a, b : a = Put(m, c) /\ b = SubSeq(new, r + 1, r + l)
  OBVIOUS
<1>8. base \in Seq(S) /\ new \in Seq(S)
  BY DEF Leads
<1>9. r + l <= Len(new)
  BY <1>3, <1>5
<1>10. a \in Seq(S) /\ b \in Seq(S)
  BY <1>4, <1>6, <1>7, <1>8, <1>9, PutTyped, PartOfIs
<1>11. PICK m2 : m2 = With(m, c, ChangeRegion(0, a \o b))
  OBVIOUS
<1>12. Enter(m, ops, i + 1, new) = m2
  <2>1. op.kind # "eq" /\ op.kind # "del"
    BY <1>5
  <2>2. Enter(m, ops, i + 1, new)
          = With(m, c, ChangeRegion((IF c \in DOMAIN m THEN m[c] ELSE ChangeRegion(0, <<>>)).base_count,
                                    (IF c \in DOMAIN m THEN m[c] ELSE ChangeRegion(0, <<>>)).new_lines \o b))
    BY <1>2, <1>3, <1>4, <1>5, <1>7, <2>1 DEF Enter
  <2>3. (IF c \in DOMAIN m THEN m[c] ELSE ChangeRegion(0, <<>>)).base_count = 0
    BY <1>6 DEF ChangeRegion
  <2>4. (IF c \in DOMAIN m THEN m[c] ELSE ChangeRegion(0, <<>>)).new_lines = a
    BY <1>7 DEF ChangeRegion, Put
  <2> QED
    BY <1>11, <2>2, <2>3, <2>4
<1>13. a \o b \in Seq(S)
  BY <1>10
<1>20. Empty(m, c)
  BY <1>6 DEF Empty
<1>14. /\ Regions(S, m2, c) /\ c \in DOMAIN m2 /\ m2[c].base_count = 0 /\ Put(m2, c) = a \o b
       /\ \A x : Taken(m2, x) <=> Taken(m, x)
       /\ \A x \in 0..(c - 1) : Put(m2, x) = Put(m, x)
  <2>1. PICK s : s = a \o b
    OBVIOUS
  <2>2. Insertion(S, m, c, s, m2)
    BY <1>4, <1>6, <1>11, <1>13, <1>20, <2>1 DEF Insertion
  <2>3. /\ Regions(S, m2, c) /\ c \in DOMAIN m2 /\ m2[c].base_count = 0 /\ Put(m2, c) = s
        /\ \A x : Taken(m2, x) <=> Taken(m, x)
        /\ \A x \in 0..(c - 1) : Put(m2, x) = Put(m, x)
    BY ONLY <2>2, RegionsIns
  <2> QED
    BY <2>1, <2>3
<1>15. Written(base, m2, <<>>, c) = Written(base, m, <<>>, c)
  <2>1. PICK e : e = <<>>
    OBVIOUS
  <2>2. SameTo(m2, e, m, e, c)
    BY <1>14 DEF SameTo
  <2> QED
    BY <1>4, <2>1, <2>2, WrittenSame
<1>16. Written(base, m2, <<>>, c) \o Put(m2, c) = SubSeq(new, 1, r + l)
  <2>1. PICK w : w = Written(base, m, <<>>, c)
    OBVIOUS
  <2>2. w \in Seq(S)
    BY <1>4, <1>6, <1>8, <2>1, WrittenAlone
  <2>3. (w \o a) \o b = w \o (a \o b)
    BY ONLY <1>10, <2>2, ConcatAssociative
  <2>4. SubSeq(new, 1, r) \o b = SubSeq(new, 1, r + l)
    <3>1. new \in Seq(S) /\ r \in Nat /\ l \in Nat /\ r + l <= Len(new)
      BY <1>4, <1>8, <1>9
    <3>2. SubSeq(new, 1, r) \o SubSeq(new, r + 1, r + l) = SubSeq(new, 1, r + l)
      BY ONLY <3>1, JoinParts
    <3> QED
      BY <1>7, <3>2
  <2>5. w \o a = SubSeq(new, 1, r)
    BY <1>6, <1>7, <2>1
  <2> QED
    BY <1>14, <1>15, <2>1, <2>3, <2>4, <2>5
<1>17. ASSUME NEW x PROVE Taken(m2, x) <=> Dropped(ops, i + 1, x)
  <2>1. ops[i + 1].kind # "del"
    BY <1>2, <1>5
  <2>2. Dropped(ops, i + 1, x) <=> Dropped(ops, i, x)
    BY <1>1, <2>1, DroppedNext
  <2> QED
    BY <1>6, <1>14, <2>2
<1>18. MapPart(S, base, new, ops, q, i + 1, m2)
  BY <1>5, <1>14, <1>16, <1>17 DEF MapPart
<1> QED
  BY <1>2, <1>12, <1>18

LEMMA MapEq ==
    ASSUME NEW S, NEW base, NEW new, NEW ops, NEW at, Leads(S, base, new, ops, at), NEW i \in 0..(Len(ops) - 1), NEW m,
           MapPart(S, base, new, ops, at[i], i, m), EqStep(base, new, ops[i + 1], at[i], at[i + 1])
    PROVE  MapPart(S, base, new, ops, at[i + 1], i + 1, Enter(m, ops, i + 1, new))
<1>1. i + 1 \in 1..Len(ops) /\ (i + 1) - 1 = i /\ i \in Nat
  BY DEF Leads, Along
<1>2. PICK op, p, q : op = ops[i + 1] /\ p = at[i] /\ q = at[i + 1]
  OBVIOUS
<1>3. Follows(base, new, op, p, q) /\ p \in Places /\ q \in Places /\ q.col <= Len(base) /\ q.row <= Len(new)
  BY <1>1, <1>2, LeadsTo
<1>4. PICK c \in Nat, r \in Nat, l \in Nat : c = p.col /\ r = p.row /\ l = op.n
  BY <1>3, PlaceParts DEF Follows
<1>5. op.kind = "eq" /\ q.col = c + l /\ q.row = r + l /\ l > 0 /\ Alike(base, new, c, r, l)
  BY <1>2, <1>3, <1>4 DEF EqStep, DiffOp, PlaceAt, Alike, Follows
<1>6. /\ Regions(S, m, c)
      /\ Written(base, m, <<>>, c) \o Put(m, c) = SubSeq(new, 1, r)
      /\ \A x : Taken(m, x) <=> Dropped(ops, i, x)
  BY <1>2, <1>4 DEF MapPart
<1>7. base \in Seq(S) /\ new \in Seq(S)
  BY DEF Leads
<1>8. r + l <= Len(new) /\ c + l <= Len(base) /\ c + l \in Nat /\ c + l > c
  BY <1>3, <1>4, <1>5
<1>9. Enter(m, ops, i + 1, new) = m
  BY <1>2, <1>5 DEF Enter
<1>10. Regions(S, m, c + l)
  BY <1>4, <1>6, <1>8, RegionsGrow
<1>11. Put(m, c + l) = <<>> /\ c + l \notin DOMAIN m
  <2>1. c + l \notin DOMAIN m
    BY <1>4, <1>6, <1>8 DEF Regions
  <2> QED
    BY <2>1 DEF Put
<1>12. Written(base, m, <<>>, c + l) = (Written(base, m, <<>>, c) \o Put(m, c)) \o SubSeq(base, c + 1, c + l)
  <2>1. Copying(S, base, m, c, l)
    BY <1>4, <1>5, <1>6, <1>7, <1>8 DEF Copying
  <2>2. PICK d, e : d = c + l /\ e = <<>>
    OBVIOUS
  <2>3. Written(base, m, e, d) = (Written(base, m, e, c) \o Put(m, c)) \o SubSeq(base, c + 1, d)
    <3>1. SubSeq(base, c + 1, d) = Part(base, c, l)
      BY <2>2 DEF Part
    <3>2. Written(base, m, e, d) = (Written(base, m, e, c) \o Put(m, c)) \o Part(base, c, l)
      BY ONLY <2>1, <2>2, MapOverEq
    <3> QED
      BY <3>1, <3>2
  <2> QED
    BY <2>2, <2>3
<1>13. Part(base, c, l) = Part(new, r, l)
  <2>1. /\ base \in Seq(S) /\ new \in Seq(S) /\ c \in Nat /\ r \in Nat /\ l \in Nat
        /\ c + l <= Len(base) /\ r + l <= Len(new) /\ Alike(base, new, c, r, l)
    BY <1>3, <1>4, <1>5, <1>7, <1>8
  <2> QED
    BY ONLY <2>1, PartsSame
<1>14. Written(base, m, <<>>, c + l) = SubSeq(new, 1, r + l)
  <2>1. PICK s, t : s = SubSeq(new, r + 1, r + l) /\ t = SubSeq(base, c + 1, c + l)
    OBVIOUS
  <2>2. SubSeq(new, 1, r) \o s = SubSeq(new, 1, r + l)
    <3>1. r \in Nat /\ l \in Nat /\ new \in Seq(S) /\ r + l <= Len(new)
      BY <1>4, <1>7, <1>8
    <3>2. SubSeq(new, 1, r) \o SubSeq(new, r + 1, r + l) = SubSeq(new, 1, r + l)
      BY ONLY <3>1, JoinParts, Zenon
    <3> QED
      BY <2>1, <3>2
  <2>3. s = t
    BY <1>13, <2>1 DEF Part
  <2> QED
    BY <1>6, <1>12, <2>1, <2>2, <2>3
<1>15. Written(base, m, <<>>, c + l) \o Put(m, c + l) = SubSeq(new, 1, r + l)
  <2>1. PICK w : w = Written(base, m, <<>>, c + l)
    OBVIOUS
  <2>2. w \in Seq(S)
    BY <1>7, <1>8, <1>10, <2>1, WrittenAlone
  <2>3. w \o <<>> = w
    BY <2>2, ConcatEmptySeq
  <2> QED
    BY <1>11, <1>14, <2>1, <2>3
<1>16. ASSUME NEW x PROVE Taken(m, x) <=> Dropped(ops, i + 1, x)
  <2>1. ops[i + 1].kind # "del"
    BY <1>2, <1>5
  <2>2. Dropped(ops, i + 1, x) <=> Dropped(ops, i, x)
    BY <1>1, <2>1, DroppedNext
  <2> QED
    BY <1>6, <2>2
<1>17. MapPart(S, base, new, ops, q, i + 1, m)
  BY <1>5, <1>10, <1>11, <1>15, <1>16 DEF MapPart
<1> QED
  BY <1>2, <1>9, <1>17

LEMMA MapDel ==
    ASSUME NEW S, NEW base, NEW new, NEW ops, NEW at, Leads(S, base, new, ops, at), NEW i \in 0..(Len(ops) - 1), NEW m,
           MapPart(S, base, new, ops, at[i], i, m), DelStep(ops[i + 1], at[i], at[i + 1])
    PROVE  MapPart(S, base, new, ops, at[i + 1], i + 1, Enter(m, ops, i + 1, new))
<1>1. i + 1 \in 1..Len(ops) /\ (i + 1) - 1 = i /\ i \in Nat
  BY DEF Leads, Along
<1>2. PICK op, p, q : op = ops[i + 1] /\ p = at[i] /\ q = at[i + 1]
  OBVIOUS
<1>3. Follows(base, new, op, p, q) /\ p \in Places /\ q \in Places /\ q.col <= Len(base) /\ q.row <= Len(new)
  BY <1>1, <1>2, LeadsTo
<1>4. PICK c \in Nat, r \in Nat, l \in Nat : c = p.col /\ r = p.row /\ l = op.n
  BY <1>3, PlaceParts DEF Follows
<1>5. op.kind = "del" /\ op.old = c /\ q.col = c + l /\ q.row = r /\ p.last # "ins" /\ l > 0
  BY <1>2, <1>3, <1>4 DEF DelStep, DiffOp, PlaceAt, Follows
<1>6. /\ Regions(S, m, c) /\ c \notin DOMAIN m
      /\ Written(base, m, <<>>, c) \o Put(m, c) = SubSeq(new, 1, r)
      /\ \A x : Taken(m, x) <=> Dropped(ops, i, x)
  BY <1>2, <1>4, <1>5 DEF MapPart
<1>7. base \in Seq(S) /\ new \in Seq(S) /\ c + l \in Nat
  BY <1>4 DEF Leads
<1>8. PICK m2 : m2 = With(m, c, ChangeRegion(l, <<>>))
  OBVIOUS
<1>9. Enter(m, ops, i + 1, new) = m2
  BY <1>2, <1>4, <1>5, <1>8 DEF Enter
<1>10. /\ Regions(S, m2, c + l) /\ c + l \notin DOMAIN m2
       /\ \A x : Taken(m2, x) <=> (Taken(m, x) \/ x \in c..(c + l - 1))
       /\ \A x \in Nat : Put(m2, x) = Put(m, x)
  <2>1. Deletion(S, m, c, l, m2)
    BY <1>4, <1>5, <1>6, <1>8 DEF Deletion
  <2> QED
    BY ONLY <2>1, RegionsDel
<1>11. Written(base, m2, <<>>, c) = Written(base, m, <<>>, c)
  <2>1. \A x \in 0..(c - 1) : x \in Nat /\ x \notin c..(c + l - 1)
    BY <1>4
  <2>2. PICK e : e = <<>>
    OBVIOUS
  <2>3. SameTo(m2, e, m, e, c)
    BY <1>10, <2>1 DEF SameTo
  <2> QED
    BY <1>4, <2>2, <2>3, WrittenSame
<1>12. Written(base, m2, <<>>, c + l) = Written(base, m2, <<>>, c) \o (Put(m2, c) \o <<>>)
  <2>1. PICK e : e = <<>>
    OBVIOUS
  <2>2. Regions(S, e, c) /\ \A x : Put(e, x) = <<>>
    BY <1>4, <2>1, NoChanges
  <2>3. \A x \in (c + 1)..(c + l - 1) : Put(m2, x) = <<>>
    <3> SUFFICES ASSUME NEW x \in (c + 1)..(c + l - 1) PROVE Put(m2, x) = <<>>
      OBVIOUS
    <3>1. x \in Nat /\ x > c
      BY <1>4
    <3>2. Put(m, x) = <<>>
      BY <1>4, <1>6, <3>1, Beyond
    <3> QED
      BY <1>10, <3>1, <3>2
  <2>4. Skipped(m2, e, c, l)
    BY <1>10, <2>2, <2>3 DEF Skipped
  <2>5. Written(base, m2, e, c + l) = Written(base, m2, e, c) \o (Put(m2, c) \o Put(e, c))
    <3>1. PICK d : d = c + l
      OBVIOUS
    <3>2. Skipping(S, base, m2, d, e, c, c, l)
      BY <1>4, <1>5, <1>7, <1>10, <2>2, <2>4, <3>1 DEF Skipping
    <3> QED
      BY ONLY <3>2, WrittenSkips
  <2> QED
    BY <2>1, <2>2, <2>5
<1>13. Written(base, m2, <<>>, c + l) \o Put(m2, c + l) = SubSeq(new, 1, r)
  <2>1. PICK w : w = Written(base, m, <<>>, c)
    OBVIOUS
  <2>2. w \in Seq(S)
    BY <1>4, <1>6, <1>7, <2>1, WrittenAlone
  <2>3. Put(m2, c) = <<>> /\ Put(m, c) = <<>> /\ Put(m2, c + l) = <<>>
    BY <1>4, <1>6, <1>10 DEF Put
  <2>4. w \o (<<>> \o <<>>) = w /\ w \o <<>> = w
    BY <2>2
  <2> QED
    BY <1>6, <1>11, <1>12, <2>1, <2>3, <2>4
<1>14. ASSUME NEW x PROVE Taken(m2, x) <=> Dropped(ops, i + 1, x)
  BY <1>1, <1>2, <1>4, <1>5, <1>6, <1>10, DroppedNext
<1>15. MapPart(S, base, new, ops, q, i + 1, m2)
  BY <1>5, <1>10, <1>13, <1>14 DEF MapPart
<1> QED
  BY <1>2, <1>9, <1>15

(* The map of a script.                                                      *)
LEMMA MapIs ==
    ASSUME NEW S, NEW base, NEW new, NEW ops, NEW at, Leads(S, base, new, ops, at)
    PROVE  MapPart(S, base, new, ops, at[Len(ops)], Len(ops), build_change_map(ops, new))
<1>1. PICK n \in Nat : n = Len(ops)
  BY DEF Leads, Along
<1> DEFINE w == CHOOSE g : ChangesSteps(ops, new, n, g)
<1>2. ChangesSteps(ops, new, n, w)
  BY ChangesExists, Zenon
<1>3. build_change_map(ops, new) = w[n]
  BY <1>1, Zenon DEF build_change_map, ChangesSteps
<1> HIDE DEF w
<1>4. w[0] = <<>> /\ \A i \in 1..n : w[i] = Enter(w[i - 1], ops, i, new)
  <2>1. 0 \in 0..n /\ \A i \in 1..n : i \in 0..n /\ i # 0
    OBVIOUS
  <2> QED
    BY <1>2, <2>1 DEF ChangesSteps
<1> DEFINE P == {i \in 0..n : MapPart(S, base, new, ops, at[i], i, w[i])}
<1>5. 0 \in P
  <2>1. PICK e : e = <<>>
    OBVIOUS
  <2>2. Regions(S, e, 0) /\ DOMAIN e = {} /\ \A x : Put(e, x) = <<>> /\ ~ Taken(e, x)
    BY <2>1, NoChanges
  <2>3. at[0].col = 0 /\ at[0].row = 0
    BY DEF Leads, PlaceAt
  <2>4. Written(base, e, <<>>, 0) = <<>>
    <3>1. base \in Seq(S)
      BY DEF Leads
    <3> QED
      BY <2>2, <3>1, WrittenAlone
  <2>5. SubSeq(new, 1, 0) = <<>>
    BY SubSeqEmpty
  <2>6. <<>> \o <<>> = <<>>
    OBVIOUS
  <2>7. \A x : ~ Dropped(ops, 0, x)
    <3>1. 1..0 = {}
      OBVIOUS
    <3> QED
      BY <3>1 DEF Dropped
  <2>9. Written(base, e, <<>>, 0) \o Put(e, 0) = SubSeq(new, 1, 0)
    BY <2>2, <2>4, <2>5, <2>6
  <2>8. MapPart(S, base, new, ops, at[0], 0, e)
    BY <2>2, <2>3, <2>7, <2>9 DEF MapPart
  <2> QED
    BY <1>4, <2>1, <2>8
<1>6. ASSUME NEW i \in P, i \in Nat, i < n PROVE i + 1 \in P
  <2>1. i \in 0..(Len(ops) - 1) /\ i + 1 \in 1..n /\ i + 1 \in 1..Len(ops) /\ (i + 1) - 1 = i /\ i + 1 \in 0..n
    BY <1>1, <1>6
  <2>2. PICK m : m = w[i]
    OBVIOUS
  <2>3. MapPart(S, base, new, ops, at[i], i, m)
    BY <1>6, <2>2
  <2>4. Follows(base, new, ops[i + 1], at[i], at[i + 1])
    BY <2>1, LeadsTo
  <2>5. MapPart(S, base, new, ops, at[i + 1], i + 1, Enter(m, ops, i + 1, new))
    BY <2>1, <2>3, <2>4, MapEq, MapIns, MapDel DEF Follows
  <2>6. w[i + 1] = Enter(m, ops, i + 1, new)
    BY <1>4, <2>1, <2>2
  <2> QED
    BY <2>1, <2>5, <2>6
<1>7. n \in P
  <2> HIDE DEF P
  <2> QED BY <1>5, <1>6, UpTo
<1> QED
  BY <1>1, <1>3, <1>7

(* What the map of a script is.                                              *)
MapOf(S, base, new, ops, m) ==
    /\ Regions(S, m, Len(base))
    /\ Written(base, m, <<>>, Len(base)) \o Put(m, Len(base)) = new
    /\ \A x : Taken(m, x) <=> Dropped(ops, Len(ops), x)

LEMMA DiffLeads ==
    ASSUME NEW S, NEW base \in Seq(S), NEW new \in Seq(S)
    PROVE  \E at : Leads(S, base, new, diff_lines(base, new), at)
<1>1. PICK ops : ops = diff_lines(base, new)
  OBVIOUS
<1>2. PICK k \in Nat : Edits(base, new, ops, k)
  BY <1>1, DiffIs
<1>3. PICK l \in Kinds : Script(base, new, ops, PlaceAt(0, 0, 0, "eq"), PlaceAt(Len(base), Len(new), k, l))
  BY <1>2 DEF Edits
<1>4. PICK at : Along(base, new, ops, at) /\ at[0] = PlaceAt(0, 0, 0, "eq") /\ at[Len(ops)] = PlaceAt(Len(base), Len(new), k, l)
  BY <1>3 DEF Script
<1>5. at[Len(ops)].col = Len(base) /\ at[Len(ops)].row = Len(new)
  BY <1>4 DEF PlaceAt
<1>6. Leads(S, base, new, ops, at)
  BY <1>4, <1>5 DEF Leads
<1> QED
  BY <1>1, <1>6

LEMMA ScriptMap ==
    ASSUME NEW S, NEW base, NEW new, NEW ops, NEW at, Leads(S, base, new, ops, at)
    PROVE  MapOf(S, base, new, ops, build_change_map(ops, new))
<1>1. PICK m : m = build_change_map(ops, new)
  OBVIOUS
<1>2. MapPart(S, base, new, ops, at[Len(ops)], Len(ops), m)
  BY <1>1, MapIs
<1>3. at[Len(ops)].col = Len(base) /\ at[Len(ops)].row = Len(new) /\ new \in Seq(S)
  BY DEF Leads
<1>4. SubSeq(new, 1, Len(new)) = new
  BY <1>3, SubSeqFull
<1> QED
  BY <1>1, <1>2, <1>3, <1>4 DEF MapOf, MapPart

LEMMA DiffMap ==
    ASSUME NEW S, NEW base \in Seq(S), NEW new \in Seq(S), NEW ops, ops = diff_lines(base, new)
    PROVE  MapOf(S, base, new, ops, build_change_map(ops, new))
BY DiffLeads, ScriptMap

(* Behind the last line a map only adds.                                     *)
Pair(S, base, a, b) == base \in Seq(S) /\ Regions(S, a, Len(base)) /\ Regions(S, b, Len(base))

LEMMA CombinedEnd ==
    ASSUME NEW S, NEW base, NEW a, NEW b, Pair(S, base, a, b)
    PROVE  Combined(base, a, b) = Written(base, a, b, Len(base)) \o (Put(a, Len(base)) \o Put(b, Len(base)))
<1> USE DEF Pair
<1>1. PICK n \in Nat : n = Len(base)
  OBVIOUS
<1>2. n + 1 > n /\ (n + 1) - 1 = n
  OBVIOUS
<1>3. PICK x, y : x = Put(a, n) /\ y = Put(b, n)
  OBVIOUS
<1>4. x \in Seq(S) /\ y \in Seq(S)
  BY <1>1, <1>3, PutTyped
<1>5. Piece(base, a, b, n + 1) = x \o y \o <<>>
  BY <1>1, <1>2, <1>3 DEF Piece
<1>6. x \o y \o <<>> = x \o y
  BY <1>4
<1>7. Written(base, a, b, n + 1) = Written(base, a, b, n) \o Piece(base, a, b, n + 1)
  BY <1>1, WrittenIs
<1> QED
  BY <1>1, <1>3, <1>5, <1>6, <1>7, CombinedIs

LEMMA MapWhole ==
    ASSUME NEW S, NEW base, base \in Seq(S), NEW new, NEW ops, NEW m, MapOf(S, base, new, ops, m)
    PROVE  Combined(base, m, <<>>) = new /\ Combined(base, <<>>, m) = new
<1>1. PICK n \in Nat, e \in {<<>>} : n = Len(base) /\ e = <<>>
  OBVIOUS
<1>2. Regions(S, e, n) /\ \A x : Put(e, x) = <<>> /\ ~ Taken(e, x)
  BY <1>1, NoChanges
<1>3. Regions(S, m, n) /\ Written(base, m, e, n) \o Put(m, n) = new
  BY <1>1 DEF MapOf
<1>4. Put(m, n) \in Seq(S)
  BY <1>3, PutTyped
<1>5. Put(m, n) \o Put(e, n) = Put(m, n) /\ Put(e, n) \o Put(m, n) = Put(m, n)
  BY <1>2, <1>4, ConcatEmptySeq
<1>10. Pair(S, base, m, e) /\ Pair(S, base, e, m)
  BY <1>1, <1>2, <1>3 DEF Pair
<1>6. Combined(base, m, e) = new
  <2>1. Combined(base, m, e) = Written(base, m, e, Len(base)) \o (Put(m, Len(base)) \o Put(e, Len(base)))
    BY ONLY <1>10, CombinedEnd
  <2> QED
    BY <1>1, <1>3, <1>5, <2>1
<1>7. ASSUME NEW j \in 1..n PROVE Piece(base, e, m, j) = Piece(base, m, e, j)
  <2>1. PICK x : x = Put(m, j - 1)
    OBVIOUS
  <2>2. x \in Seq(S)
    BY <1>3, <2>1, PutTyped
  <2>3. x \o <<>> = x /\ <<>> \o x = x
    BY <2>2, ConcatEmptySeq
  <2>4. Put(e, j - 1) = <<>> /\ ~ Taken(e, j - 1)
    BY <1>2
  <2> QED
    BY <2>1, <2>3, <2>4 DEF Piece
<1>8. Written(base, e, m, n) = Written(base, m, e, n)
  BY <1>7 DEF Written
<1>9. Combined(base, e, m) = new
  <2>1. Combined(base, e, m) = Written(base, e, m, Len(base)) \o (Put(e, Len(base)) \o Put(m, Len(base)))
    BY ONLY <1>10, CombinedEnd
  <2> QED
    BY <1>1, <1>3, <1>5, <1>8, <2>1
<1> QED
  BY <1>1, <1>6, <1>9

LEMMA DiffWhole ==
    ASSUME NEW S, NEW base \in Seq(S), NEW new \in Seq(S)
    PROVE  Combined(base, build_change_map(diff_lines(base, new), new), <<>>) = new
<1>1. PICK ops : ops = diff_lines(base, new)
  OBVIOUS
<1>2. PICK m : m = build_change_map(ops, new)
  OBVIOUS
<1>3. MapOf(S, base, new, ops, m)
  BY <1>1, <1>2, DiffMap
<1>4. Combined(base, m, <<>>) = new
  BY <1>3, MapWhole
<1> QED
  BY <1>1, <1>2, <1>4

-----------------------------------------------------------------------------
(* A text compared with itself.                                              *)
LEMMA EqualMap ==
    ASSUME NEW ops, Len(ops) \in Nat, \A i \in 1..Len(ops) : ops[i].kind = "eq", NEW new
    PROVE  build_change_map(ops, new) = <<>>
<1>1. PICK n \in Nat : n = Len(ops)
  OBVIOUS
<1> DEFINE w == CHOOSE g : ChangesSteps(ops, new, n, g)
<1>2. ChangesSteps(ops, new, n, w)
  BY ChangesExists, Zenon
<1>3. build_change_map(ops, new) = w[n]
  BY <1>1, Zenon DEF build_change_map, ChangesSteps
<1> HIDE DEF w
<1>4. w[0] = <<>> /\ \A i \in 1..n : w[i] = Enter(w[i - 1], ops, i, new)
  <2>1. 0 \in 0..n /\ \A i \in 1..n : i \in 0..n /\ i # 0
    OBVIOUS
  <2> QED
    BY <1>2, <2>1 DEF ChangesSteps
<1> DEFINE P == {i \in 0..n : w[i] = <<>>}
<1>5. 0 \in P
  BY <1>4
<1>6. ASSUME NEW i \in P, i \in Nat, i < n PROVE i + 1 \in P
  <2>1. i + 1 \in 1..n /\ i + 1 \in 0..n /\ (i + 1) - 1 = i
    BY <1>6
  <2>2. ops[i + 1].kind = "eq"
    BY <1>1, <2>1
  <2>3. w[i + 1] = Enter(w[i], ops, i + 1, new)
    BY <1>4, <2>1
  <2>4. Enter(w[i], ops, i + 1, new) = w[i]
    BY <2>2 DEF Enter
  <2> QED
    BY <1>6, <2>1, <2>3, <2>4
<1>7. n \in P
  <2> HIDE DEF P
  <2> QED BY <1>5, <1>6, UpTo
<1> QED
  BY <1>3, <1>7

LEMMA SameScript ==
    ASSUME NEW S, NEW s \in Seq(S), ~ TooLong(s, s)
    PROVE  build_change_map(diff_lines(s, s), s) = <<>>
<1>1. PICK n \in Nat, e \in {<<>>} : n = Len(s) /\ e = <<>>
  OBVIOUS
<1>2. diff_lines(s, s) = myers_diff(s, s)
  BY DEF diff_lines
<1>3. Agree(s, s, 0, 0) = n
  <2>1. AgreeSound(s, s, 0, 0, Agree(s, s, 0, 0))
    BY AgreeIs
  <2> QED
    BY <1>1, <2>1 DEF AgreeSound
<1>4. SubSeq(s, n + 1, n) = e
  BY <1>1, SubSeqEmpty
<1>5. e \in Seq(S) /\ Len(e) = 0 /\ Reverse(e) = e
  <2>1. e \in Seq(S) /\ Len(e) = 0
    BY <1>1
  <2>2. Reverse(e) \in Seq(S) /\ Len(Reverse(e)) = 0
    BY <2>1, ReverseIs
  <2> QED
    BY <1>1, <2>1, <2>2
<1>6. Agree(e, e, 0, 0) = 0
  <2>1. AgreeSound(e, e, 0, 0, Agree(e, e, 0, 0))
    BY <1>5, AgreeIs
  <2> QED
    BY <1>5, <2>1 DEF AgreeSound
<1>7. SubSeq(e, 1, Len(e) - 0) = e
  BY <1>1, <1>5, SubSeqEmpty
<1>8. PICK f, l : f = Unless0(DiffOp("eq", 0, 0, n)) /\ l = Unless0(DiffOp("eq", Len(s) - 0, Len(s) - 0, 0))
  OBVIOUS
<1>9. Unless0(DiffOp("ins", 0, n, Len(e))) = e /\ l = e
  BY <1>1, <1>5, <1>8 DEF Unless0, DiffOp, Pick
<1>10. myers_diff(s, s) = f \o e \o e
  BY <1>1, <1>3, <1>4, <1>5, <1>6, <1>7, <1>8, <1>9, Zenon DEF myers_diff
<1>11. f = e \/ f = <<DiffOp("eq", 0, 0, n)>>
  BY <1>1, <1>8 DEF Unless0, Pick
<1>12. PICK d : d = DiffOp("eq", 0, 0, n)
  OBVIOUS
<1>13. d.kind = "eq"
  BY <1>12 DEF DiffOp
<1>14. PICK ops : ops = f \o e \o e
  OBVIOUS
<1>15. ops = <<>> \/ ops = <<d>>
  <2>1. <<>> \o <<>> \o <<>> = <<>> /\ <<d>> \o <<>> \o <<>> = <<d>>
    OBVIOUS
  <2> QED
    BY <1>1, <1>11, <1>12, <1>14, <2>1
<1>16. Len(ops) \in Nat /\ \A i \in 1..Len(ops) : ops[i].kind = "eq"
  BY <1>13, <1>15
<1>17. build_change_map(ops, s) = <<>>
  BY <1>16, EqualMap
<1> QED
  BY <1>2, <1>10, <1>14, <1>17

-----------------------------------------------------------------------------
(* The walk of the merge, and exchanging its sides.                          *)

(* The recursion of Walk.                                                    *)
WalkSteps(base, ours, theirs, n, w) ==
    w = [i \in 0..n |-> IF i = 0 THEN [at |-> 0, out |-> <<>>, conflicts |-> 0]
                        ELSE WalkStep(base, ours, theirs, w[i - 1])]

LEMMA WalkExists ==
    ASSUME NEW base, NEW ours, NEW theirs, NEW n \in Nat
    PROVE  \E w : WalkSteps(base, ours, theirs, n, w)
<1> DEFINE P == {m \in Nat : \E w : WalkSteps(base, ours, theirs, m, w)}
<1>1. 0 \in P
  <2> DEFINE w == [i \in 0..0 |-> [at |-> 0, out |-> <<>>, conflicts |-> 0]]
  <2>1. WalkSteps(base, ours, theirs, 0, w)
    BY DEF WalkSteps
  <2> QED
    BY <2>1, Zenon
<1>2. ASSUME NEW m \in P \cap Nat PROVE m + 1 \in P
  <2> SUFFICES \E w : WalkSteps(base, ours, theirs, m + 1, w)
    OBVIOUS
  <2>1. PICK g : WalkSteps(base, ours, theirs, m, g)
    OBVIOUS
  <2> DEFINE F(x, i) == WalkStep(base, ours, theirs, x)
             B == [at |-> 0, out |-> <<>>, conflicts |-> 0]
             w == [i \in 0 .. m + 1 |-> IF i = m + 1 THEN F(g[m], m + 1) ELSE g[i]]
  <2>2. \A i \in 0..m : g[i] = IF i = 0 THEN B ELSE F(g[i - 1], i)
    BY <2>1 DEF WalkSteps
  <2> HIDE DEF F, B
  <2>3. ASSUME NEW i \in 0 .. m + 1
        PROVE  w[i] = IF i = 0 THEN B ELSE F(w[i - 1], i)
    <3>1. CASE i = m + 1
      <4>1. w[i] = F(g[m], m + 1) /\ w[i - 1] = g[m] /\ i # 0
        BY <3>1
      <4> HIDE DEF w
      <4> QED BY <4>1, <3>1
    <3>2. CASE i \in 0..m
      <4>1. w[i] = g[i] /\ (i # 0 => w[i - 1] = g[i - 1])
        BY <3>2
      <4> HIDE DEF w
      <4> QED BY <4>1, <3>2, <2>2
    <3> QED
      BY <3>1, <3>2
  <2>4. w = [i \in 0 .. m + 1 |-> w[i]]
    OBVIOUS
  <2>5. WalkSteps(base, ours, theirs, m + 1, w)
    <3> HIDE DEF w
    <3> QED BY <2>3, <2>4 DEF WalkSteps, F, B
  <2> QED
    BY <2>5, Zenon
<1>3. Nat \subseteq P
  <2> HIDE DEF P
  <2> QED BY <1>1, <1>2, SetInduction, Zenon
<1> QED
  BY <1>3

(* What Walk makes of the places, by the steps it takes.                     *)
Walked(base, ours, theirs) == CHOOSE w : WalkSteps(base, ours, theirs, Len(base), w)

LEMMA WalkIs ==
    ASSUME NEW base, Len(base) \in Nat, NEW ours, NEW theirs
    PROVE  LET w    == Walked(base, ours, theirs)
               tail == AtPlace(Len(base), ours, theirs)
           IN  /\ Walk(base, ours, theirs)
                     = [out |-> w[Len(base)].out \o tail.out,
                        conflicts |-> w[Len(base)].conflicts + tail.conflicts]
               /\ w[0] = [at |-> 0, out |-> <<>>, conflicts |-> 0]
               /\ \A i \in 1..Len(base) : w[i] = WalkStep(base, ours, theirs, w[i - 1])
<1> DEFINE w == Walked(base, ours, theirs)
<1>1. WalkSteps(base, ours, theirs, Len(base), w)
  BY WalkExists, Zenon DEF Walked
<1>2. Walk(base, ours, theirs) = LET tail == AtPlace(Len(base), ours, theirs)
                                 IN [out |-> w[Len(base)].out \o tail.out,
                                     conflicts |-> w[Len(base)].conflicts + tail.conflicts]
  BY Zenon DEF Walk, Walked, WalkSteps
<1> HIDE DEF w
<1>3. \A i \in 0..Len(base) : w[i] = IF i = 0 THEN [at |-> 0, out |-> <<>>, conflicts |-> 0]
                                     ELSE WalkStep(base, ours, theirs, w[i - 1])
  BY <1>1 DEF WalkSteps
<1>4. 0 \in 0..Len(base) /\ \A i \in 1..Len(base) : i \in 0..Len(base) /\ i # 0
  OBVIOUS
<1>5. w[0] = [at |-> 0, out |-> <<>>, conflicts |-> 0]
  BY <1>3, <1>4
<1>6. \A i \in 1..Len(base) : w[i] = WalkStep(base, ours, theirs, w[i - 1])
  BY <1>3, <1>4
<1> QED
  BY <1>2, <1>5, <1>6 DEF w

(* Two results of a merge that differ only in the order of a conflict.       *)
Twins(x, y) ==
    /\ x.conflicts \in Nat /\ x.conflicts = y.conflicts
    /\ x.conflicts = 0 => x.out = y.out

LEMMA PlaceTwins ==
    ASSUME NEW at, NEW ours, NEW theirs
    PROVE  Twins(AtPlace(at, ours, theirs), AtPlace(at, theirs, ours))
<1>1. CASE at \in DOMAIN ours /\ at \in DOMAIN theirs
  <2>1. /\ AtPlace(at, ours, theirs) = Both(ours[at].new_lines, theirs[at].new_lines)
        /\ AtPlace(at, theirs, ours) = Both(theirs[at].new_lines, ours[at].new_lines)
    BY <1>1 DEF AtPlace
  <2> QED
    BY <2>1 DEF Both, Twins
<1>2. CASE at \in DOMAIN ours /\ at \notin DOMAIN theirs
  BY <1>2 DEF AtPlace, Twins
<1>3. CASE at \notin DOMAIN ours /\ at \in DOMAIN theirs
  BY <1>3 DEF AtPlace, Twins
<1>4. CASE at \notin DOMAIN ours /\ at \notin DOMAIN theirs
  BY <1>4 DEF AtPlace, Twins
<1> QED
  BY <1>1, <1>2, <1>3, <1>4

LEMMA ConsumedTwins ==
    ASSUME NEW at, NEW ours, NEW theirs
    PROVE  Consumed(at, ours, theirs) = Consumed(at, theirs, ours)
<1> DEFINE S(X) == {Pick(at \in DOMAIN side, side[at].base_count, 0) : side \in X}
<1>1. {ours, theirs} = {theirs, ours}
  OBVIOUS
<1>2. S({ours, theirs}) = S({theirs, ours})
  BY <1>1
<1>3. Consumed(at, ours, theirs) = Max(S({ours, theirs}))
  BY DEF Consumed
<1>4. Consumed(at, theirs, ours) = Max(S({theirs, ours}))
  BY DEF Consumed
<1> HIDE DEF S
<1> QED
  BY <1>2, <1>3, <1>4

LEMMA StepTwins ==
    ASSUME NEW base, NEW ours, NEW theirs, NEW w, NEW v, w.at = v.at, Twins(w, v)
    PROVE  LET x == WalkStep(base, ours, theirs, w)
               y == WalkStep(base, theirs, ours, v)
           IN  x.at = y.at /\ Twins(x, y)
<1>1. PICK a : a = AtPlace(w.at, ours, theirs)
  OBVIOUS
<1>2. PICK b : b = AtPlace(v.at, theirs, ours)
  OBVIOUS
<1>3. Twins(a, b)
  BY <1>1, <1>2, PlaceTwins
<1>4. PICK takes : takes = Consumed(w.at, ours, theirs)
  OBVIOUS
<1>5. takes = Consumed(v.at, theirs, ours)
  BY <1>4, ConsumedTwins
<1>6. CASE w.at >= Len(base)
  BY <1>6 DEF WalkStep
<1>7. CASE ~(w.at >= Len(base))
  <2> DEFINE kept == IF takes = 0 THEN <<base[w.at + 1]>> ELSE <<>>
             x == [at |-> w.at + Larger(1, takes), out |-> w.out \o a.out \o kept,
                   conflicts |-> w.conflicts + a.conflicts]
             y == [at |-> w.at + Larger(1, takes), out |-> v.out \o b.out \o kept,
                   conflicts |-> v.conflicts + b.conflicts]
  <2>1. WalkStep(base, ours, theirs, w) = x
    BY <1>1, <1>4, <1>7 DEF WalkStep
  <2>2. WalkStep(base, theirs, ours, v) = y
    BY <1>2, <1>5, <1>7 DEF WalkStep
  <2>3. x.at = y.at /\ x.conflicts = y.conflicts /\ x.conflicts \in Nat
    BY <1>3 DEF Twins
  <2>4. ASSUME x.conflicts = 0 PROVE x.out = y.out
    <3>1. w.conflicts = 0 /\ a.conflicts = 0
      BY <1>3, <2>4 DEF Twins
    <3>2. w.out = v.out /\ a.out = b.out
      BY <1>3, <3>1 DEF Twins
    <3> QED
      BY <3>2
  <2> HIDE DEF x, y
  <2> QED
    BY <2>1, <2>2, <2>3, <2>4 DEF Twins
<1> QED
  BY <1>6, <1>7

LEMMA WalkTwins ==
    ASSUME NEW base, Len(base) \in Nat, NEW ours, NEW theirs
    PROVE  Twins(Walk(base, ours, theirs), Walk(base, theirs, ours))
<1> DEFINE w == Walked(base, ours, theirs)
           v == Walked(base, theirs, ours)
           P == {i \in Nat : i <= Len(base) => w[i].at = v[i].at /\ Twins(w[i], v[i])}
<1>1. /\ w[0] = [at |-> 0, out |-> <<>>, conflicts |-> 0] /\ v[0] = w[0]
      /\ \A i \in 1..Len(base) : /\ w[i] = WalkStep(base, ours, theirs, w[i - 1])
                                  /\ v[i] = WalkStep(base, theirs, ours, v[i - 1])
  <2>1. /\ w[0] = [at |-> 0, out |-> <<>>, conflicts |-> 0]
        /\ \A i \in 1..Len(base) : w[i] = WalkStep(base, ours, theirs, w[i - 1])
    <3>1. Len(base) \in Nat
      OBVIOUS
    <3> QED
      BY ONLY <3>1, WalkIs
  <2>2. /\ v[0] = [at |-> 0, out |-> <<>>, conflicts |-> 0]
        /\ \A i \in 1..Len(base) : v[i] = WalkStep(base, theirs, ours, v[i - 1])
    BY WalkIs
  <2> HIDE DEF w, v
  <2> QED
    BY ONLY <2>1, <2>2
<1>2. PICK a : a = AtPlace(Len(base), ours, theirs)
  OBVIOUS
<1>3. PICK b : b = AtPlace(Len(base), theirs, ours)
  OBVIOUS
<1>4. /\ Walk(base, ours, theirs) = [out |-> w[Len(base)].out \o a.out,
                                     conflicts |-> w[Len(base)].conflicts + a.conflicts]
      /\ Walk(base, theirs, ours) = [out |-> v[Len(base)].out \o b.out,
                                     conflicts |-> v[Len(base)].conflicts + b.conflicts]
  BY <1>2, <1>3, WalkIs
<1>5. Twins(a, b)
  BY <1>2, <1>3, PlaceTwins
<1> HIDE DEF w, v
<1>6. 0 \in P
  BY <1>1 DEF Twins
<1>7. ASSUME NEW i \in P \cap Nat PROVE i + 1 \in P
  <2>1. CASE i + 1 <= Len(base)
    <3>1. i + 1 \in 1..Len(base) /\ (i + 1) - 1 = i /\ i <= Len(base)
      BY <2>1
    <3>2. /\ w[i + 1] = WalkStep(base, ours, theirs, w[i])
          /\ v[i + 1] = WalkStep(base, theirs, ours, v[i])
      BY <1>1, <3>1
    <3> QED
      BY <3>1, <3>2, StepTwins
  <2> QED
    BY <2>1
<1>8. Nat \subseteq P
  <2> HIDE DEF P
  <2> QED BY <1>6, <1>7, SetInduction, Zenon
<1>9. Twins(w[Len(base)], v[Len(base)])
  BY <1>8
<1>10. PICK x, y : x = w[Len(base)] /\ y = v[Len(base)]
  OBVIOUS
<1>11. Twins([out |-> x.out \o a.out, conflicts |-> x.conflicts + a.conflicts],
             [out |-> y.out \o b.out, conflicts |-> y.conflicts + b.conflicts])
  <2>1. x.conflicts + a.conflicts \in Nat /\ x.conflicts + a.conflicts = y.conflicts + b.conflicts
    BY <1>5, <1>9, <1>10 DEF Twins
  <2>2. ASSUME x.conflicts + a.conflicts = 0 PROVE x.out \o a.out = y.out \o b.out
    <3>1. x.conflicts = 0 /\ a.conflicts = 0
      BY <1>5, <1>9, <1>10, <2>2 DEF Twins
    <3>2. x.out = y.out /\ a.out = b.out
      BY <1>5, <1>9, <1>10, <3>1 DEF Twins
    <3> QED
      BY <3>2
  <2> QED
    BY <2>1, <2>2 DEF Twins
<1> QED
  BY <1>4, <1>10, <1>11

LEMMA MergeTwins ==
    ASSUME NEW base, Len(base) \in Nat, NEW ours, NEW theirs
    PROVE  LET x == three_way_merge(base, ours, theirs)
               y == three_way_merge(base, theirs, ours)
           IN  x.conflicts = y.conflicts /\ (x.conflicts = 0 => x.out = y.out)
<1>1. CASE ours = theirs
  BY <1>1
<1>2. CASE ours # theirs /\ base = theirs
  BY <1>2 DEF three_way_merge
<1>3. CASE ours # theirs /\ base # theirs /\ base = ours
  BY <1>3 DEF three_way_merge
<1>4. CASE ours # theirs /\ base # theirs /\ base # ours
  <2>1. PICK o, t : /\ o = build_change_map(diff_lines(base, ours), ours)
                    /\ t = build_change_map(diff_lines(base, theirs), theirs)
    OBVIOUS
  <2>2. /\ three_way_merge(base, ours, theirs) = Walk(base, o, t)
        /\ three_way_merge(base, theirs, ours) = Walk(base, t, o)
    BY <1>4, <2>1 DEF three_way_merge
  <2>3. Twins(Walk(base, o, t), Walk(base, t, o))
    BY WalkTwins
  <2> QED
    BY <2>2, <2>3 DEF Twins
<1> QED
  BY <1>1, <1>2, <1>3, <1>4

(* For texts of any length, whatever scripts the diff finds: exchanging      *)
(* the sides of three_way_merge changes neither the number of conflicts      *)
(* nor, when there is none, the result.                                      *)
THEOREM MergeIsSymmetric == TextSpec => []MergeSymmetric
<1> DEFINE Inv == /\ texts \in [base : Contents, ours : Contents, theirs : Contents]
                  /\ MergeSymmetric
<1>1. TextInit => Inv
  BY DEF TextInit, MergeSymmetric, Answered
<1>2. Inv /\ [TextNext]_textVars => Inv'
  <2> SUFFICES ASSUME Inv, [TextNext]_textVars PROVE Inv'
    OBVIOUS
  <2>1. CASE UNCHANGED textVars
    BY <2>1 DEF textVars, MergeSymmetric, Answered
  <2>2. CASE Merge
    <3>1. texts.base \in Seq(Lines)
      <4>1. texts.base \in Contents
        OBVIOUS
      <4>2. BoundedSeq(Lines \ BinaryLines, MaxLines) \subseteq Seq(Lines)
        BY TextAssumption DEF BoundedSeq, SeqOf
      <4> QED
        BY <4>1, <4>2, TextAssumption DEF Contents
    <3>2. Len(texts.base) \in Nat
      BY <3>1
    <3> QED
      BY <2>2, <3>2, MergeTwins DEF Merge, MergeSymmetric
  <2>3. CASE \E context \in {1, 3} : Diff(context)
    BY <2>3 DEF Diff, MergeSymmetric, Answered
  <2> QED
    BY <2>1, <2>2, <2>3 DEF TextNext
<1> QED
  BY <1>1, <1>2, PTL DEF TextSpec

-----------------------------------------------------------------------------
(* Two maps that have no place in common.                                    *)
Separate(S, base, a, b) == Pair(S, base, a, b) /\ Touched(a) \cap Touched(b) = {}

(* No region goes on over p.                                                 *)
Clear(m, p) == \A y \in DOMAIN m : y < p => y + m[y].base_count <= p

LEMMA RegionParts ==
    ASSUME NEW S, NEW m, NEW n \in Nat, Regions(S, m, n), NEW x \in DOMAIN m
    PROVE  x \in Nat /\ m[x].base_count \in Nat /\ x + m[x].base_count <= n
BY DEF Regions

LEMMA NotBoth ==
    ASSUME NEW S, NEW base, NEW a, NEW b, Separate(S, base, a, b), NEW x \in DOMAIN a, NEW y \in DOMAIN b
    PROVE  y < x \/ y > x + a[x].base_count
<1>1. PICK n \in Nat : n = Len(base) /\ Regions(S, a, n) /\ Regions(S, b, n)
  BY DEF Separate, Pair
<1>2. x \in Nat /\ a[x].base_count \in Nat /\ y \in Nat /\ b[y].base_count \in Nat
  BY <1>1, RegionParts
<1>3. y \in y..(y + b[y].base_count)
  BY <1>2
<1>4. y \in Touched(b)
  BY <1>3 DEF Touched
<1>5. y \in x..(x + a[x].base_count) => y \in Touched(a)
  BY DEF Touched
<1>6. y \notin x..(x + a[x].base_count)
  BY <1>4, <1>5 DEF Separate
<1> QED
  BY <1>2, <1>6

LEMMA SeparateSwap ==
    ASSUME NEW S, NEW base, NEW a, NEW b, Separate(S, base, a, b)
    PROVE  Separate(S, base, b, a)
BY DEF Separate, Pair

(* The step over a place where a changes base.                               *)
Over(a, b, p, c) ==
    /\ c > 0 => Skipped(a, b, p, c)
    /\ Clear(a, p + Larger(1, c)) /\ Clear(b, p + Larger(1, c))

LEMMA OverIs ==
    ASSUME NEW S, NEW base, NEW a, NEW b, Separate(S, base, a, b), NEW p \in 0..(Len(base) - 1),
           Clear(a, p), Clear(b, p), p \in DOMAIN a, NEW c, c = a[p].base_count
    PROVE  Over(a, b, p, c) /\ p + c <= Len(base) /\ p \notin DOMAIN b /\ c \in Nat
<1>1. PICK n \in Nat : n = Len(base) /\ Regions(S, a, n) /\ Regions(S, b, n)
  BY DEF Separate, Pair
<1>2. c \in Nat /\ p + c <= n /\ p \in Nat /\ p < n
  BY <1>1, RegionParts
<1>3. PICK l \in Nat : l = Larger(1, c)
  BY <1>2 DEF Larger, Pick
<1>4. l >= 1 /\ l >= c /\ (c > 0 => l = c) /\ (c = 0 => l = 1)
  BY <1>2, <1>3 DEF Larger, Pick
<1>5. Clear(a, p + l)
  <2> SUFFICES ASSUME NEW y \in DOMAIN a, y < p + l PROVE y + a[y].base_count <= p + l
    BY DEF Clear
  <2>1. y \in Nat /\ a[y].base_count \in Nat
    BY <1>1, RegionParts
  <2>2. CASE y < p
    BY <1>2, <1>4, <2>1, <2>2 DEF Clear
  <2>3. CASE y = p
    BY <1>2, <1>4, <2>3
  <2>4. CASE y > p
    <3>1. p + a[p].base_count <= y
      BY <1>1, <2>4 DEF Regions
    <3> QED
      BY <1>2, <1>4, <2>1, <2>4, <3>1
  <2> QED
    BY <1>2, <2>1, <2>2, <2>3, <2>4
<1>6. Clear(b, p + l)
  <2> SUFFICES ASSUME NEW y \in DOMAIN b, y < p + l PROVE y + b[y].base_count <= p + l
    BY DEF Clear
  <2>1. y \in Nat /\ b[y].base_count \in Nat
    BY <1>1, RegionParts
  <2>2. y < p \/ y > p + c
    BY NotBoth
  <2>3. y < p
    BY <1>2, <1>4, <2>1, <2>2
  <2>4. y + b[y].base_count <= p
    BY <2>3 DEF Clear
  <2> QED
    BY <1>2, <1>4, <2>1, <2>4
<1>7. ASSUME c > 0 PROVE Skipped(a, b, p, c)
  <2>1. \A x \in p..(p + c - 1) : Taken(a, x)
    BY DEF Taken
  <2>2. ASSUME NEW x \in (p + 1)..(p + c - 1) PROVE Put(a, x) = <<>> /\ Put(b, x) = <<>>
    <3>1. x > p /\ x < p + c
      BY <1>2
    <3>2. x \notin DOMAIN a
      <4> SUFFICES ASSUME x \in DOMAIN a PROVE FALSE
        OBVIOUS
      <4>1. p + a[p].base_count <= x
        BY <1>1, <3>1 DEF Regions
      <4> QED
        BY <1>2, <3>1, <4>1
    <3>3. x \notin DOMAIN b
      <4> SUFFICES ASSUME x \in DOMAIN b PROVE FALSE
        OBVIOUS
      <4>1. x < p \/ x > p + c
        BY NotBoth
      <4> QED
        BY <1>2, <3>1, <4>1
    <3> QED
      BY <3>2, <3>3 DEF Put
  <2> QED
    BY <2>1, <2>2 DEF Skipped
<1>8. p \notin DOMAIN b
  <2> SUFFICES ASSUME p \in DOMAIN b PROVE FALSE
    OBVIOUS
  <2>1. p < p \/ p > p + c
    BY NotBoth
  <2> QED
    BY <1>2, <2>1
<1> QED
  BY <1>1, <1>2, <1>3, <1>5, <1>6, <1>7, <1>8 DEF Over

LEMMA ConsumedIs ==
    ASSUME NEW p, NEW a, NEW b, NEW x \in Nat, NEW y \in Nat,
           x = Pick(p \in DOMAIN a, a[p].base_count, 0), y = Pick(p \in DOMAIN b, b[p].base_count, 0)
    PROVE  Consumed(p, a, b) = Larger(x, y)
<1> DEFINE E == {Pick(p \in DOMAIN side, side[p].base_count, 0) : side \in {a, b}}
<1>1. E = {x, y}
  OBVIOUS
<1>2. PICK m \in Nat : m = Larger(x, y) /\ x <= m /\ y <= m /\ m \in {x, y}
  BY DEF Larger, Pick
<1> HIDE DEF E
<1>3. E \in SUBSET (0..m) /\ E # {}
  BY <1>1, <1>2
<1>4. Max(E) \in E /\ \A z \in E : z <= Max(E)
  BY <1>2, <1>3, MaxIs
<1>5. Max(E) = m
  BY <1>1, <1>2, <1>4
<1> QED
  BY <1>2, <1>5 DEF Consumed, E

(* At the start of a region that takes nothing, or of none, the line stays.  *)
LEMMA StaysAt ==
    ASSUME NEW S, NEW m, NEW n \in Nat, Regions(S, m, n), NEW p \in Nat, Clear(m, p),
           p \in DOMAIN m => m[p].base_count = 0
    PROVE  ~ Taken(m, p)
<1> SUFFICES ASSUME NEW y \in DOMAIN m, p \in y..(y + m[y].base_count - 1) PROVE FALSE
  BY DEF Taken
<1>1. y \in Nat /\ m[y].base_count \in Nat
  BY RegionParts
<1>2. CASE y = p
  BY <1>1, <1>2
<1>3. CASE y < p
  <2>1. y + m[y].base_count <= p
    BY <1>3 DEF Clear
  <2> QED
    BY <1>1, <2>1
<1> QED
  BY <1>1, <1>2, <1>3

(* What is put at a place where at most one side puts something.             *)
LEMMA PlaceApart ==
    ASSUME NEW S, NEW base, NEW a, NEW b, Separate(S, base, a, b), NEW p
    PROVE  AtPlace(p, a, b) = [out |-> Put(a, p) \o Put(b, p), conflicts |-> 0]
<1>1. PICK n \in Nat : n = Len(base) /\ Regions(S, a, n) /\ Regions(S, b, n)
  BY DEF Separate, Pair
<1>2. ~ (p \in DOMAIN a /\ p \in DOMAIN b)
  <2> SUFFICES ASSUME p \in DOMAIN a, p \in DOMAIN b PROVE FALSE
    OBVIOUS
  <2>1. p < p \/ p > p + a[p].base_count
    BY NotBoth
  <2>2. p \in Nat /\ a[p].base_count \in Nat
    BY <1>1, RegionParts
  <2> QED
    BY <2>1, <2>2
<1>3. PICK x, y : x = Put(a, p) /\ y = Put(b, p)
  OBVIOUS
<1>4. x \in Seq(S) /\ y \in Seq(S)
  BY <1>1, <1>3, PutTyped
<1>5. x \o <<>> = x /\ <<>> \o y = y /\ <<>> \o <<>> = <<>>
  BY <1>4, ConcatEmptySeq
<1>6. CASE p \in DOMAIN a
  <2>1. p \notin DOMAIN b /\ x = a[p].new_lines /\ y = <<>>
    BY <1>2, <1>3, <1>6 DEF Put
  <2>2. AtPlace(p, a, b) = [out |-> x, conflicts |-> 0]
    BY <1>6, <2>1 DEF AtPlace
  <2> QED
    BY <1>3, <1>5, <2>1, <2>2
<1>7. CASE p \notin DOMAIN a /\ p \in DOMAIN b
  <2>1. x = <<>> /\ y = b[p].new_lines
    BY <1>3, <1>7 DEF Put
  <2>2. AtPlace(p, a, b) = [out |-> y, conflicts |-> 0]
    BY <1>7, <2>1 DEF AtPlace
  <2> QED
    BY <1>3, <1>5, <2>1, <2>2
<1>8. CASE p \notin DOMAIN a /\ p \notin DOMAIN b
  <2>1. x = <<>> /\ y = <<>>
    BY <1>3, <1>8 DEF Put
  <2>2. AtPlace(p, a, b) = [out |-> <<>>, conflicts |-> 0]
    BY <1>8 DEF AtPlace
  <2> QED
    BY <1>3, <1>5, <2>1, <2>2
<1> QED
  BY <1>6, <1>7, <1>8

(* What the walk has written when it comes to p.                             *)
WalkPart(base, a, b, walk, p) ==
    /\ p \in 0..Len(base) /\ Clear(a, p) /\ Clear(b, p)
    /\ walk = [at |-> p, out |-> Written(base, a, b, p), conflicts |-> 0]

(* The places after p, by how many lines of base are taken there.            *)
LEMMA AfterPlace ==
    ASSUME NEW S, NEW base, NEW a, NEW b, Separate(S, base, a, b), NEW p \in 0..(Len(base) - 1),
           Clear(a, p), Clear(b, p)
    PROVE  \E c \in Nat : /\ Consumed(p, a, b) = c /\ p + c <= Len(base)
                          /\ Clear(a, p + Larger(1, c)) /\ Clear(b, p + Larger(1, c))
                          /\ c > 0 => Skipped(a, b, p, c)
                          /\ c = 0 => ~ Taken(a, p) /\ ~ Taken(b, p)
<1>1. PICK n \in Nat : n = Len(base) /\ Regions(S, a, n) /\ Regions(S, b, n)
  BY DEF Separate, Pair
<1>2. p \in Nat /\ p < n /\ 0 \in Nat
  BY <1>1
<1>3. PICK x, y : x = Pick(p \in DOMAIN a, a[p].base_count, 0) /\ y = Pick(p \in DOMAIN b, b[p].base_count, 0)
  OBVIOUS
<1>4. x \in Nat /\ y \in Nat
  BY <1>1, <1>3, RegionParts DEF Pick
<1>5. PICK c : c = Consumed(p, a, b)
  OBVIOUS
<1>6. c = Larger(x, y)
  BY <1>3, <1>4, <1>5, ConsumedIs
<1>7. c \in Nat /\ (c = 0 => x = 0 /\ y = 0)
  BY <1>4, <1>6 DEF Larger, Pick
<1>8. c = 0 => ~ Taken(a, p) /\ ~ Taken(b, p)
  <2> SUFFICES ASSUME c = 0 PROVE ~ Taken(a, p) /\ ~ Taken(b, p)
    OBVIOUS
  <2>1. p \in DOMAIN a => a[p].base_count = 0
    BY <1>3, <1>7 DEF Pick
  <2>2. p \in DOMAIN b => b[p].base_count = 0
    BY <1>3, <1>7 DEF Pick
  <2> QED
    BY <1>1, <1>2, <2>1, <2>2, StaysAt
<1>9. CASE p \in DOMAIN a
  <2>1. x = a[p].base_count
    BY <1>3, <1>9 DEF Pick
  <2>2. Over(a, b, p, x) /\ p + x <= Len(base) /\ p \notin DOMAIN b
    BY <1>9, <2>1, OverIs
  <2>3. y = 0
    BY <1>3, <2>2 DEF Pick
  <2>4. c = x
    BY <1>4, <1>6, <2>3 DEF Larger, Pick
  <2> QED
    BY <1>5, <1>7, <1>8, <2>2, <2>4 DEF Over
<1>10. CASE p \in DOMAIN b
  <2>1. y = b[p].base_count
    BY <1>3, <1>10 DEF Pick
  <2>2. Separate(S, base, b, a)
    BY SeparateSwap
  <2>3. Over(b, a, p, y) /\ p + y <= Len(base) /\ p \notin DOMAIN a
    BY <1>10, <2>1, <2>2, OverIs
  <2>4. x = 0
    BY <1>3, <2>3 DEF Pick
  <2>5. c = y
    BY <1>4, <1>6, <2>4 DEF Larger, Pick
  <2>6. c > 0 => Skipped(a, b, p, c)
    BY <2>3, <2>5 DEF Over, Skipped
  <2> QED
    BY <1>5, <1>7, <1>8, <2>3, <2>5, <2>6 DEF Over
<1>11. CASE p \notin DOMAIN a /\ p \notin DOMAIN b
  <2>1. x = 0 /\ y = 0
    BY <1>3, <1>11 DEF Pick
  <2>2. c = 0 /\ Larger(1, c) = 1
    BY <1>6, <2>1 DEF Larger, Pick
  <2>3. Clear(a, p + 1)
    <3> SUFFICES ASSUME NEW z \in DOMAIN a, z < p + 1 PROVE z + a[z].base_count <= p + 1
      BY DEF Clear
    <3>1. z \in Nat /\ a[z].base_count \in Nat
      BY <1>1, RegionParts
    <3>2. z # p
      BY <1>11
    <3>3. z < p
      BY <1>2, <3>1, <3>2
    <3>4. z + a[z].base_count <= p
      BY <3>3 DEF Clear
    <3> QED
      BY <1>2, <3>1, <3>4
  <2>4. Clear(b, p + 1)
    <3> SUFFICES ASSUME NEW z \in DOMAIN b, z < p + 1 PROVE z + b[z].base_count <= p + 1
      BY DEF Clear
    <3>1. z \in Nat /\ b[z].base_count \in Nat
      BY <1>1, RegionParts
    <3>2. z # p
      BY <1>11
    <3>3. z < p
      BY <1>2, <3>1, <3>2
    <3>4. z + b[z].base_count <= p
      BY <3>3 DEF Clear
    <3> QED
      BY <1>2, <3>1, <3>4
  <2> QED
    BY <1>1, <1>2, <1>5, <1>8, <2>2, <2>3, <2>4
<1> QED
  BY <1>9, <1>10, <1>11

LEMMA StepApart ==
    ASSUME NEW S, NEW base, NEW a, NEW b, Separate(S, base, a, b), NEW p, p < Len(base),
           NEW walk, WalkPart(base, a, b, walk, p)
    PROVE  \E q : q > p /\ WalkPart(base, a, b, WalkStep(base, a, b, walk), q)
<1>1. PICK n \in Nat : n = Len(base) /\ Regions(S, a, n) /\ Regions(S, b, n) /\ base \in Seq(S)
  BY DEF Separate, Pair
<1>2. p \in 0..(n - 1) /\ p \in Nat /\ Clear(a, p) /\ Clear(b, p) /\ p < n
  BY <1>1 DEF WalkPart
<1>3. PICK c \in Nat : /\ Consumed(p, a, b) = c /\ p + c <= Len(base)
                       /\ Clear(a, p + Larger(1, c)) /\ Clear(b, p + Larger(1, c))
                       /\ c > 0 => Skipped(a, b, p, c)
                       /\ c = 0 => ~ Taken(a, p) /\ ~ Taken(b, p)
  BY <1>1, <1>2, AfterPlace
<1>4. PICK q \in Nat : q = p + Larger(1, c) /\ q > p /\ q <= n /\ (c > 0 => q = p + c) /\ (c = 0 => q = p + 1)
  BY <1>1, <1>2, <1>3 DEF Larger, Pick
<1>5. PICK x, y, k : x = Put(a, p) /\ y = Put(b, p) /\ k = IF c = 0 THEN <<base[p + 1]>> ELSE <<>>
  OBVIOUS
<1>6. x \in Seq(S) /\ y \in Seq(S) /\ k \in Seq(S)
  <2>1. p + 1 \in 1..Len(base)
    BY <1>1, <1>2
  <2>2. <<base[p + 1]>> \in Seq(S) /\ <<>> \in Seq(S)
    BY <1>1, <2>1
  <2> QED
    BY <1>1, <1>5, <2>2, PutTyped
<1>7. PICK w : w = Written(base, a, b, p)
  OBVIOUS
<1>8. w \in Seq(S)
  BY <1>1, <1>2, <1>7, WrittenIs
<1>9. walk.at = p /\ walk.out = w /\ walk.conflicts = 0
  BY <1>7 DEF WalkPart
<1>10. AtPlace(p, a, b) = [out |-> x \o y, conflicts |-> 0]
  <2>1. AtPlace(p, a, b) = [out |-> Put(a, p) \o Put(b, p), conflicts |-> 0]
    BY PlaceApart
  <2> QED
    BY <1>5, <2>1
<1>11. WalkStep(base, a, b, walk) = [at |-> q, out |-> w \o (x \o y) \o k, conflicts |-> 0]
  <2>1. ~ (p >= Len(base))
    BY <1>1, <1>2
  <2>2. PICK here : here = AtPlace(p, a, b)
    OBVIOUS
  <2>3. here.out = x \o y /\ here.conflicts = 0
    BY <1>10, <2>2
  <2>4. WalkStep(base, a, b, walk) = [at |-> p + Larger(1, c), out |-> w \o here.out \o k, conflicts |-> 0 + here.conflicts]
    BY <1>3, <1>5, <1>9, <2>1, <2>2, Zenon DEF WalkStep
  <2> QED
    BY <1>4, <2>3, <2>4
<1>12. Written(base, a, b, q) = w \o (x \o y) \o k
  <2>1. CASE c > 0
    <3>1. Skipping(S, base, a, n, b, n, p, c)
      BY <1>1, <1>2, <1>3, <2>1 DEF Skipping
    <3>2. Written(base, a, b, p + c) = Written(base, a, b, p) \o (Put(a, p) \o Put(b, p))
      BY ONLY <3>1, WrittenSkips
    <3>3. k = <<>>
      BY <1>5, <2>1
    <3>4. PICK z : z = w \o (x \o y)
      OBVIOUS
    <3>5. z \in Seq(S)
      BY <1>6, <1>8, <3>4
    <3>6. z \o <<>> = z
      BY <3>5, ConcatEmptySeq
    <3> QED
      BY <1>4, <1>5, <1>7, <2>1, <3>2, <3>3, <3>4, <3>6
  <2>2. CASE c = 0
    <3>1. k = <<base[p + 1]>> /\ q = p + 1 /\ (p + 1) - 1 = p /\ ~ (p + 1 > Len(base)) /\ ~ Taken(a, p) /\ ~ Taken(b, p)
      BY <1>1, <1>2, <1>3, <1>4, <1>5, <2>2
    <3>2. Piece(base, a, b, p + 1) = x \o y \o k
      BY <1>5, <3>1 DEF Piece
    <3>3. Written(base, a, b, p + 1) = w \o Piece(base, a, b, p + 1)
      <4>1. base \in Seq(S) /\ Regions(S, a, n) /\ Regions(S, b, n) /\ p \in Nat
        BY <1>1, <1>2
      <4>2. Written(base, a, b, p + 1) = Written(base, a, b, p) \o Piece(base, a, b, p + 1)
        BY ONLY <4>1, WrittenIs
      <4> QED
        BY ONLY <1>7, <4>2
    <3>4. PICK z : z = x \o y
      OBVIOUS
    <3>5. z \in Seq(S)
      BY <1>6, <3>4
    <3>6. (w \o z) \o k = w \o (z \o k)
      <4>1. w \in Seq(S) /\ z \in Seq(S) /\ k \in Seq(S)
        BY <1>6, <1>8, <3>5
      <4> QED
        BY ONLY <4>1, ConcatAssociative
    <3> QED
      BY <3>1, <3>2, <3>3, <3>4, <3>6
  <2> QED
    BY <1>3, <2>1, <2>2
<1>13. WalkPart(base, a, b, WalkStep(base, a, b, walk), q)
  <2>1. Clear(a, q) /\ Clear(b, q) /\ q \in 0..Len(base)
    BY <1>1, <1>3, <1>4
  <2>2. WalkStep(base, a, b, walk) = [at |-> q, out |-> Written(base, a, b, q), conflicts |-> 0]
    BY <1>11, <1>12
  <2> QED
    BY <2>1, <2>2 DEF WalkPart
<1> QED
  BY <1>4, <1>13

(* The walk over two maps that have no place in common.                      *)
LEMMA WalkApart ==
    ASSUME NEW S, NEW base, NEW a, NEW b, Separate(S, base, a, b)
    PROVE  Walk(base, a, b) = [out |-> Combined(base, a, b), conflicts |-> 0]
<1>1. PICK n \in Nat : n = Len(base) /\ Regions(S, a, n) /\ Regions(S, b, n) /\ base \in Seq(S)
  BY DEF Separate, Pair
<1>2. PICK w : w = Walked(base, a, b)
  OBVIOUS
<1>3. PICK tail : tail = AtPlace(n, a, b)
  OBVIOUS
<1>4. /\ Walk(base, a, b) = [out |-> w[n].out \o tail.out, conflicts |-> w[n].conflicts + tail.conflicts]
      /\ w[0] = [at |-> 0, out |-> <<>>, conflicts |-> 0]
      /\ \A i \in 1..n : w[i] = WalkStep(base, a, b, w[i - 1])
  <2>1. Len(base) \in Nat
    BY <1>1
  <2>2. /\ Walk(base, a, b) = [out |-> Walked(base, a, b)[Len(base)].out \o AtPlace(Len(base), a, b).out,
                               conflicts |-> Walked(base, a, b)[Len(base)].conflicts
                                                + AtPlace(Len(base), a, b).conflicts]
        /\ Walked(base, a, b)[0] = [at |-> 0, out |-> <<>>, conflicts |-> 0]
        /\ \A i \in 1..Len(base) : Walked(base, a, b)[i] = WalkStep(base, a, b, Walked(base, a, b)[i - 1])
    BY ONLY <2>1, WalkIs
  <2> QED
    BY ONLY <1>1, <1>2, <1>3, <2>2
<1> DEFINE P == {i \in 0..n : \E p \in i..n : WalkPart(base, a, b, w[i], p)}
<1>5. 0 \in P
  <2>1. Written(base, a, b, 0) = <<>>
    <3>1. 0 \in Nat
      OBVIOUS
    <3> QED
      BY <1>1, <3>1, WrittenIs
  <2>2. Clear(a, 0) /\ Clear(b, 0)
    <3>1. \A y \in DOMAIN a : y \in Nat
      BY <1>1, RegionParts
    <3>2. \A y \in DOMAIN b : y \in Nat
      BY <1>1, RegionParts
    <3> QED
      BY <3>1, <3>2 DEF Clear
  <2>3. WalkPart(base, a, b, w[0], 0)
    BY <1>1, <1>4, <2>1, <2>2 DEF WalkPart
  <2>4. 0 \in 0..n
    OBVIOUS
  <2> QED
    BY <2>3, <2>4
<1>6. ASSUME NEW i \in P, i \in Nat, i < n PROVE i + 1 \in P
  <2>1. i + 1 \in 1..n /\ (i + 1) - 1 = i /\ i + 1 \in 0..n
    BY <1>6
  <2>2. PICK p \in i..n : WalkPart(base, a, b, w[i], p)
    BY <1>6
  <2>3. w[i + 1] = WalkStep(base, a, b, w[i])
    BY <1>4, <2>1
  <2>4. CASE p < n
    <3>1. p < Len(base)
      BY <1>1, <2>4
    <3>2. PICK q : q > p /\ WalkPart(base, a, b, w[i + 1], q)
      BY <2>2, <2>3, <3>1, StepApart
    <3>3. q \in (i + 1)..n
      BY <1>1, <2>2, <3>2 DEF WalkPart
    <3> QED
      BY <2>1, <3>2, <3>3
  <2>5. CASE p = n
    <3>1. w[i].at >= Len(base)
      BY <1>1, <2>2, <2>5 DEF WalkPart
    <3>2. w[i + 1] = w[i]
      BY <2>3, <3>1 DEF WalkStep
    <3>3. n \in (i + 1)..n
      BY <2>1
    <3> QED
      BY <2>1, <2>2, <2>5, <3>2, <3>3
  <2> QED
    BY <2>2, <2>4, <2>5
<1>7. n \in P
  <2> HIDE DEF P
  <2> QED BY <1>5, <1>6, UpTo
<1>8. WalkPart(base, a, b, w[n], n)
  BY <1>7
<1>9. tail.out = Put(a, n) \o Put(b, n) /\ tail.conflicts = 0
  <2>1. AtPlace(n, a, b) = [out |-> Put(a, n) \o Put(b, n), conflicts |-> 0]
    BY PlaceApart
  <2> QED
    BY <1>3, <2>1
<1>10. w[n].out = Written(base, a, b, n) /\ w[n].conflicts = 0
  BY <1>8 DEF WalkPart
<1>11. Combined(base, a, b) = Written(base, a, b, n) \o (Put(a, n) \o Put(b, n))
  BY <1>1, CombinedEnd DEF Separate
<1> QED
  BY <1>4, <1>9, <1>10, <1>11

(* A map without regions does nothing.                                       *)
LEMMA NoRegions ==
    ASSUME NEW S, NEW base, NEW a, NEW b, Pair(S, base, a, b), DOMAIN b = {}
    PROVE  Combined(base, a, b) = Combined(base, a, <<>>) /\ Combined(base, b, a) = Combined(base, <<>>, a)
<1>1. PICK n \in Nat, e \in {<<>>} : n = Len(base) + 1 /\ e = <<>>
  BY DEF Pair
<1>2. \A x : Put(e, x) = <<>> /\ ~ Taken(e, x)
  BY <1>1, NoChanges
<1>3. \A x : Put(b, x) = <<>> /\ ~ Taken(b, x)
  BY DEF Put, Taken
<1>4. SameTo(a, b, a, e, n) /\ SameTo(b, a, e, a, n)
  BY <1>2, <1>3 DEF SameTo
<1>5. Written(base, a, b, n) = Written(base, a, e, n) /\ Written(base, b, a, n) = Written(base, e, a, n)
  BY <1>4, WrittenSame
<1>6. Combined(base, a, b) = Written(base, a, b, n) /\ Combined(base, b, a) = Written(base, b, a, n)
      /\ Combined(base, a, e) = Written(base, a, e, n) /\ Combined(base, e, a) = Written(base, e, a, n)
  BY <1>1, CombinedIs
<1> QED
  BY <1>1, <1>5, <1>6

LEMMA NothingCombined ==
    ASSUME NEW S, NEW base \in Seq(S)
    PROVE  Combined(base, <<>>, <<>>) = base
<1>1. PICK n \in Nat, e \in {<<>>} : n = Len(base) /\ e = <<>>
  OBVIOUS
<1>2. Regions(S, e, n) /\ Regions(S, e, 0) /\ \A x : Put(e, x) = <<>> /\ ~ Taken(e, x)
  BY <1>1, NoChanges
<1>3. Pair(S, base, e, e)
  BY <1>1, <1>2 DEF Pair
<1>4. Combined(base, e, e) = Written(base, e, e, n) \o (Put(e, n) \o Put(e, n))
  BY <1>1, <1>3, CombinedEnd
<1>5. Written(base, e, e, 0) = <<>>
  <2>1. 0 \in Nat
    OBVIOUS
  <2> QED
    BY <1>2, <2>1, WrittenIs
<1>6. Written(base, e, e, n) = base
  <2>1. CASE n = 0
    <3>1. base = e
      <4>1. e \in Seq(S) /\ Len(e) = 0 /\ Len(base) = 0
        BY <1>1, <2>1
      <4> QED
        BY ONLY <4>1, base \in Seq(S), SeqEqual
    <3> QED
      BY <1>1, <1>5, <2>1, <3>1
  <2>2. CASE n > 0
    <3>1. Copying(S, base, e, 0, n)
      BY <1>1, <1>2, <2>2 DEF Copying
    <3>2. n = 0 + n
      OBVIOUS
    <3>3. Written(base, e, e, n) = (Written(base, e, e, 0) \o Put(e, 0)) \o Part(base, 0, n)
      BY ONLY <1>1, <3>1, <3>2, MapOverEq
    <3>4. Part(base, 0, n) = base
      <4>1. 0 + 1 = 1
        OBVIOUS
      <4> QED
        BY <1>1, <3>2, <4>1, SubSeqFull DEF Part
    <3>5. (<<>> \o <<>>) \o base = base
      BY ConcatEmptySeq
    <3> QED
      BY <1>2, <1>5, <3>3, <3>4, <3>5
  <2> QED
    BY <2>1, <2>2
<1>7. base \o (<<>> \o <<>>) = base
  BY ConcatEmptySeq
<1> QED
  BY <1>1, <1>2, <1>4, <1>6, <1>7

(* A text that is too long to be compared is changed everywhere.             *)
LEMMA LongSame ==
    ASSUME NEW S, NEW base \in Seq(S), TooLong(base, base), NEW m, m = build_change_map(diff_lines(base, base), base),
           NEW a, Regions(S, a, Len(base)), Touched(a) \cap Touched(m) = {}
    PROVE  DOMAIN a = {}
<1>1. PICK n \in Nat : n = Len(base)
  OBVIOUS
<1>2. n > 0
  BY <1>1, TextAssumption DEF TooLong
<1>3. PICK ops : ops = diff_lines(base, base)
  OBVIOUS
<1>4. MapOf(S, base, base, ops, m)
  BY <1>3, DiffMap
<1>5. PICK d, i : d = DiffOp("del", 0, 0, n) /\ i = DiffOp("ins", 0, 0, n)
  OBVIOUS
<1>6. Len(ops) = 2 /\ ops[1] = d
  <2>1. Unless0(d) = <<d>> /\ Unless0(i) = <<i>>
    BY <1>2, <1>5 DEF Unless0, DiffOp, Pick
  <2>2. ops = Unless0(d) \o Unless0(i)
    BY <1>1, <1>3, <1>5 DEF diff_lines
  <2>3. PICK T, x, y : T = {d, i} /\ x = <<d>> /\ y = <<i>>
    OBVIOUS
  <2>4. x \in Seq(T) /\ y \in Seq(T) /\ Len(x) = 1 /\ Len(y) = 1 /\ x[1] = d
    BY <2>3
  <2>5. Len(x \o y) = 2 /\ (x \o y)[1] = x[1]
    <3>1. Len(x \o y) = Len(x) + Len(y) /\ \A k \in 1..(Len(x) + Len(y)) : (x \o y)[k] = IF k <= Len(x) THEN x[k] ELSE y[k - Len(x)]
      <4>1. x \in Seq(T) /\ y \in Seq(T)
        BY <2>4
      <4> QED
        BY ONLY <4>1, ConcatProperties
    <3>2. 1 \in 1..(1 + 1) /\ 1 <= 1
      OBVIOUS
    <3> QED
      BY <2>4, <3>1, <3>2
  <2> QED
    BY <2>1, <2>2, <2>3, <2>4, <2>5
<1>7. ASSUME NEW x \in 0..(n - 1) PROVE Taken(m, x)
  <2>1. Len(ops) = 2 /\ ops[1] = d /\ 1 \in 1..2
    BY <1>6
  <2>2. d.kind = "del" /\ d.old = 0 /\ d.n = n
    BY <1>5 DEF DiffOp
  <2>3. x \in 0..(0 + n - 1)
    OBVIOUS
  <2>4. Dropped(ops, Len(ops), x)
    BY <2>1, <2>2, <2>3 DEF Dropped
  <2> QED
    BY <1>4, <2>4 DEF MapOf
<1>8. ASSUME NEW x \in 0..n PROVE x \in Touched(m)
  <2>1. CASE x < n
    <3>1. x \in 0..(n - 1)
      BY <2>1
    <3>2. PICK y \in DOMAIN m : x \in y..(y + m[y].base_count - 1)
      BY <1>7, <3>1 DEF Taken
    <3>3. y \in Nat /\ m[y].base_count \in Nat
      BY <1>1, <1>4, RegionParts DEF MapOf
    <3>4. x \in y..(y + m[y].base_count)
      BY <3>2, <3>3
    <3> QED
      BY <3>4 DEF Touched
  <2>2. CASE x = n
    <3>1. n - 1 \in 0..(n - 1)
      BY <1>2
    <3>2. PICK y \in DOMAIN m : n - 1 \in y..(y + m[y].base_count - 1)
      BY <1>7, <3>1 DEF Taken
    <3>3. y \in Nat /\ m[y].base_count \in Nat
      BY <1>1, <1>4, RegionParts DEF MapOf
    <3>4. x \in y..(y + m[y].base_count)
      BY <2>2, <3>2, <3>3
    <3> QED
      BY <3>4 DEF Touched
  <2> QED
    BY <2>1, <2>2
<1> SUFFICES ASSUME NEW x \in DOMAIN a PROVE FALSE
  OBVIOUS
<1>9. x \in Nat /\ a[x].base_count \in Nat /\ x + a[x].base_count <= n
  BY <1>1, RegionParts
<1>10. x \in 0..n /\ x \in x..(x + a[x].base_count)
  BY <1>9
<1>11. x \in Touched(a)
  BY <1>10 DEF Touched
<1> QED
  BY <1>8, <1>10, <1>11

(* The side that is base itself.                                             *)
LEMMA BaseSide ==
    ASSUME NEW S, NEW base \in Seq(S), NEW side \in Seq(S), NEW a, NEW m,
           a = build_change_map(diff_lines(base, side), side),
           m = build_change_map(diff_lines(base, base), base),
           Touched(a) \cap Touched(m) = {}
    PROVE  Combined(base, a, m) = side /\ Combined(base, m, a) = side
<1>1. PICK n \in Nat, e \in {<<>>} : n = Len(base) /\ e = <<>>
  OBVIOUS
<1>2. PICK ops : ops = diff_lines(base, side)
  OBVIOUS
<1>3. MapOf(S, base, side, ops, a)
  BY <1>2, DiffMap
<1>4. Combined(base, a, <<>>) = side /\ Combined(base, <<>>, a) = side
  BY <1>3, MapWhole
<1>5. CASE ~ TooLong(base, base)
  <2>1. m = <<>>
    BY <1>5, SameScript
  <2> QED
    BY <1>4, <2>1
<1>6. CASE TooLong(base, base)
  <2>1. Regions(S, a, Len(base))
    BY <1>3 DEF MapOf
  <2>2. DOMAIN a = {}
    BY <1>6, <2>1, LongSame
  <2>3. PICK ops2 : ops2 = diff_lines(base, base)
    OBVIOUS
  <2>4. MapOf(S, base, base, ops2, m)
    BY <2>3, DiffMap
  <2>5. Combined(base, m, <<>>) = base /\ Combined(base, <<>>, m) = base
    BY <2>4, MapWhole
  <2>6. Pair(S, base, m, a)
    BY <2>1, <2>4 DEF Pair, MapOf
  <2>7. Combined(base, m, a) = base /\ Combined(base, a, m) = base
    BY <2>2, <2>5, <2>6, NoRegions
  <2>8. Pair(S, base, e, a)
    BY <1>1, <2>1, NoChanges DEF Pair
  <2>9. Combined(base, a, e) = Combined(base, <<>>, e)
    BY <2>2, <2>8, NoRegions
  <2>10. side = base
    BY <1>1, <1>4, <2>9, NothingCombined
  <2> QED
    BY <2>7, <2>10
<1> QED
  BY <1>5, <1>6

LEMMA SeparateMerge ==
    ASSUME NEW S, NEW base \in Seq(S), NEW ours \in Seq(S), NEW theirs \in Seq(S), NEW o, NEW t,
           o = build_change_map(diff_lines(base, ours), ours),
           t = build_change_map(diff_lines(base, theirs), theirs),
           Touched(o) \cap Touched(t) = {}
    PROVE  three_way_merge(base, ours, theirs) = [out |-> Combined(base, o, t), conflicts |-> 0]
<1>1. PICK ops, ops2 : ops = diff_lines(base, ours) /\ ops2 = diff_lines(base, theirs)
  OBVIOUS
<1>2. MapOf(S, base, ours, ops, o) /\ MapOf(S, base, theirs, ops2, t)
  BY <1>1, DiffMap
<1>3. Pair(S, base, o, t)
  BY <1>2 DEF MapOf, Pair
<1>4. CASE ours = theirs
  <2>1. DOMAIN t = {}
    <3> SUFFICES ASSUME NEW x \in DOMAIN t PROVE FALSE
      OBVIOUS
    <3>1. PICK n \in Nat : n = Len(base)
      OBVIOUS
    <3>2. x \in Nat /\ t[x].base_count \in Nat
      BY <1>3, <3>1, RegionParts DEF Pair
    <3>3. x \in x..(x + t[x].base_count)
      BY <3>2
    <3>4. x \in Touched(t) /\ t = o
      BY <1>4, <3>3 DEF Touched
    <3> QED
      BY <3>4
  <2>2. Combined(base, o, t) = Combined(base, o, <<>>)
    BY <1>3, <2>1, NoRegions
  <2>3. Combined(base, o, <<>>) = ours
    BY <1>2, MapWhole
  <2> QED
    BY <1>4, <2>2, <2>3 DEF three_way_merge
<1>5. CASE ours # theirs /\ base = theirs
  <2>1. Combined(base, o, t) = ours
    BY <1>5, BaseSide
  <2> QED
    BY <1>5, <2>1 DEF three_way_merge
<1>6. CASE ours # theirs /\ base # theirs /\ base = ours
  <2>1. Touched(t) \cap Touched(o) = {}
    OBVIOUS
  <2>2. Combined(base, o, t) = theirs
    BY <1>6, <2>1, BaseSide
  <2> QED
    BY <1>6, <2>2 DEF three_way_merge
<1>7. CASE ours # theirs /\ base # theirs /\ base # ours
  <2>1. Separate(S, base, o, t)
    BY <1>3 DEF Separate
  <2>2. Walk(base, o, t) = [out |-> Combined(base, o, t), conflicts |-> 0]
    BY <2>1, WalkApart
  <2> QED
    BY <1>7, <2>2 DEF three_way_merge
<1> QED
  BY <1>4, <1>5, <1>6, <1>7

-----------------------------------------------------------------------------
(* Lines that both sides keep.                                               *)

(* The recursion of FoundIn. *)
FindingSteps(s, text, n, w) ==
    w = [i \in 0..n |-> IF i = 0 THEN 0
                        ELSE FoundNext(s, text[i], w[i - 1])]

LEMMA FindingExists ==
    ASSUME NEW s, NEW text, NEW n \in Nat
    PROVE  \E w : FindingSteps(s, text, n, w)
<1> DEFINE P == {m \in Nat : \E w : FindingSteps(s, text, m, w)}
<1>1. 0 \in P
  <2> DEFINE w == [i \in 0..0 |-> 0]
  <2>1. FindingSteps(s, text, 0, w)
    BY DEF FindingSteps
  <2> QED
    BY <2>1, Zenon
<1>2. ASSUME NEW m \in P \cap Nat PROVE m + 1 \in P
  <2> SUFFICES \E w : FindingSteps(s, text, m + 1, w)
    OBVIOUS
  <2>1. PICK g : FindingSteps(s, text, m, g)
    OBVIOUS
  <2> DEFINE F(x, i) == FoundNext(s, text[i], x)
             B == 0
             w == [i \in 0 .. m + 1 |-> IF i = m + 1 THEN F(g[m], m + 1) ELSE g[i]]
  <2>2. \A i \in 0..m : g[i] = IF i = 0 THEN B ELSE F(g[i - 1], i)
    BY <2>1 DEF FindingSteps
  <2> HIDE DEF F, B
  <2>3. ASSUME NEW i \in 0 .. m + 1
        PROVE  w[i] = IF i = 0 THEN B ELSE F(w[i - 1], i)
    <3>1. CASE i = m + 1
      <4>1. w[i] = F(g[m], m + 1) /\ w[i - 1] = g[m] /\ i # 0
        BY <3>1
      <4> HIDE DEF w
      <4> QED BY <4>1, <3>1
    <3>2. CASE i \in 0..m
      <4>1. w[i] = g[i] /\ (i # 0 => w[i - 1] = g[i - 1])
        BY <3>2
      <4> HIDE DEF w
      <4> QED BY <4>1, <3>2, <2>2
    <3> QED
      BY <3>1, <3>2
  <2>4. w = [i \in 0 .. m + 1 |-> w[i]]
    OBVIOUS
  <2>5. FindingSteps(s, text, m + 1, w)
    <3> HIDE DEF w
    <3> QED BY <2>3, <2>4 DEF FindingSteps, F, B
  <2> QED
    BY <2>5, Zenon
<1>3. Nat \subseteq P
  <2> HIDE DEF P
  <2> QED BY <1>1, <1>2, SetInduction, Zenon
<1> QED
  BY <1>3

(* Along a text the lines of s are found one after the other.                *)
FoundBy(s, text, w) ==
    /\ FoundIn(s, text) = w[Len(text)] /\ w[0] = 0
    /\ \A i \in 1..Len(text) : w[i] = FoundNext(s, text[i], w[i - 1])

LEMMA FoundInIs ==
    ASSUME NEW s, NEW text, Len(text) \in Nat
    PROVE  \E w : FoundBy(s, text, w)
<1> DEFINE w == CHOOSE g : FindingSteps(s, text, Len(text), g)
<1>1. FindingSteps(s, text, Len(text), w)
  BY FindingExists, Zenon
<1>2. FoundIn(s, text) = w[Len(text)]
  BY Zenon DEF FoundIn, FindingSteps
<1> HIDE DEF w
<1>3. w[0] = 0 /\ \A i \in 1..Len(text) : w[i] = FoundNext(s, text[i], w[i - 1])
  <2>1. 0 \in 0..Len(text) /\ \A i \in 1..Len(text) : i \in 0..Len(text) /\ i # 0
    OBVIOUS
  <2> QED
    BY <1>1, <2>1 DEF FindingSteps
<1> QED
  BY <1>2, <1>3 DEF FoundBy

LEMMA FoundNextIs ==
    ASSUME NEW s, Len(s) \in Nat, NEW line, NEW f \in 0..Len(s)
    PROVE  /\ FoundNext(s, line, f) \in 0..Len(s) /\ FoundNext(s, line, f) >= f
           /\ \A k \in 0..(Len(s) - 1) : k <= f /\ line = s[k + 1] => FoundNext(s, line, f) >= k + 1
BY DEF FoundNext, Pick

LEMMA FoundTyped ==
    ASSUME NEW s, Len(s) \in Nat, NEW text, Len(text) \in Nat, NEW w, FoundBy(s, text, w), NEW i \in 0..Len(text)
    PROVE  w[i] \in 0..Len(s)
<1>1. PICK n \in Nat : n = Len(text)
  OBVIOUS
<1> DEFINE P == {m \in 0..n : w[m] \in 0..Len(s)}
<1>2. 0 \in P
  BY <1>1 DEF FoundBy
<1>3. ASSUME NEW m \in P, m \in Nat, m < i PROVE m + 1 \in P
  <2>1. m + 1 \in 1..n /\ (m + 1) - 1 = m /\ m + 1 \in 0..n
    BY <1>1, <1>3
  <2>2. w[m + 1] = FoundNext(s, text[m + 1], w[m])
    BY <1>1, <2>1 DEF FoundBy
  <2>3. w[m] \in 0..Len(s)
    BY <1>3
  <2>4. w[m + 1] \in 0..Len(s)
    BY <2>2, <2>3, FoundNextIs
  <2> QED
    BY <2>1, <2>4
<1>4. i \in Nat
  OBVIOUS
<1>5. i \in P
  <2> HIDE DEF P
  <2> QED BY <1>2, <1>3, <1>4, UpTo
<1> QED
  BY <1>5

(* More text can only have more of it.                                       *)
LEMMA FoundMore ==
    ASSUME NEW T, NEW a \in Seq(T), NEW b \in Seq(T), NEW s, Len(s) \in Nat
    PROVE  FoundIn(s, a \o b) >= FoundIn(s, a) /\ FoundIn(s, a) \in 0..Len(s) /\ FoundIn(s, a \o b) \in 0..Len(s)
<1>15. PICK c : c = a \o b
  OBVIOUS
<1>16. PICK n \in Nat, m \in Nat : n = Len(a) /\ m = Len(b)
  OBVIOUS
<1>1. n = Len(a) /\ m = Len(b) /\ c = a \o b
  BY <1>15, <1>16
<1>2. Len(c) = n + m /\ \A i \in 1..n : c[i] = a[i]
  BY <1>1
<1>3. PICK v : FoundBy(s, a, v)
  BY <1>1, FoundInIs
<1>4. PICK w : FoundBy(s, c, w)
  <2>1. Len(c) \in Nat
    BY <1>2
  <2> QED
    BY <2>1, FoundInIs
<1> DEFINE P == {i \in 0..n : w[i] = v[i]}
<1>5. 0 \in P
  BY <1>3, <1>4 DEF FoundBy
<1>6. ASSUME NEW i \in P, i \in Nat, i < n PROVE i + 1 \in P
  <2>1. i + 1 \in 1..n /\ (i + 1) - 1 = i /\ i + 1 \in 0..n /\ i + 1 \in 1..(n + m)
    BY <1>6
  <2>2. w[i + 1] = FoundNext(s, c[i + 1], w[i]) /\ v[i + 1] = FoundNext(s, a[i + 1], v[i])
    BY <1>1, <1>2, <1>3, <1>4, <2>1 DEF FoundBy
  <2> QED
    BY <1>2, <1>6, <2>1, <2>2
<1>7. n \in P
  <2> HIDE DEF P
  <2> QED BY <1>5, <1>6, UpTo
<1> DEFINE R == {j \in 0..m : w[n + j] >= w[n]}
<1>8. \A j \in 0..m : w[n + j] \in 0..Len(s)
  <2> SUFFICES ASSUME NEW j \in 0..m PROVE w[n + j] \in 0..Len(s)
    OBVIOUS
  <2>1. n + j \in 0..Len(c) /\ Len(c) \in Nat
    BY <1>2
  <2> QED
    BY <1>4, <2>1, FoundTyped
<1>9. 0 \in R
  <2>1. n + 0 = n /\ 0 \in 0..m
    OBVIOUS
  <2>2. w[n] \in 0..Len(s)
    BY <1>8, <2>1
  <2> QED
    BY <2>1, <2>2
<1>10. ASSUME NEW j \in R, j \in Nat, j < m PROVE j + 1 \in R
  <2>1. n + (j + 1) \in 1..Len(c) /\ (n + (j + 1)) - 1 = n + j /\ j + 1 \in 0..m
    BY <1>2, <1>10
  <2>2. w[n + (j + 1)] = FoundNext(s, c[n + (j + 1)], w[n + j])
    BY <1>4, <2>1 DEF FoundBy
  <2>3. w[n + j] \in 0..Len(s) /\ w[n + j] >= w[n]
    BY <1>8, <1>10
  <2>4. w[n + (j + 1)] >= w[n + j] /\ w[n + (j + 1)] \in 0..Len(s)
    BY <2>2, <2>3, FoundNextIs
  <2>5. 0 \in 0..m /\ n + 0 = n
    OBVIOUS
  <2>6. w[n] \in 0..Len(s)
    BY <1>8, <2>5
  <2> QED
    BY <2>1, <2>3, <2>4, <2>6
<1>11. m \in R
  <2> HIDE DEF R
  <2> QED BY <1>9, <1>10, UpTo
<1>12. FoundIn(s, a) = v[n] /\ FoundIn(s, c) = w[n + m]
  BY <1>1, <1>2, <1>3, <1>4 DEF FoundBy
<1>13. w[n + m] >= w[n] /\ w[n] = v[n]
  BY <1>7, <1>11
<1>14. w[n + m] \in 0..Len(s) /\ w[n] \in 0..Len(s)
  <2>1. m \in 0..m /\ 0 \in 0..m /\ n + 0 = n
    OBVIOUS
  <2> QED
    BY <1>8, <2>1
<1> QED
  BY <1>1, <1>12, <1>13, <1>14

LEMMA FoundLine ==
    ASSUME NEW T, NEW a \in Seq(T), NEW e \in T, NEW s, Len(s) \in Nat
    PROVE  FoundIn(s, a \o <<e>>) = FoundNext(s, e, FoundIn(s, a))
<1>12. PICK b : b = <<e>>
  OBVIOUS
<1>13. PICK c : c = a \o b
  OBVIOUS
<1>14. PICK n \in Nat : n = Len(a)
  OBVIOUS
<1>1. n = Len(a) /\ b = <<e>> /\ c = a \o b
  BY <1>12, <1>13, <1>14
<1>2. b \in Seq(T) /\ Len(b) = 1 /\ b[1] = e
  BY <1>1
<1>3. Len(c) = n + 1 /\ (\A i \in 1..n : c[i] = a[i]) /\ c[n + 1] = e
  BY <1>1, <1>2
<1>4. PICK v : FoundBy(s, a, v)
  BY <1>1, FoundInIs
<1>5. PICK w : FoundBy(s, c, w)
  <2>1. Len(c) \in Nat
    BY <1>3
  <2> QED
    BY <2>1, FoundInIs
<1> DEFINE P == {i \in 0..n : w[i] = v[i]}
<1>6. 0 \in P
  BY <1>4, <1>5 DEF FoundBy
<1>7. ASSUME NEW i \in P, i \in Nat, i < n PROVE i + 1 \in P
  <2>1. i + 1 \in 1..n /\ (i + 1) - 1 = i /\ i + 1 \in 0..n /\ i + 1 \in 1..(n + 1)
    BY <1>7
  <2>2. w[i + 1] = FoundNext(s, c[i + 1], w[i]) /\ v[i + 1] = FoundNext(s, a[i + 1], v[i])
    BY <1>1, <1>3, <1>4, <1>5, <2>1 DEF FoundBy
  <2> QED
    BY <1>3, <1>7, <2>1, <2>2
<1>8. n \in P
  <2> HIDE DEF P
  <2> QED BY <1>6, <1>7, UpTo
<1>9. n + 1 \in 1..(n + 1) /\ (n + 1) - 1 = n
  OBVIOUS
<1>10. w[n + 1] = FoundNext(s, e, w[n])
  BY <1>3, <1>5, <1>9 DEF FoundBy
<1>11. FoundIn(s, a) = v[n] /\ FoundIn(s, c) = w[n + 1] /\ v[n] = w[n]
  BY <1>1, <1>3, <1>4, <1>5, <1>8 DEF FoundBy
<1> QED
  BY <1>1, <1>10, <1>11

(* The lines of a merge: those of the texts, and the markers.                *)
Marked(S) == S \cup {"<<<<<<< ours", "equal signs", ">>>>>>> theirs"}

LEMMA MarkedSeq ==
    ASSUME NEW S, NEW s \in Seq(S)
    PROVE  s \in Seq(Marked(S))
<1>1. S \subseteq Marked(S)
  BY DEF Marked
<1>2. PICK T : T = Marked(S)
  OBVIOUS
<1>3. s \in Seq(T)
  BY <1>1, <1>2
<1> QED
  BY <1>2, <1>3

LEMMA ConflictTyped ==
    ASSUME NEW S, NEW x \in Seq(S), NEW y \in Seq(S)
    PROVE  Conflict(x, y) \in Seq(Marked(S))
<1>1. PICK T : T = Marked(S)
  OBVIOUS
<1>2. x \in Seq(T) /\ y \in Seq(T)
  BY <1>1, MarkedSeq
<1>3. PICK a, b, c : a = <<"<<<<<<< ours">> /\ b = <<"equal signs">> /\ c = <<">>>>>>> theirs">>
  OBVIOUS
<1>4. a \in Seq(T) /\ b \in Seq(T) /\ c \in Seq(T)
  <2>1. \A m \in T : <<m>> \in Seq(T)
    OBVIOUS
  <2>2. "<<<<<<< ours" \in T /\ "equal signs" \in T /\ ">>>>>>> theirs" \in T
    BY <1>1 DEF Marked
  <2> QED
    BY <1>3, <2>1, <2>2, Zenon
<1>5. a \o x \o b \o y \o c \in Seq(T)
  BY <1>2, <1>4
<1> QED
  BY <1>1, <1>3, <1>5 DEF Conflict

LEMMA PlaceTyped ==
    ASSUME NEW S, NEW base, NEW a, NEW b, Pair(S, base, a, b), NEW p
    PROVE  AtPlace(p, a, b).out \in Seq(Marked(S))
<1>1. PICK T : T = Marked(S)
  OBVIOUS
<1>2. PICK x, y : x = Put(a, p) /\ y = Put(b, p)
  OBVIOUS
<1>3. x \in Seq(S) /\ y \in Seq(S)
  BY <1>2, PutTyped DEF Pair
<1>4. x \in Seq(T) /\ y \in Seq(T) /\ Conflict(x, y) \in Seq(T) /\ <<>> \in Seq(T)
  <2>1. x \in Seq(T) /\ y \in Seq(T)
    BY <1>1, <1>3, MarkedSeq
  <2>2. Conflict(x, y) \in Seq(Marked(S))
    BY <1>3, ConflictTyped
  <2>3. <<>> \in Seq(T)
    OBVIOUS
  <2> QED
    BY <1>1, <2>1, <2>2, <2>3
<1>5. CASE p \in DOMAIN a /\ p \in DOMAIN b
  <2>1. AtPlace(p, a, b) = Both(x, y)
    BY <1>2, <1>5 DEF AtPlace, Put
  <2>2. Both(x, y).out \in {x, Conflict(x, y)}
    BY DEF Both
  <2> QED
    BY <1>1, <1>4, <2>1, <2>2
<1>6. CASE p \in DOMAIN a /\ p \notin DOMAIN b
  <2>1. AtPlace(p, a, b) = [out |-> x, conflicts |-> 0]
    BY <1>2, <1>6 DEF AtPlace, Put
  <2> QED
    BY <1>1, <1>4, <2>1
<1>7. CASE p \notin DOMAIN a /\ p \in DOMAIN b
  <2>1. AtPlace(p, a, b) = [out |-> y, conflicts |-> 0]
    BY <1>2, <1>7 DEF AtPlace, Put
  <2> QED
    BY <1>1, <1>4, <2>1
<1>8. CASE p \notin DOMAIN a /\ p \notin DOMAIN b
  <2>1. AtPlace(p, a, b) = [out |-> <<>>, conflicts |-> 0]
    BY <1>8 DEF AtPlace
  <2> QED
    BY <1>1, <1>4, <2>1
<1> QED
  BY <1>5, <1>6, <1>7, <1>8

(* The lines a step passes over are taken away by one side.                  *)
LEMMA TakesAt ==
    ASSUME NEW S, NEW base, NEW a, NEW b, Pair(S, base, a, b), NEW p \in 0..(Len(base) - 1)
    PROVE  /\ Consumed(p, a, b) \in Nat /\ p + Consumed(p, a, b) <= Len(base)
           /\ \A x \in p..(p + Consumed(p, a, b) - 1) : Taken(a, x) \/ Taken(b, x)
<1>1. PICK n \in Nat : n = Len(base) /\ Regions(S, a, n) /\ Regions(S, b, n)
  BY DEF Pair
<1>2. PICK x, y : x = Pick(p \in DOMAIN a, a[p].base_count, 0) /\ y = Pick(p \in DOMAIN b, b[p].base_count, 0)
  OBVIOUS
<1>3. x \in Nat /\ y \in Nat /\ p + x <= n /\ p + y <= n /\ p \in Nat
  BY <1>1, <1>2, RegionParts DEF Pick
<1>4. PICK c : c = Consumed(p, a, b)
  OBVIOUS
<1>5. c = Larger(x, y)
  BY <1>2, <1>3, <1>4, ConsumedIs
<1>6. c \in Nat /\ (c = x \/ c = y)
  BY <1>3, <1>5 DEF Larger, Pick
<1>7. ASSUME NEW z \in p..(p + c - 1) PROVE Taken(a, z) \/ Taken(b, z)
  <2>1. c > 0
    BY <1>3, <1>6
  <2>2. CASE c = x
    <3>1. p \in DOMAIN a /\ x = a[p].base_count
      BY <1>2, <2>1, <2>2 DEF Pick
    <3> QED
      BY <2>2, <3>1 DEF Taken
  <2>3. CASE c = y
    <3>1. p \in DOMAIN b /\ y = b[p].base_count
      BY <1>2, <2>1, <2>3 DEF Pick
    <3> QED
      BY <2>3, <3>1 DEF Taken
  <2> QED
    BY <1>6, <2>2, <2>3
<1> QED
  BY <1>1, <1>3, <1>4, <1>6, <1>7

(* Nothing is counted where nothing is chosen.                               *)
LEMMA CountsStay ==
    ASSUME NEW n \in Nat, NEW cnt \in [0..n -> Nat], NEW p \in 0..n, NEW c \in Nat, p + c <= n,
           \A i \in (p + 1)..(p + c) : cnt[i] = cnt[i - 1]
    PROVE  cnt[p + c] = cnt[p]
<1> DEFINE P == {j \in 0..c : cnt[p + j] = cnt[p]}
<1>1. 0 \in P
  OBVIOUS
<1>2. ASSUME NEW j \in P, j \in Nat, j < c PROVE j + 1 \in P
  <2>1. p + (j + 1) \in (p + 1)..(p + c) /\ (p + (j + 1)) - 1 = p + j /\ j + 1 \in 0..c
    BY <1>2
  <2>2. cnt[p + (j + 1)] = cnt[p + j]
    BY <2>1
  <2> QED
    BY <1>2, <2>1, <2>2
<1>3. c \in P
  <2> HIDE DEF P
  <2> QED BY <1>1, <1>2, UpTo
<1> QED
  BY <1>3

LEMMA CountsRise ==
    ASSUME NEW n \in Nat, NEW cnt, Counts(n, 0, cnt), NEW q \in 0..n
    PROVE  cnt[q] <= cnt[n]
<1> DEFINE P == {j \in 0..(n - q) : cnt[q + j] >= cnt[q]}
<1>1. \A i \in 0..n : cnt[i] \in Nat
  BY DEF Counts
<1>2. 0 \in P
  <2>1. q + 0 = q /\ 0 \in 0..(n - q)
    OBVIOUS
  <2> QED
    BY <1>1, <2>1
<1>3. ASSUME NEW j \in P, j \in Nat, j < n - q PROVE j + 1 \in P
  <2>1. q + (j + 1) \in 1..n /\ (q + (j + 1)) - 1 = q + j /\ j + 1 \in 0..(n - q) /\ q + j \in 0..n /\ q + (j + 1) \in 0..n
    BY <1>3
  <2>2. cnt[(q + (j + 1)) - 1] <= cnt[q + (j + 1)]
    BY <2>1 DEF Counts
  <2>3. cnt[q + j] <= cnt[q + (j + 1)] /\ cnt[q + j] >= cnt[q]
    BY <1>3, <2>1, <2>2
  <2>4. cnt[q + (j + 1)] >= cnt[q]
    BY <1>1, <2>1, <2>3
  <2> QED
    BY <2>1, <2>4
<1>4. PICK d \in Nat : d = n - q
  OBVIOUS
<1>5. d \in P
  <2> HIDE DEF P
  <2> QED BY <1>2, <1>3, <1>4, UpTo
<1>6. q + d = n /\ n \in 0..n
  BY <1>4
<1> QED
  BY <1>1, <1>5, <1>6

(* What the walk has found of the lines that stay when it is at p.           *)
KeepsPart(T, base, s, cnt, walk) ==
    /\ walk.at \in 0..Len(base) /\ walk.out \in Seq(T)
    /\ FoundIn(s, walk.out) >= cnt[walk.at]

(* The lines is of base are taken away by no side.                           *)
Staying(base, a, b, is) == \A i \in 1..Len(base) : i \in is => ~ Taken(a, i - 1) /\ ~ Taken(b, i - 1)

LEMMA StepKeeps ==
    ASSUME NEW S, NEW base, NEW a, NEW b, Pair(S, base, a, b), NEW is, Staying(base, a, b, is),
           NEW s, NEW cnt, CountsOf(base, s, cnt), \A i \in 1..Len(base) : i \notin is => cnt[i] = cnt[i - 1],
           NEW walk, KeepsPart(Marked(S), base, s, cnt, walk), walk.at < Len(base)
    PROVE  LET after == WalkStep(base, a, b, walk)
           IN  KeepsPart(Marked(S), base, s, cnt, after) /\ after.at > walk.at
<1>1. PICK n \in Nat, T \in {Marked(S)} : n = Len(base) /\ T = Marked(S)
  BY DEF Pair
<1>2. PICK p, out : p = walk.at /\ out = walk.out
  OBVIOUS
<1>3. p \in 0..n /\ p < n /\ p \in Nat /\ p \in 0..(Len(base) - 1) /\ out \in Seq(T) /\ FoundIn(s, out) >= cnt[p]
  BY <1>1, <1>2 DEF KeepsPart
<1>4. /\ cnt \in [0..n -> Nat] /\ cnt[n] = Len(s)
      /\ \A i \in 1..n : cnt[i - 1] <= cnt[i] /\ cnt[i] <= cnt[i - 1] + 1 /\ (cnt[i] = cnt[i - 1] + 1 => s[cnt[i]] = base[i])
  BY <1>1 DEF CountsOf, Counts
<1>5. Len(s) \in Nat
  <2>1. n \in 0..n
    OBVIOUS
  <2> QED
    BY <1>4, <2>1
<1>6. PICK c : c = Consumed(p, a, b)
  OBVIOUS
<1>7. c \in Nat /\ p + c <= n /\ \A x \in p..(p + c - 1) : Taken(a, x) \/ Taken(b, x)
  BY <1>1, <1>3, <1>6, TakesAt
<1>8. PICK here : here = AtPlace(p, a, b)
  OBVIOUS
<1>9. PICK h : h = here.out
  OBVIOUS
<1>10. h \in Seq(T)
  BY <1>1, <1>8, <1>9, PlaceTyped
<1>11. PICK k : k = IF c = 0 THEN <<base[p + 1]>> ELSE <<>>
  OBVIOUS
<1>12. PICK after : after = WalkStep(base, a, b, walk)
  OBVIOUS
<1>13. after = [at |-> p + Larger(1, c), out |-> out \o h \o k, conflicts |-> walk.conflicts + here.conflicts]
  <2>1. ~ (walk.at >= Len(base))
    BY <1>1, <1>2, <1>3
  <2> QED
    BY <1>2, <1>6, <1>8, <1>9, <1>11, <1>12, <2>1, Zenon DEF WalkStep
<1>14. PICK q \in Nat : q = p + Larger(1, c) /\ q > p /\ q <= n /\ (c > 0 => q = p + c) /\ (c = 0 => q = p + 1)
  BY <1>3, <1>7 DEF Larger, Pick
<1>15. PICK z : z = out \o h
  OBVIOUS
<1>16. z \in Seq(T) /\ FoundIn(s, z) \in 0..Len(s) /\ FoundIn(s, out) \in 0..Len(s) /\ FoundIn(s, z) >= FoundIn(s, out)
  <2>1. z \in Seq(T)
    BY <1>3, <1>10, <1>15
  <2> QED
    BY <1>3, <1>5, <1>10, <1>15, <2>1, FoundMore
<1>17. cnt[p] \in Nat
  BY <1>3, <1>4
<1>18. FoundIn(s, z) >= cnt[p]
  BY <1>3, <1>16, <1>17
<1>19. CASE c > 0
  <2>1. k = <<>> /\ q = p + c
    BY <1>11, <1>14, <1>19
  <2>2. z \o k = z
    BY <1>16, <2>1, ConcatEmptySeq
  <2>3. \A i \in (p + 1)..(p + c) : cnt[i] = cnt[i - 1]
    <3> SUFFICES ASSUME NEW i \in (p + 1)..(p + c) PROVE cnt[i] = cnt[i - 1]
      OBVIOUS
    <3>1. i \in 1..n /\ i - 1 \in p..(p + c - 1)
      BY <1>3, <1>7
    <3>2. Taken(a, i - 1) \/ Taken(b, i - 1)
      BY <1>7, <3>1
    <3>3. i \notin is
      BY <1>1, <3>1, <3>2 DEF Staying
    <3> QED
      BY <1>1, <3>1, <3>3
  <2>4. cnt[q] = cnt[p]
    <3>1. n \in Nat /\ cnt \in [0..n -> Nat] /\ p \in 0..n /\ c \in Nat /\ p + c <= n
      BY <1>3, <1>4, <1>7
    <3>2. cnt[p + c] = cnt[p]
      BY ONLY <2>3, <3>1, CountsStay
    <3> QED
      BY <2>1, <3>2
  <2>5. after.at = q /\ after.out = z
    BY <1>13, <1>14, <1>15, <2>2
  <2>6. KeepsPart(T, base, s, cnt, after)
    BY <1>1, <1>14, <1>16, <1>18, <2>4, <2>5 DEF KeepsPart
  <2> QED
    BY <1>1, <1>2, <1>12, <1>14, <2>5, <2>6
<1>20. CASE c = 0
  <2>1. PICK e : e = base[p + 1]
    OBVIOUS
  <2>2. k = <<e>> /\ q = p + 1 /\ q \in 1..n /\ q - 1 = p
    <3>1. k = <<e>>
      BY ONLY <1>11, <1>20, <2>1
    <3>2. q = p + 1 /\ q <= n /\ p \in Nat /\ n \in Nat
      BY <1>3, <1>14, <1>20
    <3> QED
      BY ONLY <3>1, <3>2
  <2>3. e \in T
    <3>1. base[q] \in S
      BY <1>1, <2>2 DEF Pair
    <3> QED
      BY <1>1, <2>1, <2>2, <3>1 DEF Marked
  <2>4. PICK f : f = FoundIn(s, z)
    OBVIOUS
  <2>5. f \in 0..Len(s) /\ f >= cnt[p]
    BY <1>16, <1>18, <2>4
  <2>6. FoundIn(s, z \o <<e>>) = FoundNext(s, e, f)
    BY <1>5, <1>16, <2>3, <2>4, FoundLine
  <2>7. FoundNext(s, e, f) >= cnt[q]
    <3>1. FoundNext(s, e, f) \in 0..Len(s) /\ FoundNext(s, e, f) >= f
          /\ \A j \in 0..(Len(s) - 1) : j <= f /\ e = s[j + 1] => FoundNext(s, e, f) >= j + 1
      BY <1>5, <2>5, FoundNextIs
    <3>2. q \in 0..n /\ n \in 0..n
      BY <2>2
    <3>3. cnt[q] \in Nat
      BY <1>4, <3>2
    <3>4. cnt[p] <= cnt[q] /\ cnt[q] <= cnt[p] + 1 /\ (cnt[q] = cnt[p] + 1 => s[cnt[q]] = base[q])
      BY <1>4, <2>2
    <3>5. CASE cnt[q] = cnt[p]
      BY <1>17, <2>5, <3>1, <3>5
    <3>6. CASE cnt[q] = cnt[p] + 1
      <4>1. e = s[cnt[p] + 1]
        BY <2>1, <2>2, <3>4, <3>6
      <4>2. cnt[q] <= cnt[n]
        <5>1. Counts(Len(base), 0, cnt)
          BY DEF CountsOf
        <5> QED
          BY <1>1, <3>2, <5>1, CountsRise
      <4>3. cnt[p] \in 0..(Len(s) - 1)
        BY <1>4, <1>5, <1>17, <3>6, <4>2
      <4> QED
        BY <2>5, <3>1, <3>6, <4>1, <4>3
    <3> QED
      BY <1>17, <3>3, <3>4, <3>5, <3>6
  <2>8. z \o <<e>> \in Seq(T)
    BY <1>16, <2>3
  <2>9. after.at = q /\ after.out = z \o <<e>>
    BY <1>13, <1>14, <1>15, <2>2
  <2>10. KeepsPart(T, base, s, cnt, after)
    BY <1>1, <1>14, <2>6, <2>7, <2>8, <2>9 DEF KeepsPart
  <2> QED
    BY <1>1, <1>2, <1>12, <1>14, <2>9, <2>10
<1> QED
  BY <1>7, <1>19, <1>20

LEMMA WalkKeeps ==
    ASSUME NEW S, NEW base, NEW a, NEW b, Pair(S, base, a, b), NEW is, Staying(base, a, b, is),
           NEW s, s = Chosen(base, is)
    PROVE  FoundIn(s, Walk(base, a, b).out) = Len(s)
<1>1. PICK n \in Nat, T \in {Marked(S)} : n = Len(base) /\ T = Marked(S)
  BY DEF Pair
<1>2. PICK cnt : CountsOf(base, s, cnt) /\ \A i \in 1..Len(base) : i \notin is => cnt[i] = cnt[i - 1]
  BY ChosenCounts DEF Pair
<1>3. cnt \in [0..n -> Nat] /\ cnt[n] = Len(s) /\ cnt[0] <= 0 + 0
  <2>1. 0 \in 0..n
    OBVIOUS
  <2> QED
    BY <1>1, <1>2, <2>1 DEF CountsOf, Counts
<1>4. cnt[0] = 0 /\ Len(s) \in Nat
  <2>1. 0 \in 0..n /\ n \in 0..n
    OBVIOUS
  <2> QED
    BY <1>3, <2>1
<1>5. PICK w, tail : w = Walked(base, a, b) /\ tail = AtPlace(n, a, b)
  OBVIOUS
<1>6. /\ Walk(base, a, b) = [out |-> w[n].out \o tail.out, conflicts |-> w[n].conflicts + tail.conflicts]
      /\ w[0] = [at |-> 0, out |-> <<>>, conflicts |-> 0]
      /\ \A i \in 1..n : w[i] = WalkStep(base, a, b, w[i - 1])
  <2>1. Len(base) \in Nat
    BY <1>1
  <2>2. /\ Walk(base, a, b) = [out |-> Walked(base, a, b)[Len(base)].out \o AtPlace(Len(base), a, b).out,
                               conflicts |-> Walked(base, a, b)[Len(base)].conflicts
                                                + AtPlace(Len(base), a, b).conflicts]
        /\ Walked(base, a, b)[0] = [at |-> 0, out |-> <<>>, conflicts |-> 0]
        /\ \A i \in 1..Len(base) : Walked(base, a, b)[i] = WalkStep(base, a, b, Walked(base, a, b)[i - 1])
    BY ONLY <2>1, WalkIs
  <2> QED
    BY ONLY <1>1, <1>5, <2>2
<1> DEFINE P == {i \in 0..n : KeepsPart(T, base, s, cnt, w[i]) /\ w[i].at >= i}
<1>7. 0 \in P
  <2>1. PICK e : e = <<>>
    OBVIOUS
  <2>2. e \in Seq(T)
    BY <2>1
  <2>3. FoundIn(s, e) \in 0..Len(s)
    BY <1>4, <2>2, FoundMore
  <2>4. FoundIn(s, e) >= cnt[0]
    BY <1>4, <2>3
  <2>5. w[0].at = 0 /\ w[0].out = e
    BY <1>6, <2>1
  <2> QED
    BY <1>1, <2>2, <2>4, <2>5 DEF KeepsPart
<1>8. ASSUME NEW i \in P, i \in Nat, i < n PROVE i + 1 \in P
  <2>1. i + 1 \in 1..n /\ (i + 1) - 1 = i /\ i + 1 \in 0..n
    BY <1>8
  <2>2. PICK x : x = w[i]
    OBVIOUS
  <2>3. KeepsPart(T, base, s, cnt, x) /\ x.at >= i /\ x.at \in 0..n
    BY <1>1, <1>8, <2>2 DEF KeepsPart
  <2>4. w[i + 1] = WalkStep(base, a, b, x)
    BY <1>6, <2>1, <2>2
  <2>5. CASE x.at < n
    <3>1. PICK y : y = WalkStep(base, a, b, x)
      OBVIOUS
    <3>2. KeepsPart(T, base, s, cnt, y) /\ y.at > x.at
      BY <1>1, <1>2, <2>3, <2>5, <3>1, StepKeeps
    <3>3. y.at \in 0..n
      BY <1>1, <3>2 DEF KeepsPart
    <3>4. y.at >= i + 1
      BY <1>8, <2>3, <3>2, <3>3
    <3> QED
      BY <2>1, <2>4, <3>1, <3>2, <3>4
  <2>6. CASE x.at = n
    <3>1. x.at >= Len(base)
      BY <1>1, <2>6
    <3>2. w[i + 1] = x
      BY <2>4, <3>1 DEF WalkStep
    <3> QED
      BY <2>1, <2>3, <2>6, <3>2
  <2> QED
    BY <2>3, <2>5, <2>6
<1>9. n \in P
  <2> HIDE DEF P
  <2> QED BY <1>7, <1>8, UpTo
<1>10. PICK x, h : x = w[n].out /\ h = tail.out
  OBVIOUS
<1>11. x \in Seq(T) /\ FoundIn(s, x) >= Len(s)
  <2>1. KeepsPart(T, base, s, cnt, w[n]) /\ w[n].at >= n
    BY <1>9
  <2>2. w[n].at = n
    BY <1>1, <2>1 DEF KeepsPart
  <2> QED
    BY <1>3, <1>10, <2>1, <2>2 DEF KeepsPart
<1>12. h \in Seq(T)
  BY <1>1, <1>5, <1>10, PlaceTyped
<1>13. FoundIn(s, x \o h) >= FoundIn(s, x) /\ FoundIn(s, x) \in 0..Len(s) /\ FoundIn(s, x \o h) \in 0..Len(s)
  BY <1>4, <1>11, <1>12, FoundMore
<1>14. Walk(base, a, b).out = x \o h
  <2>1. PICK y, k : y = w[n].out \o tail.out /\ k = w[n].conflicts + tail.conflicts
    OBVIOUS
  <2>2. Walk(base, a, b) = [out |-> y, conflicts |-> k]
    BY <1>6, <2>1
  <2>3. Walk(base, a, b).out = y
    BY <2>2
  <2>4. y = x \o h
    BY <1>10, <2>1
  <2> QED
    BY <2>3, <2>4
<1> QED
  BY <1>4, <1>11, <1>13, <1>14

(* What a side keeps of base is in it.                                       *)
LEMMA SideKeeps ==
    ASSUME NEW S, NEW base \in Seq(S), NEW side \in Seq(S), NEW ops, ops = diff_lines(base, side),
           NEW is, \A i \in 1..Len(base) : i \in is => ~ Dropped(ops, Len(ops), i - 1), NEW s, s = Chosen(base, is)
    PROVE  FoundIn(s, side) = Len(s)
<1>1. PICK m, e : m = build_change_map(ops, side) /\ e = <<>>
  OBVIOUS
<1>2. MapOf(S, base, side, ops, m)
  BY <1>1, DiffMap
<1>3. Combined(base, m, e) = side
  BY <1>1, <1>2, MapWhole
<1>4. PICK n \in Nat : n = Len(base)
  OBVIOUS
<1>5. Regions(S, e, n) /\ DOMAIN e = {} /\ \A x : ~ Taken(e, x)
  BY <1>1, NoChanges
<1>6. Pair(S, base, m, e)
  BY <1>2, <1>4, <1>5 DEF Pair, MapOf
<1>7. Touched(m) \cap Touched(e) = {}
  BY <1>5 DEF Touched
<1>8. Separate(S, base, m, e)
  BY <1>6, <1>7 DEF Separate
<1>9. Walk(base, m, e) = [out |-> side, conflicts |-> 0]
  BY <1>3, <1>8, WalkApart
<1>10. Staying(base, m, e, is)
  BY <1>2, <1>5 DEF Staying, MapOf
<1>11. FoundIn(s, Walk(base, m, e).out) = Len(s)
  BY <1>6, <1>10, WalkKeeps
<1> QED
  BY <1>9, <1>11

(* The lines of base that a script takes away, as KeptLinesSurvive has them. *)
RemovedBy(ops) == UNION {op.old..(op.old + op.n - 1) : op \in {o \in ToSet(ops) : o.kind = "del"}}

LEMMA RemovedIs ==
    ASSUME NEW S, NEW base \in Seq(S), NEW side \in Seq(S), NEW ops, ops = diff_lines(base, side), NEW x
    PROVE  x \in RemovedBy(ops) <=> Dropped(ops, Len(ops), x)
<1>1. PICK at : Leads(S, base, side, ops, at)
  BY DiffLeads
<1>2. ops \in Seq(DiffOps)
  BY <1>1 DEF Leads, Along
<1>3. ToSet(ops) = {ops[k] : k \in 1..Len(ops)}
  BY <1>2 DEF ToSet
<1> QED
  BY <1>3 DEF RemovedBy, Dropped

LEMMA MergeKeeps ==
    ASSUME NEW S, NEW base \in Seq(S), NEW ours \in Seq(S), NEW theirs \in Seq(S), NEW is,
           is = {i \in 1..Len(base) : i - 1 \notin RemovedBy(diff_lines(base, ours)) \cup RemovedBy(diff_lines(base, theirs))},
           NEW s, s = Chosen(base, is)
    PROVE  FoundIn(s, three_way_merge(base, ours, theirs).out) = Len(s)
<1>1. PICK ops, ops2 : ops = diff_lines(base, ours) /\ ops2 = diff_lines(base, theirs)
  OBVIOUS
<1>2. \A i \in 1..Len(base) : i \in is => ~ Dropped(ops, Len(ops), i - 1)
  <2> SUFFICES ASSUME NEW i \in 1..Len(base), i \in is PROVE ~ Dropped(ops, Len(ops), i - 1)
    OBVIOUS
  <2>1. i - 1 \notin RemovedBy(ops)
    BY <1>1
  <2> QED
    BY <1>1, <2>1, RemovedIs
<1>3. \A i \in 1..Len(base) : i \in is => ~ Dropped(ops2, Len(ops2), i - 1)
  <2> SUFFICES ASSUME NEW i \in 1..Len(base), i \in is PROVE ~ Dropped(ops2, Len(ops2), i - 1)
    OBVIOUS
  <2>1. i - 1 \notin RemovedBy(ops2)
    BY <1>1
  <2> QED
    BY <1>1, <2>1, RemovedIs
<1>4. FoundIn(s, ours) = Len(s) /\ FoundIn(s, theirs) = Len(s)
  BY <1>1, <1>2, <1>3, SideKeeps
<1>5. CASE ours = theirs \/ base = theirs \/ base = ours
  BY <1>4, <1>5 DEF three_way_merge
<1>6. CASE ours # theirs /\ base # theirs /\ base # ours
  <2>1. PICK o, t : o = build_change_map(ops, ours) /\ t = build_change_map(ops2, theirs)
    OBVIOUS
  <2>2. MapOf(S, base, ours, ops, o) /\ MapOf(S, base, theirs, ops2, t)
    BY <1>1, <2>1, DiffMap
  <2>3. Pair(S, base, o, t) /\ Staying(base, o, t, is)
    BY <1>2, <1>3, <2>2 DEF Pair, Staying, MapOf
  <2>4. FoundIn(s, Walk(base, o, t).out) = Len(s)
    BY <2>3, WalkKeeps
  <2> QED
    BY <1>1, <1>6, <2>1, <2>4 DEF three_way_merge
<1> QED
  BY <1>5, <1>6

-----------------------------------------------------------------------------
(* Actions, line by line, and the hunks cut from them.                       *)

(* A run of single lines taken away, or put in.                              *)
EditRun(k, x, n) ==
    [i \in 1..n |-> DiffOp(k, IF k = "ins" THEN 0 ELSE x + i - 1, IF k = "ins" THEN x + i - 1 ELSE 0, 1)]
ColBy(k, c, j) == IF k = "ins" THEN c ELSE c + j
RowBy(k, r, j) == IF k = "ins" THEN r + j ELSE r
Single(ops) == \A i \in 1..Len(ops) : ops[i].n = 1

LEMMA EditRunIs ==
    ASSUME NEW old, NEW new, NEW k \in {"ins", "del"}, NEW c \in Nat, NEW r \in Nat, NEW m \in Nat, NEW l \in Kinds,
           k = "del" => l # "ins", NEW n \in Nat, n > 0
    PROVE  /\ Script(old, new, EditRun(k, IF k = "ins" THEN r ELSE c, n), PlaceAt(c, r, m, l),
                     PlaceAt(ColBy(k, c, n), RowBy(k, r, n), m, k))
           /\ Single(EditRun(k, IF k = "ins" THEN r ELSE c, n))
           /\ EditRun(k, IF k = "ins" THEN r ELSE c, n) \in Seq(DiffOps)
<1>1. PICK at : at = [i \in 0..n |-> PlaceAt(ColBy(k, c, i), RowBy(k, r, i), m, IF i = 0 THEN l ELSE k)]
  OBVIOUS
<1>2. PICK x \in Nat : x = (IF k = "ins" THEN r ELSE c)
  OBVIOUS
<1>0. PICK ops : ops = EditRun(k, x, n)
  OBVIOUS
<1>3. k \in Kinds
  BY DEF Kinds
<1>4. \A i \in 1..n : /\ ops[i] = DiffOp(k, IF k = "ins" THEN 0 ELSE x + i - 1, IF k = "ins" THEN x + i - 1 ELSE 0, 1)
                      /\ x + i - 1 \in Nat /\ ops[i].n = 1
  BY <1>2, <1>0 DEF EditRun, DiffOp
<1>5. \A i \in 1..n : ops[i] \in DiffOps
  <2> SUFFICES ASSUME NEW i \in 1..n PROVE ops[i] \in DiffOps
    OBVIOUS
  <2>1. PICK a \in Nat, b \in Nat : a = (IF k = "ins" THEN 0 ELSE x + i - 1) /\ b = (IF k = "ins" THEN x + i - 1 ELSE 0)
    BY <1>4
  <2>2. PICK one \in Nat : one = 1
    OBVIOUS
  <2>3. ops[i] = DiffOp(k, a, b, one)
    BY <1>4, <2>1, <2>2
  <2>4. k \in Kinds /\ a \in Nat /\ b \in Nat /\ one \in Nat
    BY <1>3
  <2>5. DiffOp(k, a, b, one) \in DiffOps
    BY ONLY <2>4, DiffOpIs
  <2> QED
    BY ONLY <2>3, <2>5
<1>6. ops \in Seq(DiffOps) /\ Len(ops) = n
  BY <1>2, <1>0, <1>5 DEF EditRun
<1>7. \A i \in 0..n : at[i] = PlaceAt(ColBy(k, c, i), RowBy(k, r, i), m, IF i = 0 THEN l ELSE k)
  BY <1>1
<1>8. \A i \in 0..n : at[i] \in Places
  <2> SUFFICES ASSUME NEW i \in 0..n PROVE at[i] \in Places
    OBVIOUS
  <2>1. PICK z \in Kinds : z = IF i = 0 THEN l ELSE k
    BY <1>3
  <2>2. PICK c0 \in Nat, r0 \in Nat : c0 = ColBy(k, c, i) /\ r0 = RowBy(k, r, i)
    <3>1. i \in Nat
      OBVIOUS
    <3>2. ColBy(k, c, i) \in Nat /\ RowBy(k, r, i) \in Nat
      BY <3>1 DEF ColBy, RowBy
    <3> QED
      BY <3>2
  <2>3. at[i] = PlaceAt(c0, r0, m, z)
    BY <1>7, <2>1, <2>2
  <2>4. c0 \in Nat /\ r0 \in Nat /\ m \in Nat /\ z \in Kinds
    OBVIOUS
  <2>5. PlaceAt(c0, r0, m, z) \in Places
    BY ONLY <2>4, PlaceAtIs
  <2> QED
    BY ONLY <2>3, <2>5
<1>9. ASSUME NEW i \in 1..n PROVE Follows(old, new, ops[i], at[i - 1], at[i])
  <2>1. PICK z \in Kinds : z = (IF i - 1 = 0 THEN l ELSE k) /\ (k = "del" => z # "ins")
    BY <1>3
  <2>2. PICK c0 \in Nat, r0 \in Nat : c0 = ColBy(k, c, i - 1) /\ r0 = RowBy(k, r, i - 1)
    <3>1. i - 1 \in Nat
      OBVIOUS
    <3>2. ColBy(k, c, i - 1) \in Nat /\ RowBy(k, r, i - 1) \in Nat
      BY <3>1 DEF ColBy, RowBy
    <3> QED
      BY <3>2
  <2>3. i - 1 \in 0..n /\ i \in 0..n /\ i # 0
    OBVIOUS
  <2>4. at[i - 1] = PlaceAt(c0, r0, m, z)
    BY <1>7, <2>1, <2>2, <2>3
  <2>5. PICK c1 \in Nat, r1 \in Nat : c1 = ColBy(k, c, i) /\ r1 = RowBy(k, r, i)
    BY DEF ColBy, RowBy
  <2>6. at[i] = PlaceAt(c1, r1, m, k)
    BY <1>7, <2>3, <2>5
  <2>7. PICK p, q, op : p = at[i - 1] /\ q = at[i] /\ op = ops[i]
    OBVIOUS
  <2>8. p.col = c0 /\ p.row = r0 /\ p.kept = m /\ p.last = z
    BY <2>4, <2>7 DEF PlaceAt
  <2>9. op.n = 1
    BY <1>4, <2>7
  <2>10. CASE k = "ins"
    <3>1. c1 = c0 /\ r1 = r0 + 1 /\ r0 = x + i - 1
      BY <1>2, <1>0, <2>2, <2>5, <2>10 DEF ColBy, RowBy
    <3>2. op = DiffOp("ins", 0, r0, 1)
      BY <1>4, <2>7, <2>10, <3>1
    <3>3. InsStep(op, p, q)
      BY <2>6, <2>7, <2>8, <2>9, <2>10, <3>1, <3>2 DEF InsStep
    <3> QED
      BY <2>7, <2>9, <3>3 DEF Follows
  <2>11. CASE k = "del"
    <3>1. c1 = c0 + 1 /\ r1 = r0 /\ c0 = x + i - 1
      BY <1>2, <1>0, <2>2, <2>5, <2>11 DEF ColBy, RowBy
    <3>2. op = DiffOp("del", c0, 0, 1)
      BY <1>4, <2>7, <2>11, <3>1
    <3>3. DelStep(op, p, q)
      BY <2>1, <2>6, <2>7, <2>8, <2>9, <2>11, <3>1, <3>2 DEF DelStep
    <3> QED
      BY <2>7, <2>9, <3>3 DEF Follows
  <2> QED
    BY <2>10, <2>11
<1>10. Along(old, new, ops, at)
  BY <1>1, <1>6, <1>8, <1>9 DEF Along
<1>11. at[0] = PlaceAt(c, r, m, l)
  <2>1. ColBy(k, c, 0) = c /\ RowBy(k, r, 0) = r /\ 0 \in 0..n
    BY DEF ColBy, RowBy
  <2> QED
    BY <1>7, <2>1
<1>12. at[n] = PlaceAt(ColBy(k, c, n), RowBy(k, r, n), m, k)
  BY <1>7
<1>13. Script(old, new, ops, PlaceAt(c, r, m, l), PlaceAt(ColBy(k, c, n), RowBy(k, r, n), m, k))
  BY <1>6, <1>10, <1>11, <1>12 DEF Script
<1>14. Single(ops)
  BY <1>4, <1>6 DEF Single
<1> QED
  BY <1>2, <1>0, <1>6, <1>13, <1>14

(* The lines of a step, one by one.                                          *)
RunOf(op) ==
    [j \in 1..op.n |->
        DiffOp(op.kind, Pick(op.kind = "ins", 0, op.old + j - 1), Pick(op.kind = "del", 0, op.new + j - 1), 1)]

LEMMA RunOfIs ==
    ASSUME NEW old, NEW new, NEW op, NEW p \in Places, NEW q, Follows(old, new, op, p, q)
    PROVE  Script(old, new, RunOf(op), p, q) /\ Single(RunOf(op)) /\ RunOf(op) \in Seq(DiffOps)
<1>1. PICK n \in Nat : n = op.n /\ n > 0
  BY DEF Follows
<1>2. PICK c \in Nat, r \in Nat, m \in Nat, l \in Kinds : c = p.col /\ r = p.row /\ m = p.kept /\ l = p.last
  BY PlaceParts
<1>3. p = PlaceAt(c, r, m, l)
  BY <1>2, PlaceParts
<1>4. CASE EqStep(old, new, op, p, q)
  <2>1. op = DiffOp("eq", c, r, n) /\ q = PlaceAt(c + n, r + n, m + n, "eq") /\ \A i \in 1..n : old[c + i] = new[r + i]
    BY <1>1, <1>2, <1>4 DEF EqStep
  <2>2. op.kind = "eq" /\ op.old = c /\ op.new = r
    BY <2>1 DEF DiffOp
  <2>3. RunOf(op) = EqRun(c, r, n)
    BY <1>1, <2>2 DEF RunOf, EqRun, Pick
  <2>4. Script(old, new, EqRun(c, r, n), PlaceAt(c, r, m, l), PlaceAt(c + n, r + n, m + n, IF n = 0 THEN l ELSE "eq"))
    BY <2>1, EqRunIs
  <2>5. (IF n = 0 THEN l ELSE "eq") = "eq"
    BY <1>1
  <2>6. Script(old, new, EqRun(c, r, n), p, q)
    BY <1>3, <2>1, <2>4, <2>5
  <2>7. EqRun(c, r, n) \in Seq(DiffOps) /\ Len(EqRun(c, r, n)) = n
    BY EqRunTyped
  <2>8. \A i \in 1..n : EqRun(c, r, n)[i].n = 1
    BY DEF EqRun, DiffOp
  <2> QED
    BY <2>3, <2>6, <2>7, <2>8 DEF Single
<1>5. CASE InsStep(op, p, q)
  <2>1. op = DiffOp("ins", 0, r, n) /\ q = PlaceAt(c, r + n, m, "ins")
    BY <1>1, <1>2, <1>5 DEF InsStep
  <2>2. op.kind = "ins" /\ op.old = 0 /\ op.new = r
    BY <2>1 DEF DiffOp
  <2>3. RunOf(op) = EditRun("ins", r, n)
    BY <1>1, <2>2 DEF RunOf, EditRun, Pick
  <2>4. PICK k \in {"ins", "del"}, x \in {r, c} : k = "ins" /\ x = IF k = "ins" THEN r ELSE c
    OBVIOUS
  <2>5. Script(old, new, EditRun(k, x, n), PlaceAt(c, r, m, l), PlaceAt(ColBy(k, c, n), RowBy(k, r, n), m, k))
        /\ Single(EditRun(k, x, n)) /\ EditRun(k, x, n) \in Seq(DiffOps)
    BY <1>1, <2>4, EditRunIs
  <2>6. ColBy("ins", c, n) = c /\ RowBy("ins", r, n) = r + n
    BY DEF ColBy, RowBy
  <2> QED
    BY <1>3, <2>1, <2>3, <2>4, <2>5, <2>6
<1>6. CASE DelStep(op, p, q)
  <2>1. op = DiffOp("del", c, 0, n) /\ q = PlaceAt(c + n, r, m, "del") /\ l # "ins"
    BY <1>1, <1>2, <1>6 DEF DelStep
  <2>2. op.kind = "del" /\ op.old = c /\ op.new = 0
    BY <2>1 DEF DiffOp
  <2>3. RunOf(op) = EditRun("del", c, n)
    BY <1>1, <2>2 DEF RunOf, EditRun, Pick
  <2>4. PICK k \in {"ins", "del"}, x \in {r, c} : k = "del" /\ x = IF k = "ins" THEN r ELSE c
    OBVIOUS
  <2>5. Script(old, new, EditRun(k, x, n), PlaceAt(c, r, m, l), PlaceAt(ColBy(k, c, n), RowBy(k, r, n), m, k))
        /\ Single(EditRun(k, x, n)) /\ EditRun(k, x, n) \in Seq(DiffOps)
    BY <1>1, <2>1, <2>4, EditRunIs
  <2>6. ColBy("del", c, n) = c + n /\ RowBy("del", r, n) = r
    BY DEF ColBy, RowBy
  <2> QED
    BY <1>3, <2>1, <2>3, <2>4, <2>5, <2>6
<1> QED
  BY <1>4, <1>5, <1>6 DEF Follows

(* Line by line, the actions of a script lead the same way.                  *)
LEMMA ActionsAre ==
    ASSUME NEW old, NEW new, NEW ops, NEW p, NEW q, Script(old, new, ops, p, q)
    PROVE  Script(old, new, expand_ops_to_actions(ops), p, q) /\ Single(expand_ops_to_actions(ops))
<1>1. PICK at : Along(old, new, ops, at) /\ at[0] = p /\ at[Len(ops)] = q
  BY DEF Script
<1>2. PICK n \in Nat : n = Len(ops)
  BY <1>1 DEF Along
<1>3. at \in [0..n -> Places] /\ \A i \in 1..n : Follows(old, new, ops[i], at[i - 1], at[i])
  BY <1>1, <1>2 DEF Along
<1>4. PICK parts : parts = [i \in 1..n |-> RunOf(ops[i])]
  OBVIOUS
<1>5. \A i \in 1..n : /\ Script(old, new, parts[i], at[i - 1], at[i]) /\ Single(parts[i])
                      /\ parts[i] \in Seq(DiffOps)
  <2> SUFFICES ASSUME NEW i \in 1..n
               PROVE  Script(old, new, parts[i], at[i - 1], at[i]) /\ Single(parts[i]) /\ parts[i] \in Seq(DiffOps)
    OBVIOUS
  <2>1. PICK a \in Places, b \in {at[i]} : a = at[i - 1] /\ b = at[i] /\ Follows(old, new, ops[i], a, b)
    BY <1>3
  <2>2. Script(old, new, RunOf(ops[i]), a, b) /\ Single(RunOf(ops[i])) /\ RunOf(ops[i]) \in Seq(DiffOps)
    BY <2>1, RunOfIs
  <2> QED
    BY <1>4, <2>1, <2>2
<1>6. parts \in Seq(Seq(DiffOps)) /\ Len(parts) = n
  BY <1>4, <1>5
<1>7. PICK w : FlatBy(DiffOps, parts, w)
  BY <1>6, FlattenIs
<1>8. w \in [0..n -> Seq(DiffOps)] /\ w[0] = <<>> /\ FlattenSeq(parts) = w[n] /\ \A i \in 1..n : w[i] = w[i - 1] \o parts[i]
  BY <1>6, <1>7 DEF FlatBy
<1>9. expand_ops_to_actions(ops) = w[n]
  BY <1>2, <1>4, <1>8 DEF expand_ops_to_actions, RunOf
<1> DEFINE P == {i \in 0..n : Script(old, new, w[i], at[0], at[i]) /\ Single(w[i])}
<1>10. 0 \in P
  <2>1. at[0] \in Places
    BY <1>3
  <2>2. Script(old, new, <<>>, at[0], at[0])
    BY <2>1, ScriptEmpty
  <2> QED
    BY <1>8, <2>2 DEF Single
<1>11. ASSUME NEW i \in P, i \in Nat, i < n PROVE i + 1 \in P
  <2>1. i + 1 \in 1..n /\ (i + 1) - 1 = i /\ i + 1 \in 0..n /\ i \in 0..n
    BY <1>11
  <2>2. Script(old, new, parts[i + 1], at[i], at[i + 1]) /\ Single(parts[i + 1]) /\ w[i + 1] = w[i] \o parts[i + 1]
    BY <1>5, <1>8, <2>1
  <2>3. Script(old, new, w[i] \o parts[i + 1], at[0], at[i + 1])
    BY <1>11, <2>2, ScriptConcat
  <2>4. PICK a \in Seq(DiffOps), b \in Seq(DiffOps) : a = w[i] /\ b = parts[i + 1]
    BY <1>5, <1>8, <2>1
  <2>5. Single(a) /\ Single(b)
    BY <1>11, <2>2, <2>4
  <2>6. Len(a \o b) = Len(a) + Len(b) /\ \A j \in 1..(Len(a) + Len(b)) : (a \o b)[j] = IF j <= Len(a) THEN a[j] ELSE b[j - Len(a)]
    BY ONLY <2>4, ConcatProperties
  <2>7. Single(a \o b)
    BY <2>5, <2>6 DEF Single
  <2> QED
    BY <2>1, <2>2, <2>3, <2>4, <2>7
<1>12. n \in P
  <2> HIDE DEF P
  <2> QED BY <1>10, <1>11, UpTo
<1> QED
  BY <1>1, <1>2, <1>9, <1>12

(* What one action does: from line c of old and r of new to c2 and r2.       *)
OneStep(old, new, a, c, r, c2, r2) ==
    \/ /\ a.kind = "eq" /\ a.old = c /\ a.new = r
       /\ c2 = c + 1 /\ r2 = r + 1 /\ old[c2] = new[r2]
    \/ a.kind = "ins" /\ a.new = r /\ c2 = c /\ r2 = r + 1
    \/ a.kind = "del" /\ a.old = c /\ c2 = c + 1 /\ r2 = r

(* After i actions X[i] lines of old and Y[i] lines of new are passed.       *)
Passes(old, new, A, X, Y, N) ==
    /\ N \in Nat /\ A \in Seq(DiffOps) /\ Len(A) = N
    /\ X \in [0..N -> Nat] /\ Y \in [0..N -> Nat]
    /\ X[0] = 0 /\ Y[0] = 0 /\ X[N] = Len(old) /\ Y[N] = Len(new)
    /\ \A i \in 1..N : OneStep(old, new, A[i], X[i - 1], Y[i - 1], X[i], Y[i])

LEMMA SingleStep ==
    ASSUME NEW old, NEW new, NEW op, op.n = 1, NEW p \in Places, NEW q, Follows(old, new, op, p, q)
    PROVE  OneStep(old, new, op, p.col, p.row, q.col, q.row)
<1>1. PICK c \in Nat, r \in Nat, m \in Nat : c = p.col /\ r = p.row /\ m = p.kept
  BY PlaceParts
<1>2. CASE EqStep(old, new, op, p, q)
  <2>1. op = DiffOp("eq", c, r, 1) /\ q = PlaceAt(c + 1, r + 1, m + 1, "eq") /\ \A i \in 1..op.n : old[c + i] = new[r + i]
    BY <1>1, <1>2 DEF EqStep
  <2>2. op.kind = "eq" /\ op.old = c /\ op.new = r
    BY <2>1 DEF DiffOp
  <2>3. q.col = c + 1 /\ q.row = r + 1
    BY <2>1 DEF PlaceAt
  <2>4. old[c + 1] = new[r + 1]
    <3>1. 1 \in 1..op.n
      OBVIOUS
    <3> QED
      BY <2>1, <3>1
  <2> QED
    BY <1>1, <2>2, <2>3, <2>4 DEF OneStep
<1>3. CASE InsStep(op, p, q)
  <2>1. op = DiffOp("ins", 0, r, 1) /\ q = PlaceAt(c, r + 1, m, "ins")
    BY <1>1, <1>3 DEF InsStep
  <2> QED
    BY <1>1, <2>1 DEF OneStep, DiffOp, PlaceAt
<1>4. CASE DelStep(op, p, q)
  <2>1. op = DiffOp("del", c, 0, 1) /\ q = PlaceAt(c + 1, r, m, "del")
    BY <1>1, <1>4 DEF DelStep
  <2> QED
    BY <1>1, <2>1 DEF OneStep, DiffOp, PlaceAt
<1> QED
  BY <1>2, <1>3, <1>4 DEF Follows

LEMMA ActionsWalk ==
    ASSUME NEW S, NEW old \in Seq(S), NEW new \in Seq(S)
    PROVE  \E X, Y, N : Passes(old, new, expand_ops_to_actions(myers_diff(old, new)), X, Y, N)
<1>1. PICK k \in Nat : Edits(old, new, myers_diff(old, new), k)
  BY MyersIs
<1>2. PICK l \in Kinds : Script(old, new, myers_diff(old, new), PlaceAt(0, 0, 0, "eq"), PlaceAt(Len(old), Len(new), k, l))
  BY <1>1 DEF Edits
<1>3. PICK A : A = expand_ops_to_actions(myers_diff(old, new))
  OBVIOUS
<1>4. Script(old, new, A, PlaceAt(0, 0, 0, "eq"), PlaceAt(Len(old), Len(new), k, l)) /\ Single(A)
  BY <1>2, <1>3, ActionsAre
<1>5. PICK at : Along(old, new, A, at) /\ at[0] = PlaceAt(0, 0, 0, "eq") /\ at[Len(A)] = PlaceAt(Len(old), Len(new), k, l)
  BY <1>4 DEF Script
<1>6. PICK N \in Nat : N = Len(A)
  BY <1>5 DEF Along
<1>7. A \in Seq(DiffOps) /\ at \in [0..N -> Places] /\ \A i \in 1..N : Follows(old, new, A[i], at[i - 1], at[i])
  BY <1>5, <1>6 DEF Along
<1>8. PICK X, Y : X = [i \in 0..N |-> at[i].col] /\ Y = [i \in 0..N |-> at[i].row]
  OBVIOUS
<1>9. \A i \in 0..N : X[i] = at[i].col /\ Y[i] = at[i].row /\ X[i] \in Nat /\ Y[i] \in Nat
  <2> SUFFICES ASSUME NEW i \in 0..N PROVE X[i] = at[i].col /\ Y[i] = at[i].row /\ X[i] \in Nat /\ Y[i] \in Nat
    OBVIOUS
  <2>1. at[i] \in Places
    BY <1>7
  <2>2. at[i].col \in Nat /\ at[i].row \in Nat
    BY <2>1, PlaceParts
  <2> QED
    BY <1>8, <2>2
<1>10. X \in [0..N -> Nat] /\ Y \in [0..N -> Nat]
  BY <1>8, <1>9
<1>11. X[0] = 0 /\ Y[0] = 0 /\ X[N] = Len(old) /\ Y[N] = Len(new)
  <2>1. 0 \in 0..N /\ N \in 0..N
    OBVIOUS
  <2>2. at[0].col = 0 /\ at[0].row = 0
    BY <1>5 DEF PlaceAt
  <2>3. at[N].col = Len(old) /\ at[N].row = Len(new)
    BY <1>5, <1>6 DEF PlaceAt
  <2> QED
    BY <1>9, <2>1, <2>2, <2>3
<1>12. ASSUME NEW i \in 1..N PROVE OneStep(old, new, A[i], X[i - 1], Y[i - 1], X[i], Y[i])
  <2>1. i - 1 \in 0..N /\ i \in 0..N
    OBVIOUS
  <2>2. PICK op, p, q : op = A[i] /\ p = at[i - 1] /\ q = at[i]
    OBVIOUS
  <2>6. p \in Places /\ Follows(old, new, op, p, q)
    BY <1>7, <2>1, <2>2
  <2>3. op.n = 1
    BY <1>4, <1>6, <2>2 DEF Single
  <2>4. OneStep(old, new, op, p.col, p.row, q.col, q.row)
    BY <2>3, <2>6, SingleStep
  <2>5. X[i - 1] = p.col /\ Y[i - 1] = p.row /\ X[i] = q.col /\ Y[i] = q.row
    BY <1>9, <2>1, <2>2
  <2> QED
    BY <2>2, <2>4, <2>5
<1>13. Passes(old, new, A, X, Y, N)
  BY <1>6, <1>7, <1>10, <1>11, <1>12 DEF Passes
<1> QED
  BY <1>3, <1>13

(* The places only go forward.                                               *)
LEMMA PassesOn ==
    ASSUME NEW old, NEW new, NEW A, NEW X, NEW Y, NEW N, Passes(old, new, A, X, Y, N), NEW i \in 0..N, NEW j \in i..N
    PROVE  X[i] <= X[j] /\ Y[i] <= Y[j] /\ X[i] \in Nat /\ Y[i] \in Nat /\ X[j] \in Nat /\ Y[j] \in Nat
<1>1. N \in Nat /\ \A x \in 0..N : X[x] \in Nat /\ Y[x] \in Nat
  BY DEF Passes
<1>2. PICK d \in Nat : d = j - i
  BY <1>1
<1> DEFINE P == {x \in 0..d : X[i] <= X[i + x] /\ Y[i] <= Y[i + x]}
<1>3. 0 \in P
  <2>1. i + 0 = i
    BY <1>1
  <2> QED
    BY <1>1, <2>1
<1>4. ASSUME NEW x \in P, x \in Nat, x < d PROVE x + 1 \in P
  <2>1. PICK y \in 0..N : y = i + x /\ y + 1 \in 1..N /\ (y + 1) - 1 = y /\ i + (x + 1) = y + 1
    BY <1>1, <1>2, <1>4
  <2>2. OneStep(old, new, A[y + 1], X[y], Y[y], X[y + 1], Y[y + 1])
    BY <2>1 DEF Passes
  <2>3. X[y] \in Nat /\ Y[y] \in Nat /\ X[y + 1] \in Nat /\ Y[y + 1] \in Nat /\ X[i] \in Nat /\ Y[i] \in Nat
    BY <1>1, <2>1
  <2>4. X[y] <= X[y + 1] /\ Y[y] <= Y[y + 1]
    BY <2>2, <2>3 DEF OneStep
  <2>5. X[i] <= X[y] /\ Y[i] <= Y[y]
    BY <1>4, <2>1
  <2>6. X[i] <= X[y + 1] /\ Y[i] <= Y[y + 1]
    BY <2>3, <2>4, <2>5
  <2> QED
    BY <1>4, <2>1, <2>6
<1>5. d \in P
  <2> HIDE DEF P
  <2> QED BY <1>3, <1>4, UpTo
<1>6. i + d = j
  BY <1>1, <1>2
<1> QED
  BY <1>1, <1>5, <1>6

(* pos counts the chosen places of a list of n.                              *)
CountedBy(n, is, pos) ==
    /\ n \in Nat /\ pos \in [0..n -> Nat]
    /\ \A i \in 1..n : pos[i] = pos[i - 1] + (IF i \in is THEN 1 ELSE 0)

LEMMA ChosenCount ==
    ASSUME NEW T, NEW list \in Seq(T), NEW n, Len(list) = n, NEW is, NEW pos, CountedBy(n, is, pos)
    PROVE  Len(Chosen(list, is)) = pos[n] - pos[0] /\ pos[0] <= pos[n]
<1>1. n \in Nat /\ \A i \in 0..n : pos[i] \in Nat
  BY DEF CountedBy
<1>2. PICK w : KeptBy(list, is, w)
  BY <1>1, ChosenIs
<1> DEFINE P == {i \in 0..n : w[i] \in Seq(T) /\ Len(w[i]) = pos[i] - pos[0]}
<1>3. 0 \in P
  <2>1. w[0] = <<>> /\ <<>> \in Seq(T) /\ Len(<<>>) = 0 /\ 0 \in 0..n
    BY <1>1, <1>2 DEF KeptBy
  <2>2. w[0] \in Seq(T) /\ Len(w[0]) = pos[0] - pos[0]
    <3>1. pos[0] - pos[0] = 0
      BY <1>1, <2>1
    <3> QED
      BY <2>1, <3>1
  <2> QED
    BY <2>1, <2>2
<1>4. ASSUME NEW i \in P, i \in Nat, i < n PROVE i + 1 \in P
  <2>1. i + 1 \in 1..n /\ (i + 1) - 1 = i /\ i + 1 \in 0..n /\ 0 \in 0..n
    BY <1>1, <1>4
  <2>2. w[i + 1] = IF i + 1 \in is THEN Append(w[i], list[i + 1]) ELSE w[i]
    BY <1>2, <2>1 DEF KeptBy
  <2>3. pos[i + 1] = pos[i] + (IF i + 1 \in is THEN 1 ELSE 0)
    BY <2>1 DEF CountedBy
  <2>4. PICK s \in Seq(T), e \in T : s = w[i] /\ e = list[i + 1]
    BY <1>4, <2>1
  <2>5. Append(s, e) \in Seq(T) /\ Len(Append(s, e)) = Len(s) + 1
    BY <2>4
  <2>6. Len(s) = pos[i] - pos[0] /\ pos[i] \in Nat /\ pos[0] \in Nat
    BY <1>1, <1>4, <2>1, <2>4
  <2>7. w[i + 1] \in Seq(T) /\ Len(w[i + 1]) = pos[i + 1] - pos[0]
    <3>1. CASE i + 1 \in is
      BY <2>2, <2>3, <2>4, <2>5, <2>6, <3>1
    <3>2. CASE i + 1 \notin is
      BY <2>2, <2>3, <2>4, <2>6, <3>2
    <3> QED
      BY <3>1, <3>2
  <2> QED
    BY <2>1, <2>7
<1>5. n \in P
  <2> HIDE DEF P
  <2> QED BY <1>1, <1>3, <1>4, UpTo
<1>6. Chosen(list, is) = w[n]
  BY <1>2 DEF KeptBy
<1>7. w[n] \in Seq(T) /\ Len(w[n]) = pos[n] - pos[0] /\ pos[n] \in Nat /\ pos[0] \in Nat
  BY <1>1, <1>5
<1> QED
  BY <1>6, <1>7

(* The chosen lines are the lines of text that pos counts.                   *)
SideOf(S, list, n, is, text, pos) ==
    /\ text \in Seq(S) /\ CountedBy(n, is, pos) /\ Len(list) = n
    /\ \A i \in 0..n : pos[i] <= Len(text)
    /\ \A i \in 1..n : i \in is => list[i] = text[pos[i]]

HasPart(S, text, o, s, k) ==
    s \in Seq(S) /\ k >= o /\ Len(s) = k - o /\ \A j \in 1..(k - o) : s[j] = text[o + j]

LEMMA SideIs ==
    ASSUME NEW S, NEW list, NEW n, NEW is, NEW text, NEW pos, SideOf(S, list, n, is, text, pos)
    PROVE  Chosen(list, is) = SubSeq(text, pos[0] + 1, pos[n]) /\ pos[0] <= pos[n]
<1>1. n \in Nat /\ \A i \in 0..n : pos[i] \in Nat /\ pos[i] <= Len(text)
  BY DEF SideOf, CountedBy
<1>2. PICK w : KeptBy(list, is, w)
  BY <1>1, ChosenIs DEF SideOf
<1>3. PICK o \in Nat : o = pos[0]
  BY <1>1
<1> DEFINE Has(s, k) == HasPart(S, text, o, s, k)
           P == {i \in 0..n : Has(w[i], pos[i])}
<1>4. 0 \in P
  <2>1. w[0] = <<>> /\ <<>> \in Seq(S) /\ Len(<<>>) = 0 /\ 0 \in 0..n /\ pos[0] = o /\ o - o = 0 /\ 1..0 = {}
    BY <1>1, <1>2, <1>3 DEF KeptBy
  <2>2. HasPart(S, text, o, <<>>, o)
    BY <2>1 DEF HasPart
  <2> QED
    BY <2>1, <2>2
<1>5. ASSUME NEW i \in P, i \in Nat, i < n PROVE i + 1 \in P
  <2>1. i + 1 \in 1..n /\ (i + 1) - 1 = i /\ i + 1 \in 0..n
    BY <1>1, <1>5
  <2>2. w[i + 1] = IF i + 1 \in is THEN Append(w[i], list[i + 1]) ELSE w[i]
    BY <1>2, <2>1 DEF KeptBy, SideOf
  <2>3. pos[i + 1] = pos[i] + (IF i + 1 \in is THEN 1 ELSE 0)
    BY <2>1 DEF CountedBy, SideOf
  <2>6. PICK k \in Nat : k = pos[i]
    BY <1>1, <1>5
  <2>7. PICK s : s = w[i]
    OBVIOUS
  <2>4. s = w[i] /\ k = pos[i] /\ HasPart(S, text, o, s, k)
    BY <1>5, <2>6, <2>7
  <2>5. Has(w[i + 1], pos[i + 1])
    <3>1. CASE i + 1 \in is
      <4>1. pos[i + 1] = k + 1 /\ k + 1 <= Len(text)
        BY <1>1, <2>1, <2>3, <2>4, <3>1
      <4>2. PICK e \in S : e = text[k + 1]
        BY <4>1 DEF SideOf
      <4>3. w[i + 1] = Append(s, e)
        BY <2>1, <2>2, <2>4, <3>1, <4>1, <4>2 DEF SideOf
      <4>4. /\ Append(s, e) \in Seq(S) /\ Len(Append(s, e)) = (k - o) + 1
            /\ \A j \in 1..(k - o) : Append(s, e)[j] = s[j]
            /\ Append(s, e)[(k - o) + 1] = e
        BY <1>3, <2>4, <4>2 DEF HasPart
      <4>5. k >= o /\ k + 1 >= o /\ (k + 1) - o = (k - o) + 1 /\ o + ((k - o) + 1) = k + 1
        <5>1. k >= o /\ k \in Nat /\ o \in Nat
          BY <1>3, <2>4 DEF HasPart
        <5> QED
          BY ONLY <5>1
      <4>6. \A j \in 1..((k + 1) - o) : j \in 1..(k - o) \/ j = (k - o) + 1
        BY <1>3, <4>5
      <4>7. HasPart(S, text, o, Append(s, e), k + 1)
        BY <2>4, <4>2, <4>4, <4>5, <4>6 DEF HasPart
      <4> QED
        BY <4>1, <4>3, <4>7
    <3>2. CASE i + 1 \notin is
      BY <1>1, <2>1, <2>2, <2>3, <2>4, <3>2
    <3> QED
      BY <3>1, <3>2
  <2> QED
    BY <2>1, <2>5
<1>6. n \in P
  <2> HIDE DEF P
  <2> QED BY <1>1, <1>4, <1>5, UpTo
<1>7. Chosen(list, is) = w[n]
  BY <1>2 DEF KeptBy, SideOf
<1>16. PICK k \in Nat : k = pos[n] /\ k <= Len(text)
  BY <1>1
<1>17. PICK s : s = w[n]
  OBVIOUS
<1>8. s = w[n] /\ k = pos[n] /\ HasPart(S, text, o, s, k) /\ k <= Len(text)
  BY <1>6, <1>16, <1>17
<1>9. PICK d \in Nat : d = k - o
  BY <1>3, <1>8 DEF HasPart
<1>10. o + d = k /\ text \in Seq(S) /\ k >= o
  BY <1>3, <1>8, <1>9 DEF SideOf, HasPart
<1>11. PICK t : t = SubSeq(text, o + 1, o + d)
  OBVIOUS
<1>15. s \in Seq(S) /\ Len(s) = d /\ \A j \in 1..d : s[j] = text[o + j]
  BY <1>8, <1>9 DEF HasPart
<1>12. t \in Seq(S) /\ Len(t) = d /\ \A j \in 1..d : t[j] = text[o + j]
  BY <1>8, <1>10, <1>11, PartOfIs
<1>13. s \in Seq(S) /\ Len(s) = d /\ \A j \in 1..d : s[j] = t[j]
  BY <1>12, <1>15
<1>14. s = t
  BY ONLY <1>12, <1>13, SeqEqual
<1> QED
  BY <1>3, <1>7, <1>8, <1>10, <1>11, <1>14

(* The line an action shows.                                                 *)
LineOf(old, new, a) == Pick(a.kind = "ins", new, old)[1 + Pick(a.kind = "ins", a.new, a.old)]
OldKinds == {"eq", "del"}
NewKinds == {"eq", "ins"}

LEMMA StepAt ==
    ASSUME NEW old, NEW new, NEW A, NEW X, NEW Y, NEW N, Passes(old, new, A, X, Y, N), NEW i \in 1..N
    PROVE  /\ X[i] = X[i - 1] + (IF A[i].kind \in OldKinds THEN 1 ELSE 0)
           /\ Y[i] = Y[i - 1] + (IF A[i].kind \in NewKinds THEN 1 ELSE 0)
           /\ A[i].kind \in OldKinds => LineOf(old, new, A[i]) = old[X[i]]
           /\ A[i].kind \in NewKinds => LineOf(old, new, A[i]) = new[Y[i]]
           /\ X[i] \in Nat /\ Y[i] \in Nat /\ X[i] <= Len(old) /\ Y[i] <= Len(new) /\ A[i].kind \in Kinds
<1>1. PICK c \in Nat, r \in Nat, c2 \in Nat, r2 \in Nat : c = X[i - 1] /\ r = Y[i - 1] /\ c2 = X[i] /\ r2 = Y[i]
  <2>1. N \in Nat /\ i - 1 \in 0..N /\ i \in 0..N
    BY DEF Passes
  <2> QED
    BY <2>1 DEF Passes
<1>2. PICK a : a = A[i]
  OBVIOUS
<1>3. OneStep(old, new, a, c, r, c2, r2)
  BY <1>1, <1>2 DEF Passes
<1>4. c2 <= Len(old) /\ r2 <= Len(new)
  <2>1. N \in Nat /\ i \in 0..N /\ N \in i..N
    BY DEF Passes
  <2>2. X[i] <= X[N] /\ Y[i] <= Y[N]
    BY <2>1, PassesOn
  <2> QED
    BY <1>1, <2>2 DEF Passes
<1>5. CASE a.kind = "eq"
  <2>1. a.old = c /\ a.new = r /\ c2 = c + 1 /\ r2 = r + 1 /\ old[c2] = new[r2]
    BY <1>3, <1>5 DEF OneStep
  <2>2. LineOf(old, new, a) = old[1 + c]
    BY <1>5, <2>1 DEF LineOf, Pick
  <2>3. 1 + c = c2
    BY <2>1
  <2> QED
    BY <1>1, <1>2, <1>4, <1>5, <2>1, <2>2, <2>3 DEF OldKinds, NewKinds, Kinds
<1>6. CASE a.kind = "ins"
  <2>1. a.new = r /\ c2 = c /\ r2 = r + 1
    BY <1>3, <1>6 DEF OneStep
  <2>2. LineOf(old, new, a) = new[1 + r]
    BY <1>6, <2>1 DEF LineOf, Pick
  <2>3. 1 + r = r2
    BY <2>1
  <2> QED
    BY <1>1, <1>2, <1>4, <1>6, <2>1, <2>2, <2>3 DEF OldKinds, NewKinds, Kinds
<1>7. CASE a.kind = "del"
  <2>1. a.old = c /\ c2 = c + 1 /\ r2 = r
    BY <1>3, <1>7 DEF OneStep
  <2>2. LineOf(old, new, a) = old[1 + c]
    BY <1>7, <2>1 DEF LineOf, Pick
  <2>3. 1 + c = c2
    BY <2>1
  <2> QED
    BY <1>1, <1>2, <1>4, <1>7, <2>1, <2>2, <2>3 DEF OldKinds, NewKinds, Kinds
<1> QED
  BY <1>3, <1>5, <1>6, <1>7 DEF OneStep

(* The actions f + 1 up to f + n, and the lines they show.                   *)
BodyOf(old, new, A, f, n, body, list) ==
    /\ Len(body) = n /\ body \in Seq(DiffOps) /\ \A i \in 1..n : body[i] = A[f + i]
    /\ list = [i \in 1..n |-> LineOf(old, new, body[i])]
Span(S, old, new, A, X, Y, N, f, n) ==
    /\ old \in Seq(S) /\ new \in Seq(S) /\ Passes(old, new, A, X, Y, N)
    /\ f \in Nat /\ n \in Nat /\ f + n <= N

LEMMA OldSide ==
    ASSUME NEW S, NEW old, NEW new, NEW A, NEW X, NEW Y, NEW N, NEW f, NEW n, Span(S, old, new, A, X, Y, N, f, n),
           NEW body, NEW list, BodyOf(old, new, A, f, n, body, list)
    PROVE  /\ Chosen(list, OfKinds(body, OldKinds)) = SubSeq(old, X[f] + 1, X[f + n])
           /\ Len(Chosen(body, OfKinds(body, OldKinds))) = X[f + n] - X[f] /\ X[f] <= X[f + n]
<1>1. N \in Nat /\ f \in Nat /\ n \in Nat /\ f + n <= N /\ X \in [0..N -> Nat] /\ Passes(old, new, A, X, Y, N)
      /\ old \in Seq(S)
  BY DEF Span, Passes
<1>2. Len(body) = n /\ body \in Seq(DiffOps) /\ (\A i \in 1..n : body[i] = A[f + i]) /\ list = [i \in 1..n |-> LineOf(old, new, body[i])]
  BY DEF BodyOf
<1>3. PICK pos : pos = [i \in 0..n |-> X[f + i]]
  OBVIOUS
<1>4. PICK is : is = OfKinds(body, OldKinds)
  OBVIOUS
<1>5. \A i \in 0..n : pos[i] = X[f + i] /\ pos[i] \in Nat /\ pos[i] <= Len(old)
  <2> SUFFICES ASSUME NEW i \in 0..n PROVE pos[i] = X[f + i] /\ pos[i] \in Nat /\ pos[i] <= Len(old)
    OBVIOUS
  <2>1. PICK x \in 0..N : x = f + i /\ N \in x..N
    BY <1>1
  <2>2. X[x] <= X[N] /\ X[x] \in Nat
    BY <1>1, <2>1, PassesOn
  <2>3. X[N] = Len(old)
    BY <1>1 DEF Passes
  <2> QED
    BY <1>3, <2>1, <2>2, <2>3
<1>6. ASSUME NEW i \in 1..n
      PROVE  pos[i] = pos[i - 1] + (IF i \in is THEN 1 ELSE 0) /\ (i \in is => list[i] = old[pos[i]])
  <2>1. PICK x \in 1..N : x = f + i /\ x - 1 = f + (i - 1) /\ i - 1 \in 0..n /\ i \in 0..n
    BY <1>1
  <2>2. i \in is <=> A[x].kind \in OldKinds
    BY <1>2, <1>4, <2>1 DEF OfKinds
  <2>3. list[i] = LineOf(old, new, A[x])
    BY <1>2, <2>1
  <2>4. pos[i] = X[x] /\ pos[i - 1] = X[x - 1]
    BY <1>5, <2>1
  <2>6. x \in 1..N /\ Passes(old, new, A, X, Y, N)
    BY <1>1
  <2>5. X[x] = X[x - 1] + (IF A[x].kind \in OldKinds THEN 1 ELSE 0)
        /\ (A[x].kind \in OldKinds => LineOf(old, new, A[x]) = old[X[x]])
    BY ONLY <2>6, StepAt
  <2> QED
    BY <2>2, <2>3, <2>4, <2>5
<1>7. CountedBy(n, is, pos)
  <2>1. pos \in [0..n -> Nat]
    BY <1>3, <1>5
  <2> QED
    BY <1>1, <1>6, <2>1 DEF CountedBy
<1>8. SideOf(S, list, n, is, old, pos)
  <2>1. Len(list) = n
    BY <1>1, <1>2
  <2> QED
    BY <1>1, <1>5, <1>6, <1>7, <2>1 DEF SideOf
<1>9. Chosen(list, is) = SubSeq(old, pos[0] + 1, pos[n]) /\ pos[0] <= pos[n]
  BY <1>8, SideIs
<1>10. Len(Chosen(body, is)) = pos[n] - pos[0]
  BY <1>2, <1>7, ChosenCount
<1>11. pos[0] = X[f] /\ pos[n] = X[f + n]
  <2>1. 0 \in 0..n /\ n \in 0..n /\ f + 0 = f
    BY <1>1
  <2> QED
    BY <1>5, <2>1
<1> QED
  BY <1>4, <1>9, <1>10, <1>11

LEMMA NewSide ==
    ASSUME NEW S, NEW old, NEW new, NEW A, NEW X, NEW Y, NEW N, NEW f, NEW n, Span(S, old, new, A, X, Y, N, f, n),
           NEW body, NEW list, BodyOf(old, new, A, f, n, body, list)
    PROVE  /\ Chosen(list, OfKinds(body, NewKinds)) = SubSeq(new, Y[f] + 1, Y[f + n])
           /\ Len(Chosen(body, OfKinds(body, NewKinds))) = Y[f + n] - Y[f] /\ Y[f] <= Y[f + n]
<1>1. N \in Nat /\ f \in Nat /\ n \in Nat /\ f + n <= N /\ Y \in [0..N -> Nat] /\ Passes(old, new, A, X, Y, N)
      /\ new \in Seq(S)
  BY DEF Span, Passes
<1>2. Len(body) = n /\ body \in Seq(DiffOps) /\ (\A i \in 1..n : body[i] = A[f + i]) /\ list = [i \in 1..n |-> LineOf(old, new, body[i])]
  BY DEF BodyOf
<1>3. PICK pos : pos = [i \in 0..n |-> Y[f + i]]
  OBVIOUS
<1>4. PICK is : is = OfKinds(body, NewKinds)
  OBVIOUS
<1>5. \A i \in 0..n : pos[i] = Y[f + i] /\ pos[i] \in Nat /\ pos[i] <= Len(new)
  <2> SUFFICES ASSUME NEW i \in 0..n PROVE pos[i] = Y[f + i] /\ pos[i] \in Nat /\ pos[i] <= Len(new)
    OBVIOUS
  <2>1. PICK x \in 0..N : x = f + i /\ N \in x..N
    BY <1>1
  <2>2. Y[x] <= Y[N] /\ Y[x] \in Nat
    BY <1>1, <2>1, PassesOn
  <2>3. Y[N] = Len(new)
    BY <1>1 DEF Passes
  <2> QED
    BY <1>3, <2>1, <2>2, <2>3
<1>6. ASSUME NEW i \in 1..n
      PROVE  pos[i] = pos[i - 1] + (IF i \in is THEN 1 ELSE 0) /\ (i \in is => list[i] = new[pos[i]])
  <2>1. PICK x \in 1..N : x = f + i /\ x - 1 = f + (i - 1) /\ i - 1 \in 0..n /\ i \in 0..n
    BY <1>1
  <2>2. i \in is <=> A[x].kind \in NewKinds
    BY <1>2, <1>4, <2>1 DEF OfKinds
  <2>3. list[i] = LineOf(old, new, A[x])
    BY <1>2, <2>1
  <2>4. pos[i] = Y[x] /\ pos[i - 1] = Y[x - 1]
    BY <1>5, <2>1
  <2>6. x \in 1..N /\ Passes(old, new, A, X, Y, N)
    BY <1>1
  <2>5. Y[x] = Y[x - 1] + (IF A[x].kind \in NewKinds THEN 1 ELSE 0)
        /\ (A[x].kind \in NewKinds => LineOf(old, new, A[x]) = new[Y[x]])
    BY ONLY <2>6, StepAt
  <2> QED
    BY <2>2, <2>3, <2>4, <2>5
<1>7. CountedBy(n, is, pos)
  <2>1. pos \in [0..n -> Nat]
    BY <1>3, <1>5
  <2> QED
    BY <1>1, <1>6, <2>1 DEF CountedBy
<1>8. SideOf(S, list, n, is, new, pos)
  <2>1. Len(list) = n
    BY <1>1, <1>2
  <2> QED
    BY <1>1, <1>5, <1>6, <1>7, <2>1 DEF SideOf
<1>9. Chosen(list, is) = SubSeq(new, pos[0] + 1, pos[n]) /\ pos[0] <= pos[n]
  BY <1>8, SideIs
<1>10. Len(Chosen(body, is)) = pos[n] - pos[0]
  BY <1>2, <1>7, ChosenCount
<1>11. pos[0] = Y[f] /\ pos[n] = Y[f + n]
  <2>1. 0 \in 0..n /\ n \in 0..n /\ f + 0 = f
    BY <1>1
  <2> QED
    BY <1>5, <2>1
<1> QED
  BY <1>4, <1>9, <1>10, <1>11

(* A hunk that repeats the lines that actions f + 1 to u walk over.          *)
HunkAt(old, new, X, Y, h, f, u) ==
    /\ h.old_start = X[f] + 1 /\ h.old_count = X[u] - X[f] /\ X[f] <= X[u]
    /\ h.new_start = Y[f] + 1 /\ h.new_count = Y[u] - Y[f] /\ Y[f] <= Y[u]
    /\ HunkSide(h, {"eq", "del"}) = SubSeq(old, X[f] + 1, X[u])
    /\ HunkSide(h, {"eq", "ins"}) = SubSeq(new, Y[f] + 1, Y[u])

HunkSpan(S, old, new, A, X, Y, N, f, u) ==
    /\ old \in Seq(S) /\ new \in Seq(S) /\ Passes(old, new, A, X, Y, N)
    /\ f \in Nat /\ u \in Nat /\ f < u /\ u <= N
    /\ f > 0 => A[f + 1].kind = "eq"

(* The record of a hunk, made of its body and the lines that shows.          *)
HunkRecord(old, new, body, list) ==
    [old_start |-> HunkStart(body[1], Len(old), Len(new)).old + 1, old_count |-> Len(Chosen(body, OfKinds(body, {"eq", "del"}))),
     new_start |-> HunkStart(body[1], Len(old), Len(new)).new + 1, new_count |-> Len(Chosen(body, OfKinds(body, {"eq", "ins"}))),
     lines |-> [i \in 1..Len(body) |-> [kind |-> body[i].kind, line |-> list[i]]]]

HunkInput(group, A, old, new, context, f, u, body, list) ==
    /\ f = Larger(0, group[1] - context) /\ u = Smaller(group[2] + context + 1, Len(A))
    /\ body = SubSeq(A, f + 1, u) /\ list = [i \in 1..Len(body) |-> LineOf(old, new, body[i])]

LEMMA HunkOfIs ==
    ASSUME NEW group, NEW A, NEW old, NEW new, NEW context, NEW f, NEW u, NEW body, NEW list,
           HunkInput(group, A, old, new, context, f, u, body, list)
    PROVE  HunkOf(group, A, old, new, context) = HunkRecord(old, new, body, list)
BY DEF HunkInput, HunkOf, HunkRecord, LineOf

LEMMA SideShown ==
    ASSUME NEW old, NEW new, NEW body, NEW n \in Nat, Len(body) = n, NEW list, list = [i \in 1..n |-> LineOf(old, new, body[i])],
           NEW kinds
    PROVE  HunkSide(HunkRecord(old, new, body, list), kinds) = Chosen(list, OfKinds(body, kinds))
<1>1. PICK h : h = HunkRecord(old, new, body, list)
  OBVIOUS
<1>2. PICK lines : lines = [i \in 1..n |-> [kind |-> body[i].kind, line |-> list[i]]]
  OBVIOUS
<1>3. h.lines = lines
  BY <1>1, <1>2 DEF HunkRecord
<1>4. Len(lines) = n /\ \A i \in 1..n : lines[i].kind = body[i].kind /\ lines[i].line = list[i]
  BY <1>2
<1>5. [i \in 1..n |-> lines[i].line] = list
  BY <1>4
<1>6. OfKinds(lines, kinds) = OfKinds(body, kinds)
  BY <1>4 DEF OfKinds
<1> QED
  BY <1>1, <1>3, <1>4, <1>5, <1>6 DEF HunkSide

LEMMA StartIsAt ==
    ASSUME NEW S, NEW old, NEW new, NEW A, NEW X, NEW Y, NEW N, NEW f, NEW u, HunkSpan(S, old, new, A, X, Y, N, f, u)
    PROVE  HunkStart(A[f + 1], Len(old), Len(new)).old = X[f] /\ HunkStart(A[f + 1], Len(old), Len(new)).new = Y[f]
<1>1. f + 1 \in 1..N /\ (f + 1) - 1 = f /\ f \in 0..N /\ N \in Nat /\ f \in Nat
  BY DEF HunkSpan, Passes
<1>2. PICK a : a = A[f + 1]
  OBVIOUS
<1>3. OneStep(old, new, a, X[f], Y[f], X[f + 1], Y[f + 1])
  BY <1>1, <1>2 DEF HunkSpan, Passes
<1>4. CASE a.kind = "eq"
  BY <1>2, <1>3, <1>4 DEF OneStep, HunkStart, Pick
<1>5. CASE a.kind # "eq"
  <2>1. f = 0
    BY <1>1, <1>2, <1>5 DEF HunkSpan
  <2>2. X[f] = 0 /\ Y[f] = 0
    BY <2>1 DEF HunkSpan, Passes
  <2>3. Len(old) \in Nat /\ Len(new) \in Nat
    BY DEF HunkSpan
  <2>4. Smaller(0, Len(old)) = 0 /\ Smaller(0, Len(new)) = 0
    BY <2>3 DEF Smaller, Pick
  <2>5. CASE a.kind = "ins"
    <3>1. a.new = 0
      BY <1>3, <2>2, <2>5 DEF OneStep
    <3> QED
      BY <1>2, <2>2, <2>4, <2>5, <3>1 DEF HunkStart, Pick
  <2>6. CASE a.kind = "del"
    <3>1. a.old = 0
      BY <1>3, <2>2, <2>6 DEF OneStep
    <3> QED
      BY <1>2, <2>2, <2>4, <2>6, <3>1 DEF HunkStart, Pick
  <2> QED
    BY <1>3, <1>5, <2>5, <2>6 DEF OneStep
<1> QED
  BY <1>4, <1>5

LEMMA HunkIs ==
    ASSUME NEW S, NEW old, NEW new, NEW A, NEW X, NEW Y, NEW N, NEW f, NEW u, HunkSpan(S, old, new, A, X, Y, N, f, u),
           NEW group, NEW context, f = Larger(0, group[1] - context), u = Smaller(group[2] + context + 1, N)
    PROVE  HunkAt(old, new, X, Y, HunkOf(group, A, old, new, context), f, u)
<1>1. f \in Nat /\ u \in Nat /\ N \in Nat /\ Len(A) = N /\ A \in Seq(DiffOps) /\ f < u /\ u <= N
  BY DEF HunkSpan, Passes
<1>2. PICK n \in Nat : n = u - f /\ f + n = u /\ n > 0
  BY <1>1
<1>3. PICK body : body = SubSeq(A, f + 1, f + n)
  OBVIOUS
<1>4. body \in Seq(DiffOps) /\ Len(body) = n /\ \A i \in 1..n : body[i] = A[f + i]
  <2>1. A \in Seq(DiffOps) /\ f \in Nat /\ n \in Nat /\ f + n <= Len(A)
    BY <1>1, <1>2
  <2>2. SubSeq(A, f + 1, f + n) \in Seq(DiffOps) /\ Len(SubSeq(A, f + 1, f + n)) = n
        /\ \A i \in 1..n : SubSeq(A, f + 1, f + n)[i] = A[f + i]
    BY ONLY <2>1, PartOfIs
  <2> QED
    BY <1>3, <2>2
<1>5. PICK list : list = [i \in 1..n |-> LineOf(old, new, body[i])]
  OBVIOUS
<1>6. BodyOf(old, new, A, f, n, body, list)
  BY <1>4, <1>5 DEF BodyOf
<1>7. Span(S, old, new, A, X, Y, N, f, n)
  BY <1>1, <1>2 DEF Span, HunkSpan
<1>8. PICK h : h = HunkRecord(old, new, body, list)
  OBVIOUS
<1>9. HunkOf(group, A, old, new, context) = h
  <2>1. u = Smaller(group[2] + context + 1, Len(A))
    BY <1>1
  <2>2. body = SubSeq(A, f + 1, u) /\ list = [i \in 1..Len(body) |-> LineOf(old, new, body[i])]
    BY <1>2, <1>3, <1>4, <1>5
  <2>3. HunkOf(group, A, old, new, context) = HunkRecord(old, new, body, list)
    <3>1. HunkInput(group, A, old, new, context, f, u, body, list)
      BY <2>1, <2>2 DEF HunkInput
    <3> QED
      BY ONLY <3>1, HunkOfIs
  <2> QED
    BY <1>8, <2>3
<1>10. /\ Chosen(list, OfKinds(body, OldKinds)) = SubSeq(old, X[f] + 1, X[f + n])
       /\ Len(Chosen(body, OfKinds(body, OldKinds))) = X[f + n] - X[f] /\ X[f] <= X[f + n]
  BY ONLY <1>6, <1>7, OldSide
<1>11. /\ Chosen(list, OfKinds(body, NewKinds)) = SubSeq(new, Y[f] + 1, Y[f + n])
       /\ Len(Chosen(body, OfKinds(body, NewKinds))) = Y[f + n] - Y[f] /\ Y[f] <= Y[f + n]
  BY ONLY <1>6, <1>7, NewSide
<1>12. HunkSide(h, {"eq", "del"}) = Chosen(list, OfKinds(body, OldKinds))
  BY <1>4, <1>5, <1>8, SideShown DEF OldKinds
<1>13. HunkSide(h, {"eq", "ins"}) = Chosen(list, OfKinds(body, NewKinds))
  BY <1>4, <1>5, <1>8, SideShown DEF NewKinds
<1>14. HunkStart(body[1], Len(old), Len(new)).old = X[f] /\ HunkStart(body[1], Len(old), Len(new)).new = Y[f]
  <2>1. body[1] = A[f + 1]
    BY <1>2, <1>4
  <2> QED
    BY <2>1, StartIsAt
<1>15. /\ h.old_start = X[f] + 1 /\ h.new_start = Y[f] + 1
       /\ h.old_count = Len(Chosen(body, OfKinds(body, OldKinds))) /\ h.new_count = Len(Chosen(body, OfKinds(body, NewKinds)))
  BY <1>8, <1>14 DEF HunkRecord, OldKinds, NewKinds
<1> QED
  BY <1>2, <1>9, <1>10, <1>11, <1>12, <1>13, <1>15 DEF HunkAt

(* Lines that are kept are the same in both texts.                           *)
SameGap(old, new, X, Y, a, b) == SubSeq(old, X[a] + 1, X[b]) = SubSeq(new, Y[a] + 1, Y[b])
Gap(S, old, new, A, X, Y, N, a, b) ==
    /\ old \in Seq(S) /\ new \in Seq(S) /\ Passes(old, new, A, X, Y, N)
    /\ a \in Nat /\ b \in Nat /\ a <= b /\ b <= N /\ \A i \in (a + 1)..b : A[i].kind = "eq"

LEMMA GapSame ==
    ASSUME NEW S, NEW old, NEW new, NEW A, NEW X, NEW Y, NEW N, NEW a, NEW b, Gap(S, old, new, A, X, Y, N, a, b)
    PROVE  SameGap(old, new, X, Y, a, b)
<1>1. N \in Nat /\ a \in Nat /\ b \in Nat /\ a <= b /\ b <= N /\ Passes(old, new, A, X, Y, N)
      /\ \A x \in 0..N : X[x] \in Nat /\ Y[x] \in Nat
  BY DEF Gap, Passes
<1>2. PICK n \in Nat : n = b - a
  BY <1>1
<1>3. PICK c \in Nat, r \in Nat : c = X[a] /\ r = Y[a]
  BY <1>1
<1> DEFINE P == {j \in 0..n : X[a + j] = c + j /\ Y[a + j] = r + j}
<1>4. ASSUME NEW j \in 1..n
      PROVE  \E k \in 1..N : /\ k = a + j /\ k - 1 = a + (j - 1) /\ X[k] = X[k - 1] + 1 /\ Y[k] = Y[k - 1] + 1
                             /\ old[X[k]] = new[Y[k]]
  <2>1. PICK k \in 1..N : k = a + j /\ k - 1 = a + (j - 1) /\ k \in (a + 1)..b
    BY <1>1, <1>2
  <2>2. A[k].kind = "eq"
    BY <2>1 DEF Gap
  <2>3. OneStep(old, new, A[k], X[k - 1], Y[k - 1], X[k], Y[k])
    BY <2>1 DEF Gap, Passes
  <2> QED
    BY <2>1, <2>2, <2>3 DEF OneStep
<1>5. 0 \in P
  <2>1. a + 0 = a /\ c + 0 = c /\ r + 0 = r
    BY <1>1
  <2> QED
    BY <1>3, <2>1
<1>6. ASSUME NEW j \in P, j \in Nat, j < n PROVE j + 1 \in P
  <2>1. j + 1 \in 1..n /\ (j + 1) - 1 = j /\ j + 1 \in 0..n
    BY <1>6
  <2>2. PICK k \in 1..N : k = a + (j + 1) /\ k - 1 = a + ((j + 1) - 1) /\ X[k] = X[k - 1] + 1 /\ Y[k] = Y[k - 1] + 1
    BY <1>4, <2>1
  <2>3. X[k - 1] = c + j /\ Y[k - 1] = r + j
    BY <1>6, <2>1, <2>2
  <2>4. X[a + (j + 1)] = c + (j + 1) /\ Y[a + (j + 1)] = r + (j + 1)
    BY <1>3, <1>6, <2>2, <2>3
  <2> QED
    BY <2>1, <2>4
<1>7. \A j \in 0..n : j \in P
  <2> SUFFICES ASSUME NEW j \in 0..n PROVE j \in P
    OBVIOUS
  <2>1. \A i \in P : i \in Nat /\ i < j => i + 1 \in P
    <3> HIDE DEF P
    <3> QED BY <1>6
  <2>2. j \in Nat
    OBVIOUS
  <2> HIDE DEF P
  <2> QED BY <1>5, <2>1, <2>2, UpTo
<1>8. Alike(old, new, c, r, n)
  <2> SUFFICES ASSUME NEW j \in 1..n PROVE old[c + j] = new[r + j]
    BY DEF Alike
  <2>1. PICK k \in 1..N : k = a + j /\ old[X[k]] = new[Y[k]]
    BY <1>4
  <2>2. X[k] = c + j /\ Y[k] = r + j
    BY <1>7, <2>1
  <2> QED
    BY <2>1, <2>2
<1>9. a + n = b /\ n \in 0..n
  BY <1>1, <1>2
<1>10. X[b] = c + n /\ Y[b] = r + n
  BY <1>7, <1>9
<1>11. c + n <= Len(old) /\ r + n <= Len(new)
  <2>1. b \in 0..N /\ N \in b..N
    BY <1>1
  <2>2. X[b] <= X[N] /\ Y[b] <= Y[N]
    BY <1>1, <2>1, PassesOn
  <2>3. X[N] = Len(old) /\ Y[N] = Len(new)
    BY <1>1 DEF Passes
  <2> QED
    BY <1>10, <2>2, <2>3
<1>12. Part(old, c, n) = Part(new, r, n)
  <2>1. old \in Seq(S) /\ new \in Seq(S)
    BY DEF Gap
  <2> QED
    BY <1>8, <1>11, <2>1, PartsSame
<1> QED
  BY <1>3, <1>10, <1>12 DEF Part, SameGap

LEMMA JoinUp ==
    ASSUME NEW S, NEW s \in Seq(S), NEW a \in Nat, NEW b \in Nat, a <= b, b <= Len(s)
    PROVE  SubSeq(s, 1, a) \o SubSeq(s, a + 1, b) = SubSeq(s, 1, b)
<1>1. PICK n \in Nat : n = b - a /\ a + n = b
  OBVIOUS
<1>2. SubSeq(s, 1, a) \o SubSeq(s, a + 1, a + n) = SubSeq(s, 1, a + n)
  BY <1>1, JoinParts
<1> QED
  BY <1>1, <1>2

(* The replay has made the lines of new that go with those of old before     *)
(* place u.                                                                  *)
Made(new, X, Y, patch, u) == patch.from = X[u] + 1 /\ patch.out = SubSeq(new, 1, Y[u])
Between(old, new, X, Y, u, f, v) ==
    /\ X[u] \in Nat /\ Y[u] \in Nat /\ X[f] \in Nat /\ Y[f] \in Nat /\ X[v] \in Nat /\ Y[v] \in Nat
    /\ X[u] <= X[f] /\ Y[u] <= Y[f] /\ X[f] <= X[v] /\ Y[f] <= Y[v] /\ X[v] <= Len(old) /\ Y[v] <= Len(new)
    /\ SameGap(old, new, X, Y, u, f)

LEMMA ReplayOnce ==
    ASSUME NEW S, NEW old, NEW new \in Seq(S), NEW X, NEW Y, NEW u, NEW f, NEW v, Between(old, new, X, Y, u, f, v),
           NEW patch, Made(new, X, Y, patch, u), NEW h, HunkAt(old, new, X, Y, h, f, v)
    PROVE  Made(new, X, Y, Replay(old, patch, h), v)
<1>1. PICK x0 \in Nat, y0 \in Nat, x1 \in Nat, y1 \in Nat, x2 \in Nat, y2 \in Nat :
         x0 = X[u] /\ y0 = Y[u] /\ x1 = X[f] /\ y1 = Y[f] /\ x2 = X[v] /\ y2 = Y[v]
  BY DEF Between
<1>2. x0 <= x1 /\ y0 <= y1 /\ x1 <= x2 /\ y1 <= y2 /\ y2 <= Len(new) /\ SubSeq(old, x0 + 1, x1) = SubSeq(new, y0 + 1, y1)
  BY <1>1 DEF Between, SameGap
<1>3. patch.from = x0 + 1 /\ patch.out = SubSeq(new, 1, y0)
  BY <1>1 DEF Made
<1>4. /\ h.old_start = x1 + 1 /\ h.old_count = x2 - x1
      /\ HunkSide(h, {"eq", "del"}) = SubSeq(old, x1 + 1, x2) /\ HunkSide(h, {"eq", "ins"}) = SubSeq(new, y1 + 1, y2)
  BY <1>1 DEF HunkAt
<1>5. h.old_start + h.old_count - 1 = x2 /\ h.old_start + h.old_count = x2 + 1 /\ h.old_start - 1 = x1 /\ ~ (h.old_start < patch.from)
  BY <1>2, <1>3, <1>4
<1>6. Replay(old, patch, h) = [from |-> x2 + 1,
                               out |-> SubSeq(new, 1, y0) \o SubSeq(old, x0 + 1, x1) \o SubSeq(new, y1 + 1, y2)]
  BY <1>3, <1>4, <1>5 DEF Replay
<1>7. SubSeq(new, 1, y0) \o SubSeq(new, y0 + 1, y1) = SubSeq(new, 1, y1)
  <2>1. y1 <= Len(new)
    BY <1>2
  <2> QED
    BY <1>2, <2>1, JoinUp
<1>8. SubSeq(new, 1, y1) \o SubSeq(new, y1 + 1, y2) = SubSeq(new, 1, y2)
  BY <1>2, JoinUp
<1>9. PICK q : q = Replay(old, patch, h)
  OBVIOUS
<1>10. q.from = x2 + 1 /\ q.out = SubSeq(new, 1, y0) \o SubSeq(old, x0 + 1, x1) \o SubSeq(new, y1 + 1, y2)
  BY <1>6, <1>9
<1>11. q.out = SubSeq(new, 1, y2)
  BY <1>2, <1>7, <1>8, <1>10
<1> QED
  BY <1>1, <1>9, <1>10, <1>11 DEF Made

(* The recursion of Patched. *)
PatchSteps(old, hunks, n, w) ==
    w = [i \in 0..n |-> IF i = 0 THEN [from |-> 1, out |-> <<>>]
                        ELSE Replay(old, w[i - 1], hunks[i])]

LEMMA PatchExists ==
    ASSUME NEW old, NEW hunks, NEW n \in Nat
    PROVE  \E w : PatchSteps(old, hunks, n, w)
<1> DEFINE P == {m \in Nat : \E w : PatchSteps(old, hunks, m, w)}
<1>1. 0 \in P
  <2> DEFINE w == [i \in 0..0 |-> [from |-> 1, out |-> <<>>]]
  <2>1. PatchSteps(old, hunks, 0, w)
    BY DEF PatchSteps
  <2> QED
    BY <2>1, Zenon
<1>2. ASSUME NEW m \in P \cap Nat PROVE m + 1 \in P
  <2> SUFFICES \E w : PatchSteps(old, hunks, m + 1, w)
    OBVIOUS
  <2>1. PICK g : PatchSteps(old, hunks, m, g)
    OBVIOUS
  <2> DEFINE F(x, i) == Replay(old, x, hunks[i])
             B == [from |-> 1, out |-> <<>>]
             w == [i \in 0 .. m + 1 |-> IF i = m + 1 THEN F(g[m], m + 1) ELSE g[i]]
  <2>2. \A i \in 0..m : g[i] = IF i = 0 THEN B ELSE F(g[i - 1], i)
    BY <2>1 DEF PatchSteps
  <2> HIDE DEF F, B
  <2>3. ASSUME NEW i \in 0 .. m + 1
        PROVE  w[i] = IF i = 0 THEN B ELSE F(w[i - 1], i)
    <3>1. CASE i = m + 1
      <4>1. w[i] = F(g[m], m + 1) /\ w[i - 1] = g[m] /\ i # 0
        BY <3>1
      <4> HIDE DEF w
      <4> QED BY <4>1, <3>1
    <3>2. CASE i \in 0..m
      <4>1. w[i] = g[i] /\ (i # 0 => w[i - 1] = g[i - 1])
        BY <3>2
      <4> HIDE DEF w
      <4> QED BY <4>1, <3>2, <2>2
    <3> QED
      BY <3>1, <3>2
  <2>4. w = [i \in 0 .. m + 1 |-> w[i]]
    OBVIOUS
  <2>5. PatchSteps(old, hunks, m + 1, w)
    <3> HIDE DEF w
    <3> QED BY <2>3, <2>4 DEF PatchSteps, F, B
  <2> QED
    BY <2>5, Zenon
<1>3. Nat \subseteq P
  <2> HIDE DEF P
  <2> QED BY <1>1, <1>2, SetInduction, Zenon
<1> QED
  BY <1>3

(* Along the hunks the replay goes from one to the next.                     *)
PatchedBy(old, hunks, w) ==
    /\ Patched(old, hunks) = w[Len(hunks)].out \o SubSeq(old, w[Len(hunks)].from, Len(old))
    /\ w[0] = [from |-> 1, out |-> <<>>]
    /\ \A i \in 1..Len(hunks) : w[i] = Replay(old, w[i - 1], hunks[i])

LEMMA PatchedIs ==
    ASSUME NEW old, NEW hunks, Len(hunks) \in Nat
    PROVE  \E w : PatchedBy(old, hunks, w)
<1> DEFINE w == CHOOSE g : PatchSteps(old, hunks, Len(hunks), g)
<1>1. PatchSteps(old, hunks, Len(hunks), w)
  BY PatchExists, Zenon
<1>2. Patched(old, hunks) = w[Len(hunks)].out \o SubSeq(old, w[Len(hunks)].from, Len(old))
  BY Zenon DEF Patched, PatchSteps
<1> HIDE DEF w
<1>3. w[0] = [from |-> 1, out |-> <<>>] /\ \A i \in 1..Len(hunks) : w[i] = Replay(old, w[i - 1], hunks[i])
  <2>1. 0 \in 0..Len(hunks) /\ \A i \in 1..Len(hunks) : i \in 0..Len(hunks) /\ i # 0
    OBVIOUS
  <2> QED
    BY <1>1, <2>1 DEF PatchSteps
<1> QED
  BY <1>2, <1>3 DEF PatchedBy

(* Hunks one behind the other: hunk g is what actions F[g] + 1 to U[g] walk  *)
(* over, and between the hunks all lines are kept.                           *)
Tiled(S, old, new, A, X, Y, N, m, H, F, U) ==
    /\ old \in Seq(S) /\ new \in Seq(S) /\ Passes(old, new, A, X, Y, N)
    /\ m \in Nat /\ Len(H) = m /\ F \in [1..(m + 1) -> 0..N] /\ U \in [0..m -> 0..N]
    /\ U[0] = 0 /\ F[m + 1] = N
    /\ \A g \in 1..(m + 1) : U[g - 1] <= F[g] /\ SameGap(old, new, X, Y, U[g - 1], F[g])
    /\ \A g \in 1..m : F[g] <= U[g] /\ HunkAt(old, new, X, Y, H[g], F[g], U[g])

LEMMA TiledPatch ==
    ASSUME NEW S, NEW old, NEW new, NEW A, NEW X, NEW Y, NEW N, NEW m, NEW H, NEW F, NEW U,
           Tiled(S, old, new, A, X, Y, N, m, H, F, U)
    PROVE  Patched(old, H) = new
<1>1. m \in Nat /\ Len(H) = m /\ N \in Nat /\ F \in [1..(m + 1) -> 0..N] /\ U \in [0..m -> 0..N] /\ Passes(old, new, A, X, Y, N)
      /\ U[0] = 0 /\ F[m + 1] = N /\ old \in Seq(S) /\ new \in Seq(S)
  BY DEF Tiled, Passes
<1>2. PICK w : PatchedBy(old, H, w)
  BY <1>1, PatchedIs
<1>3. X[0] = 0 /\ Y[0] = 0 /\ X[N] = Len(old) /\ Y[N] = Len(new)
  BY <1>1 DEF Passes
<1> DEFINE P == {g \in 0..m : Made(new, X, Y, w[g], U[g])}
<1>4. 0 \in P
  <2>1. w[0].from = 1 /\ w[0].out = <<>>
    BY <1>1, <1>2 DEF PatchedBy
  <2>2. SubSeq(new, 1, 0) = <<>>
    BY <1>1
  <2>3. Made(new, X, Y, w[0], U[0])
    BY <1>1, <1>3, <2>1, <2>2 DEF Made
  <2>4. 0 \in 0..m
    BY <1>1
  <2> QED
    BY <2>3, <2>4
<1>5. ASSUME NEW u \in 0..N, NEW f \in u..N, NEW v \in f..N, SameGap(old, new, X, Y, u, f)
      PROVE  Between(old, new, X, Y, u, f, v)
  <2>1. X[u] <= X[f] /\ Y[u] <= Y[f] /\ X[u] \in Nat /\ Y[u] \in Nat /\ X[f] \in Nat /\ Y[f] \in Nat
    BY <1>1, PassesOn
  <2>2. f \in 0..N /\ v \in 0..N /\ N \in v..N
    BY <1>1
  <2>3. X[f] <= X[v] /\ Y[f] <= Y[v] /\ X[v] \in Nat /\ Y[v] \in Nat
    BY <1>1, <2>2, PassesOn
  <2>4. X[v] <= X[N] /\ Y[v] <= Y[N]
    BY <1>1, <2>2, PassesOn
  <2> QED
    BY <1>3, <1>5, <2>1, <2>3, <2>4 DEF Between
<1>6. ASSUME NEW g \in P, g \in Nat, g < m PROVE g + 1 \in P
  <2>1. g + 1 \in 1..m /\ g + 1 \in 1..(m + 1) /\ (g + 1) - 1 = g /\ g \in 0..m /\ g + 1 \in 0..m
    BY <1>1, <1>6
  <2>2. PICK u, f, v, p, h : u = U[g] /\ f = F[g + 1] /\ v = U[g + 1] /\ p = w[g] /\ h = H[g + 1]
    OBVIOUS
  <2>3. u <= f /\ SameGap(old, new, X, Y, u, f) /\ f <= v /\ HunkAt(old, new, X, Y, h, f, v)
    BY <2>1, <2>2 DEF Tiled
  <2>4. u \in 0..N /\ f \in 0..N /\ v \in 0..N
    BY <1>1, <2>1, <2>2
  <2>5. Between(old, new, X, Y, u, f, v)
    <3>1. f \in u..N /\ v \in f..N
      BY <2>3, <2>4
    <3> QED
      BY <1>5, <2>3, <2>4, <3>1
  <2>6. Made(new, X, Y, p, u)
    BY <1>6, <2>2
  <2>7. Made(new, X, Y, Replay(old, p, h), v)
    BY <1>1, <2>3, <2>5, <2>6, ReplayOnce
  <2>8. w[g + 1] = Replay(old, p, h)
    BY <1>1, <1>2, <2>1, <2>2 DEF PatchedBy
  <2> QED
    BY <2>1, <2>2, <2>7, <2>8
<1>7. m \in P
  <2> HIDE DEF P
  <2> QED BY <1>1, <1>4, <1>6, UpTo
<1>8. PICK u, p : u = U[m] /\ p = w[m]
  OBVIOUS
<1>9. u \in 0..N /\ u <= N /\ SameGap(old, new, X, Y, u, N)
  <2>1. m + 1 \in 1..(m + 1) /\ (m + 1) - 1 = m /\ m \in 0..m
    BY <1>1
  <2> QED
    BY <1>1, <1>8, <2>1 DEF Tiled
<1>10. Between(old, new, X, Y, u, N, N)
  <2>1. N \in u..N /\ N \in N..N
    BY <1>1, <1>9
  <2> QED
    BY <1>5, <1>9, <2>1
<1>11. PICK x \in Nat, y \in Nat : x = X[u] /\ y = Y[u]
  BY <1>10 DEF Between
<1>12. y <= Len(new) /\ SubSeq(old, x + 1, Len(old)) = SubSeq(new, y + 1, Len(new)) /\ Len(new) \in Nat
  BY <1>1, <1>3, <1>10, <1>11 DEF Between, SameGap
<1>13. p.from = x + 1 /\ p.out = SubSeq(new, 1, y)
  BY <1>7, <1>8, <1>11 DEF Made
<1>14. Patched(old, H) = SubSeq(new, 1, y) \o SubSeq(new, y + 1, Len(new))
  BY <1>1, <1>2, <1>8, <1>12, <1>13 DEF PatchedBy
<1>15. SubSeq(new, 1, y) \o SubSeq(new, y + 1, Len(new)) = SubSeq(new, 1, Len(new))
  <2>1. PICK L \in Nat : L = Len(new)
    BY <1>12
  <2>2. new \in Seq(S) /\ L \in Nat /\ y \in Nat /\ y <= L /\ L <= Len(new)
    BY <1>1, <1>12, <2>1
  <2>3. SubSeq(new, 1, y) \o SubSeq(new, y + 1, L) = SubSeq(new, 1, L)
    BY ONLY <2>2, JoinUp
  <2> QED
    BY <2>1, <2>3
<1>16. SubSeq(new, 1, Len(new)) = new
  BY <1>1
<1> QED
  BY <1>14, <1>15, <1>16

(* The marked places among the first n, in order and none left out.          *)
Ascends(I, is, n) ==
    /\ I \in Seq(Nat) /\ \A j \in 1..Len(I) : I[j] < n
    /\ \A v \in 0..(n - 1) : v + 1 \in is => Len(I) > 0 /\ I[1] <= v /\ v <= I[Len(I)]
    /\ \A j \in 1..(Len(I) - 1) : I[j] < I[j + 1] /\ \A v \in (I[j] + 1)..(I[j + 1] - 1) : v + 1 \notin is

LEMMA AscendsMore ==
    ASSUME NEW I, NEW is, NEW n \in Nat, Ascends(I, is, n)
    PROVE  /\ n + 1 \in is => Ascends(Append(I, n), is, n + 1)
           /\ n + 1 \notin is => Ascends(I, is, n + 1)
<1>1. PICK k \in Nat : k = Len(I)
  BY DEF Ascends
<1>2. /\ I \in Seq(Nat) /\ \A j \in 1..k : I[j] \in Nat /\ I[j] < n
      /\ \A v \in 0..(n - 1) : v + 1 \in is => k > 0 /\ I[1] <= v /\ v <= I[k]
      /\ \A j \in 1..(k - 1) : I[j] < I[j + 1] /\ \A v \in (I[j] + 1)..(I[j + 1] - 1) : v + 1 \notin is
  BY <1>1 DEF Ascends
<1>3. ASSUME n + 1 \in is PROVE Ascends(Append(I, n), is, n + 1)
  <2>1. PICK J : J = Append(I, n)
    OBVIOUS
  <2>2. J \in Seq(Nat) /\ Len(J) = k + 1 /\ J[k + 1] = n /\ \A j \in 1..k : J[j] = I[j]
    BY <1>1, <1>2, <2>1
  <2>3. \A j \in 1..(k + 1) : J[j] < n + 1
    <3> SUFFICES ASSUME NEW j \in 1..(k + 1) PROVE J[j] < n + 1
      OBVIOUS
    <3>1. j = k + 1 \/ j \in 1..k
      OBVIOUS
    <3> QED
      BY <1>2, <2>2, <3>1
  <2>4. ASSUME NEW v \in 0..n, v + 1 \in is PROVE k + 1 > 0 /\ J[1] <= v /\ v <= J[k + 1]
    <3>1. CASE v = n
      BY <2>2, <2>3, <3>1
    <3>2. CASE v # n
      <4>1. v \in 0..(n - 1)
        BY <3>2
      <4>2. k > 0 /\ I[1] <= v
        BY <1>2, <2>4, <4>1
      <4> QED
        BY <2>2, <4>1, <4>2
    <3> QED
      BY <3>1, <3>2
  <2>5. ASSUME NEW j \in 1..k PROVE J[j] < J[j + 1] /\ \A v \in (J[j] + 1)..(J[j + 1] - 1) : v + 1 \notin is
    <3>1. CASE j = k
      <4>1. J[j] = I[k] /\ J[j + 1] = n /\ I[k] \in Nat /\ I[k] < n
        BY <1>2, <2>2, <3>1
      <4>2. \A v \in (I[k] + 1)..(n - 1) : v \in 0..(n - 1) /\ ~ (v <= I[k])
        BY <4>1
      <4> QED
        BY <1>2, <4>1, <4>2
    <3>2. CASE j # k
      <4>1. j \in 1..(k - 1) /\ j + 1 \in 1..k
        BY <3>2
      <4> QED
        BY <1>2, <2>2, <4>1
    <3> QED
      BY <3>1, <3>2
  <2>6. (n + 1) - 1 = n /\ (k + 1) - 1 = k
    OBVIOUS
  <2> QED
    BY <2>1, <2>2, <2>3, <2>4, <2>5, <2>6 DEF Ascends
<1>4. ASSUME n + 1 \notin is PROVE Ascends(I, is, n + 1)
  <2>1. \A j \in 1..k : I[j] < n + 1
    BY <1>2
  <2>2. \A v \in 0..n : v + 1 \in is => v \in 0..(n - 1)
    BY <1>4
  <2>3. (n + 1) - 1 = n
    OBVIOUS
  <2>4. \A v \in 0..((n + 1) - 1) : v + 1 \in is => k > 0 /\ I[1] <= v /\ v <= I[k]
    BY <1>2, <2>2, <2>3
  <2> QED
    BY <1>1, <1>2, <2>1, <2>4 DEF Ascends
<1> QED
  BY <1>3, <1>4

LEMMA ChosenAscends ==
    ASSUME NEW n \in Nat, NEW is
    PROVE  Ascends(Chosen([i \in 1..n |-> i - 1], is), is, n)
<1>1. PICK list : list = [i \in 1..n |-> i - 1]
  OBVIOUS
<1>2. Len(list) = n /\ \A i \in 1..n : list[i] = i - 1
  BY <1>1
<1>3. PICK w : KeptBy(list, is, w)
  BY <1>2, ChosenIs
<1> DEFINE P == {i \in 0..n : Ascends(w[i], is, i)}
<1>4. 0 \in P
  <2>1. w[0] = <<>> /\ 0 \in 0..n
    BY <1>3 DEF KeptBy
  <2>2. Ascends(<<>>, is, 0)
    <3>1. <<>> \in Seq(Nat) /\ Len(<<>>) = 0 /\ 1..0 = {} /\ 0..(0 - 1) = {} /\ 1..(0 - 1) = {}
      OBVIOUS
    <3> QED
      BY <3>1 DEF Ascends
  <2> QED
    BY <2>1, <2>2
<1>5. ASSUME NEW i \in P, i \in Nat, i < n PROVE i + 1 \in P
  <2>1. i + 1 \in 1..n /\ (i + 1) - 1 = i /\ i + 1 \in 0..n
    BY <1>5
  <2>2. w[i + 1] = IF i + 1 \in is THEN Append(w[i], i) ELSE w[i]
    BY <1>2, <1>3, <2>1 DEF KeptBy
  <2>3. PICK v : v = w[i]
    OBVIOUS
  <2>4. Ascends(v, is, i)
    BY <1>5, <2>3
  <2>5. (i + 1 \in is => Ascends(Append(v, i), is, i + 1)) /\ (i + 1 \notin is => Ascends(v, is, i + 1))
    BY <1>5, <2>4, AscendsMore
  <2>6. Ascends(w[i + 1], is, i + 1)
    BY <2>2, <2>3, <2>5
  <2> QED
    BY <2>1, <2>6
<1>6. n \in P
  <2> HIDE DEF P
  <2> QED BY <1>4, <1>5, UpTo
<1> QED
  BY <1>1, <1>2, <1>3, <1>6 DEF KeptBy

(* Groups of the marked places up to last: they do not touch even with twice *)
(* the context between them, and there is no marked place outside them.      *)
Grouping(G, is, first, last, context) ==
    /\ G \in Seq(Nat \X Nat) /\ Len(G) >= 1
    /\ G[1][1] = first /\ G[Len(G)][2] = last
    /\ \A g \in 1..Len(G) : G[g][1] <= G[g][2] /\ G[g][2] <= last
    /\ \A g \in 1..(Len(G) - 1) : /\ G[g + 1][1] > G[g][2] + 2 * context + 1
                                  /\ \A v \in (G[g][2] + 1)..(G[g + 1][1] - 1) : v + 1 \notin is

LEMMA EndSet ==
    ASSUME NEW G \in Seq(Nat \X Nat), NEW n \in Nat, n = Len(G), n >= 1, NEW c \in Nat
    PROVE  LET H == [G EXCEPT ![n][2] = c]
           IN  /\ H \in Seq(Nat \X Nat) /\ Len(H) = n /\ H[n][1] = G[n][1] /\ H[n][2] = c
               /\ \A g \in 1..(n - 1) : H[g] = G[g]
<1>1. PICK t : t = [G[n] EXCEPT ![2] = c]
  OBVIOUS
<1>2. G[n] \in Nat \X Nat
  OBVIOUS
<1>3. t \in Nat \X Nat /\ t[1] = G[n][1] /\ t[2] = c
  BY <1>1, <1>2
<1>4. PICK H : H = [G EXCEPT ![n] = t]
  OBVIOUS
<1>5. H = [G EXCEPT ![n][2] = c]
  BY <1>1, <1>4
<1>6. H \in Seq(Nat \X Nat) /\ Len(H) = n
  BY <1>3, <1>4
<1>7. H[n] = t /\ \A g \in 1..(n - 1) : H[g] = G[g]
  BY <1>4
<1> QED
  BY <1>3, <1>5, <1>6, <1>7

LEMMA GroupedIs ==
    ASSUME NEW G, NEW is, NEW first \in Nat, NEW last \in Nat, NEW context \in Nat, Grouping(G, is, first, last, context),
           NEW c \in Nat, last < c, \A v \in (last + 1)..(c - 1) : v + 1 \notin is
    PROVE  Grouping(Grouped(G, c, context), is, first, c, context)
<1>1. PICK n \in Nat : n = Len(G) /\ n >= 1
  BY DEF Grouping
<1>2. /\ G \in Seq(Nat \X Nat) /\ G[1][1] = first /\ G[n][2] = last
      /\ \A g \in 1..n : G[g] \in Nat \X Nat /\ G[g][1] \in Nat /\ G[g][2] \in Nat /\ G[g][1] <= G[g][2] /\ G[g][2] <= last
      /\ \A g \in 1..(n - 1) : /\ G[g + 1][1] > G[g][2] + 2 * context + 1
                               /\ \A v \in (G[g][2] + 1)..(G[g + 1][1] - 1) : v + 1 \notin is
  BY <1>1 DEF Grouping
<1>3. Last(G) = G[n]
  BY <1>1 DEF Last
<1>4. CASE Apart(last, c, context)
  <2>1. c > last + 2 * context + 1
    BY <1>4 DEF Apart
  <2>2. PICK H : H = Append(G, <<c, c>>)
    OBVIOUS
  <2>10. PICK t : t = <<c, c>>
    OBVIOUS
  <2>3. t \in Nat \X Nat /\ t = <<c, c>> /\ t[1] = c /\ t[2] = c
    BY <2>10
  <2>4. H \in Seq(Nat \X Nat) /\ Len(H) = n + 1 /\ H[n + 1] = t /\ \A g \in 1..n : H[g] = G[g]
    BY <1>1, <1>2, <2>2, <2>3
  <2>5. \A g \in 1..(n + 1) : H[g][1] <= H[g][2] /\ H[g][2] <= c
    <3> SUFFICES ASSUME NEW g \in 1..(n + 1) PROVE H[g][1] <= H[g][2] /\ H[g][2] <= c
      OBVIOUS
    <3>1. CASE g = n + 1
      <4>1. H[g] = t
        BY <2>4, <3>1
      <4> QED
        BY <2>3, <4>1
    <3>2. CASE g # n + 1
      <4>1. g \in 1..n
        <5>1. n \in Nat /\ g \in 1..(n + 1) /\ g # n + 1
          BY <3>2
        <5> QED
          BY ONLY <5>1
      <4>2. \A f \in 1..n : H[f] = G[f]
        BY <2>4
      <4>3. g \in 1..n /\ H[g] = G[g]
        BY ONLY <4>1, <4>2
      <4>4. G[g][1] <= G[g][2] /\ G[g][2] <= last /\ G[g][1] \in Nat /\ G[g][2] \in Nat
        BY <1>2, <4>3
      <4> QED
        BY <4>3, <4>4
    <3> QED
      BY <3>1, <3>2
  <2>6. ASSUME NEW g \in 1..n
        PROVE  /\ H[g + 1][1] > H[g][2] + 2 * context + 1
               /\ \A v \in (H[g][2] + 1)..(H[g + 1][1] - 1) : v + 1 \notin is
    <3>1. CASE g = n
      <4>1. H[g + 1][1] = c /\ H[g][2] = last
        BY <1>2, <2>3, <2>4, <3>1
      <4> QED
        BY <2>1, <4>1
    <3>2. CASE g # n
      <4>2. g \in 1..(n - 1) /\ g \in 1..n /\ g + 1 \in 1..n
        BY <3>2
      <4>1. g \in 1..(n - 1) /\ H[g] = G[g] /\ H[g + 1] = G[g + 1]
        BY <2>4, <4>2
      <4> QED
        BY <1>2, <4>1
    <3> QED
      BY <3>1, <3>2
  <2>7. H[1][1] = first /\ H[n + 1][2] = c
    BY <1>1, <1>2, <2>3, <2>4
  <2>8. Grouping(H, is, first, c, context)
    <3>1. (n + 1) - 1 = n /\ n + 1 >= 1
      BY <1>1
    <3> QED
      BY <2>4, <2>5, <2>6, <2>7, <3>1 DEF Grouping
  <2>9. Grouped(G, c, context) = H
    BY <1>2, <1>3, <1>4, <2>2 DEF Grouped
  <2> QED
    BY <2>8, <2>9
<1>5. CASE ~ Apart(last, c, context)
  <2>1. PICK H : H = [G EXCEPT ![n][2] = c]
    OBVIOUS
  <2>2. H \in Seq(Nat \X Nat) /\ Len(H) = n /\ H[n][1] = G[n][1] /\ H[n][2] = c /\ \A g \in 1..(n - 1) : H[g] = G[g]
    BY <1>1, <1>2, <2>1, EndSet
  <2>3. \A g \in 1..n : H[g][1] = G[g][1] /\ (g # n => H[g] = G[g])
    <3> SUFFICES ASSUME NEW g \in 1..n PROVE H[g][1] = G[g][1] /\ (g # n => H[g] = G[g])
      OBVIOUS
    <3>1. g = n \/ g \in 1..(n - 1)
      OBVIOUS
    <3> QED
      BY <2>2, <3>1
  <2>4. \A g \in 1..n : H[g][1] <= H[g][2] /\ H[g][2] <= c
    <3> SUFFICES ASSUME NEW g \in 1..n PROVE H[g][1] <= H[g][2] /\ H[g][2] <= c
      OBVIOUS
    <3>1. G[g][1] <= G[g][2] /\ G[g][2] <= last /\ G[g][1] \in Nat /\ G[g][2] \in Nat /\ H[g][1] = G[g][1]
      BY <1>2, <2>3
    <3>2. CASE g = n
      BY <2>2, <3>1, <3>2
    <3>3. CASE g # n
      <4>1. H[g] = G[g]
        BY <2>3, <3>3
      <4> QED
        BY <3>1, <4>1
    <3> QED
      BY <3>2, <3>3
  <2>5. \A g \in 1..(n - 1) : /\ H[g + 1][1] > H[g][2] + 2 * context + 1
                              /\ \A v \in (H[g][2] + 1)..(H[g + 1][1] - 1) : v + 1 \notin is
    <3> SUFFICES ASSUME NEW g \in 1..(n - 1)
                 PROVE  /\ H[g + 1][1] > H[g][2] + 2 * context + 1
                        /\ \A v \in (H[g][2] + 1)..(H[g + 1][1] - 1) : v + 1 \notin is
      OBVIOUS
    <3>1. g + 1 \in 1..n /\ H[g] = G[g]
      BY <2>2
    <3>2. H[g + 1][1] = G[g + 1][1]
      BY <2>3, <3>1
    <3> QED
      BY <1>2, <3>1, <3>2
  <2>6. H[1][1] = first
    BY <1>1, <1>2, <2>3
  <2>7. Grouping(H, is, first, c, context)
    BY <1>1, <2>2, <2>4, <2>5, <2>6 DEF Grouping
  <2>8. Grouped(G, c, context) = H
    BY <1>1, <1>2, <1>3, <1>5, <2>1 DEF Grouped
  <2> QED
    BY <2>7, <2>8
<1> QED
  BY <1>4, <1>5

(* The recursion of group_changes. *)
GroupSteps(indices, context, n, w) ==
    w = [i \in 0..n |-> IF i = 0 THEN <<<<indices[1], indices[1]>>>>
                        ELSE Grouped(w[i - 1], indices[i + 1], context)]

LEMMA GroupExists ==
    ASSUME NEW indices, NEW context, NEW n \in Nat
    PROVE  \E w : GroupSteps(indices, context, n, w)
<1> DEFINE P == {m \in Nat : \E w : GroupSteps(indices, context, m, w)}
<1>1. 0 \in P
  <2> DEFINE w == [i \in 0..0 |-> <<<<indices[1], indices[1]>>>>]
  <2>1. GroupSteps(indices, context, 0, w)
    BY DEF GroupSteps
  <2> QED
    BY <2>1, Zenon
<1>2. ASSUME NEW m \in P \cap Nat PROVE m + 1 \in P
  <2> SUFFICES \E w : GroupSteps(indices, context, m + 1, w)
    OBVIOUS
  <2>1. PICK g : GroupSteps(indices, context, m, g)
    OBVIOUS
  <2> DEFINE F(x, i) == Grouped(x, indices[i + 1], context)
             B == <<<<indices[1], indices[1]>>>>
             w == [i \in 0 .. m + 1 |-> IF i = m + 1 THEN F(g[m], m + 1) ELSE g[i]]
  <2>2. \A i \in 0..m : g[i] = IF i = 0 THEN B ELSE F(g[i - 1], i)
    BY <2>1 DEF GroupSteps
  <2> HIDE DEF F, B
  <2>3. ASSUME NEW i \in 0 .. m + 1
        PROVE  w[i] = IF i = 0 THEN B ELSE F(w[i - 1], i)
    <3>1. CASE i = m + 1
      <4>1. w[i] = F(g[m], m + 1) /\ w[i - 1] = g[m] /\ i # 0
        BY <3>1
      <4> HIDE DEF w
      <4> QED BY <4>1, <3>1
    <3>2. CASE i \in 0..m
      <4>1. w[i] = g[i] /\ (i # 0 => w[i - 1] = g[i - 1])
        BY <3>2
      <4> HIDE DEF w
      <4> QED BY <4>1, <3>2, <2>2
    <3> QED
      BY <3>1, <3>2
  <2>4. w = [i \in 0 .. m + 1 |-> w[i]]
    OBVIOUS
  <2>5. GroupSteps(indices, context, m + 1, w)
    <3> HIDE DEF w
    <3> QED BY <2>3, <2>4 DEF GroupSteps, F, B
  <2> QED
    BY <2>5, Zenon
<1>3. Nat \subseteq P
  <2> HIDE DEF P
  <2> QED BY <1>1, <1>2, SetInduction, Zenon
<1> QED
  BY <1>3

LEMMA GroupsAre ==
    ASSUME NEW I, NEW is, NEW n \in Nat, Ascends(I, is, n), I # <<>>, NEW context \in Nat
    PROVE  Grouping(group_changes(I, context), is, I[1], I[Len(I)], context)
<1>9. I \in Seq(Nat) /\ Len(I) \in Nat /\ Len(I) > 0
  BY DEF Ascends
<1>1. PICK m \in Nat : Len(I) = m + 1 /\ Len(I) - 1 = m
  <2>1. Len(I) - 1 \in Nat /\ Len(I) = (Len(I) - 1) + 1
    BY <1>9
  <2> QED
    BY <2>1
<1>2. /\ I \in Seq(Nat) /\ \A j \in 1..(m + 1) : I[j] \in Nat
      /\ \A j \in 1..m : I[j] < I[j + 1] /\ \A v \in (I[j] + 1)..(I[j + 1] - 1) : v + 1 \notin is
  <2>1. \A j \in 1..(Len(I) - 1) : I[j] < I[j + 1] /\ \A v \in (I[j] + 1)..(I[j + 1] - 1) : v + 1 \notin is
    BY DEF Ascends
  <2>2. \A j \in 1..(m + 1) : I[j] \in Nat
    BY <1>1, <1>9
  <2> QED
    BY <1>1, <1>9, <2>1, <2>2
<1> DEFINE w == CHOOSE g : GroupSteps(I, context, m, g)
<1>3. GroupSteps(I, context, m, w)
  BY GroupExists, Zenon
<1>4. group_changes(I, context) = w[m]
  <2>1. group_changes(I, context) = (CHOOSE g : GroupSteps(I, context, Len(I) - 1, g))[Len(I) - 1]
    BY Zenon DEF group_changes, GroupSteps
  <2> QED
    BY <1>1, <2>1
<1> HIDE DEF w
<1>5. w[0] = <<<<I[1], I[1]>>>> /\ \A i \in 1..m : w[i] = Grouped(w[i - 1], I[i + 1], context)
  <2>1. 0 \in 0..m /\ \A i \in 1..m : i \in 0..m /\ i # 0
    OBVIOUS
  <2> QED
    BY <1>3, <2>1 DEF GroupSteps
<1> DEFINE P == {i \in 0..m : Grouping(w[i], is, I[1], I[i + 1], context)}
<1>6. 0 \in P
  <2>1. PICK a \in Nat : a = I[1]
    BY <1>2
  <2>7. PICK t : t = <<a, a>>
    OBVIOUS
  <2>2. t \in Nat \X Nat /\ t = <<a, a>> /\ t[1] = a /\ t[2] = a
    BY <2>7
  <2>3. PICK G : G = <<t>>
    OBVIOUS
  <2>4. G \in Seq(Nat \X Nat) /\ Len(G) = 1 /\ G[1] = t /\ 1..(1 - 1) = {}
    BY <2>2, <2>3
  <2>5. Grouping(G, is, a, a, context)
    BY <2>2, <2>4 DEF Grouping
  <2>6. w[0] = G /\ 0 + 1 = 1 /\ 0 \in 0..m
    BY <1>5, <2>1, <2>2, <2>3
  <2> QED
    BY <2>1, <2>5, <2>6
<1>7. ASSUME NEW i \in P, i \in Nat, i < m PROVE i + 1 \in P
  <2>1. i + 1 \in 1..m /\ (i + 1) - 1 = i /\ i + 1 \in 0..m /\ i + 1 \in 1..(m + 1) /\ (i + 1) + 1 \in 1..(m + 1) /\ 1 \in 1..(m + 1)
    BY <1>7
  <2>2. PICK f \in Nat, l \in Nat, c \in Nat : f = I[1] /\ l = I[i + 1] /\ c = I[(i + 1) + 1]
    BY <1>2, <2>1
  <2>3. PICK G : G = w[i]
    OBVIOUS
  <2>4. Grouping(G, is, f, l, context)
    BY <1>7, <2>2, <2>3
  <2>5. l < c /\ \A v \in (l + 1)..(c - 1) : v + 1 \notin is
    BY <1>2, <2>1, <2>2
  <2>6. Grouping(Grouped(G, c, context), is, f, c, context)
    BY <2>4, <2>5, GroupedIs
  <2>7. w[i + 1] = Grouped(G, c, context)
    BY <1>5, <2>1, <2>2, <2>3
  <2> QED
    BY <2>1, <2>2, <2>6, <2>7
<1>8. m \in P
  <2> HIDE DEF P
  <2> QED BY <1>6, <1>7, UpTo
<1> QED
  BY <1>1, <1>4, <1>8

(* The groups cover the changes: every other action keeps a line.            *)
Grounds(A, N, G, m, context) ==
    /\ m \in Nat /\ m >= 1 /\ N \in Nat /\ context \in Nat /\ context >= 1 /\ Len(G) = m
    /\ \A g \in 1..m : G[g][1] \in Nat /\ G[g][2] \in Nat /\ G[g][1] <= G[g][2] /\ G[g][2] < N
    /\ \A g \in 1..(m - 1) : /\ G[g + 1][1] > G[g][2] + 2 * context + 1
                             /\ \A v \in (G[g][2] + 1)..(G[g + 1][1] - 1) : A[v + 1].kind = "eq"
    /\ \A v \in 0..(G[1][1] - 1) : A[v + 1].kind = "eq"
    /\ \A v \in (G[m][2] + 1)..(N - 1) : A[v + 1].kind = "eq"

From(G, m, N, context, g) == IF g = m + 1 THEN N ELSE Larger(0, G[g][1] - context)
Until(G, N, context, g) == IF g = 0 THEN 0 ELSE Smaller(G[g][2] + context + 1, N)

(* The first and the last action of a group's hunk.                          *)
LEMMA GroupSpan ==
    ASSUME NEW A, NEW N, NEW G, NEW m, NEW context, Grounds(A, N, G, m, context), NEW g \in 1..m
    PROVE  /\ From(G, m, N, context, g) \in 0..N /\ Until(G, N, context, g) \in 0..N
           /\ From(G, m, N, context, g) < Until(G, N, context, g)
           /\ From(G, m, N, context, g) > 0 => A[From(G, m, N, context, g) + 1].kind = "eq"
<1>1. PICK s \in Nat, e \in Nat : s = G[g][1] /\ e = G[g][2] /\ s <= e /\ e < N
  BY DEF Grounds
<1>2. PICK c \in Nat : c = context /\ c >= 1 /\ N \in Nat /\ m \in Nat
  BY DEF Grounds
<1>3. PICK f, u : f = From(G, m, N, context, g) /\ u = Until(G, N, context, g)
  OBVIOUS
<1>4. f = Larger(0, s - c) /\ u = Smaller(e + c + 1, N)
  BY <1>1, <1>2, <1>3 DEF From, Until
<1>5. f \in 0..N /\ u \in 0..N /\ f < u /\ f <= s /\ (f > 0 => f = s - c)
  BY <1>1, <1>2, <1>4 DEF Larger, Smaller, Pick
<1>6. ASSUME f > 0 PROVE A[f + 1].kind = "eq"
  <2>1. f = s - c /\ f < s /\ f \in 0..(s - 1)
    BY <1>1, <1>2, <1>5, <1>6
  <2>2. CASE g = 1
    <3>1. \A v \in 0..(s - 1) : A[v + 1].kind = "eq"
      BY <1>1, <2>2 DEF Grounds
    <3> QED
      BY <2>1, <3>1
  <2>3. CASE g # 1
    <3>1. PICK h \in 1..(m - 1) : h + 1 = g
      <4>1. g - 1 \in 1..(m - 1) /\ (g - 1) + 1 = g
        BY <1>2, <2>3
      <4> QED
        BY <4>1
    <3>2. PICK d \in Nat : d = G[h][2]
      <4>1. h \in 1..m
        BY <1>2
      <4> QED
        BY <4>1 DEF Grounds
    <3>3. s > d + 2 * c + 1 /\ \A v \in (d + 1)..(s - 1) : A[v + 1].kind = "eq"
      BY <1>1, <1>2, <3>1, <3>2 DEF Grounds
    <3>4. f \in (d + 1)..(s - 1)
      BY <1>1, <1>2, <2>1, <3>3
    <3> QED
      BY <3>3, <3>4
  <2> QED
    BY <2>2, <2>3
<1> QED
  BY <1>3, <1>5, <1>6

(* Between two hunks, before the first and behind the last.                  *)
LEMMA GroupGap ==
    ASSUME NEW A, NEW N, NEW G, NEW m, NEW context, Grounds(A, N, G, m, context), NEW g \in 1..(m + 1)
    PROVE  /\ From(G, m, N, context, g) \in 0..N /\ Until(G, N, context, g - 1) \in 0..N
           /\ Until(G, N, context, g - 1) <= From(G, m, N, context, g)
           /\ \A i \in (Until(G, N, context, g - 1) + 1)..From(G, m, N, context, g) : A[i].kind = "eq"
<1>1. PICK c \in Nat : c = context /\ c >= 1 /\ N \in Nat /\ m \in Nat /\ m >= 1
  BY DEF Grounds
<1>2. PICK u, f : u = Until(G, N, context, g - 1) /\ f = From(G, m, N, context, g)
  OBVIOUS
<1>3. CASE g = 1
  <2>1. PICK s \in Nat : s = G[1][1] /\ s < N
    BY <1>1 DEF Grounds
  <2>2. g - 1 = 0 /\ g # m + 1
    BY <1>1, <1>3
  <2>3. u = 0 /\ f = Larger(0, s - c)
    BY <1>1, <1>2, <1>3, <2>1, <2>2 DEF From, Until
  <2>4. f \in 0..N /\ u \in 0..N /\ u <= f /\ (f > 0 => f = s - c)
    BY <1>1, <2>1, <2>3 DEF Larger, Pick
  <2>5. \A v \in 0..(s - 1) : A[v + 1].kind = "eq"
    BY <2>1 DEF Grounds
  <2>6. \A i \in (u + 1)..f : i - 1 \in 0..(s - 1) /\ (i - 1) + 1 = i
    BY <1>1, <2>1, <2>3, <2>4
  <2> QED
    BY <1>2, <2>4, <2>5, <2>6
<1>4. CASE g \in 2..m
  <2>1. PICK h \in 1..(m - 1) : h + 1 = g /\ g - 1 = h /\ h # 0 /\ g # m + 1
    <3>1. g - 1 \in 1..(m - 1) /\ (g - 1) + 1 = g /\ g - 1 # 0 /\ g # m + 1
      BY <1>1, <1>4
    <3> QED
      BY <3>1
  <2>2. PICK d \in Nat, s \in Nat : d = G[h][2] /\ s = G[g][1] /\ s < N
    <3>1. h \in 1..m /\ g \in 1..m
      BY <1>1, <1>4
    <3>2. G[h][2] \in Nat /\ G[g][1] \in Nat /\ G[g][2] \in Nat /\ G[g][1] <= G[g][2] /\ G[g][2] < N
      BY <3>1 DEF Grounds
    <3> QED
      BY <1>1, <3>2
  <2>3. s > d + 2 * c + 1 /\ \A v \in (d + 1)..(s - 1) : A[v + 1].kind = "eq"
    BY <1>1, <2>1, <2>2 DEF Grounds
  <2>4. u = Smaller(d + c + 1, N) /\ f = Larger(0, s - c)
    BY <1>1, <1>2, <2>1, <2>2 DEF From, Until
  <2>5. u = d + c + 1 /\ f = s - c /\ u <= f /\ u \in 0..N /\ f \in 0..N
    BY <1>1, <2>2, <2>3, <2>4 DEF Larger, Smaller, Pick
  <2>6. \A i \in (u + 1)..f : i - 1 \in (d + 1)..(s - 1) /\ (i - 1) + 1 = i
    BY <1>1, <2>2, <2>5
  <2> QED
    BY <1>2, <2>3, <2>5, <2>6
<1>5. CASE g = m + 1
  <2>1. PICK e \in Nat : e = G[m][2] /\ e < N
    <3>1. m \in 1..m
      BY <1>1
    <3> QED
      BY <3>1 DEF Grounds
  <2>2. g - 1 = m /\ m # 0
    BY <1>1, <1>5
  <2>3. u = Smaller(e + c + 1, N) /\ f = N
    BY <1>1, <1>2, <1>5, <2>1, <2>2 DEF From, Until
  <2>4. u \in 0..N /\ f \in 0..N /\ u <= f /\ (u = N \/ u = e + c + 1)
    BY <1>1, <2>1, <2>3 DEF Smaller, Pick
  <2>5. \A v \in (e + 1)..(N - 1) : A[v + 1].kind = "eq"
    BY <2>1 DEF Grounds
  <2>6. \A i \in (u + 1)..f : i - 1 \in (e + 1)..(N - 1) /\ (i - 1) + 1 = i
    BY <1>1, <2>1, <2>3, <2>4
  <2> QED
    BY <1>2, <2>4, <2>5, <2>6
<1> QED
  <2>1. g = 1 \/ g \in 2..m \/ g = m + 1
    BY <1>1
  <2> QED
    BY <1>3, <1>4, <1>5, <2>1

(* The groups of a walk are such.                                            *)
LEMMA GroundsAre ==
    ASSUME NEW old, NEW new, NEW A, NEW X, NEW Y, NEW N, Passes(old, new, A, X, Y, N), NEW context \in Nat, context >= 1,
           collect_change_indices(A) # <<>>
    PROVE  LET G == group_changes(collect_change_indices(A), context)
           IN  Grounds(A, N, G, Len(G), context)
<1>1. N \in Nat /\ Len(A) = N
  BY DEF Passes
<1>2. PICK is : is = OfKinds(A, {"ins", "del"})
  OBVIOUS
<1>3. PICK I : I = collect_change_indices(A)
  OBVIOUS
<1>4. Ascends(I, is, N)
  BY <1>1, <1>2, <1>3, ChosenAscends DEF collect_change_indices
<1>5. \A v \in 0..(N - 1) : v + 1 \notin is => A[v + 1].kind = "eq"
  <2> SUFFICES ASSUME NEW v \in 0..(N - 1), v + 1 \notin is PROVE A[v + 1].kind = "eq"
    OBVIOUS
  <2>1. v + 1 \in 1..N
    BY <1>1
  <2>2. A[v + 1].kind \in Kinds
    BY <2>1, StepAt
  <2> QED
    BY <1>1, <1>2, <2>1, <2>2 DEF OfKinds, Kinds
<1>6. PICK G : G = group_changes(I, context)
  OBVIOUS
<1>7. I \in Seq(Nat) /\ Len(I) \in Nat /\ Len(I) > 0
  BY <1>3, <1>4 DEF Ascends
<1>8. PICK a \in Nat, z \in Nat : a = I[1] /\ z = I[Len(I)] /\ z < N
  BY <1>4, <1>7 DEF Ascends
<1>9. Grouping(G, is, a, z, context)
  <2>1. I # <<>>
    BY <1>3
  <2> QED
    BY <1>1, <1>4, <1>6, <1>8, <2>1, GroupsAre
<1>10. \A v \in 0..(N - 1) : v + 1 \in is => a <= v /\ v <= z
  BY <1>4, <1>8 DEF Ascends
<1>11. PICK m \in Nat : m = Len(G) /\ m >= 1
  BY <1>9 DEF Grouping
<1>12. /\ G \in Seq(Nat \X Nat) /\ G[1][1] = a /\ G[m][2] = z
       /\ \A g \in 1..m : G[g] \in Nat \X Nat /\ G[g][1] <= G[g][2] /\ G[g][2] <= z
       /\ \A g \in 1..(m - 1) : /\ G[g + 1][1] > G[g][2] + 2 * context + 1
                                /\ \A v \in (G[g][2] + 1)..(G[g + 1][1] - 1) : v + 1 \notin is
  BY <1>9, <1>11 DEF Grouping
<1>13. \A g \in 1..m : G[g][1] \in Nat /\ G[g][2] \in Nat /\ G[g][1] <= G[g][2] /\ G[g][2] < N
  <2> SUFFICES ASSUME NEW g \in 1..m PROVE G[g][1] \in Nat /\ G[g][2] \in Nat /\ G[g][1] <= G[g][2] /\ G[g][2] < N
    OBVIOUS
  <2>1. G[g] \in Nat \X Nat /\ G[g][1] <= G[g][2] /\ G[g][2] <= z
    BY <1>12
  <2>2. G[g][1] \in Nat /\ G[g][2] \in Nat
    BY <2>1
  <2> QED
    BY <1>1, <1>8, <2>1, <2>2
<1>14. ASSUME NEW g \in 1..(m - 1), NEW v \in (G[g][2] + 1)..(G[g + 1][1] - 1) PROVE A[v + 1].kind = "eq"
  <2>1. v + 1 \notin is
    BY <1>12
  <2>2. g \in 1..m /\ g + 1 \in 1..m
    BY <1>11
  <2>3. PICK x \in Nat, y \in Nat : x = G[g][2] /\ y = G[g + 1][1] /\ y < N
    <3>1. G[g][2] \in Nat /\ G[g + 1][1] \in Nat /\ G[g + 1][2] \in Nat /\ G[g + 1][1] <= G[g + 1][2] /\ G[g + 1][2] < N
      BY <1>13, <2>2
    <3>2. N \in Nat
      BY <1>1
    <3>3. G[g + 1][1] < N
      BY ONLY <3>1, <3>2
    <3> QED
      BY ONLY <3>1, <3>3
  <2>4. v \in 0..(N - 1)
    BY <1>1, <2>3
  <2> QED
    BY <1>5, <2>1, <2>4
<1>15. ASSUME NEW v \in 0..(a - 1) PROVE A[v + 1].kind = "eq"
  <2>1. a < N
    <3>1. 1 \in 1..Len(I)
      BY <1>7
    <3> QED
      BY <1>4, <1>8, <3>1 DEF Ascends
  <2>2. v \in 0..(N - 1) /\ ~ (a <= v)
    BY <1>1, <2>1
  <2> QED
    BY <1>5, <1>10, <2>2
<1>16. ASSUME NEW v \in (z + 1)..(N - 1) PROVE A[v + 1].kind = "eq"
  <2>1. v \in 0..(N - 1) /\ ~ (v <= z)
    BY <1>1
  <2> QED
    BY <1>5, <1>10, <2>1
<1>17. Grounds(A, N, G, m, context)
  BY <1>1, <1>11, <1>12, <1>13, <1>14, <1>15, <1>16 DEF Grounds
<1> QED
  BY <1>3, <1>6, <1>11, <1>17

(* What HunksApply says of two texts.                                        *)
HunksFit(old, new, hunks) ==
    IF TooLong(old, new) THEN hunks = <<>>
    ELSE /\ Patched(old, hunks) = new
         /\ \A h \in ToSet(hunks) :
               HunkSide(h, {"eq", "ins"}) = SubSeq(new, h.new_start, h.new_start + h.new_count - 1)

LEMMA HunkNames ==
    ASSUME NEW old, NEW new, NEW X, NEW Y, NEW h, NEW f, NEW u, HunkAt(old, new, X, Y, h, f, u), Y[f] \in Nat, Y[u] \in Nat
    PROVE  HunkSide(h, {"eq", "ins"}) = SubSeq(new, h.new_start, h.new_start + h.new_count - 1)
<1>1. PICK a \in Nat, b \in Nat : a = Y[f] /\ b = Y[u]
  OBVIOUS
<1>2. h.new_start = a + 1 /\ h.new_count = b - a /\ HunkSide(h, {"eq", "ins"}) = SubSeq(new, a + 1, b)
  BY <1>1 DEF HunkAt
<1>3. h.new_start + h.new_count - 1 = b
  BY <1>2
<1> QED
  BY <1>2, <1>3

LEMMA TilesFit ==
    ASSUME NEW S, NEW old, NEW new, NEW A, NEW X, NEW Y, NEW N, NEW m, NEW H, NEW F, NEW U,
           Tiled(S, old, new, A, X, Y, N, m, H, F, U), ~ TooLong(old, new)
    PROVE  HunksFit(old, new, H)
<1>1. Patched(old, H) = new
  BY TiledPatch
<1>2. ASSUME NEW h \in ToSet(H)
      PROVE  HunkSide(h, {"eq", "ins"}) = SubSeq(new, h.new_start, h.new_start + h.new_count - 1)
  <2>1. m \in Nat /\ Len(H) = m /\ F \in [1..(m + 1) -> 0..N] /\ U \in [0..m -> 0..N] /\ N \in Nat /\ Y \in [0..N -> Nat]
    BY DEF Tiled, Passes
  <2>2. PICK g \in 1..m : h = H[g]
    BY <2>1 DEF ToSet
  <2>3. PICK f, u : f = F[g] /\ u = U[g]
    OBVIOUS
  <2>4. HunkAt(old, new, X, Y, h, f, u)
    BY <2>2, <2>3 DEF Tiled
  <2>5. f \in 0..N /\ u \in 0..N
    BY <2>1, <2>3
  <2>6. Y[f] \in Nat /\ Y[u] \in Nat
    BY <2>1, <2>5
  <2> QED
    BY <2>4, <2>6, HunkNames
<1> QED
  BY <1>1, <1>2 DEF HunksFit

LEMMA NoChange ==
    ASSUME NEW S, NEW old \in Seq(S), NEW new \in Seq(S), NEW A, NEW X, NEW Y, NEW N, Passes(old, new, A, X, Y, N),
           collect_change_indices(A) = <<>>
    PROVE  Tiled(S, old, new, A, X, Y, N, 0, <<>>, [g \in 1..1 |-> N], [g \in 0..0 |-> 0])
<1>1. N \in Nat /\ Len(A) = N
  BY DEF Passes
<1>2. PICK is, I : is = OfKinds(A, {"ins", "del"}) /\ I = collect_change_indices(A)
  OBVIOUS
<1>3. Ascends(I, is, N)
  BY <1>1, <1>2, ChosenAscends DEF collect_change_indices
<1>4. \A i \in 1..N : A[i].kind = "eq"
  <2> SUFFICES ASSUME NEW i \in 1..N PROVE A[i].kind = "eq"
    OBVIOUS
  <2>1. i - 1 \in 0..(N - 1) /\ (i - 1) + 1 = i
    BY <1>1
  <2>2. Len(I) = 0
    BY <1>2
  <2>3. i \notin is
    BY <1>3, <2>1, <2>2 DEF Ascends
  <2>4. A[i].kind \in Kinds
    BY StepAt
  <2> QED
    BY <1>1, <1>2, <2>3, <2>4 DEF OfKinds, Kinds
<1>5. SameGap(old, new, X, Y, 0, N)
  <2>1. Gap(S, old, new, A, X, Y, N, 0, N)
    BY <1>1, <1>4 DEF Gap
  <2> QED
    BY ONLY <2>1, GapSame
<1>6. PICK F, U : F = [g \in 1..1 |-> N] /\ U = [g \in 0..0 |-> 0]
  OBVIOUS
<1>7. F \in [1..(0 + 1) -> 0..N] /\ U \in [0..0 -> 0..N] /\ U[0] = 0 /\ F[0 + 1] = N
  BY <1>1, <1>6
<1>8. \A g \in 1..(0 + 1) : U[g - 1] <= F[g] /\ SameGap(old, new, X, Y, U[g - 1], F[g])
  <2> SUFFICES ASSUME NEW g \in 1..(0 + 1) PROVE U[g - 1] <= F[g] /\ SameGap(old, new, X, Y, U[g - 1], F[g])
    OBVIOUS
  <2>1. g = 1 /\ g - 1 = 0
    OBVIOUS
  <2>2. U[g - 1] = 0 /\ F[g] = N
    BY <1>7, <2>1
  <2> QED
    BY <1>1, <1>5, <2>2
<1>9. Len(<<>>) = 0 /\ 1..0 = {} /\ 0 \in Nat
  OBVIOUS
<1>10. Tiled(S, old, new, A, X, Y, N, 0, <<>>, F, U)
  BY <1>7, <1>8, <1>9 DEF Tiled
<1> QED
  BY <1>6, <1>10

LEMMA GroupsTile ==
    ASSUME NEW S, NEW old \in Seq(S), NEW new \in Seq(S), NEW A, NEW X, NEW Y, NEW N, Passes(old, new, A, X, Y, N),
           NEW G, NEW m, NEW context, Grounds(A, N, G, m, context)
    PROVE  Tiled(S, old, new, A, X, Y, N, m, [g \in 1..m |-> HunkOf(G[g], A, old, new, context)],
                 [g \in 1..(m + 1) |-> From(G, m, N, context, g)], [g \in 0..m |-> Until(G, N, context, g)])
<1>1. m \in Nat /\ N \in Nat /\ m >= 1
  BY DEF Grounds
<1>2. PICK H, F, U : /\ H = [g \in 1..m |-> HunkOf(G[g], A, old, new, context)]
                     /\ F = [g \in 1..(m + 1) |-> From(G, m, N, context, g)] /\ U = [g \in 0..m |-> Until(G, N, context, g)]
  OBVIOUS
<1>3. ASSUME NEW g \in 1..(m + 1)
      PROVE  F[g] \in 0..N /\ U[g - 1] \in 0..N /\ U[g - 1] <= F[g] /\ SameGap(old, new, X, Y, U[g - 1], F[g])
  <2>1. g - 1 \in 0..m
    BY <1>1
  <2>2. PICK f, u : f = F[g] /\ u = U[g - 1]
    OBVIOUS
  <2>3. f = From(G, m, N, context, g) /\ u = Until(G, N, context, g - 1)
    BY <1>2, <2>1, <2>2
  <2>4. f \in 0..N /\ u \in 0..N /\ u <= f /\ \A i \in (u + 1)..f : A[i].kind = "eq"
    BY <2>3, GroupGap
  <2>5. Gap(S, old, new, A, X, Y, N, u, f)
    BY <1>1, <2>4 DEF Gap
  <2>6. SameGap(old, new, X, Y, u, f)
    BY ONLY <2>5, GapSame
  <2> QED
    BY <2>2, <2>4, <2>6
<1>4. ASSUME NEW g \in 1..m PROVE F[g] <= U[g] /\ U[g] \in 0..N /\ HunkAt(old, new, X, Y, H[g], F[g], U[g])
  <2>1. g \in 1..(m + 1) /\ g \in 0..m /\ g # m + 1 /\ g # 0
    BY <1>1
  <2>2. PICK f, u, group : f = F[g] /\ u = U[g] /\ group = G[g]
    OBVIOUS
  <2>3. f = From(G, m, N, context, g) /\ u = Until(G, N, context, g)
    BY <1>2, <2>1, <2>2
  <2>4. f \in 0..N /\ u \in 0..N /\ f < u /\ (f > 0 => A[f + 1].kind = "eq")
    BY <2>3, GroupSpan
  <2>5. HunkSpan(S, old, new, A, X, Y, N, f, u)
    BY <1>1, <2>4 DEF HunkSpan
  <2>6. f = Larger(0, group[1] - context) /\ u = Smaller(group[2] + context + 1, N)
    BY <2>1, <2>2, <2>3 DEF From, Until
  <2>7. HunkAt(old, new, X, Y, HunkOf(group, A, old, new, context), f, u)
    BY ONLY <2>5, <2>6, HunkIs
  <2>8. H[g] = HunkOf(group, A, old, new, context)
    BY <1>2, <2>2
  <2> QED
    BY <1>1, <2>2, <2>4, <2>7, <2>8
<1>5. U[0] = 0 /\ F[m + 1] = N
  <2>1. 0 \in 0..m /\ m + 1 \in 1..(m + 1)
    BY <1>1
  <2> QED
    BY <1>2, <2>1 DEF From, Until
<1>6. F \in [1..(m + 1) -> 0..N]
  BY <1>2, <1>3
<1>7. U \in [0..m -> 0..N]
  <2>1. \A g \in 0..m : U[g] \in 0..N
    <3> SUFFICES ASSUME NEW g \in 0..m PROVE U[g] \in 0..N
      OBVIOUS
    <3>1. g = 0 \/ g \in 1..m
      BY <1>1
    <3> QED
      BY <1>1, <1>4, <1>5, <3>1
  <2> QED
    BY <1>2, <2>1
<1>8. Len(H) = m
  BY <1>1, <1>2
<1>9. Tiled(S, old, new, A, X, Y, N, m, H, F, U)
  BY <1>1, <1>3, <1>4, <1>5, <1>6, <1>7, <1>8 DEF Tiled
<1> QED
  BY <1>2, <1>9

LEMMA HunksAre ==
    ASSUME NEW S, NEW old \in Seq(S), NEW new \in Seq(S), NEW context \in Nat, context >= 1
    PROVE  HunksFit(old, new, diff_to_hunks(old, new, context))
<1>1. CASE TooLong(old, new)
  BY <1>1 DEF HunksFit, diff_to_hunks
<1>2. CASE ~ TooLong(old, new)
  <2>1. PICK A : A = expand_ops_to_actions(myers_diff(old, new))
    OBVIOUS
  <2>2. PICK X, Y, N : Passes(old, new, A, X, Y, N)
    BY <2>1, ActionsWalk
  <2>3. CASE collect_change_indices(A) = <<>>
    <3>1. Tiled(S, old, new, A, X, Y, N, 0, <<>>, [g \in 1..1 |-> N], [g \in 0..0 |-> 0])
      BY <2>2, <2>3, NoChange
    <3>2. HunksFit(old, new, <<>>)
      BY ONLY <1>2, <3>1, TilesFit
    <3>3. diff_to_hunks(old, new, context) = <<>>
      BY <2>1, <2>3 DEF diff_to_hunks
    <3> QED
      BY <3>2, <3>3
  <2>4. CASE collect_change_indices(A) # <<>>
    <3>1. PICK G : G = group_changes(collect_change_indices(A), context)
      OBVIOUS
    <3>2. PICK m : m = Len(G)
      OBVIOUS
    <3>3. Grounds(A, N, G, m, context)
      BY <2>2, <2>4, <3>1, <3>2, GroundsAre
    <3>4. PICK H, F, U : /\ H = [g \in 1..m |-> HunkOf(G[g], A, old, new, context)]
                         /\ F = [g \in 1..(m + 1) |-> From(G, m, N, context, g)]
                         /\ U = [g \in 0..m |-> Until(G, N, context, g)]
      OBVIOUS
    <3>5. Tiled(S, old, new, A, X, Y, N, m, H, F, U)
      BY <2>2, <3>3, <3>4, GroupsTile
    <3>6. HunksFit(old, new, H)
      BY ONLY <1>2, <3>5, TilesFit
    <3>7. diff_to_hunks(old, new, context) = H
      BY <1>2, <2>1, <2>4, <3>1, <3>2, <3>4 DEF diff_to_hunks
    <3> QED
      BY <3>6, <3>7
  <2> QED
    BY <2>3, <2>4
<1> QED
  BY <1>1, <1>2

-----------------------------------------------------------------------------
(* The theorem about all of it.                                              *)

(* The texts are texts, and the answer is the one the code gives for them.   *)
TextInv ==
    /\ texts \in [base : Contents, ours : Contents, theirs : Contents]
    /\ \/ answer = <<>>
       \/ \E context \in {1, 3} :
              answer = [kind |-> "diff", context |-> context,
                        ops |-> diff_lines(texts.base, texts.ours),
                        hunks |-> diff_to_hunks(texts.base, texts.ours, context)]
       \/ answer = [kind |-> "merge",
                    merge |-> three_way_merge(texts.base, texts.ours, texts.theirs),
                    swapped |-> three_way_merge(texts.base, texts.theirs, texts.ours)]

LEMMA TextsTyped ==
    ASSUME TextInv
    PROVE  texts.base \in Seq(Lines) /\ texts.ours \in Seq(Lines) /\ texts.theirs \in Seq(Lines)
<1>1. BoundedSeq(Lines \ BinaryLines, MaxLines) \subseteq Seq(Lines)
  BY TextAssumption DEF BoundedSeq, SeqOf
<1>2. Contents \subseteq Seq(Lines)
  BY <1>1, TextAssumption DEF Contents
<1>3. texts.base \in Contents /\ texts.ours \in Contents /\ texts.theirs \in Contents
  BY DEF TextInv
<1> QED
  BY <1>2, <1>3

LEMMA DiffsSound == TextInv => DiffShortest /\ HunksApply
<1> SUFFICES ASSUME TextInv PROVE DiffShortest /\ HunksApply
  OBVIOUS
<1>1. PICK old, new : old = texts.base /\ new = texts.ours
  OBVIOUS
<1>2. old \in Seq(Lines) /\ new \in Seq(Lines)
  BY <1>1, TextsTyped
<1>3. CASE ~ Answered("diff")
  BY <1>3 DEF DiffShortest, HunksApply
<1>4. CASE Answered("diff")
  <2>1. answer # <<>> /\ answer.kind = "diff"
    BY <1>4 DEF Answered
  <2>2. answer # [kind |-> "merge",
                  merge |-> three_way_merge(texts.base, texts.ours, texts.theirs),
                  swapped |-> three_way_merge(texts.base, texts.theirs, texts.ours)]
    BY <2>1
  <2>3. PICK context \in {1, 3} :
          answer = [kind |-> "diff", context |-> context,
                    ops |-> diff_lines(texts.base, texts.ours),
                    hunks |-> diff_to_hunks(texts.base, texts.ours, context)]
    BY <2>1, <2>2 DEF TextInv
  <2>4. PICK ops, hunks : ops = diff_lines(old, new) /\ hunks = diff_to_hunks(old, new, context)
    OBVIOUS
  <2>5. answer.ops = ops /\ answer.hunks = hunks
    BY <1>1, <2>3, <2>4
  <2>6. Shortest(old, new, ops)
    BY <1>2, <2>4, DiffIsShortest
  <2>7. DiffShortest
    BY <1>1, <2>5, <2>6 DEF DiffShortest, Shortest, OldPart, NewPart
  <2>8. HunksFit(old, new, hunks)
    <3>1. context \in Nat /\ context >= 1
      OBVIOUS
    <3> QED
      BY <1>2, <2>4, <3>1, HunksAre
  <2>9. HunksApply
    BY <1>1, <2>5, <2>8 DEF HunksApply, HunksFit
  <2> QED
    BY <2>7, <2>9
<1> QED
  BY <1>3, <1>4

LEMMA MergesSound == TextInv => ChangesWhole /\ SeparateChangesMerge /\ KeptLinesSurvive
<1> SUFFICES ASSUME TextInv PROVE ChangesWhole /\ SeparateChangesMerge /\ KeptLinesSurvive
  OBVIOUS
<1>1. PICK base, ours, theirs : base = texts.base /\ ours = texts.ours /\ theirs = texts.theirs
  OBVIOUS
<1>2. base \in Seq(Lines) /\ ours \in Seq(Lines) /\ theirs \in Seq(Lines)
  BY <1>1, TextsTyped
<1>3. ChangesWhole
  <2>1. \A side \in {ours, theirs} : Combined(base, build_change_map(diff_lines(base, side), side), <<>>) = side
    BY <1>2, DiffWhole
  <2> QED
    BY <1>1, <2>1 DEF ChangesWhole
<1>4. CASE ~ Answered("merge")
  BY <1>3, <1>4 DEF SeparateChangesMerge, KeptLinesSurvive
<1>5. CASE Answered("merge")
  <2>1. answer # <<>> /\ answer.kind = "merge"
    BY <1>5 DEF Answered
  <2>2. answer.merge = three_way_merge(base, ours, theirs)
    BY <1>1, <2>1 DEF TextInv
  <2>3. SeparateChangesMerge
    <3>1. PICK o, t : o = build_change_map(diff_lines(base, ours), ours) /\ t = build_change_map(diff_lines(base, theirs), theirs)
      OBVIOUS
    <3>2. Touched(o) \cap Touched(t) = {} => answer.merge = [out |-> Combined(base, o, t), conflicts |-> 0]
      BY <1>2, <2>2, <3>1, SeparateMerge
    <3> QED
      BY <1>1, <3>1, <3>2 DEF SeparateChangesMerge
  <2>4. KeptLinesSurvive
    <3>1. PICK is : is = {i \in 1..Len(base) : i - 1 \notin RemovedBy(diff_lines(base, ours)) \cup RemovedBy(diff_lines(base, theirs))}
      OBVIOUS
    <3>2. PICK s : s = Chosen(base, is)
      OBVIOUS
    <3>3. FoundIn(s, answer.merge.out) = Len(s)
      BY <1>2, <2>2, <3>1, <3>2, MergeKeeps
    <3> QED
      BY <1>1, <3>1, <3>2, <3>3 DEF KeptLinesSurvive, RemovedBy
  <2> QED
    BY <1>3, <2>3, <2>4
<1> QED
  BY <1>4, <1>5

(* For texts of any length: the script of diff_lines rewrites old into new   *)
(* and keeps as many lines as any can; the hunks of diff_to_hunks apply and  *)
(* name the lines they repeat; the change map that three_way_merge reads a   *)
(* script into holds all of it; changes of places apart merge in full and    *)
(* without a conflict; no merge loses a line both sides kept; and exchanging *)
(* the sides changes neither conflicts nor a clean result.                   *)
THEOREM TextsAreSound == TextSpec => []TextSound
<1>1. TextInit => TextInv
  BY DEF TextInit, TextInv
<1>2. TextInv /\ [TextNext]_textVars => TextInv'
  <2> SUFFICES ASSUME TextInv, [TextNext]_textVars PROVE TextInv'
    OBVIOUS
  <2>1. CASE UNCHANGED textVars
    BY <2>1 DEF textVars, TextInv
  <2>2. CASE Merge
    BY <2>2 DEF Merge, TextInv
  <2>3. CASE \E context \in {1, 3} : Diff(context)
    BY <2>3 DEF Diff, TextInv
  <2> QED
    BY <2>1, <2>2, <2>3 DEF TextNext
<1>3. TextInv /\ MergeSymmetric => TextSound
  BY DiffsSound, MergesSound DEF TextSound
<1> QED
  BY <1>1, <1>2, <1>3, MergeIsSymmetric, PTL DEF TextSpec
=============================================================================
