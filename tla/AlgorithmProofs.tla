-------------------------- MODULE AlgorithmProofs ---------------------------
(***************************************************************************)
(* Theorems about the algorithms that keep no shared state, for inputs of    *)
(* any size: bisection finds the commit, the merge of trees keeps every      *)
(* change, the dependency updates touch what they offer to and nothing else, *)
(* and the bridge to git carries the histories over.  The theorems about the *)
(* diff and the merge of texts are in TextProofs.                            *)
(*                                                                           *)
(* The recursive functions of the models are used through a lemma of their   *)
(* own: a function that satisfies the recursion exists, so the one that is   *)
(* chosen does.                                                              *)
(***************************************************************************)
EXTENDS TreeMerge, Bisect, Manifests, GitBridge, SequenceTheorems, FiniteSetTheorems,
        WellFoundedInduction, TLAPS

(* A set of numbers with 0 and the successor of each has them all.           *)
LEMMA SetInduction ==
    ASSUME NEW P, 0 \in P, \A n \in P \cap Nat : n + 1 \in P
    PROVE  Nat \subseteq P
<1> DEFINE B == {n \in Nat : n \notin P}
<1>1. SUFFICES ASSUME B # {} PROVE FALSE
  OBVIOUS
<1>2. PICK x \in B : \A y \in B : ~ (<<y, x>> \in OpToRel(<, Nat))
  BY <1>1, WFMin, NatLessThanWellFounded, B \subseteq Nat, Zenon
<1>3. \A y \in B : ~ (y < x)
  BY <1>2 DEF OpToRel
<1>4. x # 0 /\ x - 1 \in Nat /\ x - 1 < x
  OBVIOUS
<1>5. x - 1 \in P \cap Nat
  BY <1>3, <1>4
<1> QED
  BY <1>5, <1>4, (x - 1) + 1 = x

(* A set of numbers has a least one.                                         *)
LEMMA Least ==
    ASSUME NEW S \in SUBSET Nat, S # {}
    PROVE  \E x \in S : \A y \in S : x <= y
<1>1. PICK x \in S : \A y \in S : ~ (<<y, x>> \in OpToRel(<, Nat))
  BY WFMin, NatLessThanWellFounded, Zenon
<1>2. \A y \in S : ~ (y < x)
  BY <1>1 DEF OpToRel
<1> QED
  BY <1>2

-----------------------------------------------------------------------------
(* Bisection.                                                                *)

BisectSessions ==
    [on : BOOLEAN, good : Seq(Int), bad : Seq(Int), candidates : Seq(Int), current_idx : Nat]

(* The commits after g and before b.                                         *)
Between(g, b) == [i \in 1..(b - g - 1) |-> g + i]

(* The last answer of a kind is the closest one, and the candidates are      *)
(* the commits between the two.                                              *)
Narrowed(s) ==
    /\ Len(s.good) > 0 /\ Len(s.bad) > 0
    /\ \A i \in 1..Len(s.good) : s.good[i] <= Last(s.good)
    /\ \A i \in 1..Len(s.bad) : s.bad[i] >= Last(s.bad)
    /\ Last(s.good) < first /\ first <= Last(s.bad)
    /\ s.candidates = Between(Last(s.good), Last(s.bad))

BisectInv ==
    /\ first \in Int /\ tests \in Nat /\ session \in BisectSessions
    /\ session.on /\ ~strayed =>
          Narrowed(session) /\ (session.candidates = <<>> => tests = 0)
    /\ found # 0 /\ ~strayed => found \in {first, first - 1}

LEMMA BetweenIs ==
    ASSUME NEW g \in Int, NEW b \in Int, g < b
    PROVE  /\ Between(g, b) \in Seq(Int) /\ Len(Between(g, b)) = b - g - 1
           /\ \A i \in 1..(b - g - 1) : Between(g, b)[i] = g + i
BY DEF Between

(* A position is what is left of a candidate in the list.                    *)
LEMMA PositionIs ==
    ASSUME NEW g \in Int, NEW b \in Int, g < b, NEW c \in (g + 1)..(b - 1)
    PROVE  SelectInSeq(Between(g, b), LAMBDA x : x = c) = c - g
<1> DEFINE I == {i \in 1..Len(Between(g, b)) : Between(g, b)[i] = c}
<1>1. PICK s : s = Between(g, b)
  OBVIOUS
<1>2. Len(s) = b - g - 1 /\ \A i \in 1..(b - g - 1) : s[i] = g + i
  BY <1>1, BetweenIs
<1>3. I = {c - g}
  BY <1>1, <1>2
<1>4. Min({c - g}) = c - g
  BY DEF Min
<1>5. SelectInSeq(Between(g, b), LAMBDA x : x = c) = IF I # {} THEN Min(I) ELSE 0
  BY Zenon DEF SelectInSeq
<1> QED
  BY <1>3, <1>4, <1>5

LEMMA CutsAre ==
    ASSUME NEW g \in Int, NEW b \in Int, g < b, NEW c \in (g + 1)..(b - 1)
    PROVE  /\ AfterGood(Between(g, b), c - g) = Between(c, b)
           /\ BeforeBad(Between(g, b), c - g) = Between(g, c)
<1>1. PICK s \in Seq(Int) : s = Between(g, b)
  BY BetweenIs
<1>2. Len(s) = b - g - 1 /\ \A i \in 1..(b - g - 1) : s[i] = g + i
  BY <1>1, BetweenIs
<1>3. AfterGood(s, c - g) = [i \in 1..(b - c - 1) |-> c + i]
  <2>1. AfterGood(s, c - g) = [i \in 1..(b - c - 1) |-> s[(c - g + 1) + i - 1]]
    BY <1>2 DEF AfterGood
  <2>2. \A i \in 1..(b - c - 1) : s[(c - g + 1) + i - 1] = c + i
    BY <1>2
  <2> QED
    BY <2>1, <2>2
<1>4. BeforeBad(s, c - g) = [i \in 1..(c - g - 1) |-> g + i]
  <2>1. BeforeBad(s, c - g) = [i \in 1..(c - g - 1) |-> s[1 + i - 1]]
    BY <1>2 DEF BeforeBad
  <2>2. \A i \in 1..(c - g - 1) : s[1 + i - 1] = g + i
    BY <1>2
  <2> QED
    BY <2>1, <2>2
<1> QED
  BY <1>1, <1>3, <1>4 DEF Between

(* A truthful answer about a candidate narrows the range.                    *)
LEMMA MarkNarrows ==
    ASSUME NEW s \in BisectSessions, Narrowed(s), first \in Int, NEW c \in Int,
           Contains(s.candidates, c)
    PROVE  Narrowed(IF c < first THEN mark_good(s, c) ELSE mark_bad(s, c))
<1> DEFINE g == Last(s.good)
           b == Last(s.bad)
           cut == SelectInSeq(s.candidates, LAMBDA x : x = c)
<1>1. /\ s.candidates = Between(g, b) /\ g < first /\ first <= b /\ g \in Int /\ b \in Int
      /\ g < b
  BY DEF Narrowed, BisectSessions, Last
<1>2. c \in (g + 1)..(b - 1)
  <2>1. Len(Between(g, b)) = b - g - 1 /\ \A i \in 1..(b - g - 1) : Between(g, b)[i] = g + i
    BY <1>1, BetweenIs
  <2>2. PICK i \in 1..(b - g - 1) : Between(g, b)[i] = c
    BY <1>1, <2>1 DEF Contains
  <2> QED
    BY <1>1, <2>1, <2>2
<1>3. cut = c - g
  BY <1>1, <1>2, PositionIs
<1>4. /\ AfterGood(s.candidates, cut) = Between(c, b)
      /\ BeforeBad(s.candidates, cut) = Between(g, c)
      /\ cut # 0
  BY <1>1, <1>2, <1>3, CutsAre
<1>5. /\ s.good \in Seq(Int) /\ Len(s.good) > 0 /\ s.bad \in Seq(Int) /\ Len(s.bad) > 0
      /\ \A i \in 1..Len(s.good) : s.good[i] <= g
      /\ \A i \in 1..Len(s.bad) : s.bad[i] >= b
  BY DEF Narrowed, BisectSessions
<1>6. CASE c < first
  <2>1. PICK t : t = mark_good(s, c)
    OBVIOUS
  <2>2. /\ t = [s EXCEPT !.good = Append(@, c),
                  !.candidates = IF cut = 0 THEN @ ELSE AfterGood(@, cut)]
    BY <2>1 DEF mark_good
  <2> HIDE DEF cut
  <2>3. t.good = Append(s.good, c) /\ t.bad = s.bad /\ t.candidates = Between(c, b)
    BY <1>4, <2>2 DEF BisectSessions
  <2>4. Last(t.good) = c /\ \A i \in 1..Len(t.good) : t.good[i] <= c
    BY <1>1, <1>2, <1>5, <2>3 DEF Last
  <2>5. Narrowed(t)
    BY <1>1, <1>5, <1>6, <2>3, <2>4 DEF Narrowed
  <2> QED
    BY <1>6, <2>1, <2>5
<1>7. CASE ~(c < first)
  <2>1. PICK t : t = mark_bad(s, c)
    OBVIOUS
  <2>2. /\ t = [s EXCEPT !.bad = Append(@, c),
                  !.candidates = IF cut = 0 THEN @ ELSE BeforeBad(@, cut)]
    BY <2>1 DEF mark_bad
  <2> HIDE DEF cut
  <2>3. t.bad = Append(s.bad, c) /\ t.good = s.good /\ t.candidates = Between(g, c)
    BY <1>4, <2>2 DEF BisectSessions
  <2>4. Last(t.bad) = c /\ \A i \in 1..Len(t.bad) : t.bad[i] >= c
    BY <1>1, <1>2, <1>5, <2>3 DEF Last
  <2>5. Narrowed(t)
    BY <1>1, <1>2, <1>5, <1>7, <2>3, <2>4 DEF Narrowed
  <2> QED
    BY <1>7, <2>1, <2>5
<1> QED
  BY <1>6, <1>7

LEMMA MarkTyped ==
    ASSUME NEW s \in BisectSessions, NEW c \in Int
    PROVE  mark_good(s, c) \in BisectSessions /\ mark_bad(s, c) \in BisectSessions
<1> DEFINE cut == SelectInSeq(s.candidates, LAMBDA x : x = c)
<1>1. cut \in Nat /\ cut <= Len(s.candidates)
  <2> DEFINE I == {i \in 1..Len(s.candidates) : s.candidates[i] = c}
  <2>1. cut = IF I # {} THEN Min(I) ELSE 0
    BY Zenon DEF SelectInSeq
  <2>2. Len(s.candidates) \in Nat
    BY DEF BisectSessions
  <2>3. CASE I # {}
    <3>1. I \subseteq Nat
      BY <2>2
    <3>2. Min(I) \in I
      <4> HIDE DEF I
      <4> QED BY <2>3, <3>1, Least DEF Min
    <3> QED
      BY <2>1, <2>2, <2>3, <3>2
  <2> QED
    BY <2>1, <2>2, <2>3
<1>2. /\ mark_good(s, c) = [s EXCEPT !.good = Append(@, c),
                              !.candidates = IF cut = 0 THEN @ ELSE AfterGood(@, cut)]
      /\ mark_bad(s, c) = [s EXCEPT !.bad = Append(@, c),
                             !.candidates = IF cut = 0 THEN @ ELSE BeforeBad(@, cut)]
  BY DEF mark_good, mark_bad
<1> HIDE DEF cut
<1>3. /\ s.candidates \in Seq(Int) /\ s.good \in Seq(Int) /\ s.bad \in Seq(Int)
      /\ Append(s.good, c) \in Seq(Int) /\ Append(s.bad, c) \in Seq(Int)
  BY DEF BisectSessions
<1>4. /\ AfterGood(s.candidates, cut) \in Seq(Int)
      /\ cut # 0 => BeforeBad(s.candidates, cut) \in Seq(Int)
  BY <1>1, <1>3 DEF AfterGood, BeforeBad
<1> QED
  BY <1>2, <1>3, <1>4 DEF BisectSessions

LEMMA BisectStart == BisectInit => BisectInv
BY BisectAssumption DEF BisectInit, BisectInv, BisectSessions, NoSession, Commits

LEMMA MidpointIs ==
    ASSUME NEW t \in Seq(Int)
    PROVE  Midpoint(t) \in Nat
<1>1. PICK n \in Nat : n = Len(t)
  OBVIOUS
<1>2. n \div 2 \in Nat
  OBVIOUS
<1> QED
  BY <1>1, <1>2 DEF Midpoint

(* The outcome of an answer: the session goes on, or a commit is reported.   *)
LEMMA PickNextIs ==
    ASSUME NEW s \in BisectSessions, PickNext(s)
    PROVE  \/ /\ Len(s.candidates) > 1 /\ found' = found
              /\ session' = [s EXCEPT !.current_idx = Midpoint(s.candidates)]
              /\ session' \in BisectSessions
           \/ /\ session' = NoSession /\ session' \in BisectSessions
              /\ \/ s.candidates = <<>> /\ found' = Last(s.bad)
                 \/ Len(s.candidates) = 1 /\ found' = s.candidates[1]
<1>1. NoSession \in BisectSessions /\ s.candidates \in Seq(Int)
  BY DEF NoSession, BisectSessions
<1>2. Midpoint(s.candidates) \in Nat
  BY <1>1, MidpointIs
<1>3. [s EXCEPT !.current_idx = Midpoint(s.candidates)] \in BisectSessions
  BY <1>2 DEF BisectSessions
<1>4. s.candidates # <<>> /\ Len(s.candidates) # 1 => Len(s.candidates) > 1
  <2>1. PICK t \in Seq(Int) : t = s.candidates
    BY <1>1
  <2>2. t # <<>> /\ Len(t) # 1 => Len(t) > 1
    <3>1. Len(t) \in Nat /\ (t # <<>> => Len(t) # 0)
      BY EmptySeq
    <3>2. \A n \in Nat : n # 0 /\ n # 1 => n > 1
      OBVIOUS
    <3> QED BY <3>1, <3>2, Zenon
  <2> QED BY <2>1, <2>2
<1>5. CASE s.candidates = <<>>
  BY <1>1, <1>5, Zenon DEF PickNext
<1>6. CASE s.candidates # <<>> /\ Len(s.candidates) = 1
  BY <1>1, <1>6, Zenon DEF PickNext
<1>7. CASE s.candidates # <<>> /\ Len(s.candidates) # 1
  BY <1>3, <1>4, <1>7, Zenon DEF PickNext
<1> QED
  BY <1>5, <1>6, <1>7

LEMMA MarkKeeps ==
    ASSUME BisectInv, NEW c \in Int, Mark(c)
    PROVE  BisectInv'
<1> DEFINE s == IF c < first THEN mark_good(session, c) ELSE mark_bad(session, c)
<1>1. /\ session.on /\ PickNext(s) /\ tests' = tests + 1 /\ first' = first
      /\ strayed' = (strayed \/ ~Contains(session.candidates, c))
  BY DEF Mark
<1>2. s \in BisectSessions
  BY MarkTyped DEF BisectInv
<1>3. ~strayed' => Narrowed(s)
  BY <1>1, MarkNarrows DEF BisectInv
<1> HIDE DEF s
<1>4. CASE /\ Len(s.candidates) > 1 /\ found' = found
           /\ session' = [s EXCEPT !.current_idx = Midpoint(s.candidates)]
           /\ session' \in BisectSessions
  <2>1. /\ session'.good = s.good /\ session'.bad = s.bad /\ session'.candidates = s.candidates
    BY <1>2, <1>4 DEF BisectSessions
  <2>2. ~strayed' => Narrowed(session)'
    BY <1>1, <1>3, <2>1 DEF Narrowed
  <2>3. session'.candidates # <<>>
    BY <1>4, <2>1
  <2>4. ~strayed' => ~strayed /\ (found' # 0 => found' \in {first', first' - 1})
    BY <1>1, <1>4 DEF BisectInv
  <2>5. first' \in Int /\ tests' \in Nat
    BY <1>1 DEF BisectInv
  <2> QED
    BY <1>4, <2>2, <2>3, <2>4, <2>5 DEF BisectInv
<1>5. CASE /\ session' = NoSession /\ session' \in BisectSessions
           /\ \/ s.candidates = <<>> /\ found' = Last(s.bad)
              \/ Len(s.candidates) = 1 /\ found' = s.candidates[1]
  <2>1. ~session'.on
    BY <1>5 DEF NoSession
  <2>2. ASSUME ~strayed' PROVE found' \in {first', first' - 1}
    <3> DEFINE g == Last(s.good)
               b == Last(s.bad)
    <3>1. g \in Int /\ b \in Int /\ g < first /\ first <= b /\ g < b /\ first \in Int
          /\ s.candidates = Between(g, b)
      BY <1>2, <1>3, <2>2 DEF Narrowed, BisectSessions, Last, BisectInv
    <3>5. found' = Last(s.bad) => found' = b
      OBVIOUS
    <3> HIDE DEF g, b
    <3>2. Len(s.candidates) = b - g - 1 /\ \A i \in 1..(b - g - 1) : s.candidates[i] = g + i
      <4>1. /\ Len(Between(g, b)) = b - g - 1
            /\ \A i \in 1..(b - g - 1) : Between(g, b)[i] = g + i
        BY <3>1, BetweenIs
      <4> QED BY <3>1, <4>1, Zenon
    <3>3. CASE s.candidates = <<>> /\ found' = b
      BY <1>1, <3>1, <3>2, <3>3
    <3>4. CASE Len(s.candidates) = 1 /\ found' = s.candidates[1]
      <4>3. PICK m : m = Len(s.candidates)
        OBVIOUS
      <4>4. m = b - g - 1 /\ m = 1
        BY <3>2, <3>4, <4>3
      <4>1. b - g - 1 = 1 /\ 1 \in 1..(b - g - 1)
        BY <3>1, <4>4
      <4>2. found' = g + 1
        BY <3>2, <3>4, <4>1
      <4> QED BY <1>1, <3>1, <4>1, <4>2
    <3> QED
      BY <1>5, <3>3, <3>4, <3>5
  <2> QED
    BY <1>1, <1>5, <2>1, <2>2 DEF BisectInv
<1> QED
  BY <1>1, <1>2, <1>4, <1>5, PickNextIs

LEMMA StartKeeps ==
    ASSUME BisectInv, NEW good \in Commits, NEW bad \in Commits, Start(good, bad)
    PROVE  BisectInv'
<1>1. /\ good < first /\ first <= bad /\ session' = NewSession(good, bad)
      /\ found' = 0 /\ tests' = 0 /\ strayed' = FALSE /\ first' = first /\ first \in Int
  BY DEF Start, BisectInv
<1>2. good \in Int /\ bad \in Int /\ good < bad
  BY <1>1, BisectAssumption DEF Commits
<1>3. collect_commits_between(good, bad) = Between(good, bad)
  BY <1>2 DEF collect_commits_between, Between
<1>4. /\ session'.on /\ session'.good = <<good>> /\ session'.bad = <<bad>>
      /\ session'.candidates = Between(good, bad) /\ session' \in BisectSessions
  <2>1. Between(good, bad) \in Seq(Int) /\ Midpoint(Between(good, bad)) \in Nat
    BY <1>2, BetweenIs, MidpointIs
  <2> QED
    BY <1>1, <1>2, <1>3, <2>1 DEF NewSession, BisectSessions
<1>5. Last(<<good>>) = good /\ Last(<<bad>>) = bad /\ Len(<<good>>) = 1 /\ Len(<<bad>>) = 1
  BY DEF Last
<1>6. Narrowed(session)'
  BY <1>1, <1>2, <1>4, <1>5 DEF Narrowed
<1> QED
  BY <1>1, <1>4, <1>6 DEF BisectInv

LEMMA BisectStep == BisectInv /\ [BisectNext]_bisectVars => BisectInv'
<1> SUFFICES ASSUME BisectInv, [BisectNext]_bisectVars PROVE BisectInv'
  OBVIOUS
<1>1. CASE UNCHANGED bisectVars
  BY <1>1 DEF bisectVars, BisectInv, Narrowed
<1>2. CASE \E good, bad \in Commits : Start(good, bad)
  BY <1>2, StartKeeps
<1>3. CASE MarkCurrent
  <2>1. Mark(Current(session)) /\ HasCurrent(session)
    BY <1>3 DEF MarkCurrent
  <2>2. Current(session) \in Int
    <3>1. PICK s, k : s = session.candidates /\ k = session.current_idx
      OBVIOUS
    <3>2. s \in Seq(Int) /\ k \in Nat /\ k < Len(s)
      BY <2>1, <3>1 DEF BisectInv, BisectSessions, HasCurrent
    <3>3. s[k + 1] \in Int
      BY <3>2
    <3> QED
      BY <3>1, <3>3 DEF Current
  <2> QED
    BY <2>1, <2>2, MarkKeeps
<1>4. CASE \E c \in Commits : MarkNamed(c)
  BY <1>4, MarkKeeps DEF MarkNamed, Commits
<1>5. CASE Reset
  BY <1>5 DEF Reset, BisectInv, BisectSessions, NoSession
<1> QED
  BY <1>1, <1>2, <1>3, <1>4, <1>5 DEF BisectNext

(* For a history of any length and any number of sessions and answers: a     *)
(* session whose answers are truthful and about candidates has exactly the   *)
(* commits left that the answers leave open, with the regression among       *)
(* them or right behind, and reports it or the commit before it.             *)
THEOREM BisectFinds == BisectSpec => []BisectSound
<1>1. BisectInv => BisectClose
  BY DEF BisectInv, BisectClose
<1>2. BisectInv => BisectNarrows
  <2> SUFFICES ASSUME BisectInv, session.on, ~strayed
               PROVE  /\ session.candidates = Between(LastGood, FirstBad)
                      /\ LastGood < first /\ first <= FirstBad
                      /\ session.candidates = <<>> => tests = 0
    BY DEF BisectNarrows, Between
  <2>1. Narrowed(session) /\ session \in BisectSessions
    BY DEF BisectInv
  <2>2. /\ Last(session.good) \in ToSet(session.good)
        /\ \A x \in ToSet(session.good) : x \in Int /\ Last(session.good) >= x
    <3>1. PICK t \in Seq(Int) : t = session.good
      BY <2>1 DEF BisectSessions
    <3>2. /\ Len(t) > 0 /\ \A i \in 1..Len(t) : t[i] <= t[Len(t)]
      BY <2>1, <3>1 DEF Narrowed, Last
    <3>3. ToSet(t) = {t[i] : i \in 1..Len(t)}
      BY DEF ToSet
    <3>4. Last(t) \in ToSet(t) /\ \A x \in ToSet(t) : x \in Int /\ Last(t) >= x
      BY <3>2, <3>3 DEF Last
    <3> QED
      BY <3>1, <3>4
  <2>3. /\ Last(session.bad) \in ToSet(session.bad)
        /\ \A x \in ToSet(session.bad) : x \in Int /\ Last(session.bad) <= x
    <3>1. PICK t \in Seq(Int) : t = session.bad
      BY <2>1 DEF BisectSessions
    <3>2. /\ Len(t) > 0 /\ \A i \in 1..Len(t) : t[i] >= t[Len(t)]
      BY <2>1, <3>1 DEF Narrowed, Last
    <3>3. ToSet(t) = {t[i] : i \in 1..Len(t)}
      BY DEF ToSet
    <3>4. Last(t) \in ToSet(t) /\ \A x \in ToSet(t) : x \in Int /\ Last(t) <= x
      BY <3>2, <3>3 DEF Last
    <3> QED
      BY <3>1, <3>4
  <2>4. LastGood = Last(session.good)
    BY <2>2 DEF LastGood, Max
  <2>5. FirstBad = Last(session.bad)
    BY <2>3 DEF FirstBad, Min
  <2> QED
    BY <2>1, <2>4, <2>5 DEF Narrowed, BisectInv
<1> QED
  BY <1>1, <1>2, BisectStart, BisectStep, PTL DEF BisectSpec, BisectSound

-----------------------------------------------------------------------------
(* The merge of trees.                                                       *)

(* The recursion of EntryAt.                                                 *)
NodeSteps(entries, path, n, w) ==
    w = [i \in 0..n |-> IF i = 0 THEN Dir(entries)
                        ELSE Child(w[i - 1], path[i])]

LEMMA NodeExists ==
    ASSUME NEW entries, NEW path, NEW n \in Nat
    PROVE  \E w : NodeSteps(entries, path, n, w)
<1> DEFINE P == {m \in Nat : \E w : NodeSteps(entries, path, m, w)}
<1>1. 0 \in P
  <2> DEFINE w == [i \in 0..0 |-> Dir(entries)]
  <2>1. NodeSteps(entries, path, 0, w)
    BY DEF NodeSteps
  <2> QED
    BY <2>1, Zenon
<1>2. ASSUME NEW m \in P \cap Nat PROVE m + 1 \in P
  <2> SUFFICES \E w : NodeSteps(entries, path, m + 1, w)
    OBVIOUS
  <2>1. PICK g : NodeSteps(entries, path, m, g)
    OBVIOUS
  <2> DEFINE F(x, i) == Child(x, path[i])
             B == Dir(entries)
             w == [i \in 0 .. m + 1 |-> IF i = m + 1 THEN F(g[m], m + 1) ELSE g[i]]
  <2>2. \A i \in 0..m : g[i] = IF i = 0 THEN B ELSE F(g[i - 1], i)
    BY <2>1 DEF NodeSteps
  <2> HIDE DEF F, B
  <2>3. ASSUME NEW i \in 0 .. m + 1
        PROVE  w[i] = IF i = 0 THEN B ELSE F(w[i - 1], i)
    <3>1. CASE i = m + 1
      <4>1. w[i] = F(g[m], m + 1) /\ w[i - 1] = g[m] /\ i # 0
        BY <3>1
      <4> HIDE DEF w
      <4> QED BY <4>1, <3>1
    <3>2. CASE i \in 0..m
      <4>1. w[i] = g[i] /\ (i # 0 => w[i - 1] = g[i - 1])
        BY <3>2
      <4> HIDE DEF w
      <4> QED BY <4>1, <3>2, <2>2
    <3> QED
      BY <3>1, <3>2
  <2>4. w = [i \in 0 .. m + 1 |-> w[i]]
    OBVIOUS
  <2>5. NodeSteps(entries, path, m + 1, w)
    <3> HIDE DEF w
    <3> QED BY <2>3, <2>4 DEF NodeSteps, F, B
  <2> QED
    BY <2>5, Zenon
<1>3. Nat \subseteq P
  <2> HIDE DEF P
  <2> QED BY <1>1, <1>2, SetInduction, Zenon
<1> QED
  BY <1>3

(* The recursion of MergesAt.                                                *)
LevelSteps(n, w) ==
    w = [i \in 0..n |-> IF i = 0 THEN <<>>
                        ELSE MergeAll(Levels[i], w[i - 1])]

LEMMA LevelExists ==
    ASSUME NEW n \in Nat
    PROVE  \E w : LevelSteps(n, w)
<1> DEFINE P == {m \in Nat : \E w : LevelSteps(m, w)}
<1>1. 0 \in P
  <2> DEFINE w == [i \in 0..0 |-> <<>>]
  <2>1. LevelSteps(0, w)
    BY DEF LevelSteps
  <2> QED
    BY <2>1, Zenon
<1>2. ASSUME NEW m \in P \cap Nat PROVE m + 1 \in P
  <2> SUFFICES \E w : LevelSteps(m + 1, w)
    OBVIOUS
  <2>1. PICK g : LevelSteps(m, g)
    OBVIOUS
  <2> DEFINE F(x, i) == MergeAll(Levels[i], x)
             B == <<>>
             w == [i \in 0 .. m + 1 |-> IF i = m + 1 THEN F(g[m], m + 1) ELSE g[i]]
  <2>2. \A i \in 0..m : g[i] = IF i = 0 THEN B ELSE F(g[i - 1], i)
    BY <2>1 DEF LevelSteps
  <2> HIDE DEF F, B
  <2>3. ASSUME NEW i \in 0 .. m + 1
        PROVE  w[i] = IF i = 0 THEN B ELSE F(w[i - 1], i)
    <3>1. CASE i = m + 1
      <4>1. w[i] = F(g[m], m + 1) /\ w[i - 1] = g[m] /\ i # 0
        BY <3>1
      <4> HIDE DEF w
      <4> QED BY <4>1, <3>1
    <3>2. CASE i \in 0..m
      <4>1. w[i] = g[i] /\ (i # 0 => w[i - 1] = g[i - 1])
        BY <3>2
      <4> HIDE DEF w
      <4> QED BY <4>1, <3>2, <2>2
    <3> QED
      BY <3>1, <3>2
  <2>4. w = [i \in 0 .. m + 1 |-> w[i]]
    OBVIOUS
  <2>5. LevelSteps(m + 1, w)
    <3> HIDE DEF w
    <3> QED BY <2>3, <2>4 DEF LevelSteps, F, B
  <2> QED
    BY <2>5, Zenon
<1>3. Nat \subseteq P
  <2> HIDE DEF P
  <2> QED BY <1>1, <1>2, SetInduction, Zenon
<1> QED
  BY <1>3

LEMMA LevelsAre ==
    /\ MergesAt[0] = <<>>
    /\ \A k \in 1..Len(Levels) : MergesAt[k] = MergeAll(Levels[k], MergesAt[k - 1])
<1> DEFINE w == CHOOSE g : LevelSteps(Len(Levels), g)
<1>1. Len(Levels) \in Nat
  BY TreeAssumption
<1>2. LevelSteps(Len(Levels), w)
  BY <1>1, LevelExists, Zenon
<1>3. MergesAt = w
  BY Zenon DEF MergesAt, LevelSteps
<1> HIDE DEF w
<1>4. \A k \in 0..Len(Levels) : w[k] = IF k = 0 THEN <<>> ELSE MergeAll(Levels[k], w[k - 1])
  BY <1>2 DEF LevelSteps
<1>5. 0 \in 0..Len(Levels) /\ \A k \in 1..Len(Levels) : k \in 0..Len(Levels) /\ k # 0
  BY <1>1
<1> QED
  BY <1>3, <1>4, <1>5, Zenon

(* The nodes on the way to a path.                                           *)
LEMMA NodesAre ==
    ASSUME NEW entries, NEW path, Len(path) \in Nat
    PROVE  \E w : /\ EntryAt(entries, path) = w[Len(path)] /\ w[0] = Dir(entries)
                  /\ \A i \in 1..Len(path) : w[i] = Child(w[i - 1], path[i])
<1> DEFINE w == CHOOSE g : NodeSteps(entries, path, Len(path), g)
<1>1. NodeSteps(entries, path, Len(path), w)
  BY NodeExists, Zenon
<1>2. EntryAt(entries, path) = w[Len(path)]
  BY Zenon DEF EntryAt, NodeSteps
<1> HIDE DEF w
<1>3. \A i \in 0..Len(path) : w[i] = IF i = 0 THEN Dir(entries) ELSE Child(w[i - 1], path[i])
  BY <1>1 DEF NodeSteps
<1>4. 0 \in 0..Len(path) /\ \A i \in 1..Len(path) : i \in 0..Len(path) /\ i # 0
  OBVIOUS
<1>5. w[0] = Dir(entries)
  BY <1>3, <1>4
<1>6. \A i \in 1..Len(path) : w[i] = Child(w[i - 1], path[i])
  BY <1>3, <1>4
<1> QED
  BY <1>2, <1>5, <1>6

LEMMA RootChild ==
    ASSUME NEW entries, NEW name
    PROVE  Child(Dir(entries), name) = IF name \in DOMAIN entries THEN entries[name] ELSE NoEntry
BY DEF Child, Dir, IsTree

LEMMA EntryTop ==
    ASSUME NEW entries, NEW path, Len(path) = 1
    PROVE  EntryAt(entries, path)
             = IF path[1] \in DOMAIN entries THEN entries[path[1]] ELSE NoEntry
<1>1. PICK w : /\ EntryAt(entries, path) = w[Len(path)] /\ w[0] = Dir(entries)
               /\ \A i \in 1..Len(path) : w[i] = Child(w[i - 1], path[i])
  BY NodesAre
<1>2. w[1] = Child(w[0], path[1])
  <2>1. 1 \in 1..Len(path) /\ 1 - 1 = 0
    OBVIOUS
  <2> QED BY <1>1, <2>1
<1> QED
  BY <1>1, <1>2, RootChild

LEMMA EntryBelow ==
    ASSUME NEW entries, NEW S, NEW path \in Seq(S), Len(path) > 1
    PROVE  EntryAt(entries, path)
             = IF path[1] \in DOMAIN entries /\ IsTree(entries[path[1]])
                 THEN EntryAt(entries[path[1]].oid.tree, Tail(path)) ELSE NoEntry
<1> DEFINE n    == path[1]
           rest == Tail(path)
           sub  == entries[n].oid.tree
<1> HIDE DEF sub
<1>1. /\ Len(path) \in Nat /\ Len(rest) = Len(path) - 1 /\ Len(rest) \in Nat
      /\ \A i \in 1..Len(rest) : rest[i] = path[i + 1]
  OBVIOUS
<1> HIDE DEF rest
<1>2. PICK w : /\ EntryAt(entries, path) = w[Len(path)] /\ w[0] = Dir(entries)
               /\ \A i \in 1..Len(path) : w[i] = Child(w[i - 1], path[i])
  BY <1>1, NodesAre
<1>3. PICK v : /\ EntryAt(sub, rest) = v[Len(rest)] /\ v[0] = Dir(sub)
               /\ \A i \in 1..Len(rest) : v[i] = Child(v[i - 1], rest[i])
  <2>1. Len(rest) \in Nat
    BY <1>1
  <2> QED
    BY <2>1, NodesAre, Zenon
<1>4. w[1] = IF n \in DOMAIN entries THEN entries[n] ELSE NoEntry
  <2>1. 1 \in 1..Len(path) /\ 1 - 1 = 0
    BY <1>1
  <2>2. w[1] = Child(w[0], n)
    BY <1>2, <2>1
  <2> QED BY <1>2, <2>2, RootChild
<1>5. \A i \in 1..Len(rest) : w[i + 1] = Child(w[i], rest[i])
  <2> TAKE i \in 1..Len(rest)
  <2>1. i + 1 \in 1..Len(path) /\ (i + 1) - 1 = i
    BY <1>1
  <2> QED
    BY <1>1, <1>2, <2>1
<1>6. CASE n \in DOMAIN entries /\ IsTree(entries[n])
  <2> DEFINE P == {i \in Nat : i + 1 <= Len(rest) => w[(i + 1) + 1] = v[i + 1]}
  <2>1. \A x : Child(w[1], x) = Child(v[0], x)
    <3>1. w[1] = entries[n] /\ v[0] = Dir(sub)
      BY <1>3, <1>4, <1>6
    <3> QED
      BY <1>6, <3>1, RootChild DEF Child, sub
  <2>2. 0 \in P
    <3>1. CASE 1 <= Len(rest)
      <4>1. 1 \in 1..Len(rest) /\ 1 - 1 = 0
        BY <1>1, <3>1
      <4>2. w[1 + 1] = Child(w[1], rest[1]) /\ v[1] = Child(v[0], rest[1])
        BY <1>3, <1>5, <4>1
      <4> QED BY <2>1, <4>2
    <3> QED BY <3>1
  <2>3. ASSUME NEW i \in P \cap Nat PROVE i + 1 \in P
    <3>1. CASE (i + 1) + 1 <= Len(rest)
      <4>1. (i + 1) + 1 \in 1..Len(rest) /\ ((i + 1) + 1) - 1 = i + 1 /\ i + 1 <= Len(rest)
        BY <1>1, <3>1
      <4>2. /\ w[((i + 1) + 1) + 1] = Child(w[(i + 1) + 1], rest[(i + 1) + 1])
            /\ v[(i + 1) + 1] = Child(v[i + 1], rest[(i + 1) + 1])
        BY <1>3, <1>5, <4>1
      <4>3. w[(i + 1) + 1] = v[i + 1]
        BY <4>1
      <4> QED BY <4>2, <4>3
    <3> QED BY <3>1
  <2>4. Nat \subseteq P
    <3> HIDE DEF P
    <3> QED BY <2>2, <2>3, SetInduction, Zenon
  <2>5. PICK l \in Nat : l + 1 = Len(rest) /\ (l + 1) + 1 = Len(path)
    <3>1. Len(rest) - 1 \in Nat /\ (Len(rest) - 1) + 1 = Len(rest) /\ Len(rest) + 1 = Len(path)
      BY <1>1
    <3> QED BY <3>1
  <2>6. l + 1 <= Len(rest) /\ l \in P
    BY <1>1, <2>4, <2>5
  <2>7. w[Len(path)] = v[Len(rest)]
    BY <2>5, <2>6
  <2> QED
    BY <1>2, <1>3, <1>6, <2>7 DEF rest, sub
<1>7. CASE ~(n \in DOMAIN entries /\ IsTree(entries[n]))
  <2> DEFINE P == {i \in Nat : i + 1 <= Len(rest) => w[(i + 1) + 1] = NoEntry}
  <2>1. ~IsTree(NoEntry)
    BY DEF IsTree, NoEntry
  <2>2. ~IsTree(w[1])
    BY <1>4, <1>7, <2>1
  <2>3. 0 \in P
    <3>1. CASE 1 <= Len(rest)
      <4>1. 1 \in 1..Len(rest)
        BY <1>1, <3>1
      <4>2. w[1 + 1] = Child(w[1], rest[1])
        BY <1>5, <4>1
      <4> QED BY <2>2, <4>2 DEF Child
    <3> QED BY <3>1
  <2>4. ASSUME NEW i \in P \cap Nat PROVE i + 1 \in P
    <3>1. CASE (i + 1) + 1 <= Len(rest)
      <4>1. (i + 1) + 1 \in 1..Len(rest) /\ i + 1 <= Len(rest)
        BY <1>1, <3>1
      <4>2. w[((i + 1) + 1) + 1] = Child(w[(i + 1) + 1], rest[(i + 1) + 1])
        BY <1>5, <4>1
      <4>3. w[(i + 1) + 1] = NoEntry
        BY <4>1
      <4> QED BY <2>1, <4>2, <4>3 DEF Child
    <3> QED BY <3>1
  <2>5. Nat \subseteq P
    <3> HIDE DEF P
    <3> QED BY <2>3, <2>4, SetInduction, Zenon
  <2>6. PICK l \in Nat : l + 1 = Len(rest) /\ (l + 1) + 1 = Len(path)
    <3>1. Len(rest) - 1 \in Nat /\ (Len(rest) - 1) + 1 = Len(rest) /\ Len(rest) + 1 = Len(path)
      BY <1>1
    <3> QED BY <3>1
  <2>7. l + 1 <= Len(rest) /\ l \in P
    BY <1>1, <2>5, <2>6
  <2>8. w[Len(path)] = NoEntry
    BY <2>6, <2>7
  <2> QED
    BY <1>2, <1>7, <2>8
<1> QED
  BY <1>6, <1>7 DEF rest

-----------------------------------------------------------------------------
(* One level of the merge.  Slot is what a tree has under a name, if it      *)
(* has anything.                                                             *)

Slot(entries, n) == IF n \in DOMAIN entries THEN <<entries[n].oid>> ELSE <<>>

ConflictKinds == {"ModifyModify", "ModifyDelete", "AddAdd"}
TreeConflicts == [path : Seq(FileNames), kind : ConflictKinds]

FileKept(b, o, t, r, p) ==
    \/ \E c \in r.conflicts : IsPrefix(c.path, p)
    \/ At(b, p) = At(o, p) /\ At(r.entries, p) = At(t, p)
    \/ At(b, p) = At(t, p) /\ At(r.entries, p) = At(o, p)
    \/ At(o, p) = At(t, p) /\ At(r.entries, p) = At(o, p)
    \/ /\ \A file \in {At(b, p), At(o, p), At(t, p)} : file # <<>> /\ ~is_binary(file[1])
       /\ At(r.entries, p) # <<>>
       /\ [out |-> At(r.entries, p)[1], conflicts |-> 0]
            = three_way_merge(At(b, p)[1], At(o, p)[1], At(t, p)[1])

ConflictKept(b, o, t, r, p) ==
    /\ EntryAt(o, p).oid # EntryAt(t, p).oid
    /\ EntryAt(b, p).oid \notin {EntryAt(o, p).oid, EntryAt(t, p).oid}
    /\ EntryAt(r.entries, p).oid \in {EntryAt(o, p).oid, EntryAt(t, p).oid}

Kept(b, o, t, r) ==
    /\ \A p \in Seq(FileNames) : p # <<>> => FileKept(b, o, t, r, p)
    /\ \A c \in r.conflicts : c \in TreeConflicts /\ c.path # <<>> /\ ConflictKept(b, o, t, r, c.path)

(* What becomes of one name: a side, a conflict, merged text or a merged     *)
(* directory.                                                                *)
TakesSide(b, o, t, m, n) ==
    /\ m.conflicts = {}
    /\ \/ Slot(b, n) = Slot(o, n) /\ Slot(m.entries, n) = Slot(t, n)
       \/ Slot(b, n) = Slot(t, n) /\ Slot(m.entries, n) = Slot(o, n)
       \/ Slot(o, n) = Slot(t, n) /\ Slot(m.entries, n) = Slot(o, n)

Conflicts(b, o, t, m, n) ==
    /\ \E kd \in ConflictKinds : m.conflicts = {[path |-> <<n>>, kind |-> kd]}
    /\ Slot(o, n) # Slot(t, n) /\ Slot(b, n) \notin {Slot(o, n), Slot(t, n)}
    /\ Slot(m.entries, n) \in {Slot(o, n), Slot(t, n)}

MergesText(b, o, t, m, n) ==
    /\ m.conflicts = {}
    /\ n \in DOMAIN b /\ n \in DOMAIN o /\ n \in DOMAIN t /\ n \in DOMAIN m.entries
    /\ IsBlob(b[n]) /\ IsBlob(o[n]) /\ IsBlob(t[n]) /\ IsBlob(m.entries[n]) /\ ~IsTree(m.entries[n])
    /\ \A text \in {b[n].oid.blob, o[n].oid.blob, t[n].oid.blob} : ~is_binary(text)
    /\ [out |-> m.entries[n].oid.blob, conflicts |-> 0]
         = three_way_merge(b[n].oid.blob, o[n].oid.blob, t[n].oid.blob)

MergesDirs(b, o, t, m, n, level, below) ==
    /\ n \in DOMAIN b /\ n \in DOMAIN o /\ n \in DOMAIN t /\ n \in DOMAIN m.entries
    /\ \E b1, o1, t1 \in level :
          LET sub == below[<<b1, o1, t1>>]
          IN  /\ b[n] = Dir(b1) /\ o[n] = Dir(o1) /\ t[n] = Dir(t1) /\ m.entries[n] = Dir(sub.entries)
              /\ m.conflicts = {[c EXCEPT !.path = <<n>> \o @] : c \in sub.conflicts}

(* A tree of a level: files, and directories of the level below.             *)
TreeOver(e, level) == \A n \in DOMAIN e : e[n] \in Files \/ \E sub \in level : e[n] = Dir(sub)

LEMMA OnlyIs ==
    ASSUME NEW n, NEW e
    PROVE  DOMAIN Only(n, e) = {n} /\ Only(n, e)[n] = e /\ Slot(Only(n, e), n) = <<e.oid>>
BY DEF Only, Slot

LEMMA EntryKinds ==
    ASSUME NEW e, NEW level, TreeOver(e, level), NEW n \in DOMAIN e
    PROVE  /\ IsBlob(e[n]) => e[n] \in Files /\ ~IsTree(e[n]) /\ e[n].mode # "dir" /\ e[n].oid = [blob |-> e[n].oid.blob]
           /\ IsBlob(e[n]) <=> ~IsTree(e[n])
           /\ ~IsBlob(e[n]) => \E sub \in level : e[n] = Dir(sub)
           /\ e[n].mode = "dir" => \E sub \in level : e[n] = Dir(sub)
           /\ e[n].oid # NoEntry.oid
<1>1. CASE e[n] \in Files
  <2>1. PICK m \in Modes, x \in BlobTexts : e[n] = [mode |-> m, oid |-> [blob |-> x]]
    BY <1>1 DEF Files
  <2>2. DOMAIN e[n].oid = {"blob"} /\ e[n].mode = m /\ e[n].oid.blob = x /\ e[n].oid = [blob |-> x]
    BY <2>1
  <2>3. m # "dir" /\ NoEntry.oid # e[n].oid
    BY <2>2, TreeAssumption DEF NoEntry
  <2> QED
    BY <1>1, <2>2, <2>3 DEF IsBlob, IsTree
<1>2. CASE \E sub \in level : e[n] = Dir(sub)
  <2>1. PICK sub \in level : e[n] = Dir(sub)
    BY <1>2
  <2>2. DOMAIN e[n].oid = {"tree"} /\ e[n].mode = "dir"
    BY <2>1 DEF Dir
  <2>3. NoEntry.oid # e[n].oid
    BY <2>2 DEF NoEntry
  <2> QED
    BY <2>1, <2>2, <2>3 DEF IsBlob, IsTree
<1> QED
  BY <1>1, <1>2 DEF TreeOver

LEMMA MergeForm ==
    ASSUME NEW base, NEW ours, NEW theirs
    PROVE  three_way_merge(base, ours, theirs)
             = [out |-> three_way_merge(base, ours, theirs).out,
                conflicts |-> three_way_merge(base, ours, theirs).conflicts]
<1>1. PICK o, t : /\ o = build_change_map(diff_lines(base, ours), ours)
                  /\ t = build_change_map(diff_lines(base, theirs), theirs)
  OBVIOUS
<1>2. \E x, y : Walk(base, o, t) = [out |-> x, conflicts |-> y]
  BY DEF Walk
<1>3. \E x, y : three_way_merge(base, ours, theirs) = [out |-> x, conflicts |-> y]
  BY <1>1, <1>2 DEF three_way_merge
<1> QED
  BY <1>3

LEMMA BlobsMerge ==
    ASSUME NEW b, NEW o, NEW t, NEW n, n \in DOMAIN b, n \in DOMAIN o, n \in DOMAIN t,
           NEW level, TreeOver(b, level), TreeOver(o, level), TreeOver(t, level),
           IsBlob(b[n]), IsBlob(o[n]), IsBlob(t[n]),
           b[n].oid # o[n].oid, b[n].oid # t[n].oid, o[n].oid # t[n].oid
    PROVE  LET m == MergeBlobs(n, b[n], o[n], t[n])
           IN  DOMAIN m.entries = {n} /\ (Conflicts(b, o, t, m, n) \/ MergesText(b, o, t, m, n))
<1> DEFINE x == b[n].oid.blob
           y == o[n].oid.blob
           z == t[n].oid.blob
           m == MergeBlobs(n, b[n], o[n], t[n])
<1>1. /\ b[n].oid = [blob |-> x] /\ o[n].oid = [blob |-> y] /\ t[n].oid = [blob |-> z]
      /\ o[n] \in Files
  BY EntryKinds
<1>2. x # y /\ x # z /\ y # z
  BY <1>1
<1>3. PICK merged : merged = three_way_merge(x, y, z)
  OBVIOUS
<1>4. CASE is_binary(x) \/ is_binary(y) \/ is_binary(z) \/ merged.conflicts # 0
  <2>1. m = Conflicted(n, o[n], "ModifyModify")
    BY <1>2, <1>3, <1>4 DEF MergeBlobs
  <2>2. /\ m.conflicts = {[path |-> <<n>>, kind |-> "ModifyModify"]}
        /\ m.entries = Only(n, o[n])
    BY <2>1 DEF Conflicted, Result
  <2> HIDE DEF m
  <2>3. Slot(b, n) = <<b[n].oid>> /\ Slot(o, n) = <<o[n].oid>> /\ Slot(t, n) = <<t[n].oid>>
    BY DEF Slot
  <2>4. Slot(m.entries, n) = Slot(o, n) /\ DOMAIN m.entries = {n}
    <3>1. DOMAIN Only(n, o[n]) = {n} /\ Slot(Only(n, o[n]), n) = <<o[n].oid>>
      BY OnlyIs, Zenon
    <3> QED BY <2>2, <2>3, <3>1, Zenon
  <2>5. Slot(o, n) # Slot(t, n) /\ Slot(b, n) # Slot(o, n) /\ Slot(b, n) # Slot(t, n)
    BY <2>3
  <2>6. Conflicts(b, o, t, m, n)
    BY <2>2, <2>4, <2>5 DEF Conflicts, ConflictKinds
  <2> QED
    BY <2>4, <2>6 DEF m
<1>5. CASE ~is_binary(x) /\ ~is_binary(y) /\ ~is_binary(z) /\ merged.conflicts = 0
  <2> DEFINE e == [o[n] EXCEPT !.oid = [blob |-> merged.out]]
  <2>1. m = Clean(n, e)
    BY <1>3, <1>5 DEF MergeBlobs
  <2>2. m.conflicts = {} /\ m.entries = Only(n, e)
    BY <2>1 DEF Clean, Result
  <2>3. e.oid = [blob |-> merged.out]
    BY <1>1 DEF Files
  <2> HIDE DEF e, m
  <2>4. DOMAIN m.entries = {n} /\ m.entries[n] = e
    <3>1. DOMAIN Only(n, e) = {n} /\ Only(n, e)[n] = e
      BY OnlyIs, Zenon
    <3> QED BY <2>2, <3>1, Zenon
  <2>5. IsBlob(m.entries[n]) /\ ~IsTree(m.entries[n]) /\ m.entries[n].oid.blob = merged.out
    BY <2>3, <2>4 DEF IsBlob, IsTree
  <2>6. merged = [out |-> merged.out, conflicts |-> 0]
    BY <1>3, <1>5, MergeForm
  <2>7. MergesText(b, o, t, m, n)
    BY <1>3, <1>5, <2>2, <2>4, <2>5, <2>6 DEF MergesText
  <2> QED
    BY <2>4, <2>7 DEF m
<1> QED
  BY <1>4, <1>5

LEMMA NameMerges ==
    ASSUME NEW b, NEW o, NEW t, NEW level, NEW below, NEW n \in DOMAIN b \cup DOMAIN o \cup DOMAIN t,
           TreeOver(b, level), TreeOver(o, level), TreeOver(t, level)
    PROVE  LET m == MergeName(n, b, o, t, below)
           IN  /\ DOMAIN m.entries \subseteq {n}
               /\ \/ TakesSide(b, o, t, m, n) \/ Conflicts(b, o, t, m, n)
                  \/ MergesText(b, o, t, m, n) \/ MergesDirs(b, o, t, m, n, level, below)
<1> DEFINE m == MergeName(n, b, o, t, below)
           Good(r) == /\ DOMAIN r.entries \subseteq {n}
                      /\ \/ TakesSide(b, o, t, r, n) \/ Conflicts(b, o, t, r, n)
                         \/ MergesText(b, o, t, r, n) \/ MergesDirs(b, o, t, r, n, level, below)
<1> SUFFICES Good(m)
  OBVIOUS
<1>1. /\ n \in DOMAIN b => Slot(b, n) = <<b[n].oid>>
      /\ n \in DOMAIN o => Slot(o, n) = <<o[n].oid>>
      /\ n \in DOMAIN t => Slot(t, n) = <<t[n].oid>>
      /\ n \notin DOMAIN b => Slot(b, n) = <<>>
      /\ n \notin DOMAIN o => Slot(o, n) = <<>>
      /\ n \notin DOMAIN t => Slot(t, n) = <<>>
  BY DEF Slot
<1>2. \A e : /\ DOMAIN Clean(n, e).entries = {n} /\ Clean(n, e).conflicts = {}
             /\ Slot(Clean(n, e).entries, n) = <<e.oid>>
  BY OnlyIs DEF Clean, Result
<1>3. \A e : \A kd : /\ DOMAIN Conflicted(n, e, kd).entries = {n}
                     /\ Slot(Conflicted(n, e, kd).entries, n) = <<e.oid>>
                     /\ Conflicted(n, e, kd).conflicts = {[path |-> <<n>>, kind |-> kd]}
  BY OnlyIs DEF Conflicted, Result
<1>4. DOMAIN Nothing.entries = {} /\ Nothing.conflicts = {} /\ Slot(Nothing.entries, n) = <<>>
  BY DEF Nothing, Result, Slot
<1>5. \A x, y : <<x>> = <<y>> <=> x = y
  OBVIOUS
<1>6. \A x : <<x>> # <<>>
  OBVIOUS
<1>7. CASE n \in DOMAIN b /\ n \in DOMAIN o /\ n \in DOMAIN t
  <2>1. m = MergeKept(n, b[n], o[n], t[n], below)
    BY <1>7 DEF MergeName
  <2>2. CASE b[n].oid = o[n].oid \/ b[n].oid = t[n].oid \/ o[n].oid = t[n].oid
    <3> HIDE DEF m
    <3>1. CASE b[n].oid = o[n].oid /\ b[n].oid = t[n].oid
      <4>1. m = Clean(n, b[n])
        BY <2>1, <3>1, Zenon DEF MergeKept
      <4> QED BY <1>1, <1>2, <1>7, <3>1, <4>1 DEF TakesSide
    <3>2. CASE b[n].oid = t[n].oid /\ b[n].oid # o[n].oid
      <4>1. m = Clean(n, o[n])
        BY <2>1, <3>2, Zenon DEF MergeKept
      <4> QED BY <1>1, <1>2, <1>7, <3>2, <4>1 DEF TakesSide
    <3>3. CASE b[n].oid = o[n].oid /\ b[n].oid # t[n].oid
      <4>1. m = Clean(n, t[n])
        BY <2>1, <3>3, Zenon DEF MergeKept
      <4> QED BY <1>1, <1>2, <1>7, <3>3, <4>1 DEF TakesSide
    <3>4. CASE b[n].oid # o[n].oid /\ b[n].oid # t[n].oid /\ o[n].oid = t[n].oid
      <4>1. m = Clean(n, o[n])
        BY <2>1, <3>4, Zenon DEF MergeKept
      <4> QED BY <1>1, <1>2, <1>7, <3>4, <4>1 DEF TakesSide
    <3> QED
      BY <2>2, <3>1, <3>2, <3>3, <3>4
  <2>3. CASE b[n].oid # o[n].oid /\ b[n].oid # t[n].oid /\ o[n].oid # t[n].oid
    <3> HIDE DEF m
    <3>1. CASE b[n].mode = "dir" /\ o[n].mode = "dir" /\ t[n].mode = "dir"
      <4>1. PICK b1 \in level, o1 \in level, t1 \in level : b[n] = Dir(b1) /\ o[n] = Dir(o1) /\ t[n] = Dir(t1)
        BY <1>7, <3>1, EntryKinds
      <4>2. PICK sub : sub = below[<<b1, o1, t1>>]
        OBVIOUS
      <4>3. b[n].oid.tree = b1 /\ o[n].oid.tree = o1 /\ t[n].oid.tree = t1
        BY <4>1 DEF Dir
      <4>4. m = Result(Only(n, [o[n] EXCEPT !.oid = [tree |-> sub.entries]]),
                       {[c EXCEPT !.path = <<n>> \o @] : c \in sub.conflicts})
        BY <2>1, <2>3, <3>1, <4>2, <4>3 DEF MergeKept
      <4>5. [o[n] EXCEPT !.oid = [tree |-> sub.entries]] = Dir(sub.entries)
        BY <4>1 DEF Dir
      <4>6. DOMAIN m.entries = {n} /\ m.entries[n] = Dir(sub.entries)
            /\ m.conflicts = {[c EXCEPT !.path = <<n>> \o @] : c \in sub.conflicts}
        BY <4>4, <4>5, OnlyIs DEF Result
      <4>7. MergesDirs(b, o, t, m, n, level, below)
        BY <1>7, <4>1, <4>2, <4>6 DEF MergesDirs
      <4> QED
        BY <4>6, <4>7
    <3>2. CASE ~(b[n].mode = "dir" /\ o[n].mode = "dir" /\ t[n].mode = "dir")
               /\ IsBlob(b[n]) /\ IsBlob(o[n]) /\ IsBlob(t[n])
      <4>1. m = MergeBlobs(n, b[n], o[n], t[n])
        BY <2>1, <2>3, <3>2, Zenon DEF MergeKept
      <4>2. DOMAIN m.entries = {n} /\ (Conflicts(b, o, t, m, n) \/ MergesText(b, o, t, m, n))
        BY <1>7, <2>3, <3>2, <4>1, BlobsMerge
      <4> QED
        BY <4>2
    <3>3. CASE ~(b[n].mode = "dir" /\ o[n].mode = "dir" /\ t[n].mode = "dir")
               /\ ~(IsBlob(b[n]) /\ IsBlob(o[n]) /\ IsBlob(t[n]))
      <4>1. m = Conflicted(n, o[n], "ModifyModify")
        BY <2>1, <2>3, <3>3, Zenon DEF MergeKept
      <4>2. Conflicts(b, o, t, m, n)
        BY <1>1, <1>3, <1>5, <1>7, <2>3, <4>1 DEF Conflicts, ConflictKinds
      <4> QED
        BY <1>3, <4>1, <4>2
    <3> QED
      BY <3>1, <3>2, <3>3
  <2> QED
    BY <2>2, <2>3
<1>8. CASE n \in DOMAIN b /\ n \in DOMAIN o /\ n \notin DOMAIN t
  <2>1. m = MergeDelete(n, b[n], o[n])
    BY <1>8 DEF MergeName
  <2> HIDE DEF m
  <2>2. CASE b[n].oid = o[n].oid
    BY <1>1, <1>4, <1>8, <2>1, <2>2 DEF MergeDelete, TakesSide
  <2>3. CASE b[n].oid # o[n].oid
    <3>1. m = Conflicted(n, o[n], "ModifyDelete")
      BY <2>1, <2>3 DEF MergeDelete
    <3>2. Conflicts(b, o, t, m, n)
      BY <1>1, <1>3, <1>5, <1>6, <1>8, <2>3, <3>1 DEF Conflicts, ConflictKinds
    <3> QED
      BY <1>3, <3>1, <3>2
  <2> QED
    BY <2>2, <2>3
<1>9. CASE n \in DOMAIN b /\ n \notin DOMAIN o /\ n \in DOMAIN t
  <2>1. m = MergeDelete(n, b[n], t[n])
    BY <1>9 DEF MergeName
  <2> HIDE DEF m
  <2>2. CASE b[n].oid = t[n].oid
    BY <1>1, <1>4, <1>9, <2>1, <2>2 DEF MergeDelete, TakesSide
  <2>3. CASE b[n].oid # t[n].oid
    <3>1. m = Conflicted(n, t[n], "ModifyDelete")
      BY <2>1, <2>3 DEF MergeDelete
    <3>2. Conflicts(b, o, t, m, n)
      BY <1>1, <1>3, <1>5, <1>6, <1>9, <2>3, <3>1 DEF Conflicts, ConflictKinds
    <3> QED
      BY <1>3, <3>1, <3>2
  <2> QED
    BY <2>2, <2>3
<1>10. CASE n \notin DOMAIN o /\ n \notin DOMAIN t
  <2>1. m = Nothing
    BY <1>10 DEF MergeName
  <2> HIDE DEF m
  <2> QED
    BY <1>1, <1>4, <1>10, <2>1 DEF TakesSide
<1>11. CASE n \notin DOMAIN b /\ n \in DOMAIN o /\ n \notin DOMAIN t
  <2>1. m = Clean(n, o[n])
    BY <1>11 DEF MergeName
  <2> HIDE DEF m
  <2> QED
    BY <1>1, <1>2, <1>11, <2>1 DEF TakesSide
<1>12. CASE n \notin DOMAIN b /\ n \notin DOMAIN o /\ n \in DOMAIN t
  <2>1. m = Clean(n, t[n])
    BY <1>12 DEF MergeName
  <2> HIDE DEF m
  <2> QED
    BY <1>1, <1>2, <1>12, <2>1 DEF TakesSide
<1>13. CASE n \notin DOMAIN b /\ n \in DOMAIN o /\ n \in DOMAIN t
  <2>1. m = IF o[n].oid = t[n].oid THEN Clean(n, o[n]) ELSE Conflicted(n, o[n], "AddAdd")
    BY <1>13 DEF MergeName
  <2> HIDE DEF m
  <2>2. CASE o[n].oid = t[n].oid
    <3>1. m = Clean(n, o[n])
      BY <2>1, <2>2
    <3> QED
      BY <1>1, <1>2, <1>13, <2>2, <3>1 DEF TakesSide
  <2>3. CASE o[n].oid # t[n].oid
    <3>1. m = Conflicted(n, o[n], "AddAdd")
      BY <2>1, <2>3
    <3>2. Conflicts(b, o, t, m, n)
      BY <1>1, <1>3, <1>5, <1>6, <1>13, <2>3, <3>1 DEF Conflicts, ConflictKinds
    <3> QED
      BY <1>3, <3>1, <3>2
  <2> QED
    BY <2>2, <2>3
<1> QED
  BY <1>7, <1>8, <1>9, <1>10, <1>11, <1>12, <1>13

LEMMA SameSlot ==
    ASSUME NEW e, NEW f, NEW S, NEW p \in Seq(S), p # <<>>, Slot(e, p[1]) = Slot(f, p[1])
    PROVE  EntryAt(e, p).oid = EntryAt(f, p).oid /\ At(e, p) = At(f, p)
<1>1. Len(p) \in Nat /\ Len(p) # 0
  BY EmptySeq
<1> DEFINE n == p[1]
<1>2. /\ n \in DOMAIN e <=> n \in DOMAIN f
      /\ n \in DOMAIN e => e[n].oid = f[n].oid
  BY DEF Slot
<1>3. EntryAt(e, p).oid = EntryAt(f, p).oid
  <2>1. CASE Len(p) = 1
    BY <1>2, <2>1, EntryTop
  <2>2. CASE Len(p) > 1
    <3>2. EntryAt(e, p) = IF n \in DOMAIN e /\ IsTree(e[n]) THEN EntryAt(e[n].oid.tree, Tail(p)) ELSE NoEntry
      BY <2>2, EntryBelow
    <3>3. EntryAt(f, p) = IF n \in DOMAIN f /\ IsTree(f[n]) THEN EntryAt(f[n].oid.tree, Tail(p)) ELSE NoEntry
      BY <2>2, EntryBelow
    <3>4. n \in DOMAIN e => e[n].oid.tree = f[n].oid.tree
      BY <1>2
    <3>5. n \in DOMAIN e => (IsTree(e[n]) <=> IsTree(f[n]))
      BY <1>2 DEF IsTree
    <3>6. EntryAt(e, p) = EntryAt(f, p)
      <4>1. CASE n \in DOMAIN e /\ IsTree(e[n])
        BY <1>2, <3>2, <3>3, <3>4, <3>5, <4>1, Zenon
      <4>2. CASE ~(n \in DOMAIN e /\ IsTree(e[n]))
        <5>1. ~(n \in DOMAIN f /\ IsTree(f[n]))
          BY <1>2, <3>5, <4>2, Zenon
        <5> QED BY <3>2, <3>3, <4>2, <5>1, Zenon
      <4> QED BY <4>1, <4>2
    <3> QED
      BY <3>6
  <2>3. \A k \in Nat : k # 0 => k = 1 \/ k > 1
    OBVIOUS
  <2> QED
    BY <1>1, <2>1, <2>2, <2>3
<1> QED
  BY <1>3 DEF At, IsBlob

LEMMA TopOid ==
    ASSUME NEW e, NEW n
    PROVE  EntryAt(e, <<n>>).oid = IF n \in DOMAIN e THEN e[n].oid ELSE NoEntry.oid
<1>1. Len(<<n>>) = 1 /\ <<n>>[1] = n
  OBVIOUS
<1> QED
  BY <1>1, EntryTop

(* A path under a name.                                                      *)
LEMMA PathUnder ==
    ASSUME NEW S, NEW n \in S, NEW q \in Seq(S), q # <<>>
    PROVE  LET p == <<n>> \o q
           IN  p \in Seq(S) /\ p # <<>> /\ Len(p) > 1 /\ p[1] = n /\ Tail(p) = q
<1>1. PICK p : p = <<n>> \o q
  OBVIOUS
<1>2. PICK l \in Nat : l = Len(q) /\ l # 0
  BY EmptySeq
<1>3. p \in Seq(S) /\ Len(p) = l + 1 /\ p[1] = n /\ \A i \in 1..l : p[i + 1] = q[i]
  BY <1>1, <1>2
<1>4. Tail(p) \in Seq(S) /\ Len(Tail(p)) = l /\ \A i \in 1..l : Tail(p)[i] = p[i + 1]
  BY <1>2, <1>3
<1>5. Tail(p) = q
  BY <1>2, <1>3, <1>4
<1>6. l + 1 > 1 /\ p # <<>>
  BY <1>2, <1>3
<1> QED
  BY <1>1, <1>3, <1>5, <1>6

LEMMA PrefixUnder ==
    ASSUME NEW S, NEW p \in Seq(S), Len(p) > 1, NEW q \in Seq(S), IsPrefix(q, Tail(p))
    PROVE  IsPrefix(<<p[1]>> \o q, p)
<1>1. PICK r : r = <<p[1]>> \o q
  OBVIOUS
<1>2. PICK k \in Nat, l \in Nat : k = Len(q) /\ l = Len(p) /\ l > 1
  OBVIOUS
<1>3. PICK t : t = Tail(p)
  OBVIOUS
<1>4. Len(t) = l - 1 /\ \A i \in 1..(l - 1) : t[i] = p[i + 1]
  BY <1>2, <1>3
<1>5. p[1] \in S
  BY <1>2
<1>6. r \in Seq(S) /\ Len(r) = k + 1 /\ r[1] = p[1] /\ \A i \in 1..k : r[i + 1] = q[i]
  BY <1>1, <1>2, <1>5
<1>7. k <= l - 1 /\ SubSeq(q, 1, k) = SubSeq(t, 1, k)
  BY <1>2, <1>3, <1>4 DEF IsPrefix
<1>8. \A i \in 1..k : q[i] = t[i]
  <2>1. SubSeq(q, 1, k) = [i \in 1..k |-> q[i]]
    BY <1>2
  <2>2. t \in Seq(S)
    BY <1>2, <1>3
  <2>3. SubSeq(t, 1, k) = [i \in 1..k |-> t[i]]
    BY <1>2, <1>4, <1>7, <2>2
  <2> HIDE <1>7
  <2> QED
    BY <1>7, <2>1, <2>3
<1>9. \A i \in 1..(k + 1) : r[i] = p[i]
  <2> TAKE i \in 1..(k + 1)
  <2>1. CASE i = 1
    BY <1>6, <2>1
  <2>2. CASE i # 1
    <3>1. i - 1 \in 1..k /\ (i - 1) + 1 = i /\ i - 1 \in 1..(l - 1)
      BY <1>2, <1>7, <2>2
    <3> QED
      BY <1>4, <1>6, <1>8, <3>1
  <2> QED
    BY <2>1, <2>2
<1>10. k + 1 <= l
  BY <1>2, <1>7
<1>11. SubSeq(r, 1, k + 1) = [i \in 1..(k + 1) |-> r[i]]
  BY <1>2, <1>6
<1>12. SubSeq(p, 1, k + 1) = [i \in 1..(k + 1) |-> p[i]]
  BY <1>2, <1>10
<1> QED
  BY <1>1, <1>2, <1>6, <1>9, <1>10, <1>11, <1>12 DEF IsPrefix

LEMMA NamePrefix ==
    ASSUME NEW S, NEW p \in Seq(S), p # <<>>
    PROVE  IsPrefix(<<p[1]>>, p)
<1>1. PICK l \in Nat : l = Len(p) /\ l # 0
  BY EmptySeq
<1>2. PICK s : s = <<p[1]>>
  OBVIOUS
<1>3. s \in Seq(S) /\ Len(s) = 1 /\ s[1] = p[1] /\ 1 <= l
  BY <1>1, <1>2
<1>4. SubSeq(p, 1, 1) = [i \in 1..1 |-> p[i]]
  BY <1>1
<1>5. SubSeq(s, 1, 1) = [i \in 1..1 |-> s[i]]
  BY <1>3
<1>6. \A i \in 1..1 : s[i] = p[i]
  BY <1>3
<1> QED
  BY <1>1, <1>2, <1>3, <1>4, <1>5, <1>6 DEF IsPrefix

LEMMA LengthIs ==
    ASSUME NEW S, NEW p \in Seq(S), p # <<>>
    PROVE  Len(p) = 1 \/ Len(p) > 1
<1>1. Len(p) \in Nat /\ Len(p) # 0
  BY EmptySeq
<1>2. \A k \in Nat : k # 0 => k = 1 \/ k > 1
  OBVIOUS
<1> QED
  BY <1>1, <1>2, Zenon

LEMMA LevelKept ==
    ASSUME NEW lower, NEW below, NEW b, NEW o, NEW t,
           TreeOver(b, lower), TreeOver(o, lower), TreeOver(t, lower),
           DOMAIN b \subseteq FileNames, DOMAIN o \subseteq FileNames, DOMAIN t \subseteq FileNames,
           \A b1, o1, t1 \in lower : Kept(b1, o1, t1, below[<<b1, o1, t1>>])
    PROVE  Kept(b, o, t, MergeLevel(b, o, t, below))
<1> DEFINE names == DOMAIN b \cup DOMAIN o \cup DOMAIN t
           M(n)  == MergeName(n, b, o, t, below)
<1>1. PICK r : r = MergeLevel(b, o, t, below)
  OBVIOUS
<1>2. /\ \A n \in names : M(n).conflicts \subseteq r.conflicts
      /\ \A c \in r.conflicts : \E n \in names : c \in M(n).conflicts
      /\ \A n \in DOMAIN r.entries : n \in names
      /\ \A n \in names : n \in DOMAIN r.entries <=> n \in DOMAIN M(n).entries
      /\ \A n \in DOMAIN r.entries : r.entries[n] = M(n).entries[n]
  <2> DEFINE merged == [n \in names |-> M(n)]
             kept   == {n \in names : n \in DOMAIN merged[n].entries}
  <2>1. r = Result([n \in kept |-> merged[n].entries[n]], UNION {merged[n].conflicts : n \in names})
    BY <1>1 DEF MergeLevel
  <2> HIDE DEF names, M
  <2>2. \A n \in names : merged[n] = M(n)
    OBVIOUS
  <2> HIDE DEF merged
  <2>3. DOMAIN r.entries = kept /\ \A n \in kept : r.entries[n] = merged[n].entries[n]
    BY <2>1 DEF Result
  <2>4. r.conflicts = UNION {merged[n].conflicts : n \in names}
    BY <2>1 DEF Result
  <2> QED
    BY <2>2, <2>3, <2>4
<1>3. \A n \in names : Slot(r.entries, n) = Slot(M(n).entries, n)
  BY <1>2 DEF Slot
<1>4. \A n \in names :
        \/ TakesSide(b, o, t, M(n), n) \/ Conflicts(b, o, t, M(n), n)
        \/ MergesText(b, o, t, M(n), n) \/ MergesDirs(b, o, t, M(n), n, lower, below)
  BY NameMerges
<1> HIDE DEF M
<1>5. ASSUME NEW p \in Seq(FileNames), p # <<>>, p[1] \in names,
             MergesDirs(b, o, t, M(p[1]), p[1], lower, below)
      PROVE  FileKept(b, o, t, r, p)
  <2> DEFINE n == p[1]
  <2>1. n \in DOMAIN b /\ n \in DOMAIN o /\ n \in DOMAIN t /\ n \in DOMAIN r.entries
    BY <1>2, <1>5 DEF MergesDirs
  <2>2. PICK b1 \in lower, o1 \in lower, t1 \in lower :
          LET sub == below[<<b1, o1, t1>>]
          IN  /\ b[n] = Dir(b1) /\ o[n] = Dir(o1) /\ t[n] = Dir(t1) /\ M(n).entries[n] = Dir(sub.entries)
              /\ M(n).conflicts = {[c EXCEPT !.path = <<n>> \o @] : c \in sub.conflicts}
    BY <1>5 DEF MergesDirs
  <2>3. PICK sub : sub = below[<<b1, o1, t1>>]
    OBVIOUS
  <2>4. /\ b[n] = Dir(b1) /\ o[n] = Dir(o1) /\ t[n] = Dir(t1) /\ r.entries[n] = Dir(sub.entries)
        /\ M(n).conflicts = {[c EXCEPT !.path = <<n>> \o @] : c \in sub.conflicts}
        /\ Kept(b1, o1, t1, sub)
    BY <1>2, <2>1, <2>2, <2>3
  <2>5. \A e : IsTree(Dir(e)) /\ ~IsBlob(Dir(e)) /\ Dir(e).oid.tree = e /\ Dir(e).oid # NoEntry.oid
    BY DEF IsTree, IsBlob, Dir, NoEntry
  <2>6. CASE Len(p) = 1
    <3>1. /\ EntryAt(b, p) = Dir(b1) /\ EntryAt(o, p) = Dir(o1) /\ EntryAt(t, p) = Dir(t1)
          /\ EntryAt(r.entries, p) = Dir(sub.entries)
      BY <2>1, <2>4, <2>6, EntryTop
    <3>2. At(b, p) = <<>> /\ At(o, p) = <<>> /\ At(t, p) = <<>> /\ At(r.entries, p) = <<>>
      BY <2>5, <3>1 DEF At
    <3> QED
      BY <3>2 DEF FileKept
  <2>7. CASE Len(p) > 1
    <3>1. PICK q : q = Tail(p)
      OBVIOUS
    <3>2. q \in Seq(FileNames) /\ q # <<>>
      BY <2>7, <3>1
    <3>3. /\ EntryAt(b, p) = EntryAt(b1, q) /\ EntryAt(o, p) = EntryAt(o1, q)
          /\ EntryAt(t, p) = EntryAt(t1, q) /\ EntryAt(r.entries, p) = EntryAt(sub.entries, q)
      BY <2>1, <2>4, <2>5, <2>7, <3>1, EntryBelow
    <3>4. /\ At(b, p) = At(b1, q) /\ At(o, p) = At(o1, q) /\ At(t, p) = At(t1, q)
          /\ At(r.entries, p) = At(sub.entries, q)
      BY <3>3 DEF At
    <3>5. FileKept(b1, o1, t1, sub, q)
      BY <2>4, <3>2 DEF Kept
    <3>6. CASE \E c \in sub.conflicts : IsPrefix(c.path, q)
      <4>1. PICK c \in sub.conflicts : IsPrefix(c.path, q)
        BY <3>6
      <4>2. c \in TreeConflicts
        BY <2>4 DEF Kept
      <4>3. c.path \in Seq(FileNames)
        BY <4>2 DEF TreeConflicts
      <4>4. PICK d : d = [c EXCEPT !.path = <<n>> \o @]
        OBVIOUS
      <4>5. d.path = <<n>> \o c.path
        BY <4>2, <4>4 DEF TreeConflicts
      <4>6. d \in r.conflicts
        BY <1>2, <1>5, <2>4, <4>4
      <4>7. IsPrefix(d.path, p)
        BY <2>7, <3>1, <4>1, <4>3, <4>5, PrefixUnder
      <4> QED
        BY <2>7, <4>6, <4>7 DEF FileKept
    <3>7. CASE ~ \E c \in sub.conflicts : IsPrefix(c.path, q)
      BY <2>7, <3>4, <3>5, <3>7 DEF FileKept
    <3> QED
      BY <3>6, <3>7
  <2> QED
    BY <1>5, <2>6, <2>7, LengthIs
<1>6. ASSUME NEW p \in Seq(FileNames), p # <<>>, p[1] \in names,
             MergesText(b, o, t, M(p[1]), p[1])
      PROVE  FileKept(b, o, t, r, p)
  <2> DEFINE n == p[1]
             e == r.entries
  <2>1. /\ n \in DOMAIN b /\ n \in DOMAIN o /\ n \in DOMAIN t /\ n \in DOMAIN e
        /\ e[n] = M(n).entries[n]
        /\ IsBlob(b[n]) /\ IsBlob(o[n]) /\ IsBlob(t[n]) /\ IsBlob(e[n]) /\ ~IsTree(e[n])
    BY <1>2, <1>6 DEF MergesText
  <2>2. ~IsTree(b[n]) /\ ~IsTree(o[n]) /\ ~IsTree(t[n])
    BY <2>1, EntryKinds
  <2>3. CASE Len(p) = 1
    <3>1. /\ EntryAt(b, p) = b[n] /\ EntryAt(o, p) = o[n] /\ EntryAt(t, p) = t[n]
          /\ EntryAt(e, p) = e[n]
      BY <2>1, <2>3, EntryTop
    <3> DEFINE x == b[n].oid.blob
               y == o[n].oid.blob
               z == t[n].oid.blob
               w == e[n].oid.blob
    <3>2. At(b, p) = <<x>> /\ At(o, p) = <<y>> /\ At(t, p) = <<z>> /\ At(e, p) = <<w>>
      BY <2>1, <3>1 DEF At
    <3>3. /\ ~is_binary(x) /\ ~is_binary(y) /\ ~is_binary(z)
          /\ [out |-> w, conflicts |-> 0] = three_way_merge(x, y, z)
      BY <1>6, <2>1 DEF MergesText
    <3> HIDE DEF x, y, z, w
    <3>4. /\ At(b, p)[1] = x /\ At(o, p)[1] = y /\ At(t, p)[1] = z /\ At(e, p)[1] = w
          /\ At(b, p) # <<>> /\ At(o, p) # <<>> /\ At(t, p) # <<>> /\ At(e, p) # <<>>
      BY <3>2
    <3> QED
      BY <3>3, <3>4, Zenon DEF FileKept
  <2>4. CASE Len(p) > 1
    <3>1. /\ EntryAt(b, p) = NoEntry /\ EntryAt(o, p) = NoEntry
          /\ EntryAt(t, p) = NoEntry /\ EntryAt(e, p) = NoEntry
      BY <2>1, <2>2, <2>4, EntryBelow
    <3>2. At(b, p) = At(o, p) /\ At(e, p) = At(t, p)
      BY <3>1 DEF At
    <3> QED
      BY <3>2 DEF FileKept
  <2> QED
    BY <1>6, <2>3, <2>4, LengthIs
<1>9. ASSUME NEW p \in Seq(FileNames), p # <<>>, NEW e, NEW f, Slot(e, p[1]) = Slot(f, p[1])
      PROVE  At(e, p) = At(f, p) /\ EntryAt(e, p).oid = EntryAt(f, p).oid
  BY <1>9, SameSlot
<1>7. ASSUME NEW p \in Seq(FileNames), p # <<>> PROVE FileKept(b, o, t, r, p)
  <2> DEFINE n == p[1]
  <2>1. CASE n \notin names
    <3>1. Slot(b, n) = Slot(o, n) /\ Slot(r.entries, n) = Slot(t, n)
      BY <1>2, <2>1 DEF Slot
    <3>2. At(b, p) = At(o, p) /\ At(r.entries, p) = At(t, p)
      BY <1>7, <1>9, <3>1
    <3> QED
      BY <3>2 DEF FileKept
  <2>2. CASE n \in names /\ TakesSide(b, o, t, M(n), n)
    <3>1. \/ Slot(b, n) = Slot(o, n) /\ Slot(r.entries, n) = Slot(t, n)
          \/ Slot(b, n) = Slot(t, n) /\ Slot(r.entries, n) = Slot(o, n)
          \/ Slot(o, n) = Slot(t, n) /\ Slot(r.entries, n) = Slot(o, n)
      BY <1>3, <2>2 DEF TakesSide
    <3>2. \/ At(b, p) = At(o, p) /\ At(r.entries, p) = At(t, p)
          \/ At(b, p) = At(t, p) /\ At(r.entries, p) = At(o, p)
          \/ At(o, p) = At(t, p) /\ At(r.entries, p) = At(o, p)
      BY <1>7, <1>9, <3>1
    <3> QED
      BY <3>2 DEF FileKept
  <2>3. CASE n \in names /\ Conflicts(b, o, t, M(n), n)
    <3>1. PICK kd : [path |-> <<n>>, kind |-> kd] \in M(n).conflicts
      BY <2>3 DEF Conflicts
    <3>2. [path |-> <<n>>, kind |-> kd] \in r.conflicts
      BY <1>2, <2>3, <3>1
    <3>3. IsPrefix(<<n>>, p)
      BY <1>7, NamePrefix
    <3>4. [path |-> <<n>>, kind |-> kd].path = <<n>>
      OBVIOUS
    <3> QED
      BY <3>2, <3>3, <3>4 DEF FileKept
  <2> QED
    BY <1>4, <1>5, <1>6, <1>7, <2>1, <2>2, <2>3
<1>8. ASSUME NEW c \in r.conflicts
      PROVE  c \in TreeConflicts /\ c.path # <<>> /\ ConflictKept(b, o, t, r, c.path)
  <2>1. PICK n \in names : c \in M(n).conflicts
    BY <1>2
  <2>2. n \in FileNames
    OBVIOUS
  <2>3. CASE Conflicts(b, o, t, M(n), n)
    <3>1. PICK kd \in ConflictKinds : c = [path |-> <<n>>, kind |-> kd]
      BY <2>1, <2>3 DEF Conflicts
    <3>2. c \in TreeConflicts /\ c.path = <<n>> /\ c.path # <<>>
      BY <2>2, <3>1 DEF TreeConflicts
    <3>3. /\ Slot(o, n) # Slot(t, n) /\ Slot(b, n) # Slot(o, n) /\ Slot(b, n) # Slot(t, n)
          /\ Slot(r.entries, n) = Slot(o, n) \/ Slot(r.entries, n) = Slot(t, n)
      BY <1>3, <2>3 DEF Conflicts
    <3>4. \A e : Slot(e, n) = IF n \in DOMAIN e THEN <<e[n].oid>> ELSE <<>>
      BY DEF Slot
    <3>5. /\ n \in DOMAIN b => b[n].oid # NoEntry.oid
          /\ n \in DOMAIN o => o[n].oid # NoEntry.oid
          /\ n \in DOMAIN t => t[n].oid # NoEntry.oid
      BY EntryKinds
    <3>6. \A e : EntryAt(e, <<n>>).oid = IF n \in DOMAIN e THEN e[n].oid ELSE NoEntry.oid
      BY TopOid
    <3>7. /\ EntryAt(o, <<n>>).oid # EntryAt(t, <<n>>).oid
          /\ EntryAt(b, <<n>>).oid # EntryAt(o, <<n>>).oid
          /\ EntryAt(b, <<n>>).oid # EntryAt(t, <<n>>).oid
      <4>1. /\ Slot(b, n) = IF n \in DOMAIN b THEN <<b[n].oid>> ELSE <<>>
            /\ Slot(o, n) = IF n \in DOMAIN o THEN <<o[n].oid>> ELSE <<>>
            /\ Slot(t, n) = IF n \in DOMAIN t THEN <<t[n].oid>> ELSE <<>>
        BY <3>4
      <4>2. /\ EntryAt(b, <<n>>).oid = IF n \in DOMAIN b THEN b[n].oid ELSE NoEntry.oid
            /\ EntryAt(o, <<n>>).oid = IF n \in DOMAIN o THEN o[n].oid ELSE NoEntry.oid
            /\ EntryAt(t, <<n>>).oid = IF n \in DOMAIN t THEN t[n].oid ELSE NoEntry.oid
        BY <3>6
      <4> QED
        BY <3>3, <3>5, <4>1, <4>2, Zenon
    <3>8. EntryAt(r.entries, <<n>>).oid \in {EntryAt(o, <<n>>).oid, EntryAt(t, <<n>>).oid}
      <4>1. PICK p : p = <<n>>
        OBVIOUS
      <4>2. p \in Seq(FileNames) /\ p # <<>> /\ p[1] = n
        BY <2>2, <4>1
      <4> QED
        BY <1>9, <3>3, <4>1, <4>2
    <3> QED
      BY <3>2, <3>7, <3>8 DEF ConflictKept
  <2>4. CASE MergesDirs(b, o, t, M(n), n, lower, below)
    <3>1. n \in DOMAIN b /\ n \in DOMAIN o /\ n \in DOMAIN t /\ n \in DOMAIN r.entries
      BY <1>2, <2>1, <2>4 DEF MergesDirs
    <3>2. PICK b1 \in lower, o1 \in lower, t1 \in lower :
            LET sub == below[<<b1, o1, t1>>]
            IN  /\ b[n] = Dir(b1) /\ o[n] = Dir(o1) /\ t[n] = Dir(t1) /\ M(n).entries[n] = Dir(sub.entries)
                /\ M(n).conflicts = {[d EXCEPT !.path = <<n>> \o @] : d \in sub.conflicts}
      BY <2>4 DEF MergesDirs
    <3>3. PICK sub : sub = below[<<b1, o1, t1>>]
      OBVIOUS
    <3>4. /\ b[n] = Dir(b1) /\ o[n] = Dir(o1) /\ t[n] = Dir(t1) /\ r.entries[n] = Dir(sub.entries)
          /\ M(n).conflicts = {[d EXCEPT !.path = <<n>> \o @] : d \in sub.conflicts}
          /\ Kept(b1, o1, t1, sub)
      BY <1>2, <3>1, <3>2, <3>3
    <3>5. PICK d \in sub.conflicts : c = [d EXCEPT !.path = <<n>> \o @]
      BY <2>1, <3>4
    <3>6. d \in TreeConflicts /\ d.path # <<>> /\ ConflictKept(b1, o1, t1, sub, d.path)
      BY <3>4 DEF Kept
    <3>7. PICK q : q = d.path
      OBVIOUS
    <3>8. q \in Seq(FileNames) /\ q # <<>> /\ d.kind \in ConflictKinds
      BY <3>6, <3>7 DEF TreeConflicts
    <3>9. PICK p : p = <<n>> \o q
      OBVIOUS
    <3>10. c = [path |-> p, kind |-> d.kind]
      BY <3>5, <3>6, <3>7, <3>9 DEF TreeConflicts
    <3>11. p \in Seq(FileNames) /\ p # <<>> /\ Len(p) > 1 /\ p[1] = n /\ Tail(p) = q
      BY <2>2, <3>8, <3>9, PathUnder
    <3>12. \A e : IsTree(Dir(e)) /\ Dir(e).oid.tree = e
      BY DEF IsTree, Dir
    <3>13. /\ EntryAt(b, p) = EntryAt(b1, q) /\ EntryAt(o, p) = EntryAt(o1, q)
           /\ EntryAt(t, p) = EntryAt(t1, q) /\ EntryAt(r.entries, p) = EntryAt(sub.entries, q)
      <4>1. \A e : n \in DOMAIN e /\ IsTree(e[n]) => EntryAt(e, p) = EntryAt(e[n].oid.tree, q)
        BY <3>11, EntryBelow
      <4> QED
        BY <3>1, <3>4, <3>12, <4>1
    <3>14. ConflictKept(b, o, t, r, p)
      BY <3>6, <3>7, <3>13 DEF ConflictKept
    <3>15. c.path = p /\ c \in TreeConflicts
      BY <3>8, <3>10, <3>11 DEF TreeConflicts
    <3> QED
      BY <3>11, <3>14, <3>15
  <2>5. M(n).conflicts # {}
    BY <2>1
  <2> QED
    BY <1>4, <2>1, <2>3, <2>4, <2>5 DEF TakesSide, MergesText
<1> QED
  BY <1>1, <1>7, <1>8 DEF Kept

(* Every level of the trees tried is merged that way.                        *)
LEMMA AllLevelsKept ==
    ASSUME NEW k \in 1..Len(Levels)
    PROVE  \A b, o, t \in Levels[k] : Kept(b, o, t, MergesAt[k][<<b, o, t>>])
<1> DEFINE Good(l) == \A b, o, t \in Levels[l] : Kept(b, o, t, MergesAt[l][<<b, o, t>>])
           P == {i \in Nat : i + 1 <= Len(Levels) => Good(i + 1)}
<1>1. Len(Levels) \in Nat /\ DOMAIN Levels = 1..Len(Levels)
  BY TreeAssumption
<1>2. ASSUME NEW l \in 1..Len(Levels), l > 1 => Good(l - 1) PROVE Good(l)
  <2> SUFFICES ASSUME NEW b \in Levels[l], NEW o \in Levels[l], NEW t \in Levels[l]
               PROVE  Kept(b, o, t, MergesAt[l][<<b, o, t>>])
    OBVIOUS
  <2> DEFINE lower == IF l > 1 THEN Levels[l - 1] ELSE {}
  <2>1. PICK below : below = MergesAt[l - 1]
    OBVIOUS
  <2>2. MergesAt[l] = MergeAll(Levels[l], below)
    BY <2>1, LevelsAre
  <2>3. MergesAt[l][<<b, o, t>>] = MergeLevel(b, o, t, below)
    BY <2>2 DEF MergeAll
  <2>4. \A e \in Levels[l] : TreeOver(e, lower) /\ DOMAIN e \subseteq FileNames
    BY <1>1, TreeAssumption DEF TreeOver, FileNames
  <2>5. \A b1, o1, t1 \in lower : Kept(b1, o1, t1, below[<<b1, o1, t1>>])
    BY <1>2, <2>1
  <2> HIDE DEF lower
  <2> QED
    BY <2>3, <2>4, <2>5, LevelKept
<1> HIDE DEF Good
<1>3. 0 \in P
  <2>1. CASE 1 <= Len(Levels)
    <3>1. 1 \in 1..Len(Levels) /\ ~(1 > 1) /\ 0 + 1 = 1
      BY <1>1, <2>1
    <3> QED BY <1>2, <3>1
  <2> QED BY <2>1
<1>4. ASSUME NEW i \in P \cap Nat PROVE i + 1 \in P
  <2>1. CASE (i + 1) + 1 <= Len(Levels)
    <3>1. (i + 1) + 1 \in 1..Len(Levels) /\ ((i + 1) + 1) - 1 = i + 1 /\ i + 1 <= Len(Levels)
      BY <1>1, <2>1
    <3>2. Good(i + 1)
      BY <3>1
    <3> QED BY <1>2, <3>1, <3>2
  <2> QED BY <2>1
<1>5. Nat \subseteq P
  <2> HIDE DEF P
  <2> QED BY <1>3, <1>4, SetInduction, Zenon
<1>6. k - 1 \in Nat /\ (k - 1) + 1 = k /\ k <= Len(Levels)
  BY <1>1
<1>7. Good((k - 1) + 1)
  BY <1>5, <1>6
<1> QED
  BY <1>6, <1>7 DEF Good

(* For trees of any depth and any number of files: what merge_trees does     *)
(* to a file is one of the ways NoSideOverwritten allows, and a conflict     *)
(* it reports is one that ConflictsReal allows.                              *)
THEOREM TreesMerge == TreeSpec => []TreeMergeSound
<1> DEFINE Inv == /\ trees \in [base : Trees, ours : Trees, theirs : Trees]
                  /\ treeAnswer # <<>> => Kept(trees.base, trees.ours, trees.theirs, treeAnswer)
<1>1. TreeInit => Inv
  BY DEF TreeInit
<1>2. Inv /\ [MergeTrees]_treeVars => Inv'
  <2> SUFFICES ASSUME Inv, [MergeTrees]_treeVars PROVE Inv'
    OBVIOUS
  <2>1. CASE UNCHANGED treeVars
    BY <2>1 DEF treeVars, Kept, FileKept, ConflictKept
  <2>2. CASE MergeTrees
    <3>1. Len(Levels) \in 1..Len(Levels)
      BY TreeAssumption
    <3>2. Kept(trees.base, trees.ours, trees.theirs, merge_trees(trees.base, trees.ours, trees.theirs))
      BY <3>1, AllLevelsKept DEF merge_trees, Trees
    <3>3. treeAnswer' = merge_trees(trees.base, trees.ours, trees.theirs) /\ trees' = trees
      BY <2>2 DEF MergeTrees
    <3> QED
      BY <3>2, <3>3
  <2> QED
    BY <2>1, <2>2
<1>3. Inv => TreeMergeSound
  <2> SUFFICES ASSUME Inv, treeAnswer # <<>> PROVE TreeMergeSound
    BY DEF TreeMergeSound, NoSideOverwritten, ConflictsReal
  <2>1. Paths \subseteq Seq(FileNames) \ {<<>>}
    <3> SUFFICES ASSUME NEW p \in Paths PROVE p \in Seq(FileNames) /\ p # <<>>
      OBVIOUS
    <3>1. PICK n \in DOMAIN Levels : p \in [1..n -> FileNames]
      BY DEF Paths
    <3>2. n \in Nat /\ n # 0
      BY TreeAssumption
    <3>3. p \in Seq(FileNames) /\ Len(p) = n
      BY <3>1, <3>2
    <3> QED
      BY <3>2, <3>3
  <2>2. NoSideOverwritten
    BY <2>1 DEF NoSideOverwritten, Kept, FileKept
  <2>3. ConflictsReal
    BY DEF ConflictsReal, Kept, ConflictKept
  <2> QED
    BY <2>2, <2>3 DEF TreeMergeSound
<1> QED
  BY <1>1, <1>2, <1>3, PTL DEF TreeSpec

-----------------------------------------------------------------------------
(* The manifests of dependencies.                                            *)

(* The recursion of Chosen.                                                  *)
ChosenSteps(list, is, n, w) ==
    w = [i \in 0..n |-> IF i = 0 THEN <<>>
                        ELSE IF i \in is THEN Append(w[i - 1], list[i]) ELSE w[i - 1]]

LEMMA ChosenExists ==
    ASSUME NEW list, NEW is, NEW n \in Nat
    PROVE  \E w : ChosenSteps(list, is, n, w)
<1> DEFINE P == {m \in Nat : \E w : ChosenSteps(list, is, m, w)}
<1>1. 0 \in P
  <2> DEFINE w == [i \in 0..0 |-> <<>>]
  <2>1. ChosenSteps(list, is, 0, w)
    BY DEF ChosenSteps
  <2> QED
    BY <2>1, Zenon
<1>2. ASSUME NEW m \in P \cap Nat PROVE m + 1 \in P
  <2> SUFFICES \E w : ChosenSteps(list, is, m + 1, w)
    OBVIOUS
  <2>1. PICK g : ChosenSteps(list, is, m, g)
    OBVIOUS
  <2> DEFINE F(x, i) == IF i \in is THEN Append(x, list[i]) ELSE x
             B == <<>>
             w == [i \in 0 .. m + 1 |-> IF i = m + 1 THEN F(g[m], m + 1) ELSE g[i]]
  <2>2. \A i \in 0..m : g[i] = IF i = 0 THEN B ELSE F(g[i - 1], i)
    BY <2>1 DEF ChosenSteps
  <2> HIDE DEF F, B
  <2>3. ASSUME NEW i \in 0 .. m + 1
        PROVE  w[i] = IF i = 0 THEN B ELSE F(w[i - 1], i)
    <3>1. CASE i = m + 1
      <4>1. w[i] = F(g[m], m + 1) /\ w[i - 1] = g[m] /\ i # 0
        BY <3>1
      <4> HIDE DEF w
      <4> QED BY <4>1, <3>1
    <3>2. CASE i \in 0..m
      <4>1. w[i] = g[i] /\ (i # 0 => w[i - 1] = g[i - 1])
        BY <3>2
      <4> HIDE DEF w
      <4> QED BY <4>1, <3>2, <2>2
    <3> QED
      BY <3>1, <3>2
  <2>4. w = [i \in 0 .. m + 1 |-> w[i]]
    OBVIOUS
  <2>5. ChosenSteps(list, is, m + 1, w)
    <3> HIDE DEF w
    <3> QED BY <2>3, <2>4 DEF ChosenSteps, F, B
  <2> QED
    BY <2>5, Zenon
<1>3. Nat \subseteq P
  <2> HIDE DEF P
  <2> QED BY <1>1, <1>2, SetInduction, Zenon
<1> QED
  BY <1>3

(* w[i] is what is kept of the first i.                                    *)
KeptBy(list, is, w) ==
    /\ Chosen(list, is) = w[Len(list)] /\ w[0] = <<>>
    /\ \A i \in 1..Len(list) : w[i] = IF i \in is THEN Append(w[i - 1], list[i]) ELSE w[i - 1]

LEMMA ChosenIs ==
    ASSUME NEW list, Len(list) \in Nat, NEW is
    PROVE  \E w : KeptBy(list, is, w)
<1> DEFINE w == CHOOSE g : ChosenSteps(list, is, Len(list), g)
<1>1. ChosenSteps(list, is, Len(list), w)
  BY ChosenExists, Zenon
<1>2. Chosen(list, is) = w[Len(list)]
  BY Zenon DEF Chosen, ChosenSteps
<1> HIDE DEF w
<1>3. \A i \in 0..Len(list) : w[i] = IF i = 0 THEN <<>>
                                     ELSE IF i \in is THEN Append(w[i - 1], list[i]) ELSE w[i - 1]
  BY <1>1 DEF ChosenSteps
<1>4. 0 \in 0..Len(list) /\ \A i \in 1..Len(list) : i \in 0..Len(list) /\ i # 0
  OBVIOUS
<1>5. w[0] = <<>>
  BY <1>3, <1>4
<1>6. \A i \in 1..Len(list) : w[i] = IF i \in is THEN Append(w[i - 1], list[i]) ELSE w[i - 1]
  BY <1>3, <1>4
<1> QED
  BY <1>2, <1>5, <1>6 DEF KeptBy

(* Positions 0 to n: what holds at 0 and goes on from each to the next.      *)
LEMMA UpTo ==
    ASSUME NEW n \in Nat, NEW P, 0 \in P, \A i \in P : i \in Nat /\ i < n => i + 1 \in P
    PROVE  n \in P
<1> DEFINE Q == {i \in Nat : i <= n => i \in P}
<1>1. 0 \in Q
  OBVIOUS
<1>2. ASSUME NEW i \in Q \cap Nat PROVE i + 1 \in Q
  BY <1>2
<1>3. Nat \subseteq Q
  <2> HIDE DEF Q
  <2> QED BY <1>1, <1>2, SetInduction, Zenon
<1> QED
  BY <1>3

LEMMA ChosenFrom ==
    ASSUME NEW S, NEW list \in Seq(S), NEW is
    PROVE  /\ Chosen(list, is) \in Seq(S)
           /\ \A j \in 1..Len(Chosen(list, is)) : \E i \in 1..Len(list) \cap is : Chosen(list, is)[j] = list[i]
<1>1. Len(list) \in Nat
  OBVIOUS
<1>2. PICK w : /\ Chosen(list, is) = w[Len(list)] /\ w[0] = <<>>
               /\ \A i \in 1..Len(list) : w[i] = IF i \in is THEN Append(w[i - 1], list[i]) ELSE w[i - 1]
  <2>1. PICK u : KeptBy(list, is, u)
    BY <1>1, ChosenIs
  <2> WITNESS u
  <2> QED
    BY <1>1, <2>1 DEF KeptBy
<1> DEFINE Good(x) == x \in Seq(S) /\ \A j \in 1..Len(x) : \E i \in 1..Len(list) \cap is : x[j] = list[i]
           P == {i \in 0..Len(list) : Good(w[i])}
<1>3. 0 \in P
  <2>1. Good(<<>>)
    OBVIOUS
  <2> HIDE DEF Good
  <2> QED BY <1>1, <1>2, <2>1
<1>4. ASSUME NEW i \in P, i < Len(list) PROVE i + 1 \in P
  <2>1. i + 1 \in 1..Len(list) /\ (i + 1) - 1 = i /\ Good(w[i])
    <3> HIDE DEF Good
    <3> QED BY <1>1, <1>4
  <2>2. w[i + 1] = IF i + 1 \in is THEN Append(w[i], list[i + 1]) ELSE w[i]
    BY <1>2, <2>1
  <2>3. CASE i + 1 \in is
    <3>1. PICK x : x = w[i]
      OBVIOUS
    <3>2. w[i + 1] = Append(x, list[i + 1]) /\ Good(x) /\ list[i + 1] \in S
      BY <2>1, <2>2, <2>3, <3>1
    <3>3. Good(Append(x, list[i + 1]))
      <4>1. Append(x, list[i + 1]) \in Seq(S)
        BY <3>2
      <4>2. ASSUME NEW j \in 1..Len(Append(x, list[i + 1]))
            PROVE  \E l \in 1..Len(list) \cap is : Append(x, list[i + 1])[j] = list[l]
        <5>1. Len(Append(x, list[i + 1])) = Len(x) + 1 /\ Len(x) \in Nat
          BY <3>2
        <5>2. CASE j = Len(x) + 1
          <6>1. Append(x, list[i + 1])[j] = list[i + 1]
            BY <3>2, <5>2
          <6> QED BY <2>1, <2>3, <6>1
        <5>3. CASE j \in 1..Len(x)
          <6>1. Append(x, list[i + 1])[j] = x[j]
            BY <3>2, <5>3
          <6> QED BY <3>2, <5>3, <6>1
        <5> QED
          BY <5>1, <5>2, <5>3
      <4> QED
        BY <4>1, <4>2
    <3> HIDE DEF Good
    <3>4. Good(w[i + 1])
      BY <3>2, <3>3, Zenon
    <3>5. i + 1 \in 0..Len(list)
      BY <1>1, <2>1
    <3> QED
      BY <3>4, <3>5
  <2>4. CASE i + 1 \notin is
    BY <2>1, <2>2, <2>4
  <2> QED
    BY <2>3, <2>4
<1>5. Len(list) \in P
  <2>1. \A i \in P : i \in Nat /\ i < Len(list) => i + 1 \in P
    BY <1>4
  <2> HIDE DEF P
  <2> QED BY <1>1, <1>3, <2>1, UpTo, Zenon
<1> QED
  BY <1>2, <1>5

(* Two selections that pick the same things at the same places.              *)
LEMMA ChosenSame ==
    ASSUME NEW list, NEW other, Len(list) \in Nat, Len(other) = Len(list), NEW is, NEW js,
           \A i \in 1..Len(list) : /\ i \in is <=> i \in js
                                   /\ i \in is => list[i] = other[i]
    PROVE  Chosen(list, is) = Chosen(other, js)
<1>1. PICK w : /\ Chosen(list, is) = w[Len(list)] /\ w[0] = <<>>
               /\ \A i \in 1..Len(list) : w[i] = IF i \in is THEN Append(w[i - 1], list[i]) ELSE w[i - 1]
  <2>1. PICK u : KeptBy(list, is, u)
    BY ChosenIs
  <2> WITNESS u
  <2> QED
    BY <2>1 DEF KeptBy
<1>2. PICK v : /\ Chosen(other, js) = v[Len(list)] /\ v[0] = <<>>
               /\ \A i \in 1..Len(list) : v[i] = IF i \in js THEN Append(v[i - 1], other[i]) ELSE v[i - 1]
  <2>1. PICK u : KeptBy(other, js, u)
    BY ChosenIs
  <2> WITNESS u
  <2> QED
    BY <2>1 DEF KeptBy
<1> DEFINE P == {i \in 0..Len(list) : w[i] = v[i]}
<1>3. 0 \in P
  BY <1>1, <1>2
<1>4. ASSUME NEW i \in P, i < Len(list) PROVE i + 1 \in P
  <2>1. i + 1 \in 1..Len(list) /\ (i + 1) - 1 = i /\ w[i] = v[i]
    BY <1>4
  <2>2. w[i + 1] = IF i + 1 \in is THEN Append(w[i], list[i + 1]) ELSE w[i]
    BY <1>1, <2>1
  <2>3. v[i + 1] = IF i + 1 \in js THEN Append(v[i], other[i + 1]) ELSE v[i]
    BY <1>2, <2>1
  <2>4. w[i + 1] = v[i + 1]
    BY <2>1, <2>2, <2>3
  <2> QED
    BY <2>1, <2>4
<1>5. Len(list) \in P
  <2>1. \A i \in P : i \in Nat /\ i < Len(list) => i + 1 \in P
    BY <1>4
  <2> HIDE DEF P
  <2> QED BY <1>3, <2>1, UpTo, Zenon
<1> QED
  BY <1>1, <1>2, <1>5

LEMMA ChosenAppend ==
    ASSUME NEW S, NEW list \in Seq(S), NEW x \in S, NEW is
    PROVE  Chosen(Append(list, x), is)
             = IF Len(list) + 1 \in is THEN Append(Chosen(list, is), x) ELSE Chosen(list, is)
<1>1. PICK n \in Nat : n = Len(list)
  OBVIOUS
<1>9. PICK more : more = Append(list, x)
  OBVIOUS
<1>2. Len(more) = n + 1 /\ more[n + 1] = x /\ \A i \in 1..n : more[i] = list[i]
  BY <1>1, <1>9
<1>3. PICK w : /\ Chosen(list, is) = w[n] /\ w[0] = <<>>
               /\ \A i \in 1..n : w[i] = IF i \in is THEN Append(w[i - 1], list[i]) ELSE w[i - 1]
  <2>1. \E w : /\ Chosen(list, is) = w[Len(list)] /\ w[0] = <<>>
               /\ \A i \in 1..Len(list) : w[i] = IF i \in is THEN Append(w[i - 1], list[i]) ELSE w[i - 1]
    <3>1. PICK u : KeptBy(list, is, u)
      BY <1>1, ChosenIs
    <3> WITNESS u
    <3> QED
      BY <1>1, <3>1 DEF KeptBy
  <2> QED
    BY <1>1, <2>1
<1>4. PICK v : /\ Chosen(more, is) = v[n + 1] /\ v[0] = <<>>
               /\ \A i \in 1..(n + 1) : v[i] = IF i \in is THEN Append(v[i - 1], more[i]) ELSE v[i - 1]
  <2>1. Len(more) \in Nat
    BY <1>2
  <2>2. \E v : /\ Chosen(more, is) = v[Len(more)] /\ v[0] = <<>>
               /\ \A i \in 1..Len(more) : v[i] = IF i \in is THEN Append(v[i - 1], more[i]) ELSE v[i - 1]
    <3>1. PICK u : KeptBy(more, is, u)
      BY <2>1, ChosenIs
    <3> WITNESS u
    <3> QED
      BY <2>1, <3>1 DEF KeptBy
  <2> QED
    BY <1>2, <2>2
<1> DEFINE P == {i \in 0..n : w[i] = v[i]}
<1>5. 0 \in P
  BY <1>3, <1>4
<1>6. ASSUME NEW i \in P, i < n PROVE i + 1 \in P
  <2>1. i + 1 \in 1..n /\ i + 1 \in 1..(n + 1) /\ (i + 1) - 1 = i /\ w[i] = v[i]
    BY <1>6
  <2>2. w[i + 1] = IF i + 1 \in is THEN Append(w[i], list[i + 1]) ELSE w[i]
    BY <1>3, <2>1
  <2>3. v[i + 1] = IF i + 1 \in is THEN Append(v[i], more[i + 1]) ELSE v[i]
    BY <1>4, <2>1
  <2>4. w[i + 1] = v[i + 1]
    BY <1>2, <2>1, <2>2, <2>3
  <2> QED
    BY <2>1, <2>4
<1>7. n \in P
  <2>1. \A i \in P : i \in Nat /\ i < n => i + 1 \in P
    BY <1>6
  <2> HIDE DEF P
  <2> QED BY <1>5, <2>1, UpTo, Zenon
<1>8. v[n + 1] = IF n + 1 \in is THEN Append(v[n], x) ELSE v[n]
  <2>1. n + 1 \in 1..(n + 1) /\ (n + 1) - 1 = n
    OBVIOUS
  <2> QED
    BY <1>2, <1>4, <2>1
<1> QED
  BY <1>1, <1>3, <1>4, <1>7, <1>8, <1>9

-----------------------------------------------------------------------------
(* What is read of the others, and of the one that is updated.               *)

Deps == [name : ReadNames, current : Versions \cup {Unversioned}, dev : BOOLEAN]
NotNamed(deps, n) == {i \in 1..Len(deps) : deps[i].name # n}
OthersOf(deps, n) == Chosen(deps, NotNamed(deps, n))
Renewed(d, n, ver) == IF d.name = n THEN [d EXCEPT !.current = ver] ELSE d
Updated(deps, n, ver) == [i \in 1..Len(deps) |-> Renewed(deps[i], n, ver)]

LEMMA OthersAppend ==
    ASSUME NEW deps \in Seq(Deps), NEW d \in Deps, NEW n
    PROVE  OthersOf(Append(deps, d), n)
             = IF d.name # n THEN Append(OthersOf(deps, n), d) ELSE OthersOf(deps, n)
<1>1. PICK more : more = Append(deps, d)
  OBVIOUS
<1>2. /\ Len(deps) \in Nat /\ Len(more) = Len(deps) + 1 /\ more[Len(deps) + 1] = d
      /\ \A i \in 1..Len(deps) : more[i] = deps[i]
  BY <1>1
<1>3. Chosen(more, NotNamed(more, n))
        = IF Len(deps) + 1 \in NotNamed(more, n)
            THEN Append(Chosen(deps, NotNamed(more, n)), d) ELSE Chosen(deps, NotNamed(more, n))
  BY <1>1, ChosenAppend
<1>4. \A i \in 1..Len(deps) : i \in NotNamed(deps, n) <=> i \in NotNamed(more, n)
  BY <1>2 DEF NotNamed
<1>5. Chosen(deps, NotNamed(more, n)) = Chosen(deps, NotNamed(deps, n))
  BY <1>2, <1>4, ChosenSame
<1>6. Len(deps) + 1 \in NotNamed(more, n) <=> d.name # n
  BY <1>2 DEF NotNamed
<1> QED
  BY <1>1, <1>3, <1>5, <1>6 DEF OthersOf

LEMMA OthersEmpty == \A n : OthersOf(<<>>, n) = <<>>
<1> SUFFICES ASSUME NEW n PROVE OthersOf(<<>>, n) = <<>>
  OBVIOUS
<1>1. Len(<<>>) = 0
  OBVIOUS
<1>2. PICK w : Chosen(<<>>, NotNamed(<<>>, n)) = w[Len(<<>>)] /\ w[0] = <<>>
  <2>1. PICK u : KeptBy(<<>>, NotNamed(<<>>, n), u)
    BY <1>1, ChosenIs
  <2> WITNESS u
  <2> QED
    BY <1>1, <2>1 DEF KeptBy
<1> QED
  BY <1>1, <1>2 DEF OthersOf

LEMMA OthersChosen ==
    ASSUME NEW list \in Seq(Deps), NEW is, NEW n
    PROVE  OthersOf(Chosen(list, is), n) = Chosen(list, is \cap NotNamed(list, n))
<1>0. PICK js : js = is \cap NotNamed(list, n)
  OBVIOUS
<1>1. Len(list) \in Nat /\ \A i \in 1..Len(list) : list[i] \in Deps
  OBVIOUS
<1>2. PICK w : /\ Chosen(list, is) = w[Len(list)] /\ w[0] = <<>>
               /\ \A i \in 1..Len(list) : w[i] = IF i \in is THEN Append(w[i - 1], list[i]) ELSE w[i - 1]
  <2>1. PICK u : KeptBy(list, is, u)
    BY <1>1, ChosenIs
  <2> WITNESS u
  <2> QED
    BY <1>1, <2>1 DEF KeptBy
<1>3. PICK v : /\ Chosen(list, js) = v[Len(list)] /\ v[0] = <<>>
               /\ \A i \in 1..Len(list) : v[i] = IF i \in js THEN Append(v[i - 1], list[i]) ELSE v[i - 1]
  <2>1. PICK u : KeptBy(list, js, u)
    BY <1>1, ChosenIs
  <2> WITNESS u
  <2> QED
    BY <1>1, <2>1 DEF KeptBy
<1>4. \A i \in 1..Len(list) : i \in js <=> i \in is /\ list[i].name # n
  BY <1>0 DEF NotNamed
<1> DEFINE P == {i \in 0..Len(list) : w[i] \in Seq(Deps) /\ OthersOf(w[i], n) = v[i]}
<1>5. 0 \in P
  <2>1. w[0] \in Seq(Deps) /\ OthersOf(w[0], n) = v[0] /\ 0 \in 0..Len(list)
    BY <1>1, <1>2, <1>3, OthersEmpty, EmptySeq
  <2> QED
    BY <2>1
<1>6. ASSUME NEW i \in P, i < Len(list) PROVE i + 1 \in P
  <2>1. i + 1 \in 1..Len(list) /\ i + 1 \in 0..Len(list) /\ (i + 1) - 1 = i
    BY <1>1, <1>6
  <2>a. PICK x, d : x = w[i] /\ d = list[i + 1]
    OBVIOUS
  <2>2. x \in Seq(Deps) /\ OthersOf(x, n) = v[i] /\ d \in Deps
    BY <1>1, <1>6, <2>1, <2>a
  <2>3. w[i + 1] = IF i + 1 \in is THEN Append(x, d) ELSE x
    BY <1>2, <2>1, <2>a
  <2>4. v[i + 1] = IF i + 1 \in js THEN Append(v[i], d) ELSE v[i]
    BY <1>3, <2>1, <2>a
  <2>5. OthersOf(Append(x, d), n) = IF d.name # n THEN Append(v[i], d) ELSE v[i]
    BY <2>2, OthersAppend
  <2>6. OthersOf(w[i + 1], n) = v[i + 1]
    BY <1>4, <2>1, <2>2, <2>3, <2>4, <2>5, <2>a
  <2>7. w[i + 1] \in Seq(Deps)
    BY <2>2, <2>3
  <2> QED
    BY <2>1, <2>6, <2>7
<1>7. Len(list) \in P
  <2>1. \A i \in P : i \in Nat /\ i < Len(list) => i + 1 \in P
    BY <1>6
  <2> HIDE DEF P
  <2> QED BY <1>1, <1>5, <2>1, UpTo, Zenon
<1> QED
  BY <1>0, <1>2, <1>3, <1>7

LEMMA OthersConcat ==
    ASSUME NEW a \in Seq(Deps), NEW list \in Seq(Deps), NEW is, NEW n
    PROVE  OthersOf(a \o Chosen(list, is), n) = OthersOf(a, n) \o OthersOf(Chosen(list, is), n)
<1>1. Len(list) \in Nat /\ \A i \in 1..Len(list) : list[i] \in Deps
  OBVIOUS
<1>2. PICK w : /\ Chosen(list, is) = w[Len(list)] /\ w[0] = <<>>
               /\ \A i \in 1..Len(list) : w[i] = IF i \in is THEN Append(w[i - 1], list[i]) ELSE w[i - 1]
  <2>1. PICK u : KeptBy(list, is, u)
    BY <1>1, ChosenIs
  <2> WITNESS u
  <2> QED
    BY <1>1, <2>1 DEF KeptBy
<1> DEFINE P == {i \in 0..Len(list) : /\ w[i] \in Seq(Deps)
                                      /\ OthersOf(a \o w[i], n) = OthersOf(a, n) \o OthersOf(w[i], n)}
<1>3. \A x \in Seq(Deps) : OthersOf(x, n) \in Seq(Deps)
  BY ChosenFrom DEF OthersOf
<1>4. 0 \in P
  <2>1. <<>> \in Seq(Deps) /\ OthersOf(<<>>, n) = <<>> /\ a \o <<>> = a
    BY OthersEmpty
  <2>2. OthersOf(a, n) \o <<>> = OthersOf(a, n)
    BY <1>3
  <2>3. OthersOf(a \o w[0], n) = OthersOf(a, n) \o OthersOf(w[0], n)
    BY <1>2, <2>1, <2>2
  <2>4. w[0] \in Seq(Deps) /\ 0 \in 0..Len(list)
    BY <1>1, <1>2, <2>1
  <2> QED
    BY <2>3, <2>4
<1>5. ASSUME NEW i \in P, i < Len(list) PROVE i + 1 \in P
  <2>1. i + 1 \in 1..Len(list) /\ i + 1 \in 0..Len(list) /\ (i + 1) - 1 = i
    BY <1>1, <1>5
  <2>2. PICK x, d : x = w[i] /\ d = list[i + 1]
    OBVIOUS
  <2>3. /\ x \in Seq(Deps) /\ OthersOf(a \o x, n) = OthersOf(a, n) \o OthersOf(x, n) /\ d \in Deps
    BY <1>1, <1>5, <2>1, <2>2
  <2>4. w[i + 1] = IF i + 1 \in is THEN Append(x, d) ELSE x
    BY <1>2, <2>1, <2>2
  <2>5. a \o Append(x, d) = Append(a \o x, d) /\ a \o x \in Seq(Deps)
    BY <2>3
  <2>6. OthersOf(Append(a \o x, d), n)
          = IF d.name # n THEN Append(OthersOf(a \o x, n), d) ELSE OthersOf(a \o x, n)
    BY <2>3, <2>5, OthersAppend
  <2>7. OthersOf(Append(x, d), n) = IF d.name # n THEN Append(OthersOf(x, n), d) ELSE OthersOf(x, n)
    BY <2>3, OthersAppend
  <2>8. OthersOf(a, n) \o Append(OthersOf(x, n), d) = Append(OthersOf(a, n) \o OthersOf(x, n), d)
    <3>1. PICK y \in Seq(Deps), z \in Seq(Deps) : y = OthersOf(a, n) /\ z = OthersOf(x, n)
      BY <1>3, <2>3
    <3>2. y \o Append(z, d) = Append(y \o z, d)
      BY <2>3
    <3> QED BY <3>1, <3>2
  <2>9. OthersOf(a \o w[i + 1], n) = OthersOf(a, n) \o OthersOf(w[i + 1], n)
    BY <2>3, <2>4, <2>5, <2>6, <2>7, <2>8
  <2>10. w[i + 1] \in Seq(Deps)
    BY <2>3, <2>4
  <2> QED
    BY <2>1, <2>9, <2>10
<1>6. Len(list) \in P
  <2>1. \A i \in P : i \in Nat /\ i < Len(list) => i + 1 \in P
    BY <1>5
  <2> HIDE DEF P
  <2> QED BY <1>1, <1>4, <2>1, UpTo, Zenon
<1> QED
  BY <1>2, <1>6

LEMMA RenewedIs ==
    ASSUME NEW d \in Deps, NEW n, NEW ver \in Versions
    PROVE  /\ Renewed(d, n, ver) \in Deps
           /\ Renewed(d, n, ver).name = d.name /\ Renewed(d, n, ver).dev = d.dev
  BY DEF Renewed, Deps

LEMMA UpdatedIs ==
    ASSUME NEW x \in Seq(Deps), NEW n, NEW ver \in Versions
    PROVE  /\ Updated(x, n, ver) \in Seq(Deps) /\ Len(Updated(x, n, ver)) = Len(x)
           /\ \A i \in 1..Len(x) : Updated(x, n, ver)[i] = Renewed(x[i], n, ver)
<1>1. Len(x) \in Nat /\ \A i \in 1..Len(x) : Renewed(x[i], n, ver) \in Deps
  <2>1. \A i \in 1..Len(x) : x[i] \in Deps
    OBVIOUS
  <2> QED BY <2>1, RenewedIs
<1> DEFINE G(i) == Renewed(x[i], n, ver)
<1>2. PICK u : u = [i \in 1..Len(x) |-> G(i)]
  OBVIOUS
<1>3. u \in Seq(Deps) /\ Len(u) = Len(x) /\ \A i \in 1..Len(x) : u[i] = G(i)
  <2>1. \A i \in 1..Len(x) : G(i) \in Deps
    BY <1>1
  <2> HIDE DEF G
  <2> QED BY <1>1, <1>2, <2>1
<1> QED
  BY <1>2, <1>3 DEF Updated

LEMMA UpdatedEmpty ==
    ASSUME NEW n, NEW ver \in Versions
    PROVE  Updated(<<>>, n, ver) = <<>>
<1>1. <<>> \in Seq(Deps) /\ Len(<<>>) = 0
  OBVIOUS
<1>2. Updated(<<>>, n, ver) \in Seq(Deps) /\ Len(Updated(<<>>, n, ver)) = 0
  BY <1>1, UpdatedIs
<1> QED
  BY <1>2, EmptySeq

LEMMA UpdatedAppend ==
    ASSUME NEW x \in Seq(Deps), NEW d \in Deps, NEW n, NEW ver \in Versions
    PROVE  Updated(Append(x, d), n, ver) = Append(Updated(x, n, ver), Renewed(d, n, ver))
<1>1. PICK l \in Nat : l = Len(x)
  OBVIOUS
<1>2. PICK more : more = Append(x, d)
  OBVIOUS
<1>3. more \in Seq(Deps) /\ Len(more) = l + 1 /\ more[l + 1] = d /\ \A i \in 1..l : more[i] = x[i]
  BY <1>1, <1>2
<1>4. PICK u \in Seq(Deps), e \in Deps : u = Updated(x, n, ver) /\ e = Renewed(d, n, ver)
  BY UpdatedIs, RenewedIs
<1>5. Len(u) = l /\ \A i \in 1..l : u[i] = Renewed(x[i], n, ver)
  BY <1>1, <1>4, UpdatedIs
<1>6. PICK s \in Seq(Deps) : s = Updated(more, n, ver)
  BY <1>3, UpdatedIs
<1>7. Len(s) = l + 1 /\ \A i \in 1..(l + 1) : s[i] = Renewed(more[i], n, ver)
  BY <1>3, <1>6, UpdatedIs
<1>8. PICK t \in Seq(Deps) : t = Append(u, e)
  <2>1. Append(u, e) \in Seq(Deps)
    OBVIOUS
  <2> QED BY <2>1, Zenon
<1>9. Len(t) = l + 1 /\ t[l + 1] = e /\ \A i \in 1..l : t[i] = u[i]
  BY <1>5, <1>8
<1>10. ASSUME NEW i \in 1..(l + 1) PROVE s[i] = t[i]
  <2>1. CASE i = l + 1
    BY <1>3, <1>4, <1>7, <1>9, <2>1
  <2>2. CASE i \in 1..l
    BY <1>3, <1>5, <1>7, <1>9, <2>2
  <2> QED
    BY <2>1, <2>2
<1>11. s = t
  BY <1>7, <1>9, <1>10, SeqEqual
<1> QED
  BY <1>2, <1>4, <1>6, <1>8, <1>11

LEMMA UpdatedChosen ==
    ASSUME NEW list \in Seq(Deps), NEW other, Len(other) = Len(list), NEW is, NEW n,
           NEW ver \in Versions,
           \A i \in 1..Len(list) : i \in is => other[i] = Renewed(list[i], n, ver)
    PROVE  Chosen(other, is) = Updated(Chosen(list, is), n, ver)
<1>1. Len(list) \in Nat /\ \A i \in 1..Len(list) : list[i] \in Deps
  OBVIOUS
<1>2. PICK w : /\ Chosen(list, is) = w[Len(list)] /\ w[0] = <<>>
               /\ \A i \in 1..Len(list) : w[i] = IF i \in is THEN Append(w[i - 1], list[i]) ELSE w[i - 1]
  <2>1. PICK u : KeptBy(list, is, u)
    BY <1>1, ChosenIs
  <2> WITNESS u
  <2> QED
    BY <1>1, <2>1 DEF KeptBy
<1>3. PICK v : /\ Chosen(other, is) = v[Len(list)] /\ v[0] = <<>>
               /\ \A i \in 1..Len(list) : v[i] = IF i \in is THEN Append(v[i - 1], other[i]) ELSE v[i - 1]
  <2>1. PICK u : KeptBy(other, is, u)
    BY <1>1, ChosenIs
  <2> WITNESS u
  <2> QED
    BY <1>1, <2>1 DEF KeptBy
<1> DEFINE P == {i \in 0..Len(list) : w[i] \in Seq(Deps) /\ v[i] = Updated(w[i], n, ver)}
<1>4. 0 \in P
  <2>1. w[0] \in Seq(Deps) /\ v[0] = Updated(w[0], n, ver) /\ 0 \in 0..Len(list)
    BY <1>1, <1>2, <1>3, UpdatedEmpty, EmptySeq
  <2> QED
    BY <2>1
<1>5. ASSUME NEW i \in P, i < Len(list) PROVE i + 1 \in P
  <2>1. i + 1 \in 1..Len(list) /\ i + 1 \in 0..Len(list) /\ (i + 1) - 1 = i
    BY <1>1, <1>5
  <2>2. PICK x, d, y : x = w[i] /\ d = list[i + 1] /\ y = v[i]
    OBVIOUS
  <2>3. x \in Seq(Deps) /\ y = Updated(x, n, ver) /\ d \in Deps
    BY <1>1, <1>5, <2>1, <2>2
  <2>4. w[i + 1] = IF i + 1 \in is THEN Append(x, d) ELSE x
    BY <1>2, <2>1, <2>2
  <2>5. v[i + 1] = IF i + 1 \in is THEN Append(y, other[i + 1]) ELSE y
    BY <1>3, <2>1, <2>2
  <2>6. i + 1 \in is => other[i + 1] = Renewed(d, n, ver)
    BY <2>1, <2>2
  <2>7. Updated(Append(x, d), n, ver) = Append(y, Renewed(d, n, ver))
    BY <2>3, UpdatedAppend
  <2>8. v[i + 1] = Updated(w[i + 1], n, ver)
    BY <2>3, <2>4, <2>5, <2>6, <2>7
  <2>9. w[i + 1] \in Seq(Deps)
    BY <2>3, <2>4
  <2> QED
    BY <2>1, <2>8, <2>9
<1>6. Len(list) \in P
  <2>1. \A i \in P : i \in Nat /\ i < Len(list) => i + 1 \in P
    BY <1>5
  <2> HIDE DEF P
  <2> QED BY <1>1, <1>4, <2>1, UpTo, Zenon
<1> QED
  BY <1>2, <1>3, <1>6

LEMMA UpdatedConcat ==
    ASSUME NEW a \in Seq(Deps), NEW b \in Seq(Deps), NEW n, NEW ver \in Versions
    PROVE  Updated(a \o b, n, ver) = Updated(a, n, ver) \o Updated(b, n, ver)
<1>1. PICK l \in Nat, m \in Nat : l = Len(a) /\ m = Len(b)
  OBVIOUS
<1>2. PICK c \in Seq(Deps) : c = a \o b
  BY ConcatProperties, Zenon
<1>3. Len(c) = l + m /\ \A i \in 1..(l + m) : c[i] = IF i <= l THEN a[i] ELSE b[i - l]
  BY <1>1, <1>2, ConcatProperties
<1>4. PICK u \in Seq(Deps), v \in Seq(Deps) : u = Updated(a, n, ver) /\ v = Updated(b, n, ver)
  BY UpdatedIs
<1>5. /\ Len(u) = l /\ \A i \in 1..l : u[i] = Renewed(a[i], n, ver)
      /\ Len(v) = m /\ \A i \in 1..m : v[i] = Renewed(b[i], n, ver)
  BY <1>1, <1>4, UpdatedIs
<1>6. PICK s \in Seq(Deps) : s = Updated(c, n, ver)
  BY UpdatedIs
<1>7. Len(s) = l + m /\ \A i \in 1..(l + m) : s[i] = Renewed(c[i], n, ver)
  <2>1. Len(s) = Len(c) /\ \A i \in 1..Len(c) : s[i] = Renewed(c[i], n, ver)
    BY <1>6, UpdatedIs
  <2> QED BY <1>3, <2>1
<1>8. PICK t \in Seq(Deps) : t = u \o v
  BY ConcatProperties, Zenon
<1>9. Len(t) = l + m /\ \A i \in 1..(l + m) : t[i] = IF i <= l THEN u[i] ELSE v[i - l]
  BY <1>5, <1>8, ConcatProperties
<1>10. ASSUME NEW i \in 1..(l + m) PROVE s[i] = t[i]
  <2>1. CASE i <= l
    <3>1. i \in 1..l
      BY <2>1
    <3> QED BY <1>3, <1>5, <1>7, <1>9, <2>1, <3>1
  <2>2. CASE ~(i <= l)
    <3>1. i - l \in 1..m
      BY <2>2
    <3> QED BY <1>3, <1>5, <1>7, <1>9, <2>2, <3>1
  <2> QED
    BY <2>1, <2>2
<1>11. s = t
  BY <1>7, <1>9, <1>10, SeqEqual
<1> QED
  BY <1>2, <1>4, <1>6, <1>8, <1>11

-----------------------------------------------------------------------------
(* What a parser takes and what it makes of it.  A project file is read      *)
(* twice, the second time for the references with the version first.         *)

EntryForms == {"bare", "table", "linked", "loose", "variable", "single", "indented", "reversed", "split"}
Entry == [sec : {"deps", "dev", "other"}, name : Names, excl : Names \cup {NoName},
          form : EntryForms, op : {"", "~"}, ver : Versions]

Taken(k, e) ==
    /\ k = "Cargo.toml" => /\ e.sec \in {"deps", "dev"} /\ e.form # "linked"
                           /\ e.form = "bare" => e.name \notin MetaKeys
    /\ k \in {"package.json", "pubspec.yaml"} => e.form # "linked"
    /\ k = "requirements.txt" => e.form # "loose"
    /\ k = "pyproject.toml" => e.sec = "deps" /\ e.form # "loose"
    /\ k = "composer.json" => e.name \notin Platform
    /\ k = "pom.xml" => e.sec = "deps" /\ e.form = "bare"
    /\ k = "csproj" => e.form # "reversed"
TakenLater(k, e) == k = "csproj" /\ e.form = "reversed"

DepAs(k, e) ==
    IF k \in {"requirements.txt", "pyproject.toml"} THEN AsPyPi(e)
    ELSE IF k = "pom.xml" THEN AsExcluded(e)
    ELSE IF k \in {"Gemfile", "Podfile"} THEN OrUnversioned(e) ELSE AsWritten(e)
AllDeps(k, m) == [i \in 1..Len(m) |-> DepAs(k, m[i])]
First(k, m) == {i \in 1..Len(m) : Taken(k, m[i])}
Second(k, m) == {i \in 1..Len(m) : TakenLater(k, m[i])}

LEMMA EntriesAre ==
    ASSUME NEW k \in Kinds PROVE Entries(k) \subseteq Entry
<1>1. Forms(k) \subseteq EntryForms
  BY DEF Kinds, Forms, EntryForms
<1>2. Sections(k) \subseteq {"deps", "dev", "other"}
  BY DEF Kinds, Sections
<1>3. Operators(k) \subseteq {"", "~"} /\ Exclusions(k) \subseteq Names \cup {NoName}
  BY ManifestAssumption DEF Operators, Exclusions
<1> QED
  BY <1>1, <1>2, <1>3 DEF Entries, Entry

LEMMA DepAsIs ==
    ASSUME NEW k \in Kinds, NEW e \in Entry
    PROVE  DepAs(k, e) \in Deps
<1>1. e.name \in Names /\ e.ver \in Versions /\ (e.sec = "dev") \in BOOLEAN
  BY DEF Entry
<1>2. e.name \in ReadNames /\ Normal[e.name] \in ReadNames
  BY <1>1 DEF ReadNames
<1>3. \A n \in ReadNames, v \in Versions \cup {Unversioned} : Dep(e, n, v) \in Deps
  BY <1>1 DEF Dep, Deps
<1>4. AsPyPi(e) \in Deps /\ AsWritten(e) \in Deps
  BY <1>1, <1>2, <1>3 DEF AsPyPi, AsWritten
<1>5. OrUnversioned(e) \in Deps
  BY <1>1, <1>2, <1>3 DEF OrUnversioned
<1>6. AsExcluded(e) \in Deps
  <2>1. ReadAs(e) \in ReadNames
    BY DEF ReadAs, Entry, ReadNames
  <2> QED BY <1>1, <1>3, <2>1 DEF AsExcluded
<1> QED
  BY <1>4, <1>5, <1>6 DEF DepAs

LEMMA AllDepsAre ==
    ASSUME NEW k \in Kinds, NEW m \in Seq(Entry)
    PROVE  /\ AllDeps(k, m) \in Seq(Deps) /\ Len(AllDeps(k, m)) = Len(m) /\ Len(m) \in Nat
           /\ \A i \in 1..Len(m) : AllDeps(k, m)[i] = DepAs(k, m[i]) /\ m[i] \in Entry
<1> DEFINE G(i) == DepAs(k, m[i])
<1>1. Len(m) \in Nat /\ \A i \in 1..Len(m) : m[i] \in Entry
  OBVIOUS
<1>2. \A i \in 1..Len(m) : G(i) \in Deps
  BY <1>1, DepAsIs
<1> HIDE DEF G
<1>3. PICK u : u = [i \in 1..Len(m) |-> G(i)]
  OBVIOUS
<1>4. u \in Seq(Deps) /\ Len(u) = Len(m) /\ \A i \in 1..Len(m) : u[i] = G(i)
  BY <1>1, <1>2, <1>3
<1> QED
  BY <1>1, <1>3, <1>4 DEF AllDeps, G

LEMMA NothingChosen ==
    ASSUME NEW list \in Seq(Deps), NEW is, is = {}
    PROVE  Chosen(list, is) = <<>>
<1>1. Chosen(list, is) \in Seq(Deps) /\ \A j \in 1..Len(Chosen(list, is)) : FALSE
  BY ChosenFrom
<1>2. PICK x \in Seq(Deps) : x = Chosen(list, is)
  BY <1>1
<1>3. Len(x) = 0
  <2>1. Len(x) \in Nat /\ ~(1 \in 1..Len(x))
    BY <1>1, <1>2
  <2> QED BY <2>1
<1> QED
  BY <1>2, <1>3, EmptySeq

LEMMA ParseIs ==
    ASSUME NEW k \in Kinds, NEW m \in Seq(Entry)
    PROVE  parse_manifest(k, m) = Chosen(AllDeps(k, m), First(k, m)) \o Chosen(AllDeps(k, m), Second(k, m))
<1>1. CASE k = "csproj"
  <2>1. parse_manifest(k, m) = parse_csproj(m)
    BY <1>1 DEF parse_manifest
  <2>2. parse_csproj(m) = Chosen(AllDeps(k, m), First(k, m)) \o Chosen(AllDeps(k, m), Second(k, m))
    <3>1. AllDeps(k, m) = [i \in 1..Len(m) |-> AsWritten(m[i])]
      BY <1>1 DEF AllDeps, DepAs
    <3>2. First(k, m) = {i \in 1..Len(m) : m[i].form # "reversed"}
      BY <1>1 DEF First, Taken
    <3>3. Second(k, m) = {i \in 1..Len(m) : m[i].form = "reversed"}
      BY <1>1 DEF Second, TakenLater
    <3> QED
      BY <3>1, <3>2, <3>3, Zenon DEF parse_csproj, Read, Matching
  <2> QED
    BY <2>1, <2>2
<1>2. CASE k # "csproj"
  <2>1. Second(k, m) = {}
    BY <1>2 DEF Second, TakenLater
  <2>2. Chosen(AllDeps(k, m), Second(k, m)) = <<>>
    BY <2>1, AllDepsAre, NothingChosen
  <2>3. Chosen(AllDeps(k, m), First(k, m)) \in Seq(Deps)
    BY AllDepsAre, ChosenFrom
  <2>4. Chosen(AllDeps(k, m), First(k, m)) \o <<>> = Chosen(AllDeps(k, m), First(k, m))
    BY <2>3, ConcatEmptySeq
  <2>5. CASE k = "Cargo.toml"
    <3>1. parse_manifest(k, m) = parse_cargo_toml(m)
      BY <2>5 DEF parse_manifest
    <3>2. AllDeps(k, m) = [i \in 1..Len(m) |-> AsWritten(m[i])]
      BY <2>5 DEF AllDeps, DepAs
    <3>3. First(k, m) = {i \in 1..Len(m) : m[i].sec \in {"deps", "dev"} /\ m[i].form # "linked" /\ (m[i].form = "bare" => m[i].name \notin MetaKeys)}
      BY <2>5 DEF First, Taken
    <3>4. parse_cargo_toml(m) = Chosen(AllDeps(k, m), First(k, m))
      BY <3>2, <3>3, Zenon DEF parse_cargo_toml, Read, Matching
    <3> QED
      BY <2>2, <2>4, <3>1, <3>4
  <2>6. CASE k = "package.json"
    <3>1. parse_manifest(k, m) = parse_package_json(m)
      BY <2>6 DEF parse_manifest
    <3>2. AllDeps(k, m) = [i \in 1..Len(m) |-> AsWritten(m[i])]
      BY <2>6 DEF AllDeps, DepAs
    <3>3. First(k, m) = {i \in 1..Len(m) : m[i].form # "linked"}
      BY <2>6 DEF First, Taken
    <3>4. parse_package_json(m) = Chosen(AllDeps(k, m), First(k, m))
      BY <3>2, <3>3, Zenon DEF parse_package_json, Read, Matching
    <3> QED
      BY <2>2, <2>4, <3>1, <3>4
  <2>7. CASE k = "requirements.txt"
    <3>1. parse_manifest(k, m) = parse_requirements_txt(m)
      BY <2>7 DEF parse_manifest
    <3>2. AllDeps(k, m) = [i \in 1..Len(m) |-> AsPyPi(m[i])]
      BY <2>7 DEF AllDeps, DepAs
    <3>3. First(k, m) = {i \in 1..Len(m) : m[i].form # "loose"}
      BY <2>7 DEF First, Taken
    <3>4. parse_requirements_txt(m) = Chosen(AllDeps(k, m), First(k, m))
      BY <3>2, <3>3, Zenon DEF parse_requirements_txt, Read, Matching
    <3> QED
      BY <2>2, <2>4, <3>1, <3>4
  <2>8. CASE k = "pyproject.toml"
    <3>1. parse_manifest(k, m) = parse_pyproject_toml(m)
      BY <2>8 DEF parse_manifest
    <3>2. AllDeps(k, m) = [i \in 1..Len(m) |-> AsPyPi(m[i])]
      BY <2>8 DEF AllDeps, DepAs
    <3>3. First(k, m) = {i \in 1..Len(m) : m[i].sec = "deps" /\ m[i].form # "loose"}
      BY <2>8 DEF First, Taken
    <3>4. parse_pyproject_toml(m) = Chosen(AllDeps(k, m), First(k, m))
      BY <3>2, <3>3, Zenon DEF parse_pyproject_toml, Read, Matching
    <3> QED
      BY <2>2, <2>4, <3>1, <3>4
  <2>9. CASE k = "go.mod"
    <3>1. parse_manifest(k, m) = parse_go_mod(m)
      BY <2>9 DEF parse_manifest
    <3>2. AllDeps(k, m) = [i \in 1..Len(m) |-> AsWritten(m[i])]
      BY <2>9 DEF AllDeps, DepAs
    <3>3. First(k, m) = {i \in 1..Len(m) : TRUE}
      BY <2>9 DEF First, Taken
    <3>4. parse_go_mod(m) = Chosen(AllDeps(k, m), First(k, m))
      BY <3>2, <3>3, Zenon DEF parse_go_mod, Read, Matching
    <3> QED
      BY <2>2, <2>4, <3>1, <3>4
  <2>10. CASE k = "Gemfile"
    <3>1. parse_manifest(k, m) = parse_gemfile(m)
      BY <2>10 DEF parse_manifest
    <3>2. AllDeps(k, m) = [i \in 1..Len(m) |-> OrUnversioned(m[i])]
      BY <2>10 DEF AllDeps, DepAs
    <3>3. First(k, m) = {i \in 1..Len(m) : TRUE}
      BY <2>10 DEF First, Taken
    <3>4. parse_gemfile(m) = Chosen(AllDeps(k, m), First(k, m))
      BY <3>2, <3>3, Zenon DEF parse_gemfile, Read, Matching
    <3> QED
      BY <2>2, <2>4, <3>1, <3>4
  <2>11. CASE k = "composer.json"
    <3>1. parse_manifest(k, m) = parse_composer_json(m)
      BY <2>11 DEF parse_manifest
    <3>2. AllDeps(k, m) = [i \in 1..Len(m) |-> AsWritten(m[i])]
      BY <2>11 DEF AllDeps, DepAs
    <3>3. First(k, m) = {i \in 1..Len(m) : m[i].name \notin Platform}
      BY <2>11 DEF First, Taken
    <3>4. parse_composer_json(m) = Chosen(AllDeps(k, m), First(k, m))
      BY <3>2, <3>3, Zenon DEF parse_composer_json, Read, Matching
    <3> QED
      BY <2>2, <2>4, <3>1, <3>4
  <2>12. CASE k = "pom.xml"
    <3>1. parse_manifest(k, m) = parse_pom_xml(m)
      BY <2>12 DEF parse_manifest
    <3>2. AllDeps(k, m) = [i \in 1..Len(m) |-> AsExcluded(m[i])]
      BY <2>12 DEF AllDeps, DepAs
    <3>3. First(k, m) = {i \in 1..Len(m) : m[i].sec = "deps" /\ m[i].form = "bare"}
      BY <2>12 DEF First, Taken
    <3>4. parse_pom_xml(m) = Chosen(AllDeps(k, m), First(k, m))
      BY <3>2, <3>3, Zenon DEF parse_pom_xml, Read, Matching
    <3> QED
      BY <2>2, <2>4, <3>1, <3>4
  <2>13. CASE k = "pubspec.yaml"
    <3>1. parse_manifest(k, m) = parse_pubspec_yaml(m)
      BY <2>13 DEF parse_manifest
    <3>2. AllDeps(k, m) = [i \in 1..Len(m) |-> AsWritten(m[i])]
      BY <2>13 DEF AllDeps, DepAs
    <3>3. First(k, m) = {i \in 1..Len(m) : m[i].form # "linked"}
      BY <2>13 DEF First, Taken
    <3>4. parse_pubspec_yaml(m) = Chosen(AllDeps(k, m), First(k, m))
      BY <3>2, <3>3, Zenon DEF parse_pubspec_yaml, Read, Matching
    <3> QED
      BY <2>2, <2>4, <3>1, <3>4
  <2>14. CASE k = "mix.exs"
    <3>1. parse_manifest(k, m) = parse_mix_exs(m)
      BY <2>14 DEF parse_manifest
    <3>2. AllDeps(k, m) = [i \in 1..Len(m) |-> AsWritten(m[i])]
      BY <2>14 DEF AllDeps, DepAs
    <3>3. First(k, m) = {i \in 1..Len(m) : TRUE}
      BY <2>14 DEF First, Taken
    <3>4. parse_mix_exs(m) = Chosen(AllDeps(k, m), First(k, m))
      BY <3>2, <3>3, Zenon DEF parse_mix_exs, Read, Matching
    <3> QED
      BY <2>2, <2>4, <3>1, <3>4
  <2>15. CASE k = "Podfile"
    <3>1. parse_manifest(k, m) = parse_podfile(m)
      BY <2>15 DEF parse_manifest
    <3>2. AllDeps(k, m) = [i \in 1..Len(m) |-> OrUnversioned(m[i])]
      BY <2>15 DEF AllDeps, DepAs
    <3>3. First(k, m) = {i \in 1..Len(m) : TRUE}
      BY <2>15 DEF First, Taken
    <3>4. parse_podfile(m) = Chosen(AllDeps(k, m), First(k, m))
      BY <3>2, <3>3, Zenon DEF parse_podfile, Read, Matching
    <3> QED
      BY <2>2, <2>4, <3>1, <3>4
  <2> QED
    BY <1>2, <2>5, <2>6, <2>7, <2>8, <2>9, <2>10, <2>11, <2>12, <2>13, <2>14, <2>15 DEF Kinds
<1> QED
  BY <1>1, <1>2

LEMMA ReadFrom ==
    ASSUME NEW k \in Kinds, NEW m \in Seq(Entry)
    PROVE  /\ parse_manifest(k, m) \in Seq(Deps)
           /\ \A j \in 1..Len(parse_manifest(k, m)) : \E i \in 1..Len(m) :
                 /\ Taken(k, m[i]) \/ TakenLater(k, m[i])
                 /\ parse_manifest(k, m)[j] = DepAs(k, m[i])
<1>1. PICK x \in Seq(Deps), y \in Seq(Deps) :
          x = Chosen(AllDeps(k, m), First(k, m)) /\ y = Chosen(AllDeps(k, m), Second(k, m))
  BY AllDepsAre, ChosenFrom
<1>2. parse_manifest(k, m) = x \o y /\ x \o y \in Seq(Deps)
  <2>1. parse_manifest(k, m) = x \o y
    BY <1>1, ParseIs, Zenon
  <2>2. x \o y \in Seq(Deps)
    OBVIOUS
  <2> QED BY <2>1, <2>2
<1>3. PICK a \in Nat, b \in Nat : a = Len(x) /\ b = Len(y)
  OBVIOUS
<1>4. Len(x \o y) = a + b /\ \A j \in 1..(a + b) : (x \o y)[j] = IF j <= a THEN x[j] ELSE y[j - a]
  BY <1>3, ConcatProperties
<1>e. Len(AllDeps(k, m)) = Len(m) /\ \A i \in 1..Len(m) : AllDeps(k, m)[i] = DepAs(k, m[i])
  BY AllDepsAre
<1>5. \A j \in 1..a : \E i \in 1..Len(m) \cap First(k, m) : x[j] = DepAs(k, m[i])
  <2>1. \A j \in 1..Len(x) : \E i \in 1..Len(AllDeps(k, m)) \cap First(k, m) : x[j] = AllDeps(k, m)[i]
    BY <1>1, AllDepsAre, ChosenFrom
  <2> QED BY <1>3, <1>e, <2>1
<1>6. \A j \in 1..b : \E i \in 1..Len(m) \cap Second(k, m) : y[j] = DepAs(k, m[i])
  <2>1. \A j \in 1..Len(y) : \E i \in 1..Len(AllDeps(k, m)) \cap Second(k, m) : y[j] = AllDeps(k, m)[i]
    BY <1>1, AllDepsAre, ChosenFrom
  <2> QED BY <1>3, <1>e, <2>1
<1>7. ASSUME NEW j \in 1..(a + b)
      PROVE  \E i \in 1..Len(m) : /\ Taken(k, m[i]) \/ TakenLater(k, m[i])
                                  /\ (x \o y)[j] = DepAs(k, m[i])
  <2>1. CASE j <= a
    <3>1. j \in 1..a /\ (x \o y)[j] = x[j]
      BY <1>4, <2>1
    <3>2. PICK i \in 1..Len(m) \cap First(k, m) : x[j] = DepAs(k, m[i])
      BY <1>5, <3>1
    <3> QED BY <3>1, <3>2 DEF First
  <2>2. CASE ~(j <= a)
    <3>1. j - a \in 1..b /\ (x \o y)[j] = y[j - a]
      BY <1>4, <2>2
    <3>2. PICK i \in 1..Len(m) \cap Second(k, m) : y[j - a] = DepAs(k, m[i])
      BY <1>6, <3>1
    <3> QED BY <3>1, <3>2 DEF Second
  <2> QED
    BY <2>1, <2>2
<1> QED
  BY <1>2, <1>4, <1>7

(* An entry that is left alone, or that is read under the updated name       *)
(* before and after, does not change what is read of the others.             *)
LEMMA OthersSame ==
    ASSUME NEW k \in Kinds, NEW m \in Seq(Entry), NEW m2 \in Seq(Entry), NEW n, Len(m2) = Len(m),
           \A i \in 1..Len(m) : m2[i] = m[i] \/ (DepAs(k, m[i]).name = n /\ DepAs(k, m2[i]).name = n)
    PROVE  OthersOf(parse_manifest(k, m2), n) = OthersOf(parse_manifest(k, m), n)
<1>1. PICK a \in Seq(Deps), b \in Seq(Deps) : a = AllDeps(k, m) /\ b = AllDeps(k, m2)
  BY AllDepsAre
<1>2. /\ Len(a) = Len(m) /\ Len(b) = Len(m) /\ Len(m) \in Nat
      /\ \A i \in 1..Len(m) : a[i] = DepAs(k, m[i]) /\ b[i] = DepAs(k, m2[i])
  BY <1>1, AllDepsAre
<1>3. ASSUME NEW is, NEW js, \A i \in 1..Len(m) : m2[i] = m[i] => (i \in is <=> i \in js)
      PROVE  Chosen(a, is \cap NotNamed(a, n)) = Chosen(b, js \cap NotNamed(b, n))
  <2>1. \A i \in 1..Len(a) : /\ i \in is \cap NotNamed(a, n) <=> i \in js \cap NotNamed(b, n)
                             /\ i \in is \cap NotNamed(a, n) => a[i] = b[i]
    BY <1>2, <1>3 DEF NotNamed
  <2>2. Len(a) \in Nat /\ Len(b) = Len(a)
    BY <1>2
  <2> QED
    BY <2>1, <2>2, ChosenSame
<1>4. Chosen(a, First(k, m) \cap NotNamed(a, n)) = Chosen(b, First(k, m2) \cap NotNamed(b, n))
  <2>1. \A i \in 1..Len(m) : m2[i] = m[i] => (i \in First(k, m) <=> i \in First(k, m2))
    BY DEF First
  <2> QED BY <1>3, <2>1
<1>5. Chosen(a, Second(k, m) \cap NotNamed(a, n)) = Chosen(b, Second(k, m2) \cap NotNamed(b, n))
  <2>1. \A i \in 1..Len(m) : m2[i] = m[i] => (i \in Second(k, m) <=> i \in Second(k, m2))
    BY DEF Second
  <2> QED BY <1>3, <2>1
<1>6. \A c \in Seq(Deps) : \A is, js :
          OthersOf(Chosen(c, is) \o Chosen(c, js), n)
            = Chosen(c, is \cap NotNamed(c, n)) \o Chosen(c, js \cap NotNamed(c, n))
  <2> TAKE c \in Seq(Deps)
  <2> TAKE is, js
  <2>1. Chosen(c, is) \in Seq(Deps)
    BY ChosenFrom
  <2>2. OthersOf(Chosen(c, is) \o Chosen(c, js), n) = OthersOf(Chosen(c, is), n) \o OthersOf(Chosen(c, js), n)
    BY <2>1, OthersConcat
  <2>3. OthersOf(Chosen(c, is), n) = Chosen(c, is \cap NotNamed(c, n))
    BY OthersChosen
  <2>4. OthersOf(Chosen(c, js), n) = Chosen(c, js \cap NotNamed(c, n))
    BY OthersChosen
  <2> QED
    BY <2>2, <2>3, <2>4
<1>7. OthersOf(parse_manifest(k, m), n)
        = Chosen(a, First(k, m) \cap NotNamed(a, n)) \o Chosen(a, Second(k, m) \cap NotNamed(a, n))
  <2>1. parse_manifest(k, m) = Chosen(a, First(k, m)) \o Chosen(a, Second(k, m))
    BY <1>1, ParseIs, Zenon
  <2> QED BY <1>6, <2>1
<1>8. OthersOf(parse_manifest(k, m2), n)
        = Chosen(b, First(k, m2) \cap NotNamed(b, n)) \o Chosen(b, Second(k, m2) \cap NotNamed(b, n))
  <2>1. parse_manifest(k, m2) = Chosen(b, First(k, m2)) \o Chosen(b, Second(k, m2))
    BY <1>1, ParseIs, Zenon
  <2> QED BY <1>6, <2>1
<1> QED
  BY <1>4, <1>5, <1>7, <1>8

(* When each entry that is read is read as its own update, and as often,     *)
(* the whole manifest is.                                                    *)
LEMMA UpdateSeen ==
    ASSUME NEW k \in Kinds, NEW m \in Seq(Entry), NEW m2 \in Seq(Entry), NEW n, NEW ver \in Versions,
           Len(m2) = Len(m),
           \A i \in 1..Len(m) : /\ Taken(k, m2[i]) <=> Taken(k, m[i])
                                /\ TakenLater(k, m2[i]) <=> TakenLater(k, m[i])
                                /\ Taken(k, m[i]) \/ TakenLater(k, m[i]) =>
                                     DepAs(k, m2[i]) = Renewed(DepAs(k, m[i]), n, ver)
    PROVE  parse_manifest(k, m2) = Updated(parse_manifest(k, m), n, ver)
<1>1. PICK a \in Seq(Deps), b \in Seq(Deps) : a = AllDeps(k, m) /\ b = AllDeps(k, m2)
  BY AllDepsAre
<1>2. /\ Len(a) = Len(m) /\ Len(b) = Len(m) /\ Len(m) \in Nat
      /\ \A i \in 1..Len(m) : a[i] = DepAs(k, m[i]) /\ b[i] = DepAs(k, m2[i])
  BY <1>1, AllDepsAre
<1>3. First(k, m2) = First(k, m) /\ Second(k, m2) = Second(k, m)
  BY DEF First, Second
<1>4. Len(b) = Len(a)
  BY <1>2
<1>5. Chosen(b, First(k, m)) = Updated(Chosen(a, First(k, m)), n, ver)
  <2>1. \A i \in 1..Len(a) : i \in First(k, m) => b[i] = Renewed(a[i], n, ver)
    BY <1>2 DEF First
  <2> QED BY <1>4, <2>1, UpdatedChosen
<1>6. Chosen(b, Second(k, m)) = Updated(Chosen(a, Second(k, m)), n, ver)
  <2>1. \A i \in 1..Len(a) : i \in Second(k, m) => b[i] = Renewed(a[i], n, ver)
    BY <1>2 DEF Second
  <2> QED BY <1>4, <2>1, UpdatedChosen
<1>7. PICK x \in Seq(Deps), y \in Seq(Deps) :
          x = Chosen(a, First(k, m)) /\ y = Chosen(a, Second(k, m))
  <2>1. Chosen(a, First(k, m)) \in Seq(Deps)
    BY ChosenFrom
  <2>2. Chosen(a, Second(k, m)) \in Seq(Deps)
    BY ChosenFrom
  <2> QED BY <2>1, <2>2
<1>8. Updated(x \o y, n, ver) = Updated(x, n, ver) \o Updated(y, n, ver)
  BY UpdatedConcat
<1>9. parse_manifest(k, m) = x \o y
  BY <1>1, <1>7, ParseIs
<1>10. parse_manifest(k, m2) = Chosen(b, First(k, m)) \o Chosen(b, Second(k, m))
  BY <1>1, <1>3, ParseIs
<1> QED
  BY <1>5, <1>6, <1>7, <1>8, <1>9, <1>10

-----------------------------------------------------------------------------
(* What an updater looks for and what it makes of an entry.                  *)

Pattern(k, e, n) ==
    /\ k # "pyproject.toml"
    /\ k \notin {"requirements.txt", "pom.xml", "csproj"} => e.name = n
    /\ k = "requirements.txt" => Lower[e.name] = n
    /\ k = "csproj" => LineHas(e, n)
    /\ k = "Cargo.toml" => e.form \in {"table", "bare"}
    /\ k \in {"requirements.txt", "go.mod", "Gemfile", "Podfile"} => e.form = "bare"
    /\ k = "pubspec.yaml" => e.form # "linked"
    /\ k = "pom.xml" => e.sec = "deps" /\ n \in {e.name, e.excl} /\ e.form # "loose"
RewrittenAs(k, e, ver) ==
    IF k = "Cargo.toml" THEN [e EXCEPT !.ver = ver, !.op = ""]
    ELSE IF k \in {"package.json", "composer.json", "pom.xml"} THEN [e EXCEPT !.ver = ver, !.form = "bare"]
    ELSE [e EXCEPT !.ver = ver]
Rewritten(k, m, is, ver) == [i \in 1..Len(m) |-> IF i \in is THEN RewrittenAs(k, m[i], ver) ELSE m[i]]
Found(k, m, n) == {i \in 1..Len(m) : Pattern(k, m[i], n)}

(* The outcomes of an update: the manifest with some of the hits entries     *)
(* rewritten, or None when there is nothing to change.                       *)
Outcome(k, m, n, ver, is, new) ==
    /\ is \subseteq Found(k, m, n) /\ (is = {} => Found(k, m, n) = {})
    /\ \/ new = <<Rewritten(k, m, is, ver)>> /\ is # {}
       \/ /\ new = <<>>
          /\ \/ is = {}
             \/ Rewritten(k, m, is, ver) = m
             \/ k = "csproj" /\ \A i \in 1..Len(m) : m[i].name # n
             \/ k = "csproj" /\ \E i \in 1..Len(m) : m[i].name = n /\ m[i].ver = ver

LEMMA FirstIs ==
    ASSUME NEW is, is \subseteq Nat
    PROVE  FirstOf(is) \subseteq is /\ (FirstOf(is) = {} => is = {})
<1>1. CASE is = {}
  BY <1>1 DEF FirstOf
<1>2. CASE is # {}
  <2>1. \E x \in is : \A y \in is : x <= y
    BY <1>2, Least
  <2>2. Min(is) \in is
    BY <2>1 DEF Min
  <2> QED
    BY <1>2, <2>2 DEF FirstOf
<1> QED
  BY <1>1, <1>2

LEMMA SomeFound ==
    ASSUME NEW k, NEW m \in Seq(Entry), NEW n
    PROVE  /\ Found(k, m, n) \subseteq Nat
           /\ FirstOf(Found(k, m, n)) \subseteq Found(k, m, n)
           /\ FirstOf(Found(k, m, n)) = {} => Found(k, m, n) = {}
<1>1. Found(k, m, n) \subseteq Nat
  BY DEF Found
<1> QED
  BY <1>1, FirstIs

LEMMA NoneRewritten ==
    ASSUME NEW k, NEW m \in Seq(Entry), NEW ver
    PROVE  Rewritten(k, m, {}, ver) = m
<1>1. Rewritten(k, m, {}, ver) = [i \in 1..Len(m) |-> m[i]]
  BY DEF Rewritten
<1>2. m = [i \in 1..Len(m) |-> m[i]]
  BY LenProperties
<1> QED
  BY <1>1, <1>2

LEMMA UpdateIs ==
    ASSUME NEW k \in Kinds, NEW m \in Seq(Entry), NEW n, NEW ver
    PROVE  \E is : Outcome(k, m, n, ver, is, update_manifest_version(k, m, n, ver))
<1>0. PICK new : new = update_manifest_version(k, m, n, ver)
  OBVIOUS
<1> DEFINE hits == Found(k, m, n)
<1> SUFFICES \E is : Outcome(k, m, n, ver, is, new)
  BY <1>0
<1>1. hits \subseteq Nat /\ FirstOf(hits) \subseteq hits /\ (FirstOf(hits) = {} => hits = {})
  BY SomeFound
<1>2. CASE k = "requirements.txt"
  <2>1. hits = {i \in 1..Len(m) : Lower[m[i].name] = n /\ m[i].form = "bare"}
    BY <1>2 DEF Found, Pattern
  <2>2. PICK is : is = FirstOf(hits)
    OBVIOUS
  <2>3. Write(m, is, ver) = Rewritten(k, m, is, ver)
    BY <1>2 DEF Write, Rewritten, RewrittenAs
  <2>4. new = update_requirements_txt(m, n, ver)
    BY <1>0, <1>2 DEF update_manifest_version
  <2>5. new = IfChanged(m, Write(m, is, ver))
    BY <2>1, <2>2, <2>4, Zenon DEF update_requirements_txt, Matching
  <2>6. Outcome(k, m, n, ver, is, new)
    BY <1>1, <2>2, <2>3, <2>5, NoneRewritten DEF Outcome, IfChanged, Some
  <2> QED
    BY <2>6
<1>3. CASE k = "go.mod"
  <2>1. hits = {i \in 1..Len(m) : m[i].name = n /\ m[i].form = "bare"}
    BY <1>3 DEF Found, Pattern
  <2>2. PICK is : is = hits
    OBVIOUS
  <2>3. Write(m, is, ver) = Rewritten(k, m, is, ver)
    BY <1>3 DEF Write, Rewritten, RewrittenAs
  <2>4. new = update_go_mod(m, n, ver)
    BY <1>0, <1>3 DEF update_manifest_version
  <2>5. new = IfChanged(m, Write(m, is, ver))
    BY <2>1, <2>2, <2>4, Zenon DEF update_go_mod, Matching
  <2>6. Outcome(k, m, n, ver, is, new)
    BY <1>1, <2>2, <2>3, <2>5, NoneRewritten DEF Outcome, IfChanged, Some
  <2> QED
    BY <2>6
<1>4. CASE k = "Gemfile"
  <2>1. hits = {i \in 1..Len(m) : m[i].name = n /\ m[i].form = "bare"}
    BY <1>4 DEF Found, Pattern
  <2>2. PICK is : is = FirstOf(hits)
    OBVIOUS
  <2>3. Write(m, is, ver) = Rewritten(k, m, is, ver)
    BY <1>4 DEF Write, Rewritten, RewrittenAs
  <2>4. new = update_gemfile(m, n, ver)
    BY <1>0, <1>4 DEF update_manifest_version
  <2>5. new = IfChanged(m, Write(m, is, ver))
    BY <2>1, <2>2, <2>4, Zenon DEF update_gemfile, Matching
  <2>6. Outcome(k, m, n, ver, is, new)
    BY <1>1, <2>2, <2>3, <2>5, NoneRewritten DEF Outcome, IfChanged, Some
  <2> QED
    BY <2>6
<1>5. CASE k = "mix.exs"
  <2>1. hits = {i \in 1..Len(m) : m[i].name = n}
    BY <1>5 DEF Found, Pattern
  <2>2. PICK is : is = FirstOf(hits)
    OBVIOUS
  <2>3. Write(m, is, ver) = Rewritten(k, m, is, ver)
    BY <1>5 DEF Write, Rewritten, RewrittenAs
  <2>4. new = update_mix_exs(m, n, ver)
    BY <1>0, <1>5 DEF update_manifest_version
  <2>5. new = IfChanged(m, Write(m, is, ver))
    BY <2>1, <2>2, <2>4, Zenon DEF update_mix_exs, Matching
  <2>6. Outcome(k, m, n, ver, is, new)
    BY <1>1, <2>2, <2>3, <2>5, NoneRewritten DEF Outcome, IfChanged, Some
  <2> QED
    BY <2>6
<1>6. CASE k = "Podfile"
  <2>1. hits = {i \in 1..Len(m) : m[i].name = n /\ m[i].form = "bare"}
    BY <1>6 DEF Found, Pattern
  <2>2. PICK is : is = FirstOf(hits)
    OBVIOUS
  <2>3. Write(m, is, ver) = Rewritten(k, m, is, ver)
    BY <1>6 DEF Write, Rewritten, RewrittenAs
  <2>4. new = update_podfile(m, n, ver)
    BY <1>0, <1>6 DEF update_manifest_version
  <2>5. new = IfChanged(m, Write(m, is, ver))
    BY <2>1, <2>2, <2>4, Zenon DEF update_podfile, Matching
  <2>6. Outcome(k, m, n, ver, is, new)
    BY <1>1, <2>2, <2>3, <2>5, NoneRewritten DEF Outcome, IfChanged, Some
  <2> QED
    BY <2>6
<1>7. CASE k = "package.json"
  <2>1. hits = {i \in 1..Len(m) : m[i].name = n}
    BY <1>7 DEF Found, Pattern
  <2>2. PICK is : is = hits
    OBVIOUS
  <2>3. [i \in 1..Len(m) |->
                     IF i \in is THEN [m[i] EXCEPT !.ver = ver, !.form = "bare"] ELSE m[i]]
          = Rewritten(k, m, is, ver)
    BY <1>7 DEF Write, Rewritten, RewrittenAs
  <2>4. new = update_json_dep(m, n, ver)
    BY <1>0, <1>7 DEF update_manifest_version
  <2>5. new = IF is = {} THEN <<>> ELSE Some([i \in 1..Len(m) |->
                     IF i \in is THEN [m[i] EXCEPT !.ver = ver, !.form = "bare"] ELSE m[i]])
    BY <2>1, <2>2, <2>4, Zenon DEF update_json_dep, Matching
  <2>6. Outcome(k, m, n, ver, is, new)
    BY <1>1, <2>2, <2>3, <2>5 DEF Outcome, Some
  <2> QED
    BY <2>6
<1>8. CASE k = "composer.json"
  <2>1. hits = {i \in 1..Len(m) : m[i].name = n}
    BY <1>8 DEF Found, Pattern
  <2>2. PICK is : is = hits
    OBVIOUS
  <2>3. [i \in 1..Len(m) |->
                     IF i \in is THEN [m[i] EXCEPT !.ver = ver, !.form = "bare"] ELSE m[i]]
          = Rewritten(k, m, is, ver)
    BY <1>8 DEF Write, Rewritten, RewrittenAs
  <2>4. new = update_json_dep(m, n, ver)
    BY <1>0, <1>8 DEF update_manifest_version
  <2>5. new = IF is = {} THEN <<>> ELSE Some([i \in 1..Len(m) |->
                     IF i \in is THEN [m[i] EXCEPT !.ver = ver, !.form = "bare"] ELSE m[i]])
    BY <2>1, <2>2, <2>4, Zenon DEF update_json_dep, Matching
  <2>6. Outcome(k, m, n, ver, is, new)
    BY <1>1, <2>2, <2>3, <2>5 DEF Outcome, Some
  <2> QED
    BY <2>6
<1>9. CASE k = "pubspec.yaml"
  <2>1. hits = {i \in 1..Len(m) : m[i].name = n /\ m[i].form # "linked"}
    BY <1>9 DEF Found, Pattern
  <2>2. PICK is : is = hits
    OBVIOUS
  <2>3. Write(m, is, ver)
          = Rewritten(k, m, is, ver)
    BY <1>9 DEF Write, Rewritten, RewrittenAs
  <2>4. new = update_pubspec_yaml(m, n, ver)
    BY <1>0, <1>9 DEF update_manifest_version
  <2>5. new = IF is = {} THEN <<>> ELSE Some(Write(m, is, ver))
    BY <2>1, <2>2, <2>4, Zenon DEF update_pubspec_yaml, Matching
  <2>6. Outcome(k, m, n, ver, is, new)
    BY <1>1, <2>2, <2>3, <2>5 DEF Outcome, Some
  <2> QED
    BY <2>6
<1>10. CASE k = "pom.xml"
  <2>1. hits = {i \in 1..Len(m) : m[i].sec = "deps" /\ n \in {m[i].name, m[i].excl} /\ m[i].form # "loose"}
    BY <1>10 DEF Found, Pattern
  <2>2. PICK is : is = FirstOf(hits)
    OBVIOUS
  <2>3. [i \in 1..Len(m) |->
                     IF i \in is THEN [m[i] EXCEPT !.ver = ver, !.form = "bare"] ELSE m[i]]
          = Rewritten(k, m, is, ver)
    BY <1>10 DEF Rewritten, RewrittenAs
  <2>4. new = update_pom_xml(m, n, ver)
    BY <1>0, <1>10 DEF update_manifest_version
  <2>5. new = IF is = {} THEN <<>> ELSE Some([i \in 1..Len(m) |->
                     IF i \in is THEN [m[i] EXCEPT !.ver = ver, !.form = "bare"] ELSE m[i]])
    BY <2>1, <2>2, <2>4, Zenon DEF update_pom_xml, Matching
  <2>6. Outcome(k, m, n, ver, is, new)
    BY <1>1, <2>2, <2>3, <2>5 DEF Outcome, Some
  <2> QED
    BY <2>6
<1>11. CASE k = "csproj"
  <2>1. hits = {i \in 1..Len(m) : LineHas(m[i], n)}
    BY <1>11 DEF Found, Pattern
  <2>2. PICK is : is = FirstOf(hits)
    OBVIOUS
  <2>3. Write(m, is, ver) = Rewritten(k, m, is, ver)
    BY <1>11 DEF Write, Rewritten, RewrittenAs
  <2>4. new = update_csproj(m, n, ver)
    BY <1>0, <1>11 DEF update_manifest_version
  <2> DEFINE named == {i \in 1..Len(m) : m[i].name = n}
             usual == {i \in 1..Len(m) : m[i].name = n /\ m[i].form # "reversed"}
             some  == IF usual # {} THEN usual ELSE named
  <2>5. PICK at : at = FirstOf(some)
    OBVIOUS
  <2>6. new = IF (\A i \in at : m[i].ver = ver) \/ is = {} THEN <<>> ELSE Some(Write(m, is, ver))
    BY <2>1, <2>2, <2>4, <2>5, Zenon DEF update_csproj, Matching
  <2>7. some \subseteq named /\ some \subseteq Nat /\ (some = {} => named = {})
    OBVIOUS
  <2>8. at \subseteq named /\ (at = {} => named = {})
    BY <2>5, <2>7, FirstIs
  <2> HIDE DEF some
  <2>9. CASE new = <<>>
    <3>1. is = {} \/ \A i \in at : m[i].ver = ver
      BY <2>6, <2>9 DEF Some
    <3>2. ASSUME \A i \in at : m[i].ver = ver
          PROVE  \/ \A i \in 1..Len(m) : m[i].name # n
                 \/ \E i \in 1..Len(m) : m[i].name = n /\ m[i].ver = ver
      BY <2>8, <3>2
    <3> QED
      BY <1>1, <1>11, <2>2, <2>9, <3>1, <3>2 DEF Outcome
  <2>10. CASE new # <<>>
    BY <1>1, <2>2, <2>3, <2>6, <2>10 DEF Outcome, Some
  <2> QED
    BY <2>9, <2>10
<1>12. CASE k = "Cargo.toml"
  <2> DEFINE tables == {i \in 1..Len(m) : m[i].name = n /\ m[i].form = "table"}
             bares  == {i \in 1..Len(m) : m[i].name = n /\ m[i].form = "bare"}
             some   == IF tables # {} THEN tables ELSE bares
  <2>1. some \subseteq hits /\ some \subseteq Nat /\ (some = {} => hits = {})
    BY <1>12 DEF Found, Pattern
  <2>2. PICK is : is = FirstOf(some)
    OBVIOUS
  <2>3. is \subseteq hits /\ (is = {} => hits = {})
    BY <2>1, <2>2, FirstIs
  <2>4. NoOperator(Write(m, is, ver), is) = Rewritten(k, m, is, ver)
    <3>1. PICK x : x = Write(m, is, ver)
      OBVIOUS
    <3>2. Len(x) = Len(m) /\ \A i \in 1..Len(m) : x[i] = IF i \in is THEN [m[i] EXCEPT !.ver = ver] ELSE m[i]
      BY <3>1 DEF Write
    <3>3. \A i \in 1..Len(m) : (IF i \in is THEN [x[i] EXCEPT !.op = ""] ELSE x[i])
                               = IF i \in is THEN RewrittenAs(k, m[i], ver) ELSE m[i]
      BY <1>12, <3>2 DEF RewrittenAs
    <3>4. NoOperator(x, is) = [i \in 1..Len(m) |-> IF i \in is THEN [x[i] EXCEPT !.op = ""] ELSE x[i]]
      BY <3>2 DEF NoOperator
    <3> QED
      BY <3>1, <3>3, <3>4 DEF Rewritten
  <2>5. new = update_cargo_toml(m, n, ver)
    BY <1>0, <1>12 DEF update_manifest_version
  <2>6. new = IfChanged(m, NoOperator(Write(m, is, ver), is))
    BY <2>2, <2>5, Zenon DEF update_cargo_toml, Matching
  <2>7. Outcome(k, m, n, ver, is, new)
    BY <2>3, <2>4, <2>6, NoneRewritten DEF Outcome, IfChanged, Some
  <2> QED
    BY <2>7
<1>13. CASE k = "pyproject.toml"
  <2>1. hits = {}
    BY <1>13 DEF Found, Pattern
  <2>2. new = <<>>
    BY <1>0, <1>13 DEF update_manifest_version
  <2>3. Outcome(k, m, n, ver, {}, new)
    BY <2>1, <2>2 DEF Outcome
  <2> QED
    BY <2>3
<1> QED
  BY <1>2, <1>3, <1>4, <1>5, <1>6, <1>7, <1>8, <1>9, <1>10, <1>11, <1>12, <1>13 DEF Kinds

-----------------------------------------------------------------------------
(* What a registry answers, and what a check offers.                         *)

Answers == [ver : Versions \cup {Unversioned}, pre : BOOLEAN]
LooksForStable == {"csproj", "mix.exs"}

LEMMA PackagesAre ==
    ASSUME NEW p \in Packages, p # Unknown
    PROVE  /\ p.list \in Seq(Answers) /\ p.list # <<>> /\ p.latest \in Answers
<1>1. \A v \in Versions, b \in BOOLEAN : Listed(v, b) \in Answers
  BY DEF Listed, Answers
<1> DEFINE Q(v) == Listed(v, FALSE)
           R(v) == Listed(v, TRUE)
           alone == {<<Q(v)>> : v \in Versions}
           after == {<<Q(v), R(w)>> : v, w \in Versions}
           before == {<<R(w), Q(v)>> : v, w \in Versions}
<1>2. p \in UNION {{[list |-> l, latest |-> n] : n \in ToSet(l)} : l \in Lists}
  BY DEF Packages
<1>l. Lists = alone \cup after \cup before
  BY DEF Lists
<1>a. \A v \in Versions : Q(v) \in Answers /\ R(v) \in Answers
  BY <1>1
<1> HIDE DEF Q, R
<1>b. ASSUME NEW l \in alone PROVE l \in Seq(Answers) /\ l # <<>>
  <2>1. PICK v \in Versions : l = <<Q(v)>>
    BY <1>b
  <2>2. PICK x \in Answers : x = Q(v)
    BY <1>a
  <2> QED BY <2>1, <2>2
<1>c. ASSUME NEW l \in after PROVE l \in Seq(Answers) /\ l # <<>>
  <2>1. PICK v \in Versions, w \in Versions : l = <<Q(v), R(w)>>
    BY <1>c
  <2>2. PICK x \in Answers, y \in Answers : x = Q(v) /\ y = R(w)
    BY <1>a
  <2> QED BY <2>1, <2>2
<1>d. ASSUME NEW l \in before PROVE l \in Seq(Answers) /\ l # <<>>
  <2>1. PICK v \in Versions, w \in Versions : l = <<R(w), Q(v)>>
    BY <1>d
  <2>2. PICK x \in Answers, y \in Answers : x = Q(v) /\ y = R(w)
    BY <1>a
  <2> QED BY <2>1, <2>2
<1> HIDE DEF alone, after, before
<1>e. PICK l \in Lists : \E a \in ToSet(l) : p = [list |-> l, latest |-> a]
  BY <1>2
<1>3. PICK a \in ToSet(l) : p = [list |-> l, latest |-> a]
  BY <1>e
<1>4. l \in Seq(Answers) /\ l # <<>>
  BY <1>b, <1>c, <1>d, <1>l
<1>5. a \in Answers
  BY <1>3, <1>4 DEF ToSet
<1> QED
  BY <1>3, <1>4, <1>5

LEMMA StableIs ==
    ASSUME NEW p \in Packages, p # Unknown, Stable(p) # <<>>
    PROVE  Last(Stable(p)) \in Answers /\ ~Last(Stable(p)).pre
<1>1. p.list \in Seq(Answers)
  BY PackagesAre
<1>2. PICK is : is = {i \in 1..Len(p.list) : ~p.list[i].pre}
  OBVIOUS
<1>3. Stable(p) = Chosen(p.list, is)
  BY <1>2, Zenon DEF Stable, Matching
<1>4. PICK s : s = Stable(p)
  OBVIOUS
<1>5. s \in Seq(Answers) /\ \A j \in 1..Len(s) : \E i \in 1..Len(p.list) \cap is : s[j] = p.list[i]
  BY <1>1, <1>3, <1>4, ChosenFrom
<1>6. Len(s) \in 1..Len(s)
  BY <1>4, <1>5, EmptySeq
<1>7. PICK i \in is : s[Len(s)] = p.list[i]
  BY <1>5, <1>6
<1> QED
  BY <1>1, <1>2, <1>4, <1>7 DEF Last

LEMMA AnswersAre ==
    ASSUME NEW k \in Kinds, NEW p \in Packages
    PROVE  /\ fetch_latest_version(k, p) \in Answers
           /\ k \in LooksForStable => ~fetch_latest_version(k, p).pre
<1>1. NoAnswer \in Answers /\ ~NoAnswer.pre
  BY DEF NoAnswer, Listed, Answers
<1>2. CASE p = Unknown
  BY <1>1, <1>2 DEF fetch_latest_version
<1>3. CASE p # Unknown
  <2>1. p.list \in Seq(Answers) /\ p.list # <<>> /\ p.latest \in Answers
    BY <1>3, PackagesAre
  <2>2. CASE k \notin {"composer.json", "Podfile", "csproj", "mix.exs"}
    <3>1. fetch_latest_version(k, p) = p.latest
      BY <1>3, <2>2 DEF fetch_latest_version, fetch_maven_central, fetch_pub_dev, Declared, Kinds
    <3> QED BY <2>1, <2>2, <3>1 DEF LooksForStable
  <2>3. CASE k = "composer.json"
    <3>1. fetch_latest_version(k, p) = Head(p.list)
      BY <1>3, <2>3 DEF fetch_latest_version, fetch_packagist
    <3>2. PICK l \in Seq(Answers) : l = p.list /\ l # <<>>
      BY <2>1
    <3>3. Head(l) \in Answers
      BY <3>2
    <3> QED BY <2>3, <3>1, <3>2, <3>3 DEF LooksForStable
  <2>4. CASE k = "Podfile"
    <3>1. fetch_latest_version(k, p) = Last(p.list)
      BY <1>3, <2>4 DEF fetch_latest_version, fetch_cocoapods
    <3>2. PICK l \in Seq(Answers) : l = p.list /\ l # <<>>
      BY <2>1
    <3>3. Len(l) \in 1..Len(l)
      BY <3>2, EmptySeq
    <3>4. Last(l) \in Answers
      BY <3>3 DEF Last
    <3> QED BY <2>4, <3>1, <3>2, <3>4 DEF LooksForStable
  <2>5. CASE k \in {"csproj", "mix.exs"}
    <3>1. fetch_latest_version(k, p) = IF Stable(p) = <<>> THEN NoAnswer ELSE Last(Stable(p))
      BY <1>3, <2>5 DEF fetch_latest_version, fetch_nuget, fetch_hex
    <3>2. CASE Stable(p) = <<>>
      BY <1>1, <3>1, <3>2
    <3>3. CASE Stable(p) # <<>>
      <4>1. Last(Stable(p)) \in Answers /\ ~Last(Stable(p)).pre
        BY <1>3, <3>3, StableIs
      <4> QED BY <3>1, <3>3, <4>1
    <3> QED BY <3>2, <3>3
  <2> QED
    BY <2>2, <2>3, <2>4, <2>5
<1> QED
  BY <1>2, <1>3

(* A dependency that can be offered: it is read, it has a version and the    *)
(* answer is another one.                                                  *)
Offerable(k, m, d, ver) ==
    /\ d \in Deps /\ ver \in Versions
    /\ \E i \in 1..Len(m) : (Taken(k, m[i]) \/ TakenLater(k, m[i])) /\ d = DepAs(k, m[i])
    /\ d.current # Unversioned /\ d.current # ver

LEMMA ClassifyOther ==
    ASSUME NEW c \in Versions \cup {Unversioned}, NEW v \in Versions \cup {Unversioned},
           classify_update(c, v) \in {"major", "minor", "patch"}
    PROVE  c # Unversioned /\ v # Unversioned /\ c # v
<1>1. c # Unversioned /\ v # Unversioned
  BY DEF classify_update
<1>2. c \in Nat \X Nat \X Nat
  BY <1>1, ManifestAssumption
<1>3. c[1] \in Nat /\ c[2] \in Nat /\ c[3] \in Nat
  BY <1>2
<1>4. c # v
  <2>1. SUFFICES ASSUME c = v PROVE FALSE
    OBVIOUS
  <2>2. classify_update(c, v) = "up-to-date"
    BY <1>1, <1>3, <2>1 DEF classify_update
  <2> QED BY <2>2
<1> QED
  BY <1>1, <1>4

LEMMA OfferedAre ==
    ASSUME NEW k \in Kinds, NEW m \in Seq(Entry), NEW ans \in Answers,
           NEW r \in Offered(assemble_report(resolve_versions(Checked(k, m), [n \in ReadNames |-> ans.ver])))
    PROVE  Offerable(k, m, r.dep, ans.ver)
<1>1. PICK deps \in Seq(Deps) : deps = Checked(k, m)
  <2>1. Checked(k, m) \in Seq(Deps)
    BY ReadFrom, ChosenFrom DEF Checked
  <2> QED BY <2>1
<1>2. \A j \in 1..Len(deps) : \E i \in 1..Len(parse_manifest(k, m)) : deps[j] = parse_manifest(k, m)[i]
  <2>1. PICK all \in Seq(Deps) : all = parse_manifest(k, m)
    BY ReadFrom
  <2>2. PICK is : deps = Chosen(all, is)
    BY <1>1, <2>1 DEF Checked
  <2> QED BY <2>1, <2>2, ChosenFrom
<1> DEFINE latest == [n \in ReadNames |-> ans.ver]
           G(i) == [dep |-> deps[i], latest |-> latest[deps[i].name],
                    update |-> classify_update(deps[i].current, latest[deps[i].name])]
<1>3. PICK resolved : resolved = [i \in 1..Len(deps) |-> G(i)]
  OBVIOUS
<1>4. resolved = resolve_versions(Checked(k, m), latest)
  BY <1>1, <1>3, Zenon DEF resolve_versions
<1>5. \A i \in 1..Len(deps) : deps[i] \in Deps /\ deps[i].name \in ReadNames
  <2>1. \A i \in 1..Len(deps) : deps[i] \in Deps
    OBVIOUS
  <2> QED BY <2>1 DEF Deps
<1>6. \A i \in 1..Len(deps) : G(i) = [dep |-> deps[i], latest |-> ans.ver,
                                      update |-> classify_update(deps[i].current, ans.ver)]
  BY <1>5
<1> HIDE DEF G, latest
<1>7. /\ Len(resolved) = Len(deps) /\ \A i \in 1..Len(deps) : resolved[i] = G(i)
      /\ resolved \in Seq({G(i) : i \in 1..Len(deps)})
  BY <1>3
<1>8. PICK S : S = {G(i) : i \in 1..Len(deps)}
  OBVIOUS
<1>9. PICK report : report = assemble_report(resolved)
  OBVIOUS
<1>10. /\ report \in Seq(S)
       /\ \A j \in 1..Len(report) : \E i \in 1..Len(resolved) : report[j] = resolved[i]
  <2>1. PICK is : report = Chosen(resolved, is)
    BY <1>9 DEF assemble_report
  <2>2. resolved \in Seq(S)
    BY <1>7, <1>8
  <2> QED BY <2>1, <2>2, ChosenFrom
<1>11. PICK j \in 1..Len(report) : r = report[j] /\ r.update \in {"major", "minor", "patch"}
  <2>1. r \in Offered(report)
    BY <1>4, <1>9 DEF latest
  <2>2. DOMAIN report = 1..Len(report)
    BY <1>10
  <2> QED BY <2>1, <2>2 DEF Offered, ToSet
<1>12. PICK i \in 1..Len(deps) : r = G(i)
  BY <1>7, <1>10, <1>11
<1>13. r.dep = deps[i] /\ classify_update(deps[i].current, ans.ver) \in {"major", "minor", "patch"}
  BY <1>6, <1>11, <1>12
<1>14. deps[i] \in Deps /\ deps[i].current \in Versions \cup {Unversioned}
       /\ ans.ver \in Versions \cup {Unversioned}
  BY <1>5 DEF Deps, Answers
<1>15. deps[i].current # Unversioned /\ ans.ver # Unversioned /\ deps[i].current # ans.ver
  BY <1>13, <1>14, ClassifyOther
<1>16. \E l \in 1..Len(m) : (Taken(k, m[l]) \/ TakenLater(k, m[l])) /\ deps[i] = DepAs(k, m[l])
  <2>1. PICK all : all = parse_manifest(k, m)
    OBVIOUS
  <2>2. \A q \in 1..Len(all) : \E l \in 1..Len(m) :
            (Taken(k, m[l]) \/ TakenLater(k, m[l])) /\ all[q] = DepAs(k, m[l])
    BY <2>1, ReadFrom
  <2>3. PICK q \in 1..Len(all) : deps[i] = all[q]
    BY <1>2, <2>1
  <2> QED BY <2>2, <2>3
<1> QED
  BY <1>13, <1>14, <1>15, <1>16 DEF Offerable

-----------------------------------------------------------------------------
(* What is known of an offer: the dependency is one that a check of the      *)
(* manifest lists and may update to the answer, and the new manifest is      *)
(* what the updater makes of the old one.                                    *)
ManifestInv ==
    /\ kind \in Kinds /\ manifest \in Seq(Entries(kind))
    /\ offer # NoOffer =>
          /\ Offerable(kind, manifest, offer.dep, offer.latest)
          /\ offer.new = update_manifest_version(kind, manifest, offer.dep.name, offer.latest)
          /\ offer.pre => kind \notin LooksForStable

LEMMA ManifestTyped ==
    ASSUME ManifestInv
    PROVE  /\ kind \in Kinds /\ manifest \in Seq(Entry) /\ Len(manifest) \in Nat
           /\ \A i \in 1..Len(manifest) : manifest[i] \in Entry /\ manifest[i].form \in Forms(kind)
<1>1. Entries(kind) \subseteq Entry /\ \A e \in Entries(kind) : e.form \in Forms(kind)
  BY EntriesAre DEF ManifestInv, Entries
<1>2. manifest \in Seq(Entry)
  BY <1>1, SeqMonotonic DEF ManifestInv
<1> QED
  BY <1>1, <1>2 DEF ManifestInv

LEMMA RewrittenIs ==
    ASSUME NEW k, NEW e \in Entry, NEW ver \in Versions
    PROVE  LET r == RewrittenAs(k, e, ver)
           IN  /\ r \in Entry /\ r.name = e.name /\ r.excl = e.excl /\ r.sec = e.sec /\ r.ver = ver
               /\ r.form = e.form \/ (k \in {"package.json", "composer.json", "pom.xml"} /\ r.form = "bare")
  BY DEF RewrittenAs, Entry, EntryForms

LEMMA PatternNames ==
    ASSUME NEW k \in Kinds, NEW e \in Entry, NEW n \in ReadNames, Pattern(k, e, n),
           k = "csproj" => <<n, e.name>> \notin Within,
           k = "pom.xml" /\ e.name = n => ReadAs(e) = n,
           k = "requirements.txt" => \E x \in Names : Normal[x] = n
    PROVE  DepAs(k, e).name = n
<1>0. e.name \in Names
  BY DEF Entry
<1>1. CASE k \notin {"requirements.txt", "pyproject.toml", "pom.xml"}
  <2>1. e.name = n
    BY <1>1 DEF Pattern, LineHas
  <2>2. DepAs(k, e).name = e.name
    BY <1>1 DEF DepAs, OrUnversioned, AsWritten, Dep
  <2> QED BY <2>1, <2>2
<1>2. CASE k = "requirements.txt"
  <2>1. PICK x \in Names : Normal[x] = n
    BY <1>2
  <2>2. Lower[e.name] = Normal[x]
    BY <1>2, <2>1 DEF Pattern
  <2>3. Normal[e.name] = Normal[x]
    BY <1>0, <2>2, ManifestAssumption
  <2> QED BY <1>2, <2>1, <2>3 DEF DepAs, AsPyPi, Dep
<1>3. CASE k = "pyproject.toml"
  BY <1>3 DEF Pattern
<1>4. CASE k = "pom.xml"
  <2>1. n \in {e.name, e.excl} /\ n # NoName
    BY <1>4, ManifestAssumption DEF Pattern
  <2>2. ReadAs(e) = n
    BY <1>4, <2>1 DEF ReadAs
  <2> QED BY <1>4, <2>2 DEF DepAs, AsExcluded, Dep
<1> QED
  BY <1>1, <1>2, <1>3, <1>4

LEMMA NameStays ==
    ASSUME NEW k \in Kinds, NEW e \in Entry, NEW f \in Entry, f.name = e.name, f.excl = e.excl
    PROVE  DepAs(k, f).name = DepAs(k, e).name
  BY DEF DepAs, AsPyPi, AsExcluded, ReadAs, OrUnversioned, AsWritten, Dep

LEMMA RewrittenAre ==
    ASSUME NEW k \in Kinds, NEW m \in Seq(Entry), NEW is, NEW ver \in Versions
    PROVE  LET m2 == Rewritten(k, m, is, ver)
           IN  /\ m2 \in Seq(Entry) /\ Len(m2) = Len(m)
               /\ \A i \in 1..Len(m) : m2[i] = IF i \in is THEN RewrittenAs(k, m[i], ver) ELSE m[i]
<1> DEFINE G(i) == IF i \in is THEN RewrittenAs(k, m[i], ver) ELSE m[i]
<1>1. Len(m) \in Nat /\ \A i \in 1..Len(m) : m[i] \in Entry
  OBVIOUS
<1>2. \A i \in 1..Len(m) : G(i) \in Entry
  BY <1>1, RewrittenIs
<1> HIDE DEF G
<1>3. PICK u : u = [i \in 1..Len(m) |-> G(i)]
  OBVIOUS
<1>4. u \in Seq(Entry) /\ Len(u) = Len(m) /\ \A i \in 1..Len(m) : u[i] = G(i)
  BY <1>1, <1>2, <1>3
<1> QED
  BY <1>3, <1>4 DEF Rewritten, G

(* The PyPI spelling that is updated is the spelling of a name.              *)
LEMMA OfferSpelling ==
    ASSUME ManifestInv, offer # NoOffer, kind = "requirements.txt"
    PROVE  \E x \in Names : Normal[x] = offer.dep.name
<1>1. PICK i \in 1..Len(manifest) : offer.dep = DepAs(kind, manifest[i])
  BY DEF ManifestInv, Offerable
<1>2. manifest[i] \in Entry
  BY ManifestTyped
<1>3. manifest[i].name \in Names
  BY <1>2 DEF Entry
<1> QED
  BY <1>1, <1>3 DEF DepAs, AsPyPi, Dep

(* Whatever an updater found is the dependency's own or drawn.               *)
LEMMA OfferKeeps ==
    ASSUME ManifestInv, offer # NoOffer
    PROVE  OthersUntouched
<1>1. SUFFICES ASSUME offer.new # <<>>
               PROVE  /\ Len(offer.new[1]) = Len(manifest)
                      /\ \A i \in 1..Len(manifest) :
                            OwnName(manifest[i]) # offer.dep.name /\ ~Drawn(manifest[i], offer.dep.name)
                              => offer.new[1][i] = manifest[i]
  BY Zenon DEF OthersUntouched
<1>2. PICK k \in Kinds, m \in Seq(Entry), n \in ReadNames, ver \in Versions :
          k = kind /\ m = manifest /\ n = offer.dep.name /\ ver = offer.latest
  <2>1. offer.dep.name \in ReadNames /\ offer.latest \in Versions
    BY DEF ManifestInv, Offerable, Deps
  <2> QED BY <2>1, ManifestTyped, Zenon DEF ManifestInv
<1>n. PICK new : new = offer.new
  OBVIOUS
<1>3. PICK is : Outcome(k, m, n, ver, is, new)
  BY <1>2, <1>n, UpdateIs DEF ManifestInv
<1>4. PICK m2 : m2 = Rewritten(k, m, is, ver)
  OBVIOUS
<1>5. new[1] = m2
  BY <1>1, <1>n, <1>3, <1>4 DEF Outcome
<1>6. /\ Len(m2) = Len(m)
      /\ \A i \in 1..Len(m) : m2[i] = IF i \in is THEN RewrittenAs(k, m[i], ver) ELSE m[i]
  BY <1>4, RewrittenAre
<1>7. ASSUME NEW i \in 1..Len(m), i \in is
      PROVE  OwnName(m[i]) = n \/ Drawn(m[i], n)
  <2>1. Pattern(k, m[i], n) /\ m[i].name \in Names
    <3>1. m[i] \in Entry
      OBVIOUS
    <3> QED BY <1>3, <1>7, <3>1 DEF Outcome, Found, Entry
  <2>2. CASE k = "requirements.txt"
    <3>1. PICK x \in Names : Normal[x] = n
      BY <1>2, <2>2, OfferSpelling
    <3>2. Lower[m[i].name] = Normal[x]
      BY <2>1, <2>2, <3>1 DEF Pattern
    <3>3. Normal[m[i].name] = Normal[x]
      BY <2>1, <3>2, ManifestAssumption
    <3> QED BY <1>2, <2>2, <3>1, <3>3 DEF OwnName
  <2>3. CASE k # "requirements.txt"
    BY <1>2, <2>1, <2>3 DEF Pattern, LineHas, OwnName, Drawn
  <2> QED
    BY <2>2, <2>3
<1> QED
  BY <1>2, <1>n, <1>5, <1>6, <1>7

(* Whatever an updater found is read under the name that is updated.         *)
LEMMA OfferSpares ==
    ASSUME ManifestInv, offer # NoOffer
    PROVE  ReadingsUntouched
<1>0. kind \in Kinds /\ manifest \in Seq(Entry)
  BY ManifestTyped
<1>1. SUFFICES ASSUME offer.new # <<>>,
                      \A e \in ToSet(manifest) :
                         /\ kind = "csproj" => ~Drawn(e, offer.dep.name)
                         /\ kind = "pom.xml" /\ e.name = offer.dep.name => ReadAs(e) = e.name
               PROVE  OthersOf(parse_manifest(kind, offer.new[1]), offer.dep.name)
                        = OthersOf(parse_manifest(kind, manifest), offer.dep.name)
  BY Zenon DEF ReadingsUntouched, OthersOf, NotNamed, Matching
<1>2. PICK k \in Kinds, m \in Seq(Entry), n \in ReadNames, ver \in Versions :
          k = kind /\ m = manifest /\ n = offer.dep.name /\ ver = offer.latest
  <2>1. offer.dep.name \in ReadNames /\ offer.latest \in Versions
    BY DEF ManifestInv, Offerable, Deps
  <2> QED BY <2>1, ManifestTyped, Zenon DEF ManifestInv
<1>n. PICK new : new = offer.new
  OBVIOUS
<1>3. PICK is : Outcome(k, m, n, ver, is, new)
  BY <1>2, <1>n, UpdateIs DEF ManifestInv
<1>4. PICK m2 : m2 = Rewritten(k, m, is, ver)
  OBVIOUS
<1>5. new[1] = m2
  BY <1>1, <1>n, <1>3, <1>4 DEF Outcome
<1>6. /\ m2 \in Seq(Entry) /\ Len(m2) = Len(m)
      /\ \A i \in 1..Len(m) : m2[i] = IF i \in is THEN RewrittenAs(k, m[i], ver) ELSE m[i]
  BY <1>4, RewrittenAre
<1>7. k = "requirements.txt" => \E x \in Names : Normal[x] = n
  BY <1>2, OfferSpelling
<1>8. ASSUME NEW i \in 1..Len(m)
      PROVE  m2[i] = m[i] \/ (DepAs(k, m[i]).name = n /\ DepAs(k, m2[i]).name = n)
  <2>1. m[i] \in Entry /\ m2[i] \in Entry
    BY <1>6
  <2>2. CASE i \notin is
    BY <1>6, <2>2
  <2>3. CASE i \in is
    <3>1. Pattern(k, m[i], n)
      BY <1>3, <2>3 DEF Outcome, Found
    <3>2. DepAs(k, m[i]).name = n
      <4>1. m[i] \in ToSet(manifest)
        BY <1>2 DEF ToSet
      <4>2. k = "csproj" => <<n, m[i].name>> \notin Within
        BY <1>1, <1>2, <4>1 DEF Drawn
      <4>3. k = "pom.xml" /\ m[i].name = n => ReadAs(m[i]) = n
        BY <1>1, <1>2, <4>1
      <4> QED BY <1>7, <2>1, <3>1, <4>2, <4>3, PatternNames
    <3>3. m2[i].name = m[i].name /\ m2[i].excl = m[i].excl
      BY <1>6, <2>1, <2>3, RewrittenIs
    <3> QED
      BY <2>1, <3>2, <3>3, NameStays
  <2> QED
    BY <2>2, <2>3
<1> QED
  BY <1>2, <1>n, <1>5, <1>6, <1>8, OthersSame

LEMMA DepAsForm ==
    ASSUME NEW k \in Kinds, NEW e \in Entry
    PROVE  /\ DepAs(k, e).name \in {e.name, Normal[e.name], e.excl}
           /\ k \notin {"requirements.txt", "pyproject.toml", "pom.xml"} => DepAs(k, e).name = e.name
           /\ k = "pom.xml" => DepAs(k, e).name = ReadAs(e)
           /\ k \in {"requirements.txt", "pyproject.toml"} => DepAs(k, e).name = Normal[e.name]
           /\ DepAs(k, e).dev = (e.sec = "dev")
           /\ DepAs(k, e).current = IF k \in {"Gemfile", "Podfile"} /\ e.form = "loose"
                                      THEN Unversioned ELSE e.ver
  BY DEF DepAs, AsPyPi, AsExcluded, ReadAs, OrUnversioned, AsWritten, Dep

(* What is taken of a found entry is taken of the rewritten one too.         *)
LEMMA RewrittenRead ==
    ASSUME NEW k \in Kinds, NEW e \in Entry, NEW n, NEW ver \in Versions,
           Taken(k, e) \/ TakenLater(k, e), DepAs(k, e).name = n, DepAs(k, e).current # Unversioned
    PROVE  LET r == RewrittenAs(k, e, ver)
           IN  /\ Taken(k, r) <=> Taken(k, e)
               /\ TakenLater(k, r) <=> TakenLater(k, e)
               /\ DepAs(k, r) = Renewed(DepAs(k, e), n, ver)
<1>1. PICK r \in Entry : r = RewrittenAs(k, e, ver)
  BY RewrittenIs
<1>2. /\ r.name = e.name /\ r.excl = e.excl /\ r.sec = e.sec /\ r.ver = ver
      /\ r.form = e.form \/ (k \in {"package.json", "composer.json", "pom.xml"} /\ r.form = "bare")
  BY <1>1, RewrittenIs
<1>3. Taken(k, r) <=> Taken(k, e)
  BY <1>2 DEF Taken, TakenLater
<1>4. TakenLater(k, r) <=> TakenLater(k, e)
  BY <1>2 DEF TakenLater
<1>5. DepAs(k, r) = Renewed(DepAs(k, e), n, ver)
  <2>1. PICK d \in Deps, f \in Deps : d = DepAs(k, e) /\ f = DepAs(k, r)
    BY DepAsIs
  <2>2. f.name = d.name /\ f.dev = d.dev
    BY <1>2, <2>1, DepAsForm, NameStays
  <2>3. f.current = ver
    BY <1>2, <2>1, DepAsForm
  <2>4. Renewed(d, n, ver) = [d EXCEPT !.current = ver]
    BY <2>1 DEF Renewed
  <2>5. f = [d EXCEPT !.current = ver]
    BY <2>2, <2>3 DEF Deps
  <2> QED
    BY <2>1, <2>4, <2>5
<1> QED
  BY <1>1, <1>3, <1>4, <1>5

LEMMA FoundOrUnreached ==
    ASSUME NEW e \in Entry, kind \in Kinds, e.form \in Forms(kind),
           Taken(kind, e) \/ TakenLater(kind, e), DepAs(kind, e).current # Unversioned
    PROVE  Pattern(kind, e, DepAs(kind, e).name) \/ Unreached(e)
<1>1. PICK k \in Kinds : k = kind
  OBVIOUS
<1>2. PICK n : n = DepAs(k, e).name
  OBVIOUS
<1>3. CASE k \in {"requirements.txt", "pyproject.toml"}
  <2>1. n = Normal[e.name]
    BY <1>2, <1>3, DepAsForm
  <2>2. k = "requirements.txt" => e.form \in {"bare", "indented"}
    BY <1>1, <1>3 DEF Forms, Taken, TakenLater
  <2> QED
    BY <1>1, <1>2, <1>3, <2>1, <2>2 DEF Pattern, Unreached
<1>4. CASE k \in {"go.mod", "csproj"}
  <2>1. n = e.name
    BY <1>2, <1>4, DepAsForm
  <2>2. k = "go.mod" => e.form \in {"bare", "single"}
    BY <1>1 DEF Forms
  <2> QED
    BY <1>1, <1>2, <1>4, <2>1, <2>2 DEF Pattern, Unreached, LineHas
<1>5. CASE k \in {"Gemfile", "Podfile"}
  <2>1. n = e.name
    BY <1>2, <1>5, DepAsForm
  <2>2. e.form = "bare"
    BY <1>1, <1>5, DepAsForm DEF Forms
  <2> QED
    BY <1>1, <1>2, <1>5, <2>1, <2>2 DEF Pattern
<1>6. CASE k \in {"Cargo.toml", "package.json", "composer.json", "pom.xml", "pubspec.yaml", "mix.exs"}
  <2>1. k # "pom.xml" => n = e.name
    BY <1>2, <1>6, DepAsForm
  <2>3. k = "pom.xml" => n \in {e.name, e.excl}
    BY <1>2, DepAsForm DEF ReadAs
  <2>2. k = "Cargo.toml" => e.form \in {"bare", "table"}
    BY <1>1 DEF Forms, Taken, TakenLater
  <2> QED
    BY <1>1, <1>2, <1>6, <2>1, <2>2, <2>3 DEF Pattern, Taken, TakenLater
<1> QED
  BY <1>1, <1>3, <1>4, <1>5, <1>6 DEF Kinds

(* A name that occurs once is found once, and the rewritten manifest is      *)
(* read as the old one with that version replaced.                           *)
LEMMA OfferTakesEffect ==
    ASSUME ManifestInv, offer # NoOffer
    PROVE  UpdateTakesEffect
<1> DEFINE at == CHOOSE i \in Spelled(offer.dep.name) : TRUE
<1>1. SUFFICES ASSUME Cardinality(Spelled(offer.dep.name)) = 1,
                      \A i \in 1..Len(manifest) : <<offer.dep.name, manifest[i].name>> \notin Within
               PROVE  IF offer.new = <<>> THEN Unreached(manifest[at])
                      ELSE parse_manifest(kind, offer.new[1])
                             = Updated(parse_manifest(kind, manifest), offer.dep.name, offer.latest)
  BY Zenon DEF UpdateTakesEffect, Updated, Renewed
<1>2. PICK k \in Kinds, m \in Seq(Entry), n \in ReadNames, ver \in Versions :
          k = kind /\ m = manifest /\ n = offer.dep.name /\ ver = offer.latest
  <2>1. offer.dep.name \in ReadNames /\ offer.latest \in Versions
    BY DEF ManifestInv, Offerable, Deps
  <2> QED BY <2>1, ManifestTyped, Zenon
<1>3. PICK new : new = offer.new
  OBVIOUS
<1>4. PICK o \in 1..Len(m) : Spelled(n) = {o}
  <2>1. Spelled(n) \subseteq 1..Len(m) /\ Len(m) \in Nat
    BY <1>2 DEF Spelled
  <2>2. IsFiniteSet(Spelled(n))
    BY <2>1, FS_Interval, FS_Subset, 1 \in Int, Len(m) \in Int
  <2>3. \E o : Spelled(n) = {o}
    BY <1>1, <1>2, <2>2, FS_Singleton
  <2> QED BY <2>1, <2>3
<1>5. at = o
  BY <1>2, <1>4
<1> HIDE DEF at
<1>6. ASSUME NEW i \in 1..Len(m), DepAs(k, m[i]).name = n PROVE i = o
  <2>1. n \in {m[i].name, Normal[m[i].name], m[i].excl}
    BY <1>6, DepAsForm
  <2>2. i \in Spelled(n)
    BY <1>2, <2>1 DEF Spelled
  <2> QED BY <1>4, <2>2
<1>7. PICK e \in Entry : e = m[o] /\ e.form \in Forms(k)
  BY <1>2, ManifestTyped
<1>8. /\ Taken(k, e) \/ TakenLater(k, e)
      /\ DepAs(k, e).name = n /\ DepAs(k, e).current # Unversioned /\ e.ver # ver
  <2>1. PICK i \in 1..Len(m) : (Taken(k, m[i]) \/ TakenLater(k, m[i])) /\ offer.dep = DepAs(k, m[i])
    BY <1>2 DEF ManifestInv, Offerable
  <2>2. i = o
    BY <1>2, <1>6, <2>1
  <2>3. DepAs(k, e).current # Unversioned /\ DepAs(k, e).current # ver
    BY <1>2, <1>7, <2>1, <2>2 DEF ManifestInv, Offerable
  <2>4. DepAs(k, e).current = e.ver
    BY <2>3, DepAsForm
  <2> QED BY <1>2, <1>7, <2>1, <2>2, <2>3, <2>4
<1>9. Found(k, m, n) \subseteq {o}
  <2> SUFFICES ASSUME NEW i \in 1..Len(m), Pattern(k, m[i], n) PROVE i = o
    BY DEF Found
  <2>1. m[i] \in Entry /\ <<n, m[i].name>> \notin Within
    BY <1>1, <1>2
  <2>2. k = "requirements.txt" => \E x \in Names : Normal[x] = n
    <3>1. e.name \in Names
      BY DEF Entry
    <3> QED BY <1>8, <3>1, DepAsForm
  <2>3. CASE k = "pom.xml"
    <3>1. n \in {m[i].name, m[i].excl}
      BY <2>3 DEF Pattern
    <3>2. i \in Spelled(n)
      BY <1>2, <3>1 DEF Spelled
    <3> QED BY <1>4, <3>2
  <2>4. CASE k # "pom.xml"
    <3>1. DepAs(k, m[i]).name = n
      BY <2>1, <2>2, <2>4, PatternNames
    <3> QED BY <1>6, <3>1
  <2> QED BY <2>3, <2>4
<1>10. Pattern(k, e, n) \/ Unreached(e)
  BY <1>2, <1>7, <1>8, FoundOrUnreached
<1>11. PICK is : Outcome(k, m, n, ver, is, new)
  BY <1>2, <1>3, UpdateIs DEF ManifestInv
<1>12. PICK m2 \in Seq(Entry) : m2 = Rewritten(k, m, is, ver)
  BY RewrittenAre
<1>13. /\ Len(m2) = Len(m)
       /\ \A i \in 1..Len(m) : m2[i] = IF i \in is THEN RewrittenAs(k, m[i], ver) ELSE m[i]
  BY <1>12, RewrittenAre
<1>14. is = {} => Unreached(e)
  BY <1>7, <1>10, <1>11 DEF Outcome, Found
<1>15. is # {} => is = {o}
  BY <1>9, <1>11 DEF Outcome
<1>16. CASE new = <<>>
  <2>1. CASE is = {}
    BY <1>2, <1>3, <1>5, <1>7, <1>14, <1>16, <2>1
  <2>2. CASE is # {}
    <3>1. m2[o] = RewrittenAs(k, e, ver)
      BY <1>7, <1>13, <1>15, <2>2
    <3>2. m2[o].ver = ver
      BY <3>1, RewrittenIs
    <3>3. m2 # m
      BY <1>7, <1>8, <3>2
    <3>4. k = "csproj" => m[o].name = n
      BY <1>7, <1>8, DepAsForm
    <3>5. ASSUME k = "csproj", NEW i \in 1..Len(m), m[i].name = n PROVE m[i].ver # ver
      <4>1. i = o
        BY <1>2, <1>4, <3>5 DEF Spelled
      <4> QED BY <1>7, <1>8, <4>1
    <3> QED BY <1>11, <1>12, <1>16, <2>2, <3>3, <3>4, <3>5 DEF Outcome
  <2> QED BY <2>1, <2>2
<1>17. CASE new # <<>>
  <2>1. is = {o} /\ new[1] = m2
    BY <1>11, <1>12, <1>15, <1>17 DEF Outcome
  <2>2. ASSUME NEW i \in 1..Len(m)
        PROVE  /\ Taken(k, m2[i]) <=> Taken(k, m[i])
               /\ TakenLater(k, m2[i]) <=> TakenLater(k, m[i])
               /\ Taken(k, m[i]) \/ TakenLater(k, m[i]) =>
                    DepAs(k, m2[i]) = Renewed(DepAs(k, m[i]), n, ver)
    <3>1. CASE i = o
      <4>1. m2[i] = RewrittenAs(k, e, ver) /\ m[i] = e
        BY <1>7, <1>13, <2>1, <3>1
      <4> QED BY <1>8, <4>1, RewrittenRead
    <3>2. CASE i # o
      <4>1. m2[i] = m[i] /\ DepAs(k, m[i]).name # n
        BY <1>6, <1>13, <2>1, <3>2
      <4> QED BY <4>1 DEF Renewed
    <3> QED BY <3>1, <3>2
  <2>3. parse_manifest(k, m2) = Updated(parse_manifest(k, m), n, ver)
    BY <1>13, <2>2, UpdateSeen
  <2> QED BY <1>2, <1>3, <1>17, <2>1, <2>3
<1> QED
  BY <1>16, <1>17

(* The label of an update against the order of the versions.                 *)
LEMMA ClassifyIs ==
    ASSUME NEW c \in Versions, NEW v \in Versions
    PROVE  LET update == classify_update(c, v)
           IN  IF Newer(v, c)
                 THEN update = <<"major", "minor", "patch">>[Min({i \in 1..3 : v[i] # c[i]})]
                 ELSE update = "up-to-date"
<1>1. /\ c \in Nat \X Nat \X Nat /\ v \in Nat \X Nat \X Nat
  BY ManifestAssumption
<1>2. PICK a \in Nat, b \in Nat, d \in Nat : c = <<a, b, d>>
  BY <1>1
<1>3. PICK x \in Nat, y \in Nat, z \in Nat : v = <<x, y, z>>
  BY <1>1
<1>4. c[1] = a /\ c[2] = b /\ c[3] = d /\ v[1] = x /\ v[2] = y /\ v[3] = z
  BY <1>2, <1>3
<1>5. c # Unversioned /\ v # Unversioned
  BY <1>2, <1>3 DEF Unversioned
<1>6. PICK D : D = {i \in 1..3 : v[i] # c[i]}
  OBVIOUS
<1>7. 1..3 = {1, 2, 3}
  OBVIOUS
<1>8. D \subseteq {1, 2, 3} /\ (1 \in D <=> x # a) /\ (2 \in D <=> y # b) /\ (3 \in D <=> z # d)
  BY <1>4, <1>6, <1>7
<1>9. Newer(v, c) <=> x > a \/ (x = a /\ y > b) \/ (x = a /\ y = b /\ z > d)
  <2>1. 1..(1 - 1) = {} /\ 1..(2 - 1) = {1} /\ 1..(3 - 1) = {1, 2}
    OBVIOUS
  <2>2. Newer(v, c) <=> \/ v[1] > c[1] /\ \A j \in 1..(1 - 1) : v[j] = c[j]
                        \/ v[2] > c[2] /\ \A j \in 1..(2 - 1) : v[j] = c[j]
                        \/ v[3] > c[3] /\ \A j \in 1..(3 - 1) : v[j] = c[j]
    BY <1>7 DEF Newer
  <2>3. /\ (\A j \in 1..(2 - 1) : v[j] = c[j]) <=> x = a
        /\ (\A j \in 1..(3 - 1) : v[j] = c[j]) <=> x = a /\ y = b
    BY <1>4, <2>1
  <2>4. \A j \in 1..(1 - 1) : v[j] = c[j]
    BY <2>1
  <2> QED BY <1>4, <2>2, <2>3, <2>4
<1>10. ASSUME NEW i \in D, \A j \in D : i <= j PROVE Min(D) = i
  <2>1. Min(D) \in D /\ \A j \in D : Min(D) <= j
    BY <1>10 DEF Min
  <2>2. PICK w : w = Min(D)
    OBVIOUS
  <2>3. w \in D /\ w <= i /\ i <= w
    BY <1>10, <2>1, <2>2
  <2>4. w \in {1, 2, 3} /\ i \in {1, 2, 3}
    BY <1>8, <2>3
  <2> QED BY <2>2, <2>3, <2>4
<1>11. PICK labels : labels = <<"major", "minor", "patch">>
  OBVIOUS
<1>12. labels[1] = "major" /\ labels[2] = "minor" /\ labels[3] = "patch"
  BY <1>11
<1>13. PICK update : update = classify_update(c, v)
  OBVIOUS
<1>14. update = IF x > a THEN "major"
                ELSE IF x = a /\ y > b THEN "minor"
                ELSE IF x = a /\ y = b /\ z > d THEN "patch" ELSE "up-to-date"
  BY <1>4, <1>5, <1>13 DEF classify_update
<1>15. CASE x > a
  <2>1. Min(D) = 1
    BY <1>8, <1>10, <1>15
  <2> QED BY <1>6, <1>9, <1>11, <1>12, <1>13, <1>14, <1>15, <2>1
<1>16. CASE x = a /\ y > b
  <2>1. Min(D) = 2
    BY <1>8, <1>10, <1>16
  <2> QED BY <1>6, <1>9, <1>11, <1>12, <1>13, <1>14, <1>16, <2>1
<1>17. CASE x = a /\ y = b /\ z > d
  <2>1. Min(D) = 3
    BY <1>8, <1>10, <1>17
  <2> QED BY <1>6, <1>9, <1>11, <1>12, <1>13, <1>14, <1>17, <2>1
<1>18. CASE ~(x > a \/ (x = a /\ y > b) \/ (x = a /\ y = b /\ z > d))
  BY <1>9, <1>13, <1>14, <1>18
<1> QED
  BY <1>15, <1>16, <1>17, <1>18

LEMMA OfferIsNewer == ManifestInv => OffersAreNewer
<1> SUFFICES ASSUME ManifestInv PROVE OffersAreNewer
  OBVIOUS
<1>1. offer # NoOffer /\ offer.pre => kind \notin {"csproj", "mix.exs"}
  BY DEF ManifestInv, LooksForStable
<1>2. ASSUME NEW d \in {d \in ToSet(parse_manifest(kind, manifest)) : d.current # Unversioned},
             NEW v \in Versions
      PROVE  LET update == classify_update(d.current, v)
             IN  IF Newer(v, d.current)
                   THEN update = <<"major", "minor", "patch">>[Min({i \in 1..3 : v[i] # d.current[i]})]
                   ELSE update = "up-to-date"
  <2>1. PICK all \in Seq(Deps) : all = parse_manifest(kind, manifest)
    BY ReadFrom, ManifestTyped
  <2>2. d \in Deps
    BY <2>1 DEF ToSet
  <2>3. d.current \in Versions
    BY <2>2 DEF Deps
  <2> QED
    BY <2>3, ClassifyIs, Zenon
<1> QED
  BY <1>1, <1>2, Zenon DEF OffersAreNewer

LEMMA ManifestStart == ManifestInit => ManifestInv
<1> SUFFICES ASSUME ManifestInit PROVE ManifestInv
  OBVIOUS
<1>1. manifest \in BoundedSeq(Entries(kind), MaxEntries) /\ kind \in Kinds /\ offer = NoOffer
  BY DEF ManifestInit, Manifest
<1>2. manifest \in Seq(Entries(kind))
  BY <1>1 DEF BoundedSeq, SeqOf
<1> QED
  BY <1>1, <1>2 DEF ManifestInv

LEMMA ManifestStep == ManifestInv /\ [ManifestNext]_manifestVars => ManifestInv'
<1> SUFFICES ASSUME ManifestInv, [ManifestNext]_manifestVars PROVE ManifestInv'
  OBVIOUS
<1>1. CASE UNCHANGED manifestVars
  BY <1>1 DEF manifestVars, ManifestInv
<1>2. CASE ManifestNext
  <2>1. PICK p \in Packages : CheckAndUpdate(fetch_latest_version(kind, p))
    BY <1>2 DEF ManifestNext
  <2>2. PICK ans : ans = fetch_latest_version(kind, p)
    OBVIOUS
  <2>3. kind \in Kinds /\ manifest \in Seq(Entry)
    BY ManifestTyped
  <2>4. ans \in Answers /\ (kind \in LooksForStable => ~ans.pre)
    BY <2>2, <2>3, AnswersAre
  <2>5. CheckAndUpdate(ans)
    BY <2>1, <2>2
  <2>6. kind' = kind /\ manifest' = manifest
    BY <2>5 DEF CheckAndUpdate
  <2>7. PICK r \in Offered(assemble_report(resolve_versions(Checked(kind, manifest),
                                                            [n \in ReadNames |-> ans.ver]))) :
            offer' = [dep |-> r.dep, latest |-> ans.ver, pre |-> ans.pre, update |-> r.update,
                      new |-> update_manifest_version(kind, manifest, r.dep.name, ans.ver)]
    BY <2>5, Zenon DEF CheckAndUpdate
  <2>8. Offerable(kind, manifest, r.dep, ans.ver)
    BY <2>3, <2>4, OfferedAre
  <2>9. /\ offer'.dep = r.dep /\ offer'.latest = ans.ver /\ offer'.pre = ans.pre
        /\ offer'.new = update_manifest_version(kind, manifest, r.dep.name, ans.ver)
    BY <2>7
  <2>10. manifest' \in Seq(Entries(kind'))
    BY <2>6 DEF ManifestInv
  <2>11. Offerable(kind', manifest', offer'.dep, offer'.latest)
    BY <2>6, <2>8, <2>9
  <2>12. offer'.new = update_manifest_version(kind', manifest', offer'.dep.name, offer'.latest)
    BY <2>6, <2>9
  <2>13. offer'.pre => kind' \notin LooksForStable
    BY <2>4, <2>6, <2>9
  <2> QED
    BY <2>3, <2>6, <2>10, <2>11, <2>12, <2>13, Zenon DEF ManifestInv
<1> QED
  BY <1>1, <1>2

(* For each of the twelve kinds of manifest, of any length, with any         *)
(* names, versions and answers of the registry: a check offers an update     *)
(* only to a newer version, and making it leaves every entry of another      *)
(* dependency as it was, unless it is the package of a .csproj that has the  *)
(* name as a part of its own or the dependency of a pom.xml that excludes    *)
(* the artifact.  Where the name occurs once and the manifest is of a form   *)
(* the updater knows, the next check reads the new version.                  *)
THEOREM UpdatesAreSafe == ManifestSpec => []ManifestsSound
<1>1. ManifestInv => ManifestsSound
  <2> SUFFICES ASSUME ManifestInv PROVE ManifestsSound
    OBVIOUS
  <2>1. OffersAreNewer
    BY OfferIsNewer
  <2>2. CASE offer = NoOffer
    BY <2>1, <2>2 DEF ManifestsSound, OthersUntouched, ReadingsUntouched, UpdateTakesEffect
  <2>3. CASE offer # NoOffer
    BY <2>1, <2>3, OfferKeeps, OfferSpares, OfferTakesEffect DEF ManifestsSound
  <2> QED BY <2>2, <2>3
<1> QED
  BY <1>1, ManifestStart, ManifestStep, PTL DEF ManifestSpec

-----------------------------------------------------------------------------
(* The git bridge: lists that do not repeat themselves. *)
Distinct(s) == \A i, j \in 1..Len(s) : s[i] = s[j] => i = j

LEMMA RangeIs ==
    ASSUME NEW S, NEW s \in Seq(S)
    PROVE  /\ ToSet(s) \subseteq S /\ \A i \in 1..Len(s) : s[i] \in ToSet(s)
           /\ \A x \in ToSet(s) : \E i \in 1..Len(s) : s[i] = x
<1>1. DOMAIN s = 1..Len(s) /\ \A i \in 1..Len(s) : s[i] \in S
  OBVIOUS
<1> QED
  BY <1>1 DEF ToSet

(* What a selection has, and that it does not repeat what is not repeated. *)
LEMMA ChosenHas ==
    ASSUME NEW S, NEW list \in Seq(S), NEW is
    PROVE  /\ Chosen(list, is) \in Seq(S)
           /\ ToSet(Chosen(list, is)) = {list[i] : i \in (1..Len(list)) \cap is}
           /\ (\A i, j \in (1..Len(list)) \cap is : list[i] = list[j] => i = j)
                => Distinct(Chosen(list, is))
<1>1. PICK N \in Nat : N = Len(list)
  OBVIOUS
<1>2. PICK w : /\ Chosen(list, is) = w[N] /\ w[0] = <<>>
               /\ \A i \in 1..N : w[i] = IF i \in is THEN Append(w[i - 1], list[i]) ELSE w[i - 1]
  <2>1. \E w : /\ Chosen(list, is) = w[Len(list)] /\ w[0] = <<>>
               /\ \A i \in 1..Len(list) : w[i] = IF i \in is THEN Append(w[i - 1], list[i]) ELSE w[i - 1]
    <3>1. PICK u : KeptBy(list, is, u)
      BY <1>1, ChosenIs
    <3> WITNESS u
    <3> QED
      BY <1>1, <3>1 DEF KeptBy
  <2> QED
    BY <1>1, <2>1
<1> DEFINE Once == \A i, j \in (1..N) \cap is : list[i] = list[j] => i = j
           Good(x, i) == /\ x \in Seq(S)
                         /\ \A l \in (1..i) \cap is : \E j \in 1..Len(x) : x[j] = list[l]
                         /\ \A j \in 1..Len(x) : \E l \in (1..i) \cap is : x[j] = list[l]
                         /\ Once => Distinct(x)
           P == {i \in 0..N : Good(w[i], i)}
<1>3. 0 \in P
  <2>1. Good(<<>>, 0)
    BY DEF Distinct
  <2> HIDE DEF Good
  <2> QED BY <1>2, <2>1
<1>4. ASSUME NEW i \in P, i < N PROVE i + 1 \in P
  <2>1. i \in 0..N /\ i + 1 \in 1..N /\ (i + 1) - 1 = i /\ i + 1 \in 0..N /\ Good(w[i], i)
    <3> HIDE DEF Good
    <3> QED BY <1>4
  <2>2. w[i + 1] = IF i + 1 \in is THEN Append(w[i], list[i + 1]) ELSE w[i]
    BY <1>2, <2>1
  <2>3. PICK x : x = w[i]
    OBVIOUS
  <2>4. CASE i + 1 \in is
    <3>1. PICK e \in S : e = list[i + 1]
      BY <1>1, <2>1
    <3>2. PICK m \in Nat : m = Len(x)
      BY <2>1, <2>3
    <3>3. PICK y : y = Append(x, e)
      OBVIOUS
    <3>4. y \in Seq(S) /\ Len(y) = m + 1 /\ y[m + 1] = e /\ \A j \in 1..m : y[j] = x[j]
      BY <2>1, <2>3, <3>2, <3>3
    <3>5. ASSUME NEW l \in (1..(i + 1)) \cap is PROVE \E j \in 1..Len(y) : y[j] = list[l]
      <4>1. CASE l = i + 1
        BY <3>1, <3>2, <3>4, <4>1
      <4>2. CASE l \in (1..i) \cap is
        <5>1. PICK j \in 1..m : x[j] = list[l]
          BY <2>1, <2>3, <3>2, <4>2
        <5> QED
          BY <3>2, <3>4, <5>1
      <4> QED
        BY <2>1, <3>5, <4>1, <4>2
    <3>6. ASSUME NEW j \in 1..Len(y) PROVE \E l \in (1..(i + 1)) \cap is : y[j] = list[l]
      <4>1. CASE j = m + 1
        BY <2>1, <2>4, <3>1, <3>4, <4>1
      <4>2. CASE j \in 1..m
        <5>1. PICK l \in (1..i) \cap is : x[j] = list[l]
          BY <2>1, <2>3, <3>2, <4>2
        <5> QED
          BY <2>1, <3>4, <4>2, <5>1
      <4> QED
        BY <3>2, <3>4, <4>1, <4>2, SMTT(20)
    <3>7. ASSUME Once PROVE Distinct(y)
      <4>1. Distinct(x)
        BY <2>1, <2>3, <3>7
      <4>2. ASSUME NEW j \in 1..m PROVE y[j] # e
        <5>1. PICK l \in (1..i) \cap is : x[j] = list[l]
          BY <2>1, <2>3, <3>2
        <5>2. l \in (1..N) \cap is /\ i + 1 \in (1..N) \cap is /\ l # i + 1
          BY <1>1, <2>1, <2>4
        <5>3. list[l] # list[i + 1]
          BY <3>7, <5>2, Zenon
        <5> QED
          BY <3>1, <3>4, <5>1, <5>3
      <4>3. ASSUME NEW a \in 1..Len(y), NEW b \in 1..Len(y), y[a] = y[b] PROVE a = b
        <5>1. a = m + 1 \/ a \in 1..m
          BY <3>2, <3>4
        <5>2. b = m + 1 \/ b \in 1..m
          BY <3>2, <3>4
        <5>3. ASSUME a \in 1..m, b \in 1..m PROVE a = b
          BY <3>2, <3>4, <4>1, <4>3, <5>3 DEF Distinct
        <5> QED
          BY <3>4, <4>2, <4>3, <5>1, <5>2, <5>3
      <4> QED
        BY <4>3 DEF Distinct
    <3>8. Good(y, i + 1)
      BY <3>4, <3>5, <3>6, <3>7
    <3>9. w[i + 1] = y
      BY <2>2, <2>3, <2>4, <3>1, <3>3
    <3> HIDE DEF Good
    <3> QED
      BY <2>1, <3>8, <3>9
  <2>5. CASE i + 1 \notin is
    <3>1. (1..(i + 1)) \cap is = (1..i) \cap is
      BY <2>1, <2>5
    <3>2. Good(x, i + 1)
      BY <2>1, <2>3, <3>1
    <3>3. w[i + 1] = x
      BY <2>2, <2>3, <2>5
    <3> HIDE DEF Good
    <3> QED
      BY <2>1, <3>2, <3>3
  <2> QED
    BY <2>4, <2>5
<1>5. N \in P
  <2>1. \A i \in P : i \in Nat /\ i < N => i + 1 \in P
    BY <1>4
  <2> HIDE DEF P
  <2> QED BY <1>3, <2>1, UpTo, Zenon
<1>6. PICK c : c = Chosen(list, is)
  OBVIOUS
<1>7. Good(c, N)
  BY <1>2, <1>5, <1>6
<1>8. ToSet(c) = {list[i] : i \in (1..N) \cap is}
  <2>1. \A x \in ToSet(c) : \E j \in 1..Len(c) : c[j] = x
    BY <1>7, RangeIs
  <2>2. \A j \in 1..Len(c) : c[j] \in ToSet(c)
    BY <1>7, RangeIs
  <2>3. ASSUME NEW x \in ToSet(c) PROVE x \in {list[i] : i \in (1..N) \cap is}
    BY <1>7, <2>1
  <2>4. ASSUME NEW i \in (1..N) \cap is PROVE list[i] \in ToSet(c)
    BY <1>7, <2>2
  <2> QED
    BY <2>3, <2>4
<1> QED
  BY <1>1, <1>6, <1>7, <1>8

(* A selection that leaves nothing out. *)
LEMMA ChosenWhole ==
    ASSUME NEW S, NEW list \in Seq(S), NEW is, 1..Len(list) \subseteq is
    PROVE  Chosen(list, is) = list
<1>1. PICK N \in Nat : N = Len(list)
  OBVIOUS
<1>2. PICK w : /\ Chosen(list, is) = w[N] /\ w[0] = <<>>
               /\ \A i \in 1..N : w[i] = IF i \in is THEN Append(w[i - 1], list[i]) ELSE w[i - 1]
  <2>1. \E w : /\ Chosen(list, is) = w[Len(list)] /\ w[0] = <<>>
               /\ \A i \in 1..Len(list) : w[i] = IF i \in is THEN Append(w[i - 1], list[i]) ELSE w[i - 1]
    <3>1. PICK u : KeptBy(list, is, u)
      BY <1>1, ChosenIs
    <3> WITNESS u
    <3> QED
      BY <1>1, <3>1 DEF KeptBy
  <2> QED
    BY <1>1, <2>1
<1> DEFINE Good(x, i) == x \in Seq(S) /\ Len(x) = i /\ \A j \in 1..i : x[j] = list[j]
           P == {i \in 0..N : Good(w[i], i)}
<1>3. 0 \in P
  <2>1. Good(<<>>, 0)
    OBVIOUS
  <2> HIDE DEF Good
  <2> QED BY <1>2, <2>1
<1>4. ASSUME NEW i \in P, i < N PROVE i + 1 \in P
  <2>1. i \in 0..N /\ i + 1 \in 1..N /\ (i + 1) - 1 = i /\ i + 1 \in 0..N /\ Good(w[i], i)
    <3> HIDE DEF Good
    <3> QED BY <1>4
  <2>2. PICK x : x = w[i]
    OBVIOUS
  <2>3. w[i + 1] = Append(x, list[i + 1]) /\ list[i + 1] \in S
    <3>1. i + 1 \in is
      BY <1>1, <2>1
    <3>2. w[i + 1] = IF i + 1 \in is THEN Append(w[i], list[i + 1]) ELSE w[i]
      BY <1>2, <2>1
    <3> QED
      BY <1>1, <2>1, <2>2, <3>1, <3>2
  <2>4. PICK y : y = Append(x, list[i + 1])
    OBVIOUS
  <2>5. Good(y, i + 1)
    BY <2>1, <2>2, <2>3, <2>4
  <2> HIDE DEF Good
  <2> QED
    BY <2>1, <2>3, <2>4, <2>5
<1>5. N \in P
  <2>1. \A i \in P : i \in Nat /\ i < N => i + 1 \in P
    BY <1>4
  <2> HIDE DEF P
  <2> QED BY <1>3, <2>1, UpTo, Zenon
<1>6. PICK c : c = Chosen(list, is)
  OBVIOUS
<1>7. Good(c, N)
  BY <1>2, <1>5, <1>6
<1>8. c = list
  BY <1>1, <1>7, SeqEqual
<1> QED
  BY <1>6, <1>8

(* Two lists in a row. *)
LEMMA ConcatHas ==
    ASSUME NEW S, NEW s \in Seq(S), NEW t \in Seq(S)
    PROVE  /\ s \o t \in Seq(S) /\ Len(s \o t) = Len(s) + Len(t)
           /\ \A i \in 1..Len(s) : (s \o t)[i] = s[i]
           /\ \A i \in 1..Len(t) : (s \o t)[Len(s) + i] = t[i]
           /\ ToSet(s \o t) = ToSet(s) \cup ToSet(t)
           /\ Distinct(s) /\ Distinct(t) /\ ToSet(s) \cap ToSet(t) = {} => Distinct(s \o t)
<1>1. PICK c : c = s \o t
  OBVIOUS
<1>2. PICK m \in Nat : m = Len(s)
  OBVIOUS
<1>3. PICK n \in Nat : n = Len(t)
  OBVIOUS
<1>4. c \in Seq(S) /\ Len(c) = m + n
  BY <1>1, <1>2, <1>3
<1>5. \A i \in 1..m : c[i] = s[i]
  BY <1>1, <1>2, <1>3
<1>6. \A i \in 1..n : c[m + i] = t[i]
  BY <1>1, <1>2, <1>3
<1>7. \A i \in 1..(m + n) : i \in 1..m \/ \E j \in 1..n : i = m + j
  <2> TAKE i \in 1..(m + n)
  <2>1. i \in 1..m \/ (i - m \in 1..n /\ i = m + (i - m))
    OBVIOUS
  <2> QED
    BY <2>1
<1>8. /\ \A x \in ToSet(s) : \E i \in 1..m : s[i] = x
      /\ \A x \in ToSet(t) : \E i \in 1..n : t[i] = x
      /\ \A x \in ToSet(c) : \E i \in 1..(m + n) : c[i] = x
      /\ \A i \in 1..m : s[i] \in ToSet(s)
      /\ \A i \in 1..n : t[i] \in ToSet(t)
      /\ \A i \in 1..(m + n) : c[i] \in ToSet(c)
  BY <1>2, <1>3, <1>4, RangeIs
<1>9. ToSet(c) = ToSet(s) \cup ToSet(t)
  <2>1. ASSUME NEW x \in ToSet(c) PROVE x \in ToSet(s) \cup ToSet(t)
    <3>1. PICK i \in 1..(m + n) : c[i] = x
      BY <1>8
    <3>2. CASE i \in 1..m
      BY <1>5, <1>8, <3>1, <3>2
    <3>3. ASSUME NEW j \in 1..n, i = m + j PROVE x \in ToSet(t)
      BY <1>6, <1>8, <3>1, <3>3
    <3> QED
      BY <1>7, <3>2, <3>3
  <2>2. ASSUME NEW x \in ToSet(s) PROVE x \in ToSet(c)
    <3>1. PICK i \in 1..m : s[i] = x
      BY <1>8
    <3>2. i \in 1..(m + n)
      OBVIOUS
    <3> QED
      BY <1>5, <1>8, <3>1, <3>2
  <2>3. ASSUME NEW x \in ToSet(t) PROVE x \in ToSet(c)
    <3>1. PICK i \in 1..n : t[i] = x
      BY <1>8
    <3>2. m + i \in 1..(m + n)
      OBVIOUS
    <3> QED
      BY <1>6, <1>8, <3>1, <3>2
  <2> QED
    BY <2>1, <2>2, <2>3
<1>10. ASSUME Distinct(s), Distinct(t), ToSet(s) \cap ToSet(t) = {} PROVE Distinct(c)
  <2>1. ASSUME NEW a \in 1..(m + n), NEW b \in 1..(m + n), c[a] = c[b] PROVE a = b
    <3>1. CASE a \in 1..m /\ b \in 1..m
      BY <1>2, <1>5, <1>10, <2>1, <3>1 DEF Distinct
    <3>2. CASE a \in 1..m /\ b \notin 1..m
      <4>1. PICK j \in 1..n : b = m + j
        BY <1>7, <3>2
      <4>2. c[a] \in ToSet(s) /\ c[b] \in ToSet(t)
        BY <1>5, <1>6, <1>8, <3>2, <4>1
      <4> QED
        BY <1>10, <2>1, <4>2
    <3>3. CASE a \notin 1..m /\ b \in 1..m
      <4>1. PICK j \in 1..n : a = m + j
        BY <1>7, <3>3
      <4>2. c[b] \in ToSet(s) /\ c[a] \in ToSet(t)
        BY <1>5, <1>6, <1>8, <3>3, <4>1
      <4> QED
        BY <1>10, <2>1, <4>2
    <3>4. CASE a \notin 1..m /\ b \notin 1..m
      <4>1. PICK i \in 1..n : a = m + i
        BY <1>7, <3>4
      <4>2. PICK j \in 1..n : b = m + j
        BY <1>7, <3>4
      <4>3. t[i] = t[j]
        BY <1>6, <2>1, <4>1, <4>2
      <4> QED
        BY <1>3, <1>10, <4>1, <4>2, <4>3 DEF Distinct
    <3> QED
      BY <3>1, <3>2, <3>3, <3>4
  <2> QED
    BY <1>4, <2>1 DEF Distinct
<1> QED
  BY <1>1, <1>2, <1>3, <1>4, <1>5, <1>6, <1>9, <1>10

(* A list that does not repeat itself is no longer than there are things. *)
LEMMA DistinctLength ==
    ASSUME NEW S, IsFiniteSet(S), NEW s \in Seq(S), Distinct(s)
    PROVE  Len(s) <= Cardinality(S) /\ Cardinality(S) \in Nat
<1>1. s \in Injection(1..Len(s), S)
  BY DEF Distinct, Injection, IsInjective
<1>2. Cardinality(1..Len(s)) <= Cardinality(S)
  BY <1>1, FS_Injection, Zenon
<1>3. Cardinality(1..Len(s)) = Len(s)
  <2>1. Len(s) \in Nat
    OBVIOUS
  <2> QED
    BY <2>1, FS_Interval, SMTT(20)
<1> QED
  BY <1>2, <1>3, FS_CardinalityType

LEMMA SetInOrder ==
    ASSUME NEW S, IsFiniteSet(S)
    PROVE  SetToSeq(S) \in Seq(S) /\ ToSet(SetToSeq(S)) = S /\ Distinct(SetToSeq(S))
<1>1. Cardinality(S) \in Nat /\ ExistsBijection(1..Cardinality(S), S)
  BY FS_CardinalityType
<1>2. PICK f : f \in Bijection(1..Cardinality(S), S)
  BY <1>1 DEF ExistsBijection
<1>3. f \in [1..Cardinality(S) -> S] /\ IsInjective(f)
  BY <1>2 DEF Bijection, Injection
<1> DEFINE s == SetToSeq(S)
<1>4. s \in [1..Cardinality(S) -> S] /\ IsInjective(s)
  BY <1>3, Zenon DEF SetToSeq
<1> HIDE DEF s
<1>5. s \in Seq(S) /\ Len(s) = Cardinality(S) /\ DOMAIN s = 1..Cardinality(S)
  BY <1>1, <1>4
<1>6. Distinct(s)
  BY <1>4, <1>5 DEF Distinct, IsInjective
<1>7. s \in Injection(1..Cardinality(S), S)
  BY <1>4 DEF Injection, IsInjective
<1>8. Cardinality(1..Cardinality(S)) = Cardinality(S)
  BY <1>1, FS_Interval
<1>9. s \in Surjection(1..Cardinality(S), S)
  BY <1>7, <1>8, FS_Injection, Zenon
<1>10. ToSet(s) = S
  BY <1>4, <1>5, <1>9 DEF ToSet, Surjection
<1> QED
  BY <1>5, <1>6, <1>10 DEF s

-----------------------------------------------------------------------------
(* What a git directory is, as far as the proofs need it. *)
GitFits ==
    /\ git.parentsOf \in [CommitIds -> Seq(CommitIds)] /\ git.targetOf \in [TagIds -> Ids]
    /\ \A r \in TrueRefs : r \notin Ids /\ TrueRef(r) \in Ids /\ (r = git.head => TrueRef(r) \in CommitIds)

LEMMA DirectoriesFit ==
    ASSUME git \in Directories
    PROVE  GitFits
<1>1. /\ git.parentsOf \in [CommitIds -> Seq(CommitIds)] /\ git.targetOf \in [TagIds -> Ids]
      /\ \A refs \in {git.packedRefs, git.looseRefs} : \A r \in DOMAIN refs :
            r \notin Ids /\ refs[r] \in Ids /\ (r = git.head => refs[r] \in CommitIds)
  BY BridgeAssumption
<1>2. \A r \in TrueRefs : r \notin Ids /\ TrueRef(r) \in Ids /\ (r = git.head => TrueRef(r) \in CommitIds)
  BY <1>1 DEF TrueRef, TrueRefs
<1> QED
  BY <1>1, <1>2 DEF GitFits

LEMMA KindsDiffer ==
    /\ IsFiniteSet(Ids) /\ Elsewhere \notin Ids
    /\ \A id \in Ids : id \in BlobIds \/ id \in TreeIds \/ id \in CommitIds \/ id \in TagIds
    /\ BlobIds \subseteq Ids /\ TreeIds \subseteq Ids /\ CommitIds \subseteq Ids /\ TagIds \subseteq Ids
    /\ \A id \in BlobIds : id \notin TreeIds /\ id \notin CommitIds /\ id \notin TagIds
    /\ \A id \in TreeIds : id \notin BlobIds /\ id \notin CommitIds /\ id \notin TagIds
    /\ \A id \in CommitIds : id \notin BlobIds /\ id \notin TreeIds /\ id \notin TagIds
    /\ \A id \in TagIds : id \notin BlobIds /\ id \notin TreeIds /\ id \notin CommitIds
<1>1. IsFiniteSet(Ids) /\ Elsewhere \notin Ids
  BY BridgeAssumption
<1>2. /\ BlobIds \cap TreeIds = {} /\ (BlobIds \cup TreeIds) \cap CommitIds = {}
      /\ (BlobIds \cup TreeIds \cup CommitIds) \cap TagIds = {}
  BY BridgeAssumption
<1> QED
  BY <1>1, <1>2 DEF Ids

(* The entries of a tree. *)
LEMMA EntriesFit ==
    ASSUME NEW t \in TreeIds, NEW n \in DOMAIN EntriesOf[t]
    PROVE  /\ EntriesOf[t][n].id \in BlobIds \cup TreeIds \cup {Elsewhere}
           /\ EntriesOf[t][n].mode \in GitModes
  BY BridgeAssumption

LEMMA NamedAre ==
    ASSUME GitFits, NEW id \in Ids
    PROVE  /\ Named(id) \in Seq(Ids \cup {Elsewhere})
           /\ id \in BlobIds => ToSet(Named(id)) = {}
           /\ id \in TreeIds => ToSet(Named(id)) = {EntriesOf[id][n].id : n \in DOMAIN EntriesOf[id]}
           /\ id \in CommitIds => ToSet(Named(id)) = {TreeOf[id]} \cup ToSet(git.parentsOf[id])
           /\ id \in TagIds => ToSet(Named(id)) = {git.targetOf[id]}
<1>1. CASE id \in BlobIds
  <2>1. Named(id) = <<>>
    BY <1>1, KindsDiffer DEF Named
  <2>2. ToSet(Named(id)) = {}
    BY <2>1 DEF ToSet
  <2> QED
    BY <1>1, <2>1, <2>2, KindsDiffer
<1>2. CASE id \in TreeIds
  <2> DEFINE names == {EntriesOf[id][n].id : n \in DOMAIN EntriesOf[id]}
  <2>1. Named(id) = SetToSeq(names)
    BY <1>2, KindsDiffer DEF Named
  <2>2. \A x \in names : x \in Ids \cup {Elsewhere}
    <3>1. \A n \in DOMAIN EntriesOf[id] : EntriesOf[id][n].id \in BlobIds \cup TreeIds \cup {Elsewhere}
      BY <1>2, EntriesFit
    <3> QED
      BY <3>1, KindsDiffer
  <2> HIDE DEF names
  <2>3. names \in SUBSET (Ids \cup {Elsewhere})
    BY <2>2
  <2>4. IsFiniteSet(Ids \cup {Elsewhere})
    BY KindsDiffer, FS_AddElement
  <2>5. IsFiniteSet(names)
    BY <2>3, <2>4, FS_Subset
  <2>6. SetToSeq(names) \in Seq(names) /\ ToSet(SetToSeq(names)) = names
    BY <2>5, SetInOrder
  <2>7. Named(id) \in Seq(Ids \cup {Elsewhere})
    BY <2>1, <2>3, <2>6
  <2> QED
    BY <1>2, <2>1, <2>6, <2>7, KindsDiffer DEF names
<1>3. CASE id \in CommitIds
  <2>1. Named(id) = <<TreeOf[id]>> \o git.parentsOf[id]
    BY <1>3, KindsDiffer DEF Named
  <2>2. TreeOf[id] \in Ids \cup {Elsewhere}
    BY <1>3, BridgeAssumption DEF Ids
  <2>3. git.parentsOf[id] \in Seq(Ids \cup {Elsewhere})
    BY <1>3, KindsDiffer DEF GitFits
  <2>4. PICK one : one = <<TreeOf[id]>>
    OBVIOUS
  <2>5. one \in Seq(Ids \cup {Elsewhere}) /\ Len(one) = 1 /\ one[1] = TreeOf[id]
    BY <2>2, <2>4
  <2>6. ToSet(one) = {TreeOf[id]}
    BY <2>4 DEF ToSet
  <2>7. /\ one \o git.parentsOf[id] \in Seq(Ids \cup {Elsewhere})
        /\ ToSet(one \o git.parentsOf[id]) = ToSet(one) \cup ToSet(git.parentsOf[id])
    BY <2>3, <2>5, ConcatHas
  <2> QED
    BY <1>3, <2>1, <2>4, <2>6, <2>7, KindsDiffer
<1>4. CASE id \in TagIds
  <2>1. Named(id) = <<git.targetOf[id]>>
    BY <1>4, KindsDiffer DEF Named
  <2>2. git.targetOf[id] \in Ids
    BY <1>4 DEF GitFits
  <2>3. ToSet(Named(id)) = {git.targetOf[id]}
    BY <2>1 DEF ToSet
  <2> QED
    BY <1>4, <2>1, <2>2, <2>3, KindsDiffer
<1> QED
  BY <1>1, <1>2, <1>3, <1>4, KindsDiffer

-----------------------------------------------------------------------------
(* The walk from the refs. *)

(* The recursion of Bfs. *)
BfsSteps(roots, n, w) ==
    w = [i \in 0..n |-> IF i = 0 THEN roots
                        ELSE Visit(w[i - 1], i)]

LEMMA BfsExists ==
    ASSUME NEW roots, NEW n \in Nat
    PROVE  \E w : BfsSteps(roots, n, w)
<1> DEFINE P == {m \in Nat : \E w : BfsSteps(roots, m, w)}
<1>1. 0 \in P
  <2> DEFINE w == [i \in 0..0 |-> roots]
  <2>1. BfsSteps(roots, 0, w)
    BY DEF BfsSteps
  <2> QED
    BY <2>1, Zenon
<1>2. ASSUME NEW m \in P \cap Nat PROVE m + 1 \in P
  <2> SUFFICES \E w : BfsSteps(roots, m + 1, w)
    OBVIOUS
  <2>1. PICK g : BfsSteps(roots, m, g)
    OBVIOUS
  <2> DEFINE F(x, i) == Visit(x, i)
             B == roots
             w == [i \in 0 .. m + 1 |-> IF i = m + 1 THEN F(g[m], m + 1) ELSE g[i]]
  <2>2. \A i \in 0..m : g[i] = IF i = 0 THEN B ELSE F(g[i - 1], i)
    BY <2>1 DEF BfsSteps
  <2> HIDE DEF F, B
  <2>3. ASSUME NEW i \in 0 .. m + 1
        PROVE  w[i] = IF i = 0 THEN B ELSE F(w[i - 1], i)
    <3>1. CASE i = m + 1
      <4>1. w[i] = F(g[m], m + 1) /\ w[i - 1] = g[m] /\ i # 0
        BY <3>1
      <4> HIDE DEF w
      <4> QED BY <4>1, <3>1
    <3>2. CASE i \in 0..m
      <4>1. w[i] = g[i] /\ (i # 0 => w[i - 1] = g[i - 1])
        BY <3>2
      <4> HIDE DEF w
      <4> QED BY <4>1, <3>2, <2>2
    <3> QED
      BY <3>1, <3>2
  <2>4. w = [i \in 0 .. m + 1 |-> w[i]]
    OBVIOUS
  <2>5. BfsSteps(roots, m + 1, w)
    <3> HIDE DEF w
    <3> QED BY <2>3, <2>4 DEF BfsSteps, F, B
  <2> QED
    BY <2>5, Zenon
<1>3. Nat \subseteq P
  <2> HIDE DEF P
  <2> QED BY <1>1, <1>2, SetInduction, Zenon
<1> QED
  BY <1>3

LEMMA BfsIs ==
    ASSUME NEW roots, Cardinality(Ids) \in Nat
    PROVE  \E w : /\ Bfs(roots) = w[Cardinality(Ids) + 1] /\ w[0] = roots
                  /\ \A i \in 1..(Cardinality(Ids) + 1) : w[i] = Visit(w[i - 1], i)
<1>1. PICK N \in Nat : N = Cardinality(Ids) + 1
  OBVIOUS
<1> DEFINE w == CHOOSE g : BfsSteps(roots, N, g)
<1>2. BfsSteps(roots, N, w)
  BY <1>1, BfsExists, Zenon
<1>3. Bfs(roots) = w[N]
  BY <1>1, Zenon DEF Bfs, BfsSteps
<1> HIDE DEF w
<1>4. \A i \in 0..N : w[i] = IF i = 0 THEN roots ELSE Visit(w[i - 1], i)
  BY <1>2 DEF BfsSteps
<1>5. w[0] = roots /\ \A i \in 1..N : w[i] = Visit(w[i - 1], i)
  <2>1. 0 \in 0..N /\ \A i \in 1..N : i \in 0..N /\ i # 0
    OBVIOUS
  <2> QED
    BY <1>4, <2>1
<1> QED
  BY <1>1, <1>3, <1>5

LEMMA UnseenAre ==
    ASSUME GitFits, NEW id \in Ids, NEW seen
    PROVE  /\ Unseen(id, seen) \in Seq(Ids \cup {Elsewhere}) /\ Distinct(Unseen(id, seen))
           /\ ToSet(Unseen(id, seen)) = ToSet(Named(id)) \ ToSet(seen)
<1> DEFINE U == Ids \cup {Elsewhere}
<1>1. PICK names : names = Named(id)
  OBVIOUS
<1>2. names \in Seq(U)
  BY <1>1, NamedAre
<1> DEFINE is == {i \in 1..Len(names) : /\ names[i] \notin ToSet(seen)
                                        /\ \A j \in 1..(i - 1) : names[j] # names[i]}
<1>3. Unseen(id, seen) = Chosen(names, is)
  BY <1>1 DEF Unseen
<1>4. \A i, j \in (1..Len(names)) \cap is : names[i] = names[j] => i = j
  <2>1. ASSUME NEW i \in is, NEW j \in is, i < j PROVE names[i] # names[j]
    <3>1. i \in 1..(j - 1)
      BY <1>2, <2>1
    <3> QED
      BY <3>1
  <2>2. \A i, j \in is : i < j \/ j < i \/ i = j
    BY <1>2
  <2> QED
    BY <2>1, <2>2
<1>5. ASSUME NEW x \in ToSet(names), x \notin ToSet(seen)
      PROVE  \E i \in (1..Len(names)) \cap is : names[i] = x
  <2> DEFINE S == {i \in 1..Len(names) : names[i] = x}
  <2>1. S \in SUBSET Nat /\ S # {}
    BY <1>2, <1>5, RangeIs
  <2>2. PICK i \in S : \A j \in S : i <= j
    BY <2>1, Least, Zenon
  <2>3. \A j \in 1..(i - 1) : names[j] # names[i]
    BY <1>2, <2>2
  <2> QED
    BY <1>5, <2>2, <2>3
<1>6. ASSUME NEW i \in (1..Len(names)) \cap is PROVE names[i] \in ToSet(names) \ ToSet(seen)
  BY <1>2, RangeIs
<1> HIDE DEF is
<1>7. /\ Chosen(names, is) \in Seq(U) /\ Distinct(Chosen(names, is))
      /\ ToSet(Chosen(names, is)) = {names[i] : i \in (1..Len(names)) \cap is}
  BY <1>2, <1>4, ChosenHas
<1>8. {names[i] : i \in (1..Len(names)) \cap is} = ToSet(names) \ ToSet(seen)
  BY <1>5, <1>6
<1> QED
  BY <1>1, <1>3, <1>7, <1>8

LEMMA RootsAre ==
    ASSUME GitFits
    PROVE  /\ RefTargets \subseteq Ids
           /\ read_git_refs = [r \in TrueRefs |-> TrueRef(r)]
<1>1. read_git_refs = [r \in TrueRefs |-> TrueRef(r)]
  BY DEF read_git_refs, TrueRef, TrueRefs
<1>2. DOMAIN read_git_refs = TrueRefs /\ \A r \in TrueRefs : read_git_refs[r] = TrueRef(r)
  BY <1>1
<1>3. \A x \in RefTargets : x \in Ids
  BY <1>2, KindsDiffer DEF RefTargets, GitFits
<1> QED
  BY <1>1, <1>3

(* The walk comes across the targets of the refs and, with an object that  *)
(* can be read, across all that it names; it takes each up once.           *)
LEMMA WalkComplete ==
    ASSUME GitFits, NEW seen, seen = Bfs(SetToSeq(RefTargets))
    PROVE  /\ seen \in Seq(Ids \cup {Elsewhere}) /\ Distinct(seen)
           /\ RefTargets \subseteq ToSet(seen)
           /\ \A id \in ToSet(seen) : Readable(id) => ToSet(Named(id)) \subseteq ToSet(seen)
<1> DEFINE U == Ids \cup {Elsewhere}
<1>1. PICK roots : roots = SetToSeq(RefTargets)
  OBVIOUS
<1>2. roots \in Seq(U) /\ Distinct(roots) /\ ToSet(roots) = RefTargets
  <2>1. IsFiniteSet(RefTargets)
    BY RootsAre, KindsDiffer, FS_Subset
  <2>2. roots \in Seq(RefTargets) /\ Distinct(roots) /\ ToSet(roots) = RefTargets
    BY <1>1, <2>1, SetInOrder
  <2> QED
    BY <2>2, RootsAre
<1>3. IsFiniteSet(U) /\ Cardinality(U) = Cardinality(Ids) + 1 /\ Cardinality(Ids) \in Nat
  BY KindsDiffer, FS_AddElement, FS_CardinalityType
<1>4. PICK N \in Nat : N = Cardinality(Ids) + 1
  BY <1>3
<1>5. PICK w : /\ seen = w[N] /\ w[0] = roots
               /\ \A i \in 1..N : w[i] = Visit(w[i - 1], i)
  <2>1. \E w : /\ Bfs(roots) = w[Cardinality(Ids) + 1] /\ w[0] = roots
               /\ \A i \in 1..(Cardinality(Ids) + 1) : w[i] = Visit(w[i - 1], i)
    BY <1>3, BfsIs
  <2> QED
    BY <1>1, <1>4, <2>1
<1> DEFINE Good(s, k) == /\ s \in Seq(U) /\ Distinct(s) /\ RefTargets \subseteq ToSet(s)
                         /\ \A i \in (1..k) \cap (1..Len(s)) :
                               Readable(s[i]) => ToSet(Named(s[i])) \subseteq ToSet(s)
           P == {k \in 0..N : Good(w[k], k)}
<1>6. 0 \in P
  <2>1. Good(roots, 0)
    BY <1>2
  <2> HIDE DEF Good
  <2> QED BY <1>5, <2>1
<1>7. ASSUME NEW k \in P, k < N PROVE k + 1 \in P
  <2>1. k \in 0..N /\ k + 1 \in 1..N /\ (k + 1) - 1 = k /\ k + 1 \in 0..N /\ Good(w[k], k)
    <3> HIDE DEF Good
    <3> QED BY <1>7
  <2>2. PICK s : s = w[k]
    OBVIOUS
  <2>3. w[k + 1] = Visit(s, k + 1) /\ Good(s, k)
    <3> HIDE DEF Good
    <3> QED BY <1>5, <2>1, <2>2
  <2>4. CASE k + 1 <= Len(s) /\ Readable(s[k + 1])
    <3>1. PICK id \in Ids : id = s[k + 1]
      BY <2>4 DEF Readable
    <3>2. PICK more : more = Unseen(id, s)
      OBVIOUS
    <3>3. PICK t : t = s \o more
      OBVIOUS
    <3>4. w[k + 1] = t
      BY <2>3, <2>4, <3>1, <3>2, <3>3 DEF Visit
    <3>5. more \in Seq(U) /\ Distinct(more) /\ ToSet(more) = ToSet(Named(id)) \ ToSet(s)
      BY <3>2, UnseenAre
    <3>6. s \in Seq(U) /\ Distinct(s) /\ ToSet(s) \cap ToSet(more) = {}
      BY <2>3, <3>5
    <3>7. /\ t \in Seq(U) /\ Len(t) = Len(s) + Len(more)
          /\ \A i \in 1..Len(s) : t[i] = s[i]
          /\ ToSet(t) = ToSet(s) \cup ToSet(more) /\ Distinct(t)
      BY <3>3, <3>5, <3>6, ConcatHas
    <3>8. ASSUME NEW i \in (1..(k + 1)) \cap (1..Len(t)), Readable(t[i])
          PROVE  ToSet(Named(t[i])) \subseteq ToSet(t)
      <4>1. i \in 1..Len(s)
        BY <2>1, <2>4, <3>6
      <4>2. t[i] = s[i]
        BY <3>7, <4>1
      <4>3. CASE i = k + 1
        BY <3>1, <3>5, <3>7, <4>2, <4>3
      <4>4. CASE i \in 1..k
        BY <2>3, <3>7, <3>8, <4>1, <4>2, <4>4
      <4> QED
        BY <2>1, <3>8, <4>3, <4>4
    <3>9. RefTargets \subseteq ToSet(t)
      BY <2>3, <3>7
    <3>10. Good(t, k + 1)
      BY <3>7, <3>8, <3>9
    <3> HIDE DEF Good
    <3> QED
      BY <2>1, <3>4, <3>10
  <2>5. CASE ~(k + 1 <= Len(s) /\ Readable(s[k + 1]))
    <3>1. w[k + 1] = s
      BY <2>3, <2>5 DEF Visit
    <3>2. ASSUME NEW i \in (1..(k + 1)) \cap (1..Len(s)), Readable(s[i])
          PROVE  ToSet(Named(s[i])) \subseteq ToSet(s)
      <4>1. i # k + 1
        BY <2>3, <2>5, <3>2
      <4> QED
        BY <2>1, <2>3, <3>2, <4>1
    <3>3. Good(s, k + 1)
      BY <2>3, <3>2
    <3> HIDE DEF Good
    <3> QED
      BY <2>1, <3>1, <3>3
  <2> QED
    BY <2>4, <2>5
<1>8. N \in P
  <2>1. \A k \in P : k \in Nat /\ k < N => k + 1 \in P
    BY <1>7
  <2> HIDE DEF P
  <2> QED BY <1>6, <2>1, UpTo, Zenon
<1>9. Good(seen, N)
  BY <1>5, <1>8
<1>10. Len(seen) <= N
  BY <1>3, <1>4, <1>9, DistinctLength
<1>11. ASSUME NEW id \in ToSet(seen), Readable(id) PROVE ToSet(Named(id)) \subseteq ToSet(seen)
  <2>1. PICK i \in 1..Len(seen) : seen[i] = id
    BY <1>9, RangeIs
  <2>2. i \in (1..N) \cap (1..Len(seen))
    BY <1>9, <1>10
  <2> QED
    BY <1>9, <1>11, <2>1, <2>2
<1> QED
  BY <1>9, <1>11

-----------------------------------------------------------------------------
(* What is reached was seen by the walk, when nothing damaged stopped it. *)
ReachSteps(n, w) ==
    w = [i \in 0..n |-> IF i = 0 THEN RefTargets ELSE Onward(w[i - 1])]

LEMMA ReachExists ==
    ASSUME NEW n \in Nat
    PROVE  \E w : ReachSteps(n, w)
<1> DEFINE P == {m \in Nat : \E w : ReachSteps(m, w)}
<1>1. 0 \in P
  <2> DEFINE w == [i \in 0..0 |-> RefTargets]
  <2>1. ReachSteps(0, w)
    BY DEF ReachSteps
  <2> QED
    BY <2>1, Zenon
<1>2. ASSUME NEW m \in P \cap Nat PROVE m + 1 \in P
  <2> SUFFICES \E w : ReachSteps(m + 1, w)
    OBVIOUS
  <2>1. PICK g : ReachSteps(m, g)
    OBVIOUS
  <2> DEFINE F(x, i) == Onward(x)
             B == RefTargets
             w == [i \in 0 .. m + 1 |-> IF i = m + 1 THEN F(g[m], m + 1) ELSE g[i]]
  <2>2. \A i \in 0..m : g[i] = IF i = 0 THEN B ELSE F(g[i - 1], i)
    BY <2>1 DEF ReachSteps
  <2> HIDE DEF F, B
  <2>3. ASSUME NEW i \in 0 .. m + 1
        PROVE  w[i] = IF i = 0 THEN B ELSE F(w[i - 1], i)
    <3>1. CASE i = m + 1
      <4>1. w[i] = F(g[m], m + 1) /\ w[i - 1] = g[m] /\ i # 0
        BY <3>1
      <4> HIDE DEF w
      <4> QED BY <4>1, <3>1
    <3>2. CASE i \in 0..m
      <4>1. w[i] = g[i] /\ (i # 0 => w[i - 1] = g[i - 1])
        BY <3>2
      <4> HIDE DEF w
      <4> QED BY <4>1, <3>2, <2>2
    <3> QED
      BY <3>1, <3>2
  <2>4. w = [i \in 0 .. m + 1 |-> w[i]]
    OBVIOUS
  <2>5. ReachSteps(m + 1, w)
    <3> HIDE DEF w
    <3> QED BY <2>3, <2>4 DEF ReachSteps, F, B
  <2> QED
    BY <2>5, Zenon
<1>3. Nat \subseteq P
  <2> HIDE DEF P
  <2> QED BY <1>1, <1>2, SetInduction, Zenon
<1> QED
  BY <1>3

LEMMA ReachIs ==
    ASSUME Cardinality(Ids) \in Nat
    PROVE  \E w : /\ Reachable = w[Cardinality(Ids)] /\ w[0] = RefTargets
                  /\ \A i \in 1..Cardinality(Ids) : w[i] = Onward(w[i - 1])
<1>1. PICK N \in Nat : N = Cardinality(Ids)
  OBVIOUS
<1> DEFINE w == CHOOSE g : ReachSteps(N, g)
<1>2. ReachSteps(N, w)
  BY <1>1, ReachExists, Zenon
<1>3. Reachable = w[N]
  BY <1>1, Zenon DEF Reachable, ReachSteps
<1> HIDE DEF w
<1>4. \A i \in 0..N : w[i] = IF i = 0 THEN RefTargets ELSE Onward(w[i - 1])
  BY <1>2 DEF ReachSteps
<1>5. w[0] = RefTargets /\ \A i \in 1..N : w[i] = Onward(w[i - 1])
  <2>1. 0 \in 0..N /\ \A i \in 1..N : i \in 0..N /\ i # 0
    OBVIOUS
  <2> QED
    BY <1>4, <2>1
<1> QED
  BY <1>1, <1>3, <1>5

LEMMA ReachedSeen ==
    ASSUME GitFits, ~ReadFails
    PROVE  Reachable \cap (git.broken \ git.packed) = {}
<1>1. PICK seen : seen = Bfs(SetToSeq(RefTargets))
  OBVIOUS
<1>2. /\ seen \in Seq(Ids \cup {Elsewhere}) /\ RefTargets \subseteq ToSet(seen)
      /\ \A id \in ToSet(seen) : Readable(id) => ToSet(Named(id)) \subseteq ToSet(seen)
  BY <1>1, WalkComplete
<1>3. \A id \in ToSet(seen) : id \notin git.broken \ git.packed
  BY <1>1 DEF ReadFails
<1>4. ASSUME NEW ids \in SUBSET ToSet(seen) PROVE Onward(ids) \subseteq ToSet(seen)
  <2>1. ASSUME NEW id \in (ids \cap Ids) \ git.packed PROVE ToSet(Named(id)) \subseteq ToSet(seen)
    <3>1. id \in ToSet(seen) /\ id \notin git.packed /\ id \in Ids
      BY <1>4, <2>1
    <3>2. Readable(id)
      BY <1>3, <3>1 DEF Readable
    <3> QED
      BY <1>2, <3>1, <3>2
  <2> QED
    BY <2>1 DEF Onward
<1>5. PICK N \in Nat : N = Cardinality(Ids)
  BY KindsDiffer, FS_CardinalityType
<1>6. PICK w : Reachable = w[N] /\ w[0] = RefTargets /\ \A i \in 1..N : w[i] = Onward(w[i - 1])
  <2>1. \E w : /\ Reachable = w[Cardinality(Ids)] /\ w[0] = RefTargets
               /\ \A i \in 1..Cardinality(Ids) : w[i] = Onward(w[i - 1])
    BY <1>5, ReachIs
  <2> QED
    BY <1>5, <2>1
<1> DEFINE P == {k \in 0..N : w[k] \subseteq ToSet(seen)}
<1>7. 0 \in P
  BY <1>2, <1>6
<1>8. ASSUME NEW k \in P, k < N PROVE k + 1 \in P
  <2>1. k + 1 \in 1..N /\ (k + 1) - 1 = k /\ k + 1 \in 0..N /\ w[k] \subseteq ToSet(seen)
    BY <1>8
  <2>2. w[k + 1] = Onward(w[k])
    BY <1>6, <2>1
  <2> QED
    BY <1>4, <2>1, <2>2
<1>9. N \in P
  <2>1. \A k \in P : k \in Nat /\ k < N => k + 1 \in P
    BY <1>8
  <2> HIDE DEF P
  <2> QED BY <1>7, <2>1, UpTo, Zenon
<1> QED
  BY <1>3, <1>6, <1>9

-----------------------------------------------------------------------------
(* What each id stands for. *)

(* The recursion of Meaning. *)
MeaningSteps(form, n, w) ==
    w = [i \in 0..n |-> IF i = 0 THEN [id \in {Elsewhere} |-> ZERO]
                        ELSE Further(w[i - 1], form)]

LEMMA MeaningExists ==
    ASSUME NEW form, NEW n \in Nat
    PROVE  \E w : MeaningSteps(form, n, w)
<1> DEFINE P == {m \in Nat : \E w : MeaningSteps(form, m, w)}
<1>1. 0 \in P
  <2> DEFINE w == [i \in 0..0 |-> [id \in {Elsewhere} |-> ZERO]]
  <2>1. MeaningSteps(form, 0, w)
    BY DEF MeaningSteps
  <2> QED
    BY <2>1, Zenon
<1>2. ASSUME NEW m \in P \cap Nat PROVE m + 1 \in P
  <2> SUFFICES \E w : MeaningSteps(form, m + 1, w)
    OBVIOUS
  <2>1. PICK g : MeaningSteps(form, m, g)
    OBVIOUS
  <2> DEFINE F(x, i) == Further(x, form)
             B == [id \in {Elsewhere} |-> ZERO]
             w == [i \in 0 .. m + 1 |-> IF i = m + 1 THEN F(g[m], m + 1) ELSE g[i]]
  <2>2. \A i \in 0..m : g[i] = IF i = 0 THEN B ELSE F(g[i - 1], i)
    BY <2>1 DEF MeaningSteps
  <2> HIDE DEF F, B
  <2>3. ASSUME NEW i \in 0 .. m + 1
        PROVE  w[i] = IF i = 0 THEN B ELSE F(w[i - 1], i)
    <3>1. CASE i = m + 1
      <4>1. w[i] = F(g[m], m + 1) /\ w[i - 1] = g[m] /\ i # 0
        BY <3>1
      <4> HIDE DEF w
      <4> QED BY <4>1, <3>1
    <3>2. CASE i \in 0..m
      <4>1. w[i] = g[i] /\ (i # 0 => w[i - 1] = g[i - 1])
        BY <3>2
      <4> HIDE DEF w
      <4> QED BY <4>1, <3>2, <2>2
    <3> QED
      BY <3>1, <3>2
  <2>4. w = [i \in 0 .. m + 1 |-> w[i]]
    OBVIOUS
  <2>5. MeaningSteps(form, m + 1, w)
    <3> HIDE DEF w
    <3> QED BY <2>3, <2>4 DEF MeaningSteps, F, B
  <2> QED
    BY <2>5, Zenon
<1>3. Nat \subseteq P
  <2> HIDE DEF P
  <2> QED BY <1>1, <1>2, SetInduction, Zenon
<1> QED
  BY <1>3

LEMMA MeaningIs ==
    ASSUME NEW form, Cardinality(Ids) \in Nat
    PROVE  \E w : /\ Meaning(form) = w[Cardinality(Ids)] /\ w[0] = [id \in {Elsewhere} |-> ZERO]
                  /\ \A i \in 1..Cardinality(Ids) : w[i] = Further(w[i - 1], form)
<1>1. PICK N \in Nat : N = Cardinality(Ids)
  OBVIOUS
<1> DEFINE w == CHOOSE g : MeaningSteps(form, N, g)
<1>2. MeaningSteps(form, N, w)
  BY <1>1, MeaningExists, Zenon
<1>3. Meaning(form) = w[N]
  BY <1>1, Zenon DEF Meaning, MeaningSteps
<1> HIDE DEF w
<1>4. \A i \in 0..N : w[i] = IF i = 0 THEN [id \in {Elsewhere} |-> ZERO] ELSE Further(w[i - 1], form)
  BY <1>2 DEF MeaningSteps
<1>5. w[0] = [id \in {Elsewhere} |-> ZERO] /\ \A i \in 1..N : w[i] = Further(w[i - 1], form)
  <2>1. 0 \in 0..N /\ \A i \in 1..N : i \in 0..N /\ i # 0
    OBVIOUS
  <2> QED
    BY <1>4, <2>1
<1> QED
  BY <1>1, <1>3, <1>5

(* Only what an object names matters for its content. *)
LEMMA ContentAgrees ==
    ASSUME GitFits, NEW id \in Ids, NEW m, NEW n, NEW form,
           \A x \in ToSet(Named(id)) : m[x] = n[x]
    PROVE  Content(id, m, form) = Content(id, n, form)
<1>1. CASE id \in BlobIds
  BY <1>1 DEF Content
<1>2. CASE id \in TreeIds
  <2>1. \A a \in DOMAIN EntriesOf[id] : m[EntriesOf[id][a].id] = n[EntriesOf[id][a].id]
    BY <1>2, NamedAre
  <2> QED
    BY <1>2, <2>1, KindsDiffer DEF Content
<1>3. CASE id \in CommitIds
  <2>1. m[TreeOf[id]] = n[TreeOf[id]]
    BY <1>3, NamedAre
  <2>2. git.parentsOf[id] \in Seq(CommitIds)
    BY <1>3 DEF GitFits
  <2>3. \A i \in DOMAIN git.parentsOf[id] : m[git.parentsOf[id][i]] = n[git.parentsOf[id][i]]
    BY <1>3, <2>2, NamedAre, RangeIs
  <2> QED
    BY <1>3, <2>1, <2>3, KindsDiffer DEF Content
<1>4. CASE id \in TagIds
  <2>1. m[git.targetOf[id]] = n[git.targetOf[id]]
    BY <1>4, NamedAre
  <2> QED
    BY <1>4, <2>1, KindsDiffer DEF Content
<1> QED
  BY <1>1, <1>2, <1>3, <1>4, KindsDiffer

(* An id that stands for something can be read, and so can all it names.   *)
Standing(m, form) ==
    /\ Elsewhere \in DOMAIN m /\ DOMAIN m \subseteq Ids \cup {Elsewhere} /\ m[Elsewhere] = ZERO
    /\ \A id \in DOMAIN m \ {Elsewhere} :
          /\ Readable(id) /\ ToSet(Named(id)) \subseteq DOMAIN m
          /\ ~(id \in TagIds /\ git.targetOf[id] \in TagIds)
          /\ m[id] = Content(id, m, form)

LEMMA FurtherStands ==
    ASSUME GitFits, NEW m, NEW form, Standing(m, form), DOMAIN m \subseteq {Elsewhere} \cup Understood(DOMAIN m)
    PROVE  LET n == Further(m, form)
           IN  /\ Standing(n, form) /\ DOMAIN n = {Elsewhere} \cup Understood(DOMAIN m)
               /\ DOMAIN n \subseteq {Elsewhere} \cup Understood(DOMAIN n)
<1>1. PICK n : n = Further(m, form)
  OBVIOUS
<1>2. DOMAIN n = {Elsewhere} \cup Understood(DOMAIN m)
  BY <1>1 DEF Further
<1>3. /\ n[Elsewhere] = ZERO
      /\ \A id \in Understood(DOMAIN m) : n[id] = Content(id, m, form)
  BY <1>1, KindsDiffer DEF Further, Understood
<1>4. DOMAIN m \subseteq DOMAIN n
  BY <1>2
<1>5. \A id \in DOMAIN m : n[id] = m[id]
  BY <1>2, <1>3, <1>4 DEF Standing
<1>6. ASSUME NEW id \in DOMAIN n \ {Elsewhere}
      PROVE  /\ Readable(id) /\ ToSet(Named(id)) \subseteq DOMAIN m
             /\ ~(id \in TagIds /\ git.targetOf[id] \in TagIds)
             /\ n[id] = Content(id, m, form)
  BY <1>2, <1>3, <1>6 DEF Understood, Readable
<1>7. ASSUME NEW id \in DOMAIN n \ {Elsewhere} PROVE n[id] = Content(id, n, form)
  <2>1. id \in Ids /\ \A x \in ToSet(Named(id)) : m[x] = n[x]
    BY <1>5, <1>6, <1>7 DEF Readable
  <2>2. Content(id, m, form) = Content(id, n, form)
    BY <2>1, ContentAgrees
  <2> QED
    BY <1>6, <1>7, <2>2
<1>8. Standing(n, form)
  <2>1. DOMAIN n \subseteq Ids \cup {Elsewhere}
    BY <1>2 DEF Understood
  <2> QED
    BY <1>2, <1>3, <1>4, <1>6, <1>7, <2>1 DEF Standing
<1>9. DOMAIN n \subseteq {Elsewhere} \cup Understood(DOMAIN n)
  BY <1>2, <1>4 DEF Understood
<1> QED
  BY <1>1, <1>2, <1>8, <1>9

(* What is true of Elsewhere, and of an id when it is of all it names, is  *)
(* true of every id that stands for something.                             *)
LEMMA MeaningStands ==
    ASSUME GitFits, NEW form
    PROVE  /\ Standing(Meaning(form), form)
           /\ \A Q : /\ Elsewhere \in Q
                     /\ \A id \in DOMAIN Meaning(form) \ {Elsewhere} :
                           ToSet(Named(id)) \subseteq Q => id \in Q
                     => DOMAIN Meaning(form) \subseteq Q
<1>1. PICK N \in Nat : N = Cardinality(Ids)
  BY KindsDiffer, FS_CardinalityType
<1>2. PICK w : /\ Meaning(form) = w[N] /\ w[0] = [id \in {Elsewhere} |-> ZERO]
               /\ \A i \in 1..N : w[i] = Further(w[i - 1], form)
  <2>1. \E w : /\ Meaning(form) = w[Cardinality(Ids)] /\ w[0] = [id \in {Elsewhere} |-> ZERO]
               /\ \A i \in 1..Cardinality(Ids) : w[i] = Further(w[i - 1], form)
    BY <1>1, MeaningIs
  <2> QED
    BY <1>1, <2>1
<1> DEFINE Closed(Q, D) == Elsewhere \in Q /\ \A id \in D \ {Elsewhere} : ToSet(Named(id)) \subseteq Q => id \in Q
           Good(m) == /\ Standing(m, form) /\ DOMAIN m \subseteq {Elsewhere} \cup Understood(DOMAIN m)
                      /\ \A Q : Closed(Q, DOMAIN m) => DOMAIN m \subseteq Q
           P == {k \in 0..N : Good(w[k])}
<1>3. 0 \in P
  <2>1. PICK m : m = [id \in {Elsewhere} |-> ZERO]
    OBVIOUS
  <2>2. DOMAIN m = {Elsewhere} /\ m[Elsewhere] = ZERO
    BY <2>1
  <2>3. Good(m)
    BY <2>2 DEF Standing
  <2> HIDE DEF Good
  <2> QED BY <1>2, <2>1, <2>3
<1>4. ASSUME NEW k \in P, k < N PROVE k + 1 \in P
  <2>1. k \in 0..N /\ k + 1 \in 1..N /\ (k + 1) - 1 = k /\ k + 1 \in 0..N /\ Good(w[k])
    <3> HIDE DEF Good
    <3> QED BY <1>4
  <2>2. PICK m : m = w[k]
    OBVIOUS
  <2>3. PICK n : n = Further(m, form)
    OBVIOUS
  <2>4. w[k + 1] = n
    BY <1>2, <2>1, <2>2, <2>3
  <2>5. Good(m)
    BY <2>1, <2>2
  <2>6. /\ Standing(n, form) /\ DOMAIN n = {Elsewhere} \cup Understood(DOMAIN m)
        /\ DOMAIN n \subseteq {Elsewhere} \cup Understood(DOMAIN n)
    BY <2>3, <2>5, FurtherStands
  <2>7. ASSUME NEW Q, Closed(Q, DOMAIN n) PROVE DOMAIN n \subseteq Q
    <3>1. DOMAIN m \subseteq DOMAIN n
      BY <2>5, <2>6
    <3>2. DOMAIN m \subseteq Q
      BY <2>5, <2>7, <3>1
    <3> QED
      BY <2>6, <2>7, <3>2, KindsDiffer DEF Understood
  <2>8. Good(n)
    <3> HIDE DEF Closed
    <3> QED BY <2>6, <2>7
  <2> HIDE DEF Good
  <2> QED
    BY <2>1, <2>4, <2>8
<1>5. N \in P
  <2>1. \A k \in P : k \in Nat /\ k < N => k + 1 \in P
    BY <1>4
  <2> HIDE DEF P
  <2> QED BY <1>3, <2>1, UpTo, Zenon
<1>6. PICK m : m = Meaning(form)
  OBVIOUS
<1>7. Good(m)
  BY <1>2, <1>5, <1>6
<1> QED
  BY <1>6, <1>7

(* How commits are dated makes no difference to what can be understood. *)
LEMMA SameMeant ==
    ASSUME NEW y, NEW z
    PROVE  DOMAIN Meaning(y) = DOMAIN Meaning(z)
<1>1. PICK N \in Nat : N = Cardinality(Ids)
  BY KindsDiffer, FS_CardinalityType
<1>2. PICK v : /\ Meaning(y) = v[N] /\ v[0] = [id \in {Elsewhere} |-> ZERO]
               /\ \A i \in 1..N : v[i] = Further(v[i - 1], y)
  <2>1. \E w : /\ Meaning(y) = w[Cardinality(Ids)] /\ w[0] = [id \in {Elsewhere} |-> ZERO]
               /\ \A i \in 1..Cardinality(Ids) : w[i] = Further(w[i - 1], y)
    BY <1>1, MeaningIs
  <2> QED
    BY <1>1, <2>1
<1>3. PICK w : /\ Meaning(z) = w[N] /\ w[0] = [id \in {Elsewhere} |-> ZERO]
               /\ \A i \in 1..N : w[i] = Further(w[i - 1], z)
  <2>1. \E w : /\ Meaning(z) = w[Cardinality(Ids)] /\ w[0] = [id \in {Elsewhere} |-> ZERO]
               /\ \A i \in 1..Cardinality(Ids) : w[i] = Further(w[i - 1], z)
    BY <1>1, MeaningIs
  <2> QED
    BY <1>1, <2>1
<1> DEFINE P == {k \in 0..N : DOMAIN v[k] = DOMAIN w[k]}
<1>4. 0 \in P
  BY <1>2, <1>3
<1>5. ASSUME NEW k \in P, k < N PROVE k + 1 \in P
  <2>1. k + 1 \in 1..N /\ (k + 1) - 1 = k /\ k + 1 \in 0..N
    BY <1>5
  <2>2. v[k + 1] = Further(v[k], y) /\ w[k + 1] = Further(w[k], z)
    BY <1>2, <1>3, <2>1
  <2>3. /\ DOMAIN Further(v[k], y) = {Elsewhere} \cup Understood(DOMAIN v[k])
        /\ DOMAIN Further(w[k], z) = {Elsewhere} \cup Understood(DOMAIN w[k])
    BY DEF Further
  <2> QED
    BY <1>5, <2>1, <2>2, <2>3
<1>6. N \in P
  <2>1. \A k \in P : k \in Nat /\ k < N => k + 1 \in P
    BY <1>5
  <2> HIDE DEF P
  <2> QED BY <1>4, <2>1, UpTo, Zenon
<1> QED
  BY <1>2, <1>3, <1>6

-----------------------------------------------------------------------------
(* Topological order. *)

(* The recursion of Kahn. *)
KahnSteps(items, n, w) ==
    w = [i \in 0..n |-> IF i = 0 THEN Chosen(items, Matching(items, LAMBDA x : Free(x, items, {})))
                        ELSE Emit(items, w[i - 1], i)]

LEMMA KahnExists ==
    ASSUME NEW items, NEW n \in Nat
    PROVE  \E w : KahnSteps(items, n, w)
<1> DEFINE P == {m \in Nat : \E w : KahnSteps(items, m, w)}
<1>1. 0 \in P
  <2> DEFINE w == [i \in 0..0 |-> Chosen(items, Matching(items, LAMBDA x : Free(x, items, {})))]
  <2>1. KahnSteps(items, 0, w)
    BY DEF KahnSteps
  <2> QED
    BY <2>1, Zenon
<1>2. ASSUME NEW m \in P \cap Nat PROVE m + 1 \in P
  <2> SUFFICES \E w : KahnSteps(items, m + 1, w)
    OBVIOUS
  <2>1. PICK g : KahnSteps(items, m, g)
    OBVIOUS
  <2> DEFINE F(x, i) == Emit(items, x, i)
             B == Chosen(items, Matching(items, LAMBDA x : Free(x, items, {})))
             w == [i \in 0 .. m + 1 |-> IF i = m + 1 THEN F(g[m], m + 1) ELSE g[i]]
  <2>2. \A i \in 0..m : g[i] = IF i = 0 THEN B ELSE F(g[i - 1], i)
    BY <2>1 DEF KahnSteps
  <2> HIDE DEF F, B
  <2>3. ASSUME NEW i \in 0 .. m + 1
        PROVE  w[i] = IF i = 0 THEN B ELSE F(w[i - 1], i)
    <3>1. CASE i = m + 1
      <4>1. w[i] = F(g[m], m + 1) /\ w[i - 1] = g[m] /\ i # 0
        BY <3>1
      <4> HIDE DEF w
      <4> QED BY <4>1, <3>1
    <3>2. CASE i \in 0..m
      <4>1. w[i] = g[i] /\ (i # 0 => w[i - 1] = g[i - 1])
        BY <3>2
      <4> HIDE DEF w
      <4> QED BY <4>1, <3>2, <2>2
    <3> QED
      BY <3>1, <3>2
  <2>4. w = [i \in 0 .. m + 1 |-> w[i]]
    OBVIOUS
  <2>5. KahnSteps(items, m + 1, w)
    <3> HIDE DEF w
    <3> QED BY <2>3, <2>4 DEF KahnSteps, F, B
  <2> QED
    BY <2>5, Zenon
<1>3. Nat \subseteq P
  <2> HIDE DEF P
  <2> QED BY <1>1, <1>2, SetInduction, Zenon
<1> QED
  BY <1>3

LEMMA KahnIs ==
    ASSUME NEW items, Len(items) \in Nat
    PROVE  \E w : /\ Kahn(items) = w[Len(items)]
                  /\ w[0] = Chosen(items, {i \in 1..Len(items) : Free(items[i], items, {})})
                  /\ \A i \in 1..Len(items) : w[i] = Emit(items, w[i - 1], i)
<1>1. PICK N \in Nat : N = Len(items)
  OBVIOUS
<1> DEFINE w == CHOOSE g : KahnSteps(items, N, g)
<1>2. KahnSteps(items, N, w)
  BY <1>1, KahnExists, Zenon
<1>3. Kahn(items) = w[N]
  BY <1>1, Zenon DEF Kahn, KahnSteps
<1> HIDE DEF w
<1> DEFINE B == Chosen(items, Matching(items, LAMBDA x : Free(x, items, {})))
<1>4. B = Chosen(items, {i \in 1..Len(items) : Free(items[i], items, {})})
  BY DEF Matching
<1>5. w = [i \in 0..N |-> IF i = 0 THEN B ELSE Emit(items, w[i - 1], i)]
  BY <1>2 DEF KahnSteps
<1> HIDE DEF B
<1>6. w[0] = B /\ \A i \in 1..N : w[i] = Emit(items, w[i - 1], i)
  <2>1. 0 \in 0..N /\ \A i \in 1..N : i \in 0..N /\ i # 0
    OBVIOUS
  <2> QED
    BY <1>5, <2>1
<1> QED
  BY <1>1, <1>3, <1>4, <1>6

(* Kahn's algorithm emits an object after what it names, and every object  *)
(* all of whose names it emits.                                            *)
LEMMA KahnOrders ==
    ASSUME NEW items \in Seq(Ids), Distinct(items), NEW sorted, sorted = Kahn(items)
    PROVE  /\ sorted \in Seq(Ids) /\ Distinct(sorted) /\ ToSet(sorted) \subseteq ToSet(items)
           /\ \A x \in ToSet(items) :
                 ToSet(Named(x)) \cap ToSet(items) \subseteq ToSet(sorted) => x \in ToSet(sorted)
           /\ \A p \in 1..Len(sorted) : \A n \in ToSet(Named(sorted[p])) \cap ToSet(items) :
                 \E q \in 1..(p - 1) : sorted[q] = n
<1>1. PICK N \in Nat : N = Len(items)
  OBVIOUS
<1>2. PICK w : /\ sorted = w[N]
               /\ w[0] = Chosen(items, {i \in 1..N : Free(items[i], items, {})})
               /\ \A i \in 1..N : w[i] = Emit(items, w[i - 1], i)
  <2>1. \E w : /\ Kahn(items) = w[Len(items)]
               /\ w[0] = Chosen(items, {i \in 1..Len(items) : Free(items[i], items, {})})
               /\ \A i \in 1..Len(items) : w[i] = Emit(items, w[i - 1], i)
    BY <1>1, KahnIs
  <2> QED
    BY <1>1, <2>1
<1>3. /\ \A i \in 1..N : items[i] \in ToSet(items)
      /\ \A x \in ToSet(items) : \E i \in 1..N : items[i] = x
      /\ ToSet(items) \subseteq Ids
  BY <1>1, RangeIs
<1> DEFINE FreeAt(D) == {x \in ToSet(items) : Free(x, items, D)}
           Gone(s, k) == {s[i] : i \in (1..k) \cap (1..Len(s))}
           Good(s, k) == /\ s \in Seq(Ids) /\ Distinct(s) /\ ToSet(s) = FreeAt(Gone(s, k))
                         /\ \A p \in 1..Len(s) : \A n \in ToSet(Named(s[p])) \cap ToSet(items) :
                               \E q \in 1..(p - 1) : s[q] = n
           P == {k \in 0..N : Good(w[k], k)}
<1>4. 0 \in P
  <2>1. PICK s : s = w[0]
    OBVIOUS
  <2> DEFINE is == {i \in 1..N : Free(items[i], items, {})}
  <2>2. \A i, j \in (1..Len(items)) \cap is : items[i] = items[j] => i = j
    BY <1>1 DEF Distinct
  <2>3. \A i \in (1..Len(items)) \cap is : Free(items[i], items, {})
    OBVIOUS
  <2>4. {items[i] : i \in (1..Len(items)) \cap is} = FreeAt({})
    BY <1>1, <1>3
  <2>5. s = Chosen(items, is)
    BY <1>2, <2>1
  <2> HIDE DEF is, FreeAt
  <2>6. s \in Seq(Ids) /\ Distinct(s) /\ ToSet(s) = FreeAt({})
    <3>1. /\ Chosen(items, is) \in Seq(Ids) /\ Distinct(Chosen(items, is))
          /\ ToSet(Chosen(items, is)) = {items[i] : i \in (1..Len(items)) \cap is}
      BY <2>2, ChosenHas
    <3> QED
      BY <2>4, <2>5, <3>1, Zenon
  <2>7. Gone(s, 0) = {}
    OBVIOUS
  <2>8. ASSUME NEW p \in 1..Len(s), NEW n \in ToSet(Named(s[p])) \cap ToSet(items) PROVE FALSE
    <3>1. s[p] \in FreeAt({})
      BY <2>6, RangeIs
    <3> QED
      BY <2>8, <3>1 DEF FreeAt, Free
  <2>9. Good(s, 0)
    BY <2>6, <2>7, <2>8
  <2> HIDE DEF Good
  <2> QED BY <2>1, <2>9
<1>5. ASSUME NEW k \in P, k < N PROVE k + 1 \in P
  <2>1. k \in 0..N /\ k + 1 \in 1..N /\ (k + 1) - 1 = k /\ k + 1 \in 0..N /\ Good(w[k], k)
    <3> HIDE DEF Good
    <3> QED BY <1>5
  <2>2. PICK s : s = w[k]
    OBVIOUS
  <2>3. w[k + 1] = Emit(items, s, k + 1) /\ Good(s, k)
    <3> HIDE DEF Good
    <3> QED BY <1>2, <2>1, <2>2
  <2>4. CASE k + 1 > Len(s)
    <3>1. w[k + 1] = s
      BY <2>3, <2>4 DEF Emit
    <3>2. (1..(k + 1)) \cap (1..Len(s)) = (1..k) \cap (1..Len(s))
      BY <2>1, <2>3, <2>4
    <3>3. Gone(s, k + 1) = Gone(s, k)
      BY <3>2
    <3>4. Good(s, k + 1)
      <4> HIDE DEF Gone
      <4> QED BY <2>3, <3>3
    <3> HIDE DEF Good
    <3> QED
      BY <2>1, <3>1, <3>4
  <2>5. CASE k + 1 <= Len(s)
    <3> DEFINE C == Done(s, k)
               D == Done(s, k + 1)
               is == {i \in 1..N : ~Free(items[i], items, C) /\ Free(items[i], items, D)}
    <3>1. PICK m \in Nat : m = Len(s)
      BY <2>3
    <3>2. Gone(s, k) = C
      BY <2>1, <2>5, <3>1 DEF Done
    <3>3. Emit(items, s, k + 1) = s \o Chosen(items, is)
      <4>1. ~(k + 1 > Len(s))
        BY <2>1, <2>5, <3>1
      <4> QED
        BY <1>1, <2>1, <4>1 DEF Emit, Matching
    <3>4. C \subseteq D
      BY <2>1 DEF Done
    <3>5. FreeAt(C) \subseteq FreeAt(D)
      BY <3>4 DEF Free
    <3>6. \A i, j \in (1..Len(items)) \cap is : items[i] = items[j] => i = j
      BY <1>1 DEF Distinct
    <3>7. {items[i] : i \in (1..Len(items)) \cap is} = FreeAt(D) \ FreeAt(C)
      <4> HIDE DEF C, D
      <4> QED BY <1>1, <1>3
    <3>8. PICK more : more = Chosen(items, is)
      OBVIOUS
    <3> HIDE DEF is, FreeAt
    <3>9. more \in Seq(Ids) /\ Distinct(more) /\ ToSet(more) = FreeAt(D) \ FreeAt(C)
      <4>1. /\ Chosen(items, is) \in Seq(Ids) /\ Distinct(Chosen(items, is))
            /\ ToSet(Chosen(items, is)) = {items[i] : i \in (1..Len(items)) \cap is}
        BY <3>6, ChosenHas, SMTT(20)
      <4> QED
        BY <3>7, <3>8, <4>1, Zenon
    <3>10. s \in Seq(Ids) /\ Distinct(s) /\ ToSet(s) = FreeAt(C)
      <4> HIDE DEF Gone
      <4> QED BY <2>3, <3>2
    <3>11. PICK t : t = s \o more
      OBVIOUS
    <3>12. PICK l \in Nat : l = Len(more)
      BY <3>9
    <3>13. /\ t \in Seq(Ids) /\ Len(t) = m + l
           /\ \A i \in 1..m : t[i] = s[i]
           /\ \A i \in 1..l : t[m + i] = more[i]
           /\ ToSet(t) = ToSet(s) \cup ToSet(more) /\ Distinct(t)
      BY <3>1, <3>9, <3>10, <3>11, <3>12, ConcatHas
    <3>14. ToSet(t) = FreeAt(D)
      BY <3>5, <3>9, <3>10, <3>13
    <3>15. Gone(t, k + 1) = D
      <4>1. \A i \in 1..(k + 1) : i \in 1..Len(t) /\ t[i] = s[i]
        BY <2>1, <2>5, <3>1, <3>12, <3>13, SMTT(20)
      <4> QED
        BY <4>1 DEF Done
    <3>16. ASSUME NEW p \in 1..Len(t), NEW n \in ToSet(Named(t[p])) \cap ToSet(items)
           PROVE  \E q \in 1..(p - 1) : t[q] = n
      <4>1. CASE p \in 1..m
        <5>1. t[p] = s[p]
          BY <3>13, <4>1
        <5>2. PICK q \in 1..(p - 1) : s[q] = n
          <6> HIDE DEF Gone
          <6> QED BY <2>3, <3>1, <3>16, <4>1, <5>1
        <5> QED
          BY <3>13, <4>1, <5>2
      <4>2. CASE p \notin 1..m
        <5>1. PICK i \in 1..l : p = m + i
          <6>1. p - m \in 1..l /\ p = m + (p - m)
            BY <3>13, <4>2
          <6> QED
            BY <6>1
        <5>2. t[p] \in FreeAt(D)
          BY <3>13, <3>14, RangeIs
        <5>3. n \in D
          BY <3>16, <5>2 DEF FreeAt, Free
        <5>4. PICK q \in 1..(k + 1) : s[q] = n
          BY <5>3 DEF Done
        <5>5. q \in 1..(p - 1) /\ q \in 1..m
          BY <2>1, <2>5, <3>1, <5>1
        <5> QED
          BY <3>13, <5>4, <5>5
      <4> QED
        BY <4>1, <4>2
    <3>17. Good(t, k + 1)
      <4> HIDE DEF Gone, D
      <4> QED BY <3>13, <3>14, <3>15, <3>16
    <3>18. w[k + 1] = t
      BY <2>3, <3>3, <3>8, <3>11
    <3> HIDE DEF Good
    <3> QED
      BY <2>1, <3>17, <3>18
  <2> QED
    <3>1. Len(s) \in Nat
      BY <2>3
    <3>2. k + 1 > Len(s) \/ k + 1 <= Len(s)
      BY <2>1, <3>1
    <3> QED
      BY <2>4, <2>5, <3>2, Zenon
<1>6. N \in P
  <2>1. \A k \in P : k \in Nat /\ k < N => k + 1 \in P
    BY <1>5
  <2> HIDE DEF P
  <2> QED BY <1>4, <2>1, UpTo, Zenon
<1>7. Good(sorted, N)
  <2> HIDE DEF Good
  <2> QED BY <1>2, <1>6
<1>8. Len(sorted) <= N
  <2>1. items \in Surjection(1..N, ToSet(items))
    BY <1>1, <1>3 DEF Surjection
  <2>2. IsFiniteSet(1..N) /\ Cardinality(1..N) = N
    BY FS_Interval
  <2>3. IsFiniteSet(ToSet(items)) /\ Cardinality(ToSet(items)) <= N
    BY <2>1, <2>2, FS_Surjection
  <2>4. sorted \in Seq(ToSet(items))
    <3>1. \A i \in 1..Len(sorted) : sorted[i] \in ToSet(sorted)
      BY <1>7, RangeIs
    <3>2. sorted \in Seq(Ids) /\ ToSet(sorted) \subseteq ToSet(items)
      BY <1>7
    <3> QED
      BY <3>1, <3>2
  <2>5. Distinct(sorted) /\ sorted \in Seq(Ids)
    BY <1>7
  <2>6. Len(sorted) <= Cardinality(ToSet(items)) /\ Cardinality(ToSet(items)) \in Nat
    BY <2>3, <2>4, <2>5, DistinctLength
  <2> QED
    BY <2>3, <2>5, <2>6
<1>9. Gone(sorted, N) = ToSet(sorted)
  <2>1. (1..N) \cap (1..Len(sorted)) = 1..Len(sorted) /\ sorted \in Seq(Ids)
    BY <1>7, <1>8
  <2>2. DOMAIN sorted = 1..Len(sorted)
    BY <2>1
  <2> QED
    BY <2>1, <2>2 DEF ToSet
<1>10. ToSet(sorted) = FreeAt(ToSet(sorted))
  <2> HIDE DEF Gone, FreeAt
  <2> QED BY <1>7, <1>9
<1>11. \A x \in ToSet(items) :
          ToSet(Named(x)) \cap ToSet(items) \subseteq ToSet(sorted) => x \in ToSet(sorted)
  BY <1>10 DEF Free
<1> QED
  BY <1>7, <1>10, <1>11

(* TopoSort leaves out nothing, and an object that can be understood comes *)
(* after those of the list that it names.                                  *)
LEMMA TopoOrders ==
    ASSUME GitFits, NEW items \in Seq(Ids), Distinct(items), NEW known, NEW form, known = DOMAIN Meaning(form)
    PROVE  /\ TopoSort(items) \in Seq(Ids) /\ Distinct(TopoSort(items))
           /\ ToSet(TopoSort(items)) = ToSet(items)
           /\ \A p \in 1..Len(TopoSort(items)) : TopoSort(items)[p] \in known =>
                 \A n \in ToSet(Named(TopoSort(items)[p])) \cap ToSet(items) :
                     \E q \in 1..(p - 1) : TopoSort(items)[q] = n
<1>1. PICK s : s = Kahn(items)
  OBVIOUS
<1>2. /\ s \in Seq(Ids) /\ Distinct(s) /\ ToSet(s) \subseteq ToSet(items)
      /\ \A x \in ToSet(items) :
            ToSet(Named(x)) \cap ToSet(items) \subseteq ToSet(s) => x \in ToSet(s)
      /\ \A p \in 1..Len(s) : \A n \in ToSet(Named(s[p])) \cap ToSet(items) :
            \E q \in 1..(p - 1) : s[q] = n
  BY <1>1, KahnOrders
<1> DEFINE is == {i \in 1..Len(items) : items[i] \notin ToSet(s)}
<1>3. PICK rest : rest = Chosen(items, is)
  OBVIOUS
<1>4. \A i, j \in (1..Len(items)) \cap is : items[i] = items[j] => i = j
  BY DEF Distinct
<1>5. /\ rest \in Seq(Ids) /\ Distinct(rest)
      /\ ToSet(rest) = {items[i] : i \in (1..Len(items)) \cap is}
  <2> HIDE DEF is
  <2> QED BY <1>3, <1>4, ChosenHas
<1>6. ToSet(rest) = ToSet(items) \ ToSet(s)
  BY <1>5, RangeIs
<1>7. PICK t : t = TopoSort(items)
  OBVIOUS
<1>8. t = s \o rest
  BY <1>1, <1>3, <1>7 DEF TopoSort, Matching
<1>9. PICK m \in Nat : m = Len(s)
  BY <1>2
<1>10. PICK l \in Nat : l = Len(rest)
  BY <1>5
<1>11. /\ t \in Seq(Ids) /\ Len(t) = m + l
       /\ \A i \in 1..m : t[i] = s[i]
       /\ \A i \in 1..l : t[m + i] = rest[i]
       /\ ToSet(t) = ToSet(items) /\ Distinct(t)
  <2>1. ToSet(s) \cap ToSet(rest) = {} /\ ToSet(s) \cup ToSet(rest) = ToSet(items)
    BY <1>2, <1>6
  <2> QED
    <3>1. /\ s \o rest \in Seq(Ids) /\ Len(s \o rest) = Len(s) + Len(rest)
          /\ \A i \in 1..Len(s) : (s \o rest)[i] = s[i]
          /\ \A i \in 1..Len(rest) : (s \o rest)[Len(s) + i] = rest[i]
          /\ ToSet(s \o rest) = ToSet(s) \cup ToSet(rest)
          /\ Distinct(s) /\ Distinct(rest) /\ ToSet(s) \cap ToSet(rest) = {} => Distinct(s \o rest)
      BY <1>2, <1>5, ConcatHas
    <3>2. Distinct(t)
      BY <1>2, <1>5, <1>8, <2>1, <3>1
    <3> HIDE DEF is
    <3> QED
      BY <1>8, <1>9, <1>10, <2>1, <3>1, <3>2
<1>12. \A x \in known \cap ToSet(items) : x \in ToSet(s)
  <2> DEFINE Q == {Elsewhere} \cup {x \in known : x \in ToSet(items) => x \in ToSet(s)}
  <2>1. ASSUME NEW x \in known \ {Elsewhere}, ToSet(Named(x)) \subseteq Q PROVE x \in Q
    <3>1. ASSUME x \in ToSet(items) PROVE x \in ToSet(s)
      <4>1. \A n \in ToSet(Named(x)) \cap ToSet(items) : n \in ToSet(s)
        <5>1. Elsewhere \notin ToSet(items)
          BY KindsDiffer, RangeIs
        <5> QED
          BY <2>1, <5>1
      <4> QED
        BY <1>2, <3>1, <4>1
    <3> QED
      BY <2>1, <3>1
  <2>2. Elsewhere \in Q
    OBVIOUS
  <2>3. Elsewhere \notin ToSet(items)
    BY KindsDiffer, RangeIs
  <2>4. known \subseteq Q
    <3> HIDE DEF Q
    <3> QED BY <2>1, <2>2, MeaningStands
  <2> QED
    BY <2>3, <2>4
<1>13. ASSUME NEW p \in 1..Len(t), t[p] \in known, NEW n \in ToSet(Named(t[p])) \cap ToSet(items)
       PROVE  \E q \in 1..(p - 1) : t[q] = n
  <2>1. t[p] \in ToSet(s)
    <3>1. t[p] \in ToSet(items)
      BY <1>11, RangeIs
    <3> QED
      BY <1>12, <1>13, <3>1
  <2>2. PICK a \in 1..m : s[a] = t[p]
    BY <1>2, <1>9, <2>1, RangeIs
  <2>3. a = p
    <3>1. a \in 1..Len(t) /\ t[a] = t[p]
      BY <1>11, <2>2
    <3>2. Distinct(t)
      BY <1>11
    <3> QED
      BY <3>1, <3>2 DEF Distinct
  <2>4. PICK q \in 1..(p - 1) : s[q] = n
    BY <1>2, <1>9, <1>13, <2>2, <2>3
  <2>5. q \in 1..m
    BY <2>2, <2>3, <2>4
  <2> QED
    BY <1>11, <2>4, <2>5
<1> QED
  BY <1>7, <1>11, <1>13

-----------------------------------------------------------------------------
(* The order in which the import takes the objects. *)

(* Objects that can be understood come after all they name, unless that is *)
(* before the list.                                                        *)
Ordered(s, known, before) ==
    \A p \in 1..Len(s) : s[p] \in known =>
        \A n \in ToSet(Named(s[p])) \ {Elsewhere} : n \in before \/ \E q \in 1..(p - 1) : s[q] = n

LEMMA ConcatOrders ==
    ASSUME NEW s \in Seq(Ids), NEW t \in Seq(Ids), NEW known,
           Ordered(s, known, {}), Ordered(t, known, ToSet(s))
    PROVE  Ordered(s \o t, known, {})
<1>1. PICK m \in Nat : m = Len(s)
  OBVIOUS
<1>2. PICK l \in Nat : l = Len(t)
  OBVIOUS
<1>3. PICK c : c = s \o t
  OBVIOUS
<1>4. /\ c \in Seq(Ids) /\ Len(c) = m + l
      /\ \A i \in 1..m : c[i] = s[i]
      /\ \A i \in 1..l : c[m + i] = t[i]
  BY <1>1, <1>2, <1>3, ConcatHas
<1>5. ASSUME NEW p \in 1..(m + l), c[p] \in known, NEW n \in ToSet(Named(c[p])) \ {Elsewhere}
      PROVE  \E q \in 1..(p - 1) : c[q] = n
  <2>1. CASE p \in 1..m
    <3>1. PICK q \in 1..(p - 1) : s[q] = n
      BY <1>1, <1>4, <1>5, <2>1 DEF Ordered
    <3> QED
      BY <1>4, <2>1, <3>1
  <2>2. CASE p \notin 1..m
    <3>1. PICK i \in 1..l : p = m + i
      <4>1. p - m \in 1..l /\ p = m + (p - m)
        BY <2>2
      <4> QED
        BY <4>1
    <3>2. n \in ToSet(s) \/ \E q \in 1..(i - 1) : t[q] = n
      BY <1>2, <1>4, <1>5, <3>1 DEF Ordered
    <3>3. CASE n \in ToSet(s)
      <4>1. PICK q \in 1..m : s[q] = n
        BY <1>1, <3>3, RangeIs
      <4>2. q \in 1..(p - 1)
        BY <3>1
      <4> QED
        BY <1>4, <4>1, <4>2
    <3>4. ASSUME NEW q \in 1..(i - 1), t[q] = n PROVE \E a \in 1..(p - 1) : c[a] = n
      <4>1. m + q \in 1..(p - 1) /\ q \in 1..l
        BY <3>1
      <4> QED
        BY <1>4, <3>4, <4>1
    <3> QED
      BY <3>2, <3>3, <3>4
  <2> QED
    BY <2>1, <2>2
<1> QED
  BY <1>3, <1>4, <1>5 DEF Ordered

(* The objects of a kind that the walk found and could read. *)
LEMMA OfHas ==
    ASSUME NEW seen \in Seq(Ids \cup {Elsewhere}), Distinct(seen), NEW S, NEW of,
           of = Chosen(seen, {i \in 1..Len(seen) : seen[i] \in S /\ Readable(seen[i])})
    PROVE  of \in Seq(Ids) /\ Distinct(of) /\ ToSet(of) = {id \in ToSet(seen) \cap S : Readable(id)}
<1> DEFINE is == {i \in 1..Len(seen) : seen[i] \in S /\ Readable(seen[i])}
<1>1. \A i, j \in (1..Len(seen)) \cap is : seen[i] = seen[j] => i = j
  BY DEF Distinct
<1>2. {seen[i] : i \in (1..Len(seen)) \cap is} = {id \in ToSet(seen) \cap S : Readable(id)}
  BY RangeIs
<1> HIDE DEF is
<1>3. /\ Chosen(seen, is) \in Seq(Ids \cup {Elsewhere}) /\ Distinct(Chosen(seen, is))
      /\ ToSet(Chosen(seen, is)) = {seen[i] : i \in (1..Len(seen)) \cap is}
  BY <1>1, ChosenHas
<1>4. of = Chosen(seen, is)
  BY DEF is
<1>5. of \in Seq(Ids \cup {Elsewhere}) /\ Distinct(of) /\ ToSet(of) = {id \in ToSet(seen) \cap S : Readable(id)}
  BY <1>2, <1>3, <1>4, Zenon
<1>6. \A i \in 1..Len(of) : of[i] \in ToSet(of)
  BY <1>5, RangeIs
<1>7. \A i \in 1..Len(of) : of[i] \in Ids
  BY <1>5, <1>6 DEF Readable
<1> QED
  BY <1>5, <1>7

LEMMA OrderIs ==
    ASSUME GitFits, NEW order, order = bfs_objects, NEW known, NEW form, known = DOMAIN Meaning(form)
    PROVE  /\ order \in Seq(Ids) /\ Distinct(order) /\ Ordered(order, known, {})
           /\ \A r \in TrueRefs : TrueRef(r) \in known => TrueRef(r) \in ToSet(order)
<1>1. PICK seen : seen = Bfs(SetToSeq(RefTargets))
  OBVIOUS
<1>2. /\ seen \in Seq(Ids \cup {Elsewhere}) /\ Distinct(seen)
      /\ RefTargets \subseteq ToSet(seen)
      /\ \A id \in ToSet(seen) : Readable(id) => ToSet(Named(id)) \subseteq ToSet(seen)
  BY <1>1, WalkComplete
<1> DEFINE Of(S) == Chosen(seen, {i \in 1..Len(seen) : seen[i] \in S /\ Readable(seen[i])})
           Reached(S) == {id \in ToSet(seen) \cap S : Readable(id)}
<1>3. PICK B : B = Of(BlobIds)
  OBVIOUS
<1>4. PICK t : t = Of(TreeIds)
  OBVIOUS
<1>5. PICK c : c = Of(CommitIds)
  OBVIOUS
<1>6. PICK G : G = Of(TagIds)
  OBVIOUS
<1>7. B \in Seq(Ids) /\ Distinct(B) /\ ToSet(B) = Reached(BlobIds)
  BY <1>2, <1>3, OfHas
<1>8. t \in Seq(Ids) /\ Distinct(t) /\ ToSet(t) = Reached(TreeIds)
  BY <1>2, <1>4, OfHas
<1>9. c \in Seq(Ids) /\ Distinct(c) /\ ToSet(c) = Reached(CommitIds)
  BY <1>2, <1>5, OfHas
<1>10. G \in Seq(Ids) /\ Distinct(G) /\ ToSet(G) = Reached(TagIds)
  BY <1>2, <1>6, OfHas
<1>11. PICK T : T = TopoSort(t)
  OBVIOUS
<1>12. PICK C : C = TopoSort(c)
  OBVIOUS
<1>13. order = B \o T \o C \o G
  BY <1>1, <1>3, <1>4, <1>5, <1>6, <1>11, <1>12 DEF bfs_objects, Matching
<1>14. /\ T \in Seq(Ids) /\ Distinct(T) /\ ToSet(T) = Reached(TreeIds)
       /\ \A p \in 1..Len(T) : T[p] \in known =>
              \A n \in ToSet(Named(T[p])) \cap Reached(TreeIds) : \E q \in 1..(p - 1) : T[q] = n
  <2> HIDE DEF Reached
  <2>1. /\ TopoSort(t) \in Seq(Ids) /\ Distinct(TopoSort(t)) /\ ToSet(TopoSort(t)) = ToSet(t)
        /\ \A p \in 1..Len(TopoSort(t)) : TopoSort(t)[p] \in known =>
              \A n \in ToSet(Named(TopoSort(t)[p])) \cap ToSet(t) : \E q \in 1..(p - 1) : TopoSort(t)[q] = n
    BY <1>8, TopoOrders
  <2> QED
    BY <1>8, <1>11, <2>1, Zenon
<1>15. /\ C \in Seq(Ids) /\ Distinct(C) /\ ToSet(C) = Reached(CommitIds)
       /\ \A p \in 1..Len(C) : C[p] \in known =>
              \A n \in ToSet(Named(C[p])) \cap Reached(CommitIds) : \E q \in 1..(p - 1) : C[q] = n
  <2> HIDE DEF Reached
  <2>1. /\ TopoSort(c) \in Seq(Ids) /\ Distinct(TopoSort(c)) /\ ToSet(TopoSort(c)) = ToSet(c)
        /\ \A p \in 1..Len(TopoSort(c)) : TopoSort(c)[p] \in known =>
              \A n \in ToSet(Named(TopoSort(c)[p])) \cap ToSet(c) : \E q \in 1..(p - 1) : TopoSort(c)[q] = n
    BY <1>9, TopoOrders
  <2> QED
    BY <1>9, <1>12, <2>1, Zenon
<1> HIDE DEF Of
<1>16. /\ Reached(BlobIds) \cap Reached(TreeIds) = {}
       /\ (Reached(BlobIds) \cup Reached(TreeIds)) \cap Reached(CommitIds) = {}
       /\ (Reached(BlobIds) \cup Reached(TreeIds) \cup Reached(CommitIds)) \cap Reached(TagIds) = {}
  BY KindsDiffer DEF Readable
<1>17. ASSUME NEW id \in known \cap ToSet(seen), id \in Ids, NEW n \in ToSet(Named(id)) \ {Elsewhere}
       PROVE  /\ n \in known /\ n \in Ids /\ n \in ToSet(seen) /\ Readable(n)
              /\ ~(id \in TagIds /\ n \in TagIds)
  <2>1. Standing(Meaning(form), form) /\ id # Elsewhere
    BY <1>17, MeaningStands, KindsDiffer
  <2>2. Readable(id) /\ n \in known /\ ~(id \in TagIds /\ git.targetOf[id] \in TagIds)
    BY <1>17, <2>1 DEF Standing
  <2>3. Readable(n) /\ n \in Ids
    BY <1>17, <2>1, <2>2 DEF Standing, Readable
  <2>4. n \in ToSet(seen)
    BY <1>2, <1>17, <2>2
  <2>5. id \in TagIds => n = git.targetOf[id]
    BY <1>17, NamedAre
  <2> QED
    BY <2>2, <2>3, <2>4, <2>5
<1>18. Ordered(B, known, {})
  <2> SUFFICES ASSUME NEW p \in 1..Len(B), NEW n \in ToSet(Named(B[p])) PROVE FALSE
    BY DEF Ordered
  <2>1. B[p] \in BlobIds /\ B[p] \in Ids
    BY <1>7, RangeIs, KindsDiffer
  <2> QED
    BY <2>1, NamedAre
<1>19. Ordered(T, known, ToSet(B))
  <2> SUFFICES ASSUME NEW p \in 1..Len(T), T[p] \in known, NEW n \in ToSet(Named(T[p])) \ {Elsewhere}
               PROVE  n \in Reached(BlobIds) \/ \E q \in 1..(p - 1) : T[q] = n
    BY <1>7 DEF Ordered
  <2>1. T[p] \in TreeIds /\ T[p] \in ToSet(seen) /\ T[p] \in Ids
    BY <1>14, RangeIs, KindsDiffer
  <2>2. n \in BlobIds \cup TreeIds
    <3>1. PICK a \in DOMAIN EntriesOf[T[p]] : n = EntriesOf[T[p]][a].id
      BY <2>1, NamedAre
    <3> QED
      BY <2>1, <3>1, EntriesFit
  <2>3. n \in ToSet(seen) /\ Readable(n)
    BY <1>17, <2>1
  <2> QED
    BY <1>14, <2>2, <2>3
<1>20. Ordered(C, known, Reached(BlobIds) \cup Reached(TreeIds))
  <2> SUFFICES ASSUME NEW p \in 1..Len(C), C[p] \in known, NEW n \in ToSet(Named(C[p])) \ {Elsewhere}
               PROVE  n \in Reached(TreeIds) \/ \E q \in 1..(p - 1) : C[q] = n
    BY DEF Ordered
  <2>1. C[p] \in CommitIds /\ C[p] \in ToSet(seen) /\ C[p] \in Ids
    BY <1>15, RangeIs, KindsDiffer
  <2>2. n \in TreeIds \cup CommitIds
    <3>1. n = TreeOf[C[p]] \/ n \in ToSet(git.parentsOf[C[p]])
      BY <2>1, NamedAre
    <3>2. TreeOf[C[p]] \in TreeIds /\ git.parentsOf[C[p]] \in Seq(CommitIds)
      BY <2>1, BridgeAssumption DEF GitFits
    <3> QED
      BY <3>1, <3>2, RangeIs
  <2>3. n \in ToSet(seen) /\ Readable(n)
    BY <1>17, <2>1
  <2> QED
    BY <1>15, <2>2, <2>3
<1>21. Ordered(G, known, Reached(BlobIds) \cup Reached(TreeIds) \cup Reached(CommitIds))
  <2> SUFFICES ASSUME NEW p \in 1..Len(G), G[p] \in known, NEW n \in ToSet(Named(G[p])) \ {Elsewhere}
               PROVE  n \in Reached(BlobIds) \cup Reached(TreeIds) \cup Reached(CommitIds)
    BY DEF Ordered
  <2>1. G[p] \in TagIds /\ G[p] \in ToSet(seen) /\ G[p] \in Ids
    BY <1>10, RangeIs, KindsDiffer
  <2>2. n \in ToSet(seen) /\ Readable(n) /\ n \in Ids /\ n \notin TagIds
    BY <1>17, <2>1
  <2> QED
    BY <2>2, KindsDiffer
<1>22. PICK BT : BT = B \o T
  OBVIOUS
<1>23. /\ BT \in Seq(Ids) /\ Distinct(BT) /\ ToSet(BT) = Reached(BlobIds) \cup Reached(TreeIds)
       /\ Ordered(BT, known, {})
  <2> HIDE DEF Reached
  <2>1. BT \in Seq(Ids) /\ ToSet(BT) = ToSet(B) \cup ToSet(T) /\ Ordered(BT, known, {})
    BY <1>7, <1>14, <1>18, <1>19, <1>22, ConcatHas, ConcatOrders
  <2>2. Distinct(BT)
    BY <1>7, <1>14, <1>16, <1>22, ConcatHas
  <2> QED
    BY <1>7, <1>14, <2>1, <2>2
<1>24. PICK BTC : BTC = BT \o C
  OBVIOUS
<1>25. /\ BTC \in Seq(Ids) /\ Distinct(BTC)
       /\ ToSet(BTC) = Reached(BlobIds) \cup Reached(TreeIds) \cup Reached(CommitIds)
       /\ Ordered(BTC, known, {})
  <2> HIDE DEF Reached
  <2>1. BTC \in Seq(Ids) /\ ToSet(BTC) = ToSet(BT) \cup ToSet(C) /\ Ordered(BTC, known, {})
    BY <1>15, <1>20, <1>23, <1>24, ConcatHas, ConcatOrders
  <2>2. Distinct(BTC)
    BY <1>15, <1>16, <1>23, <1>24, ConcatHas
  <2> QED
    BY <1>15, <1>23, <2>1, <2>2
<1>26. /\ order \in Seq(Ids) /\ Distinct(order)
       /\ ToSet(order) = Reached(BlobIds) \cup Reached(TreeIds) \cup Reached(CommitIds) \cup Reached(TagIds)
       /\ Ordered(order, known, {})
  <2> HIDE DEF Reached
  <2>1. order = BTC \o G
    BY <1>13, <1>22, <1>24
  <2>2. order \in Seq(Ids) /\ ToSet(order) = ToSet(BTC) \cup ToSet(G) /\ Ordered(order, known, {})
    <3>1. Ordered(G, known, ToSet(BTC))
      BY <1>21, <1>25
    <3>2. BTC \o G \in Seq(Ids) /\ ToSet(BTC \o G) = ToSet(BTC) \cup ToSet(G)
      BY <1>10, <1>25, ConcatHas
    <3>3. Ordered(BTC \o G, known, {})
      BY <1>10, <1>25, <3>1, ConcatOrders
    <3> QED
      BY <2>1, <3>2, <3>3
  <2>3. Distinct(order)
    BY <1>10, <1>16, <1>25, <2>1, ConcatHas
  <2> QED
    BY <1>10, <1>25, <2>2, <2>3
<1>27. ASSUME NEW r \in TrueRefs, TrueRef(r) \in known PROVE TrueRef(r) \in ToSet(order)
  <2>1. TrueRef(r) \in RefTargets
    BY RootsAre DEF RefTargets
  <2>2. TrueRef(r) \in ToSet(seen) /\ TrueRef(r) \in Ids /\ TrueRef(r) # Elsewhere
    BY <1>2, <2>1, RootsAre, KindsDiffer
  <2>3. Readable(TrueRef(r))
    BY <1>27, <2>2, MeaningStands DEF Standing
  <2> QED
    BY <1>26, <2>2, <2>3, KindsDiffer
<1> QED
  BY <1>26, <1>27

-----------------------------------------------------------------------------
(* The map the import builds. *)

(* The recursion of ImportMap. *)
ImportMapSteps(order, n, w) ==
    w = [i \in 0..n |-> IF i = 0 THEN <<>>
                        ELSE Insert(w[i - 1], order[i], Convert(order[i], w[i - 1]))]

LEMMA ImportMapExists ==
    ASSUME NEW order, NEW n \in Nat
    PROVE  \E w : ImportMapSteps(order, n, w)
<1> DEFINE P == {m \in Nat : \E w : ImportMapSteps(order, m, w)}
<1>1. 0 \in P
  <2> DEFINE w == [i \in 0..0 |-> <<>>]
  <2>1. ImportMapSteps(order, 0, w)
    BY DEF ImportMapSteps
  <2> QED
    BY <2>1, Zenon
<1>2. ASSUME NEW m \in P \cap Nat PROVE m + 1 \in P
  <2> SUFFICES \E w : ImportMapSteps(order, m + 1, w)
    OBVIOUS
  <2>1. PICK g : ImportMapSteps(order, m, g)
    OBVIOUS
  <2> DEFINE F(x, i) == Insert(x, order[i], Convert(order[i], x))
             B == <<>>
             w == [i \in 0 .. m + 1 |-> IF i = m + 1 THEN F(g[m], m + 1) ELSE g[i]]
  <2>2. \A i \in 0..m : g[i] = IF i = 0 THEN B ELSE F(g[i - 1], i)
    BY <2>1 DEF ImportMapSteps
  <2> HIDE DEF F, B
  <2>3. ASSUME NEW i \in 0 .. m + 1
        PROVE  w[i] = IF i = 0 THEN B ELSE F(w[i - 1], i)
    <3>1. CASE i = m + 1
      <4>1. w[i] = F(g[m], m + 1) /\ w[i - 1] = g[m] /\ i # 0
        BY <3>1
      <4> HIDE DEF w
      <4> QED BY <4>1, <3>1
    <3>2. CASE i \in 0..m
      <4>1. w[i] = g[i] /\ (i # 0 => w[i - 1] = g[i - 1])
        BY <3>2
      <4> HIDE DEF w
      <4> QED BY <4>1, <3>2, <2>2
    <3> QED
      BY <3>1, <3>2
  <2>4. w = [i \in 0 .. m + 1 |-> w[i]]
    OBVIOUS
  <2>5. ImportMapSteps(order, m + 1, w)
    <3> HIDE DEF w
    <3> QED BY <2>3, <2>4 DEF ImportMapSteps, F, B
  <2> QED
    BY <2>5, Zenon
<1>3. Nat \subseteq P
  <2> HIDE DEF P
  <2> QED BY <1>1, <1>2, SetInduction, Zenon
<1> QED
  BY <1>3

LEMMA ImportMapIs ==
    ASSUME NEW order, Len(order) \in Nat
    PROVE  \E w : /\ ImportMap(order) = w[Len(order)] /\ w[0] = <<>>
                  /\ \A i \in 1..Len(order) : w[i] = Insert(w[i - 1], order[i], Convert(order[i], w[i - 1]))
<1>1. PICK N \in Nat : N = Len(order)
  OBVIOUS
<1> DEFINE w == CHOOSE g : ImportMapSteps(order, N, g)
<1>2. ImportMapSteps(order, N, w)
  BY <1>1, ImportMapExists, Zenon
<1>3. ImportMap(order) = w[N]
  BY <1>1, Zenon DEF ImportMap, ImportMapSteps
<1> HIDE DEF w
<1>4. \A i \in 0..N : w[i] = IF i = 0 THEN <<>> ELSE Insert(w[i - 1], order[i], Convert(order[i], w[i - 1]))
  BY <1>2 DEF ImportMapSteps
<1>5. w[0] = <<>> /\ \A i \in 1..N : w[i] = Insert(w[i - 1], order[i], Convert(order[i], w[i - 1]))
  <2>1. 0 \in 0..N /\ \A i \in 1..N : i \in 0..N /\ i # 0
    OBVIOUS
  <2> QED
    BY <1>4, <2>1
<1> QED
  BY <1>1, <1>3, <1>5

(* The j-th object was converted with what the map had before it. *)
ConvertedThen(order, map, j) ==
    \E m : /\ DOMAIN m = {order[i] : i \in 1..(j - 1)}
           /\ \A x \in DOMAIN m : m[x] = map[x]
           /\ map[order[j]] = Convert(order[j], m)

LEMMA MapGrows ==
    ASSUME NEW order \in Seq(Ids), Distinct(order), NEW map, map = ImportMap(order)
    PROVE  /\ DOMAIN map = ToSet(order)
           /\ \A j \in 1..Len(order) : ConvertedThen(order, map, j)
<1>1. PICK N \in Nat : N = Len(order)
  OBVIOUS
<1>2. PICK w : /\ map = w[N] /\ w[0] = <<>>
               /\ \A i \in 1..N : w[i] = Insert(w[i - 1], order[i], Convert(order[i], w[i - 1]))
  <2>1. \E w : /\ ImportMap(order) = w[Len(order)] /\ w[0] = <<>>
               /\ \A i \in 1..Len(order) : w[i] = Insert(w[i - 1], order[i], Convert(order[i], w[i - 1]))
    BY <1>1, ImportMapIs
  <2> QED
    BY <1>1, <2>1
<1> DEFINE Upto(k) == {order[i] : i \in 1..k}
           Good(f, k) == /\ DOMAIN f = Upto(k)
                         /\ \A j \in 1..k : \E m :
                               /\ DOMAIN m = Upto(j - 1)
                               /\ \A x \in DOMAIN m : m[x] = f[x]
                               /\ f[order[j]] = Convert(order[j], m)
           P == {k \in 0..N : Good(w[k], k)}
<1>3. 0 \in P
  <2>1. Good(<<>>, 0)
    OBVIOUS
  <2> HIDE DEF Good
  <2> QED BY <1>2, <2>1
<1>4. ASSUME NEW k \in P, k < N PROVE k + 1 \in P
  <2>1. k \in 0..N /\ k + 1 \in 1..N /\ (k + 1) - 1 = k /\ k + 1 \in 0..N /\ Good(w[k], k)
    <3> HIDE DEF Good
    <3> QED BY <1>4
  <2>2. PICK f : f = w[k]
    OBVIOUS
  <2>3. PICK e : e = order[k + 1]
    OBVIOUS
  <2>4. PICK o : o = Convert(e, f)
    OBVIOUS
  <2>5. PICK g : g = Insert(f, e, o)
    OBVIOUS
  <2>6. w[k + 1] = g /\ Good(f, k)
    <3> HIDE DEF Good
    <3> QED BY <1>2, <2>1, <2>2, <2>3, <2>4, <2>5
  <2>7. e \notin DOMAIN f
    BY <1>1, <2>1, <2>3, <2>6 DEF Distinct
  <2>8. DOMAIN g = DOMAIN f \cup {e} /\ g[e] = o /\ \A x \in DOMAIN f : g[x] = f[x]
    BY <2>5, <2>7 DEF Insert
  <2>9. Upto(k + 1) = Upto(k) \cup {e}
    BY <2>1, <2>3
  <2>10. ASSUME NEW j \in 1..(k + 1)
         PROVE  \E m : /\ DOMAIN m = Upto(j - 1)
                       /\ \A x \in DOMAIN m : m[x] = g[x]
                       /\ g[order[j]] = Convert(order[j], m)
    <3>1. CASE j = k + 1
      <4>1. DOMAIN f = Upto(j - 1)
        BY <2>1, <2>6, <3>1
      <4> HIDE DEF Upto, Good
      <4> QED
        BY <2>3, <2>4, <2>8, <3>1, <4>1
    <3>2. CASE j \in 1..k
      <4> HIDE DEF P
      <4>1. PICK m : /\ DOMAIN m = Upto(j - 1)
                     /\ \A x \in DOMAIN m : m[x] = f[x]
                     /\ f[order[j]] = Convert(order[j], m)
        <5> HIDE DEF Upto
        <5> QED BY <2>6, <3>2
      <4>2. order[j] \in Upto(k) /\ Upto(j - 1) \subseteq Upto(k)
        BY <2>1, <3>2
      <4>3. DOMAIN f = Upto(k)
        <5> HIDE DEF Upto
        <5> QED BY <2>6
      <4> HIDE DEF Upto, Good
      <4> QED
        BY <2>8, <4>1, <4>2, <4>3
    <3>3. j = k + 1 \/ j \in 1..k
      BY <2>1
    <3> QED
      BY <3>1, <3>2, <3>3, Zenon
  <2>11. Good(g, k + 1)
    <3>1. DOMAIN f = Upto(k)
      <4> HIDE DEF Upto
      <4> QED BY <2>6
    <3> HIDE DEF Upto
    <3> QED BY <2>8, <2>9, <2>10, <3>1
  <2> HIDE DEF Good
  <2> QED
    BY <2>1, <2>6, <2>11
<1>5. N \in P
  <2>1. \A k \in P : k \in Nat /\ k < N => k + 1 \in P
    BY <1>4
  <2> HIDE DEF P
  <2> QED BY <1>3, <2>1, UpTo, Zenon
<1>6. Good(map, N)
  <2> HIDE DEF Good
  <2> QED BY <1>2, <1>5
<1>7. Upto(N) = ToSet(order)
  BY <1>1, RangeIs
<1>8. \A j \in 1..N : ConvertedThen(order, map, j)
  BY <1>6 DEF ConvertedThen
<1> QED
  BY <1>1, <1>6, <1>7, <1>8

(* The two forms, object by object. *)
LEMMA FormIs ==
    /\ \A t \in TreeIds : \A n \in DOMAIN EntriesOf[t] :
          /\ Here[t][n] = git_mode_to_ovc(EntriesOf[t][n].mode)
          /\ NormalForm[t][n] = NormalMode(EntriesOf[t][n].mode)
    /\ \A id \in CommitIds \cup TagIds : Here[id] = ParseText(id) /\ NormalForm[id] = NormalText(id)
<1>1. ASSUME NEW t \in TreeIds
      PROVE  /\ Here[t] = [n \in DOMAIN EntriesOf[t] |-> git_mode_to_ovc(EntriesOf[t][n].mode)]
             /\ NormalForm[t] = [n \in DOMAIN EntriesOf[t] |-> NormalMode(EntriesOf[t][n].mode)]
  BY DEF Here, NormalForm, Form
<1>2. ASSUME NEW id \in CommitIds \cup TagIds
      PROVE  Here[id] = ParseText(id) /\ NormalForm[id] = NormalText(id)
  <2>1. id \notin TreeIds
    BY KindsDiffer
  <2> QED
    BY <2>1 DEF Here, NormalForm, Form
<1> QED
  BY <1>1, <1>2

(* With all it names in the map, an object is converted to its content. *)
LEMMA ConvertIsContent ==
    ASSUME GitFits, NEW id \in Ids, NEW m, NEW means, means[Elsewhere] = ZERO, Elsewhere \notin DOMAIN m,
           \A n \in ToSet(Named(id)) \ {Elsewhere} : n \in DOMAIN m /\ m[n] = means[n]
    PROVE  Convert(id, m) = Content(id, means, Here)
<1>1. \A n \in ToSet(Named(id)) : MapOr0(m, n) = means[n]
  BY DEF MapOr0
<1>2. CASE id \in BlobIds
  BY <1>2 DEF Convert, Content
<1>3. CASE id \in TreeIds
  <2>1. \A n \in DOMAIN EntriesOf[id] : MapOr0(m, EntriesOf[id][n].id) = means[EntriesOf[id][n].id]
    BY <1>1, <1>3, NamedAre
  <2>2. \A n \in DOMAIN EntriesOf[id] : Here[id][n] = git_mode_to_ovc(EntriesOf[id][n].mode)
    BY <1>3, FormIs
  <2>3. Convert(id, m) = convert_tree(id, m)
    BY <1>3, KindsDiffer DEF Convert
  <2>4. Content(id, means, Here) = [kind |-> "tree", entries |-> [n \in DOMAIN EntriesOf[id] |->
                                [mode |-> Here[id][n], oid |-> means[EntriesOf[id][n].id]]]]
    BY <1>3, KindsDiffer DEF Content
  <2>5. [n \in DOMAIN EntriesOf[id] |->
            [mode |-> git_mode_to_ovc(EntriesOf[id][n].mode), oid |-> MapOr0(m, EntriesOf[id][n].id)]]
        = [n \in DOMAIN EntriesOf[id] |-> [mode |-> Here[id][n], oid |-> means[EntriesOf[id][n].id]]]
    BY <2>1, <2>2
  <2> QED
    BY <2>3, <2>4, <2>5 DEF convert_tree
<1>4. CASE id \in CommitIds
  <2>1. MapOr0(m, TreeOf[id]) = means[TreeOf[id]]
    BY <1>1, <1>4, NamedAre
  <2>2. PICK parents : parents = git.parentsOf[id]
    OBVIOUS
  <2>3. parents \in Seq(CommitIds)
    BY <1>4, <2>2 DEF GitFits
  <2>4. \A i \in 1..Len(parents) : parents[i] \in ToSet(Named(id)) /\ parents[i] # Elsewhere
    BY <1>4, <2>2, <2>3, NamedAre, RangeIs, KindsDiffer
  <2>5. \A i \in 1..Len(parents) : parents[i] \in DOMAIN m /\ m[parents[i]] = means[parents[i]]
    BY <2>4
  <2> DEFINE is == Matching(parents, LAMBDA p : p \in DOMAIN m)
  <2>6. 1..Len(parents) \subseteq is
    BY <2>5 DEF Matching
  <2> HIDE DEF is
  <2>7. Chosen(parents, is) = parents
    BY <2>3, <2>6, ChosenWhole
  <2>8. DOMAIN parents = 1..Len(parents)
    BY <2>3
  <2>9. [i \in 1..Len(parents) |-> m[parents[i]]] = [i \in DOMAIN parents |-> means[parents[i]]]
    BY <2>5, <2>8
  <2>10. Here[id] = ParseText(id)
    BY <1>4, FormIs
  <2>11. Convert(id, m) = [kind |-> "commit", text |-> ParseText(id), tree |-> MapOr0(m, TreeOf[id]),
                          parents |-> [i \in 1..Len(Chosen(parents, is)) |-> m[Chosen(parents, is)[i]]]]
    BY <1>4, <2>2, KindsDiffer DEF Convert, convert_commit, is
  <2>12. Content(id, means, Here) = [kind |-> "commit", text |-> Here[id], tree |-> means[TreeOf[id]],
                          parents |-> [i \in DOMAIN parents |-> means[parents[i]]]]
    BY <1>4, <2>2, KindsDiffer DEF Content
  <2> QED
    BY <2>1, <2>7, <2>9, <2>10, <2>11, <2>12
<1>5. CASE id \in TagIds
  <2>1. MapOr0(m, git.targetOf[id]) = means[git.targetOf[id]]
    BY <1>1, <1>5, NamedAre
  <2>2. Here[id] = ParseText(id)
    BY <1>5, FormIs
  <2> QED
    BY <1>5, <2>1, <2>2, KindsDiffer DEF Convert, Content, convert_tag
<1> QED
  BY <1>2, <1>3, <1>4, <1>5, KindsDiffer

(* What can be understood is imported as what it stands for. *)
LEMMA MapMeans ==
    ASSUME GitFits, NEW order, order = bfs_objects, NEW map, map = ImportMap(order)
    PROVE  \A id \in ToSet(order) \cap DOMAIN Meaning(Here) : map[id] = Meaning(Here)[id]
<1>1. PICK means : means = Meaning(Here)
  OBVIOUS
<1>2. PICK known : known = DOMAIN means
  OBVIOUS
<1>3. order \in Seq(Ids) /\ Distinct(order) /\ Ordered(order, known, {})
  BY <1>1, <1>2, OrderIs
<1>4. Standing(means, Here)
  BY <1>1, MeaningStands
<1> DEFINE Q == {Elsewhere} \cup {x \in known : x \in ToSet(order) => map[x] = means[x]}
<1>5. ASSUME NEW id \in known \ {Elsewhere}, ToSet(Named(id)) \subseteq Q PROVE id \in Q
  <2> SUFFICES ASSUME id \in ToSet(order) PROVE map[id] = means[id]
    BY <1>5
  <2>1. PICK j \in 1..Len(order) : order[j] = id
    BY <1>3, RangeIs
  <2>2. PICK m : /\ DOMAIN m = {order[i] : i \in 1..(j - 1)}
                 /\ \A x \in DOMAIN m : m[x] = map[x]
                 /\ map[order[j]] = Convert(order[j], m)
    <3>1. ConvertedThen(order, map, j)
      BY <1>3, MapGrows
    <3> QED
      BY <3>1 DEF ConvertedThen
  <2>3. \A n \in ToSet(Named(id)) \ {Elsewhere} : n \in DOMAIN m /\ m[n] = means[n]
    <3> TAKE n \in ToSet(Named(id)) \ {Elsewhere}
    <3>1. PICK q \in 1..(j - 1) : order[q] = n
      BY <1>3, <1>5, <2>1 DEF Ordered
    <3>2. q \in 1..Len(order)
      BY <1>3, <3>1
    <3>3. n \in ToSet(order)
      BY <1>3, <3>1, <3>2, RangeIs
    <3>4. map[n] = means[n]
      BY <1>5, <3>3
    <3> QED
      BY <2>2, <3>1, <3>4
  <2>4. id \in Ids /\ means[Elsewhere] = ZERO /\ means[id] = Content(id, means, Here)
    BY <1>2, <1>4, <1>5 DEF Standing, Readable
  <2>5. Elsewhere \notin DOMAIN m
    BY <1>3, <2>2, KindsDiffer
  <2>6. Convert(id, m) = Content(id, means, Here)
    BY <2>3, <2>4, <2>5, ConvertIsContent
  <2> QED
    BY <2>1, <2>2, <2>4, <2>6
<1>6. known \subseteq Q
  <2>1. Elsewhere \in Q
    OBVIOUS
  <2> HIDE DEF Q
  <2> QED BY <1>1, <1>2, <1>5, <2>1, MeaningStands
<1>7. Elsewhere \notin ToSet(order)
  BY <1>3, RangeIs, KindsDiffer
<1> QED
  BY <1>1, <1>2, <1>6, <1>7

LEMMA ImportCarries ==
    ASSUME GitFits, NEW order, order = bfs_objects, NEW map, map = ImportMap(order),
           ovc = Imported(map, read_git_refs)
    PROVE  ImportFaithful
<1>1. PICK means : means = Meaning(Here)
  OBVIOUS
<1> SUFFICES ASSUME NEW r \in KeptRefs, TrueRef(r) \in DOMAIN means
             PROVE  r \in DOMAIN ovc.refs /\ ovc.refs[r] = means[TrueRef(r)]
  BY <1>1 DEF ImportFaithful
<1>7. r \in TrueRefs /\ r \in Branches \cup (Tags \ LongNames)
  BY DEF KeptRefs
<1>2. order \in Seq(Ids) /\ Distinct(order) /\ TrueRef(r) \in ToSet(order)
  BY <1>1, <1>7, OrderIs
<1>3. DOMAIN map = ToSet(order)
  BY <1>2, MapGrows
<1>4. map[TrueRef(r)] = means[TrueRef(r)]
  BY <1>1, <1>2, MapMeans
<1>5. DOMAIN read_git_refs = TrueRefs /\ read_git_refs[r] = TrueRef(r)
  BY <1>7, RootsAre
<1>6. ovc.refs = [x \in {y \in DOMAIN read_git_refs : /\ read_git_refs[y] \in DOMAIN map
                                                    /\ y \in Branches \cup (Tags \ LongNames)} |->
                     map[read_git_refs[x]]]
  BY DEF Imported
<1> QED
  BY <1>2, <1>3, <1>4, <1>5, <1>6, <1>7

-----------------------------------------------------------------------------
(* The objects an import makes. *)

LEMMA ParentsAre ==
    ASSUME GitFits, NEW c \in CommitIds, NEW m
    PROVE  convert_commit(c, m).parents \in Seq({m[p] : p \in DOMAIN m \cap CommitIds})
<1> DEFINE S == {m[p] : p \in DOMAIN m \cap CommitIds}
<1>1. PICK all : all = git.parentsOf[c]
  OBVIOUS
<1>2. all \in Seq(CommitIds)
  BY <1>1 DEF GitFits
<1> DEFINE is == Matching(all, LAMBDA p : p \in DOMAIN m)
<1>3. \A i \in (1..Len(all)) \cap is : all[i] \in DOMAIN m
  BY DEF Matching
<1> HIDE DEF is
<1>4. PICK parents : parents = Chosen(all, is)
  OBVIOUS
<1>5. parents \in Seq(CommitIds) /\ ToSet(parents) = {all[i] : i \in (1..Len(all)) \cap is}
  BY <1>2, <1>4, ChosenHas
<1>6. \A i \in 1..Len(parents) : parents[i] \in DOMAIN m /\ parents[i] \in CommitIds
  BY <1>3, <1>5, RangeIs
<1>7. PICK n \in Nat : n = Len(parents)
  BY <1>5
<1>8. [i \in 1..n |-> m[parents[i]]] \in Seq(S)
  BY <1>6, <1>7
<1>9. convert_commit(c, m).parents = [i \in 1..n |-> m[parents[i]]]
  BY <1>1, <1>4, <1>7 DEF convert_commit, is
<1> QED
  BY <1>8, <1>9

(* What an imported object names is null or was imported before it. *)
TreeFollows(order, map, j) ==
    LET o == map[order[j]]
    IN  \A a \in DOMAIN o.entries : o.entries[a].oid = ZERO \/
            \E i \in 1..(j - 1) : o.entries[a].oid = map[order[i]] /\ order[i] \in BlobIds \cup TreeIds
CommitFollows(order, map, j) ==
    LET o == map[order[j]]
    IN  /\ o.tree = ZERO \/ \E i \in 1..(j - 1) : o.tree = map[order[i]] /\ order[i] \in TreeIds
        /\ o.parents \in Seq({map[order[i]] : i \in {l \in 1..(j - 1) : order[l] \in CommitIds}})

LEMMA ImportFollows ==
    ASSUME GitFits, NEW order \in Seq(Ids), Distinct(order), NEW map, map = ImportMap(order),
           NEW j \in 1..Len(order)
    PROVE  /\ order[j] \in BlobIds => map[order[j]] = [kind |-> "blob", data |-> order[j]]
           /\ order[j] \in TreeIds => map[order[j]].kind = "tree" /\ TreeFollows(order, map, j)
           /\ order[j] \in CommitIds => map[order[j]].kind = "commit" /\ CommitFollows(order, map, j)
           /\ order[j] \in TagIds => map[order[j]].kind = "tag"
<1>1. ConvertedThen(order, map, j)
  BY MapGrows
<1>2. PICK m : /\ DOMAIN m = {order[i] : i \in 1..(j - 1)}
               /\ \A x \in DOMAIN m : m[x] = map[x]
               /\ map[order[j]] = Convert(order[j], m)
  BY <1>1 DEF ConvertedThen
<1>3. PICK id \in Ids : id = order[j]
  OBVIOUS
<1>4. PICK o : o = map[id]
  OBVIOUS
<1>5. o = Convert(id, m)
  BY <1>2, <1>3, <1>4
<1>6. ASSUME NEW x PROVE MapOr0(m, x) = ZERO \/ \E i \in 1..(j - 1) : MapOr0(m, x) = map[order[i]] /\ order[i] = x
  BY <1>2 DEF MapOr0
<1>7. ASSUME id \in BlobIds PROVE o = [kind |-> "blob", data |-> id]
  BY <1>5, <1>7, KindsDiffer DEF Convert
<1>8. ASSUME id \in TreeIds PROVE o.kind = "tree" /\ TreeFollows(order, map, j)
  <2>1. o = [kind |-> "tree",
             entries |-> [n \in DOMAIN EntriesOf[id] |->
               [mode |-> git_mode_to_ovc(EntriesOf[id][n].mode), oid |-> MapOr0(m, EntriesOf[id][n].id)]]]
    BY <1>5, <1>8, KindsDiffer DEF Convert, convert_tree
  <2>2. o.kind = "tree" /\ DOMAIN o.entries = DOMAIN EntriesOf[id]
    BY <2>1
  <2>3. ASSUME NEW a \in DOMAIN o.entries
        PROVE  o.entries[a].oid = ZERO \/
                 \E i \in 1..(j - 1) : o.entries[a].oid = map[order[i]] /\ order[i] \in BlobIds \cup TreeIds
    <3>1. PICK x : x = EntriesOf[id][a].id
      OBVIOUS
    <3>2. o.entries[a].oid = MapOr0(m, x)
      BY <2>1, <2>3, <3>1
    <3>3. x \in BlobIds \cup TreeIds \cup {Elsewhere}
      BY <1>8, <2>2, <3>1, EntriesFit
    <3>4. CASE MapOr0(m, x) = ZERO
      BY <3>2, <3>4
    <3>5. ASSUME NEW i \in 1..(j - 1), MapOr0(m, x) = map[order[i]], order[i] = x
          PROVE  order[i] \in BlobIds \cup TreeIds
      <4>1. i \in 1..Len(order)
        OBVIOUS
      <4>2. order[i] \in Ids
        BY <4>1
      <4> QED
        BY <3>3, <3>5, <4>2, KindsDiffer
    <3> QED
      BY <1>6, <3>2, <3>4, <3>5
  <2> QED
    BY <1>3, <1>4, <2>2, <2>3 DEF TreeFollows
<1>9. ASSUME id \in CommitIds PROVE o.kind = "commit" /\ CommitFollows(order, map, j)
  <2>1. o = convert_commit(id, m)
    BY <1>5, <1>9, KindsDiffer DEF Convert
  <2>2. o.kind = "commit" /\ o.tree = MapOr0(m, TreeOf[id])
    BY <2>1 DEF convert_commit
  <2>3. TreeOf[id] \in TreeIds
    BY <1>9, BridgeAssumption
  <2>4. o.tree = ZERO \/ \E i \in 1..(j - 1) : o.tree = map[order[i]] /\ order[i] \in TreeIds
    BY <1>6, <2>2, <2>3
  <2> DEFINE S == {m[p] : p \in DOMAIN m \cap CommitIds}
             T == {map[order[i]] : i \in {l \in 1..(j - 1) : order[l] \in CommitIds}}
  <2>5. o.parents \in Seq(S)
    BY <1>9, <2>1, ParentsAre
  <2>6. S \subseteq T
    BY <1>2
  <2>7. o.parents \in Seq(T)
    <3> HIDE DEF S, T
    <3> QED BY <2>5, <2>6
  <2> QED
    BY <1>3, <1>4, <2>2, <2>4, <2>7 DEF CommitFollows
<1>10. ASSUME id \in TagIds PROVE o.kind = "tag"
  BY <1>5, <1>10, KindsDiffer DEF Convert, convert_tag
<1> QED
  BY <1>3, <1>4, <1>7, <1>8, <1>9, <1>10

(* What the objects of some ids were made into. *)
Made(map, S) == {map[id] : id \in DOMAIN map \cap S}

LEMMA ObjectsAre ==
    ASSUME GitFits, NEW order \in Seq(Ids), Distinct(order), NEW map, map = ImportMap(order),
           ovc.objects = Made(map, DOMAIN map)
    PROVE  /\ OfKind("blob") = Made(map, BlobIds)
           /\ OfKind("tree") = Made(map, TreeIds)
           /\ OfKind("commit") = Made(map, CommitIds)
           /\ OfKind("tag") = Made(map, TagIds)
           /\ ovc.objects = OfKind("blob") \cup OfKind("tree") \cup OfKind("commit") \cup OfKind("tag")
           /\ ZERO \notin ovc.objects /\ IsFiniteSet(ovc.objects)
<1>1. DOMAIN map = ToSet(order) /\ ToSet(order) \subseteq Ids
  BY MapGrows, RangeIs
<1>2. ASSUME NEW id \in DOMAIN map
      PROVE  /\ id \in BlobIds => map[id].kind = "blob"
             /\ id \in TreeIds => map[id].kind = "tree"
             /\ id \in CommitIds => map[id].kind = "commit"
             /\ id \in TagIds => map[id].kind = "tag"
  <2>1. PICK j \in 1..Len(order) : order[j] = id
    BY <1>1, RangeIs
  <2>2. /\ order[j] \in BlobIds => map[order[j]] = [kind |-> "blob", data |-> order[j]]
        /\ order[j] \in TreeIds => map[order[j]].kind = "tree"
        /\ order[j] \in CommitIds => map[order[j]].kind = "commit"
        /\ order[j] \in TagIds => map[order[j]].kind = "tag"
    BY ImportFollows
  <2> QED
    BY <2>1, <2>2
<1>3. \A id \in DOMAIN map : id \in BlobIds \/ id \in TreeIds \/ id \in CommitIds \/ id \in TagIds
  BY <1>1, KindsDiffer
<1>4. OfKind("blob") = Made(map, BlobIds)
  BY <1>2, <1>3 DEF OfKind, Made
<1>5. OfKind("tree") = Made(map, TreeIds)
  BY <1>2, <1>3 DEF OfKind, Made
<1>6. OfKind("commit") = Made(map, CommitIds)
  BY <1>2, <1>3 DEF OfKind, Made
<1>7. OfKind("tag") = Made(map, TagIds)
  BY <1>2, <1>3 DEF OfKind, Made
<1>8. ovc.objects = OfKind("blob") \cup OfKind("tree") \cup OfKind("commit") \cup OfKind("tag")
  BY <1>2, <1>3 DEF OfKind, Made
<1>9. ZERO \notin ovc.objects
  <2>1. ZERO.kind = "zero"
    BY DEF ZERO
  <2>2. \A id \in DOMAIN map : map[id].kind # "zero"
    BY <1>2, <1>3
  <2> QED
    BY <2>1, <2>2 DEF Made
<1>10. IsFiniteSet(ovc.objects)
  <2>1. IsFiniteSet(DOMAIN map)
    BY <1>1, KindsDiffer, FS_Subset
  <2> DEFINE f == [id \in DOMAIN map |-> map[id]]
  <2>2. f \in Surjection(DOMAIN map, ovc.objects)
    BY DEF Surjection, Made
  <2> QED
    BY <2>1, <2>2, FS_Surjection
<1> QED
  BY <1>4, <1>5, <1>6, <1>7, <1>8, <1>9, <1>10

-----------------------------------------------------------------------------
(* Writing them. *)

Extends(m, n) == DOMAIN m \subseteq DOMAIN n /\ \A x \in DOMAIN m : n[x] = m[x]

(* An object that is ready is written the same when more is written. *)
LEMMA WriteAgrees ==
    ASSUME NEW m, NEW n, Extends(m, n), ZERO \notin DOMAIN n,
           NEW o, NEW S, o.kind # "tree" => o.parents \in Seq(S), ZERO \notin S, ObjectReady(m, o)
    PROVE  ObjectReady(n, o) /\ WriteObject(n, o) = WriteObject(m, o)
<1>1. \A x : CanName(m, x) => CanName(n, x) /\ MapOr0(m, x) = MapOr0(n, x)
  BY DEF CanName, MapOr0, Extends
<1>2. CASE o.kind = "tree"
  <2>1. \A a \in DOMAIN o.entries : CanName(m, o.entries[a].oid)
    BY <1>2 DEF ObjectReady, TreeReady
  <2>2. ObjectReady(n, o)
    BY <1>1, <1>2, <2>1 DEF ObjectReady, TreeReady
  <2>3. \A a \in DOMAIN o.entries : MapOr0(m, o.entries[a].oid) = MapOr0(n, o.entries[a].oid)
    BY <1>1, <2>1
  <2>4. [a \in DOMAIN o.entries |-> [mode |-> ovc_mode_to_git(o.entries[a].mode), oid |-> MapOr0(m, o.entries[a].oid)]]
        = [a \in DOMAIN o.entries |-> [mode |-> ovc_mode_to_git(o.entries[a].mode), oid |-> MapOr0(n, o.entries[a].oid)]]
    BY <2>3
  <2>5. WriteTree(m, o) = WriteTree(n, o)
    BY <2>4 DEF WriteTree
  <2> QED
    BY <1>2, <2>2, <2>5 DEF WriteObject
<1>3. CASE o.kind # "tree"
  <2>1. PICK parents : parents = o.parents
    OBVIOUS
  <2>2. parents \in Seq(S)
    BY <1>3, <2>1
  <2>3. CanName(m, o.tree) /\ \A i \in 1..Len(parents) : CanName(m, parents[i])
    BY <1>3, <2>1 DEF ObjectReady, CommitReady
  <2>4. ObjectReady(n, o)
    BY <1>1, <1>3, <2>1, <2>3 DEF ObjectReady, CommitReady
  <2>5. \A i \in 1..Len(parents) : parents[i] \in DOMAIN m /\ parents[i] \in DOMAIN n /\ m[parents[i]] = n[parents[i]]
    BY <2>2, <2>3 DEF CanName, Extends
  <2> DEFINE im == Matching(parents, LAMBDA p : p \in DOMAIN m)
             in == Matching(parents, LAMBDA p : p \in DOMAIN n)
  <2>6. 1..Len(parents) \subseteq im /\ 1..Len(parents) \subseteq in
    BY <2>5 DEF Matching
  <2> HIDE DEF im, in
  <2>7. Chosen(parents, im) = parents /\ Chosen(parents, in) = parents
    BY <2>2, <2>6, ChosenWhole
  <2>8. [i \in 1..Len(parents) |-> m[parents[i]]] = [i \in 1..Len(parents) |-> n[parents[i]]]
    BY <2>5
  <2>9. WriteCommit(m, o) = [kind |-> "commit", text |-> SerializeText(o.text), tree |-> MapOr0(m, o.tree),
                             parents |-> [i \in 1..Len(parents) |-> m[parents[i]]]]
    BY <2>1, <2>7 DEF WriteCommit, im
  <2>10. WriteCommit(n, o) = [kind |-> "commit", text |-> SerializeText(o.text), tree |-> MapOr0(n, o.tree),
                              parents |-> [i \in 1..Len(parents) |-> n[parents[i]]]]
    BY <2>1, <2>7 DEF WriteCommit, in
  <2>11. MapOr0(m, o.tree) = MapOr0(n, o.tree)
    BY <1>1, <2>3
  <2>12. WriteCommit(m, o) = WriteCommit(n, o)
    BY <2>8, <2>9, <2>10, <2>11
  <2> QED
    BY <1>3, <2>4, <2>12 DEF WriteObject
<1> QED
  BY <1>2, <1>3

LEMMA PassHas ==
    ASSUME NEW objects, NEW m, NEW n, n = Pass(objects, m)
    PROVE  /\ DOMAIN n = DOMAIN m \cup {o \in objects \ DOMAIN m : ObjectReady(m, o)}
           /\ Extends(m, n)
<1>1. PICK ready : ready = {o \in objects \ DOMAIN m : ObjectReady(m, o)}
  OBVIOUS
<1>2. n = [o \in DOMAIN m \cup ready |-> IF o \in ready THEN WriteObject(m, o) ELSE m[o]]
  BY <1>1 DEF Pass
<1>3. DOMAIN n = DOMAIN m \cup ready
  BY <1>2
<1>4. \A x \in DOMAIN m : x \notin ready
  BY <1>1
<1>5. \A x \in DOMAIN m : n[x] = m[x]
  BY <1>2, <1>4
<1> QED
  BY <1>1, <1>3, <1>5 DEF Extends

LEMMA PassNew ==
    ASSUME NEW objects, NEW m, NEW o \in objects \ DOMAIN m, ObjectReady(m, o)
    PROVE  Pass(objects, m)[o] = WriteObject(m, o)
  BY DEF Pass

(* The recursion of Passes. *)
PassesSteps(objects, written, n, w) ==
    w = [i \in 0..n |-> IF i = 0 THEN written
                        ELSE Pass(objects, w[i - 1])]

LEMMA PassesExists ==
    ASSUME NEW objects, NEW written, NEW n \in Nat
    PROVE  \E w : PassesSteps(objects, written, n, w)
<1> DEFINE P == {m \in Nat : \E w : PassesSteps(objects, written, m, w)}
<1>1. 0 \in P
  <2> DEFINE w == [i \in 0..0 |-> written]
  <2>1. PassesSteps(objects, written, 0, w)
    BY DEF PassesSteps
  <2> QED
    BY <2>1, Zenon
<1>2. ASSUME NEW m \in P \cap Nat PROVE m + 1 \in P
  <2> SUFFICES \E w : PassesSteps(objects, written, m + 1, w)
    OBVIOUS
  <2>1. PICK g : PassesSteps(objects, written, m, g)
    OBVIOUS
  <2> DEFINE F(x, i) == Pass(objects, x)
             B == written
             w == [i \in 0 .. m + 1 |-> IF i = m + 1 THEN F(g[m], m + 1) ELSE g[i]]
  <2>2. \A i \in 0..m : g[i] = IF i = 0 THEN B ELSE F(g[i - 1], i)
    BY <2>1 DEF PassesSteps
  <2> HIDE DEF F, B
  <2>3. ASSUME NEW i \in 0 .. m + 1
        PROVE  w[i] = IF i = 0 THEN B ELSE F(w[i - 1], i)
    <3>1. CASE i = m + 1
      <4>1. w[i] = F(g[m], m + 1) /\ w[i - 1] = g[m] /\ i # 0
        BY <3>1
      <4> HIDE DEF w
      <4> QED BY <4>1, <3>1
    <3>2. CASE i \in 0..m
      <4>1. w[i] = g[i] /\ (i # 0 => w[i - 1] = g[i - 1])
        BY <3>2
      <4> HIDE DEF w
      <4> QED BY <4>1, <3>2, <2>2
    <3> QED
      BY <3>1, <3>2
  <2>4. w = [i \in 0 .. m + 1 |-> w[i]]
    OBVIOUS
  <2>5. PassesSteps(objects, written, m + 1, w)
    <3> HIDE DEF w
    <3> QED BY <2>3, <2>4 DEF PassesSteps, F, B
  <2> QED
    BY <2>5, Zenon
<1>3. Nat \subseteq P
  <2> HIDE DEF P
  <2> QED BY <1>1, <1>2, SetInduction, Zenon
<1> QED
  BY <1>3

LEMMA PassesIs ==
    ASSUME NEW objects, NEW written, Cardinality(Ids) \in Nat
    PROVE  \E w : /\ Passes(objects, written) = w[Cardinality(Ids)] /\ w[0] = written
                  /\ \A i \in 1..Cardinality(Ids) : w[i] = Pass(objects, w[i - 1])
<1>1. PICK N \in Nat : N = Cardinality(Ids)
  OBVIOUS
<1> DEFINE w == CHOOSE g : PassesSteps(objects, written, N, g)
<1>2. PassesSteps(objects, written, N, w)
  BY <1>1, PassesExists, Zenon
<1>3. Passes(objects, written) = w[N]
  BY <1>1, Zenon DEF Passes, PassesSteps
<1> HIDE DEF w
<1>4. \A i \in 0..N : w[i] = IF i = 0 THEN written ELSE Pass(objects, w[i - 1])
  BY <1>2 DEF PassesSteps
<1>5. w[0] = written /\ \A i \in 1..N : w[i] = Pass(objects, w[i - 1])
  <2>1. 0 \in 0..N /\ \A i \in 1..N : i \in 0..N /\ i # 0
    OBVIOUS
  <2> QED
    BY <1>4, <2>1
<1> QED
  BY <1>1, <1>3, <1>5

(* What the passes write is what it should be, given all that is written. *)
LEMMA PassesWrite ==
    ASSUME NEW objects, NEW written, NEW f, f = Passes(objects, written), ZERO \notin objects \cup DOMAIN written,
           \A o \in objects : o.kind # "tree" => o.parents \in Seq(objects)
    PROVE  /\ Extends(written, f) /\ DOMAIN f \subseteq DOMAIN written \cup objects
           /\ \A o \in DOMAIN f \ DOMAIN written : ObjectReady(f, o) /\ f[o] = WriteObject(f, o)
<1>1. PICK N \in Nat : N = Cardinality(Ids)
  BY KindsDiffer, FS_CardinalityType
<1>2. PICK w : /\ f = w[N] /\ w[0] = written
               /\ \A i \in 1..N : w[i] = Pass(objects, w[i - 1])
  <2>1. \E w : /\ Passes(objects, written) = w[Cardinality(Ids)] /\ w[0] = written
               /\ \A i \in 1..Cardinality(Ids) : w[i] = Pass(objects, w[i - 1])
    BY <1>1, PassesIs
  <2> QED
    BY <1>1, <2>1
<1> DEFINE Good(m) == /\ Extends(written, m) /\ DOMAIN m \subseteq DOMAIN written \cup objects
                      /\ \A o \in DOMAIN m \ DOMAIN written : ObjectReady(m, o) /\ m[o] = WriteObject(m, o)
           P == {k \in 0..N : Good(w[k])}
<1>3. 0 \in P
  <2>1. Good(written)
    BY DEF Extends
  <2> HIDE DEF Good
  <2> QED BY <1>2, <2>1
<1>4. ASSUME NEW k \in P, k < N PROVE k + 1 \in P
  <2>1. k \in 0..N /\ k + 1 \in 1..N /\ (k + 1) - 1 = k /\ k + 1 \in 0..N /\ Good(w[k])
    <3> HIDE DEF Good
    <3> QED BY <1>4
  <2>2. PICK m : m = w[k]
    OBVIOUS
  <2>3. PICK n : n = Pass(objects, m)
    OBVIOUS
  <2>4. w[k + 1] = n /\ Good(m)
    <3> HIDE DEF Good
    <3> QED BY <1>2, <2>1, <2>2, <2>3
  <2>5. /\ DOMAIN n = DOMAIN m \cup {o \in objects \ DOMAIN m : ObjectReady(m, o)}
        /\ Extends(m, n)
        /\ \A o \in objects \ DOMAIN m : ObjectReady(m, o) => n[o] = WriteObject(m, o)
    <3> HIDE DEF Good, P
    <3>1. DOMAIN n = DOMAIN m \cup {o \in objects \ DOMAIN m : ObjectReady(m, o)} /\ Extends(m, n)
      BY <2>3, PassHas
    <3>2. ASSUME NEW o \in objects \ DOMAIN m, ObjectReady(m, o) PROVE n[o] = WriteObject(m, o)
      BY <2>3, <3>2, PassNew
    <3> QED
      BY <3>1, <3>2
  <2>6. Extends(written, n) /\ DOMAIN n \subseteq DOMAIN written \cup objects
    BY <2>4, <2>5 DEF Extends
  <2>7. ASSUME NEW o \in DOMAIN n \ DOMAIN written PROVE ObjectReady(n, o) /\ n[o] = WriteObject(n, o)
    <3>1. ObjectReady(m, o) /\ n[o] = WriteObject(m, o)
      <4>1. CASE o \in DOMAIN m
        BY <2>4, <2>5, <2>7, <4>1 DEF Extends
      <4>2. CASE o \notin DOMAIN m
        BY <2>5, <2>7, <4>2
      <4> QED
        BY <4>1, <4>2
    <3>2. o \in objects /\ ZERO \notin DOMAIN n /\ ZERO \notin objects
      BY <2>6, <2>7
    <3>3. o.kind # "tree" => o.parents \in Seq(objects)
      BY <3>2
    <3>4. ObjectReady(n, o) /\ WriteObject(n, o) = WriteObject(m, o)
      BY <2>5, <3>1, <3>2, <3>3, WriteAgrees
    <3> QED
      BY <3>1, <3>4
  <2>8. Good(n)
    BY <2>6, <2>7
  <2> HIDE DEF Good
  <2> QED
    BY <2>1, <2>4, <2>8
<1>5. N \in P
  <2>1. \A k \in P : k \in Nat /\ k < N => k + 1 \in P
    BY <1>4
  <2> HIDE DEF P
  <2> QED BY <1>3, <2>1, UpTo, Zenon
<1>6. Good(f)
  <2> HIDE DEF Good
  <2> QED BY <1>2, <1>5
<1> QED
  BY <1>6

(* An object of the list is ready once those before it are written.        *)
ReadyInTurn(objects, written, s, L) ==
    \A m : \A j \in 1..L : (/\ s[j] \in objects /\ Extends(written, m)
                            /\ \A i \in 1..(j - 1) : s[i] \in objects => s[i] \in DOMAIN m)
                           => ObjectReady(m, s[j])

(* Then there are passes enough for all of them.                           *)
LEMMA PassesSuffice ==
    ASSUME NEW objects, NEW written, NEW f, f = Passes(objects, written),
           NEW L \in Nat, L <= Cardinality(Ids), NEW s,
           \A o \in objects : \E j \in 1..L : s[j] = o,
           ReadyInTurn(objects, written, s, L)
    PROVE  objects \subseteq DOMAIN f
<1>1. PICK N \in Nat : N = Cardinality(Ids)
  BY KindsDiffer, FS_CardinalityType
<1>2. PICK w : /\ f = w[N] /\ w[0] = written
               /\ \A i \in 1..N : w[i] = Pass(objects, w[i - 1])
  <2>1. \E w : /\ Passes(objects, written) = w[Cardinality(Ids)] /\ w[0] = written
               /\ \A i \in 1..Cardinality(Ids) : w[i] = Pass(objects, w[i - 1])
    BY <1>1, PassesIs
  <2> QED
    BY <1>1, <2>1
<1> DEFINE Good(m, k) == /\ Extends(written, m)
                         /\ \A j \in 1..k : j <= L /\ s[j] \in objects => s[j] \in DOMAIN m
           P == {k \in 0..N : Good(w[k], k)}
<1>3. 0 \in P
  <2>1. Good(written, 0)
    BY DEF Extends
  <2> HIDE DEF Good
  <2> QED BY <1>2, <2>1
<1>4. ASSUME NEW k \in P, k < N PROVE k + 1 \in P
  <2>1. k \in 0..N /\ k + 1 \in 1..N /\ (k + 1) - 1 = k /\ k + 1 \in 0..N /\ Good(w[k], k)
    <3> HIDE DEF Good
    <3> QED BY <1>4
  <2>2. PICK m : m = w[k]
    OBVIOUS
  <2>3. PICK n : n = Pass(objects, m)
    OBVIOUS
  <2>4. w[k + 1] = n /\ Good(m, k)
    <3> HIDE DEF Good
    <3> QED BY <1>2, <2>1, <2>2, <2>3
  <2>5. /\ DOMAIN n = DOMAIN m \cup {o \in objects \ DOMAIN m : ObjectReady(m, o)}
        /\ Extends(m, n)
    BY <2>3, PassHas
  <2>6. Extends(written, n)
    BY <2>4, <2>5 DEF Extends
  <2>7. ASSUME NEW j \in 1..(k + 1), j <= L, s[j] \in objects PROVE s[j] \in DOMAIN n
    <3>1. CASE j \in 1..k
      BY <2>4, <2>5, <2>7, <3>1
    <3>2. CASE j = k + 1
      <4>1. \A i \in 1..(j - 1) : s[i] \in objects => s[i] \in DOMAIN m
        <5>1. \A i \in 1..(j - 1) : i \in 1..k /\ i <= L
          BY <2>1, <2>7, <3>2
        <5> QED
          BY <2>4, <5>1
      <4>2. j \in 1..L /\ Extends(written, m)
        BY <2>1, <2>4, <2>7, <3>2
      <4>3. ObjectReady(m, s[j])
        BY <2>7, <4>1, <4>2 DEF ReadyInTurn
      <4> QED
        BY <2>5, <2>7, <4>3
    <3>3. j \in 1..k \/ j = k + 1
      BY <2>1
    <3> QED
      BY <3>1, <3>2, <3>3, Zenon
  <2>8. Good(n, k + 1)
    BY <2>6, <2>7
  <2> HIDE DEF Good
  <2> QED
    BY <2>1, <2>4, <2>8
<1>5. N \in P
  <2>1. \A k \in P : k \in Nat /\ k < N => k + 1 \in P
    BY <1>4
  <2> HIDE DEF P
  <2> QED BY <1>3, <2>1, UpTo, Zenon
<1>6. Good(f, N)
  <2> HIDE DEF Good
  <2> QED BY <1>2, <1>5
<1> QED
  BY <1>1, <1>6

(* The recursion of ExportTags. *)
TagsSteps(order, written, n, w) ==
    w = [i \in 0..n |-> IF i = 0 THEN written
                        ELSE Insert(w[i - 1], order[i], WriteTag(w[i - 1], order[i]))]

LEMMA TagsExists ==
    ASSUME NEW order, NEW written, NEW n \in Nat
    PROVE  \E w : TagsSteps(order, written, n, w)
<1> DEFINE P == {m \in Nat : \E w : TagsSteps(order, written, m, w)}
<1>1. 0 \in P
  <2> DEFINE w == [i \in 0..0 |-> written]
  <2>1. TagsSteps(order, written, 0, w)
    BY DEF TagsSteps
  <2> QED
    BY <2>1, Zenon
<1>2. ASSUME NEW m \in P \cap Nat PROVE m + 1 \in P
  <2> SUFFICES \E w : TagsSteps(order, written, m + 1, w)
    OBVIOUS
  <2>1. PICK g : TagsSteps(order, written, m, g)
    OBVIOUS
  <2> DEFINE F(x, i) == Insert(x, order[i], WriteTag(x, order[i]))
             B == written
             w == [i \in 0 .. m + 1 |-> IF i = m + 1 THEN F(g[m], m + 1) ELSE g[i]]
  <2>2. \A i \in 0..m : g[i] = IF i = 0 THEN B ELSE F(g[i - 1], i)
    BY <2>1 DEF TagsSteps
  <2> HIDE DEF F, B
  <2>3. ASSUME NEW i \in 0 .. m + 1
        PROVE  w[i] = IF i = 0 THEN B ELSE F(w[i - 1], i)
    <3>1. CASE i = m + 1
      <4>1. w[i] = F(g[m], m + 1) /\ w[i - 1] = g[m] /\ i # 0
        BY <3>1
      <4> HIDE DEF w
      <4> QED BY <4>1, <3>1
    <3>2. CASE i \in 0..m
      <4>1. w[i] = g[i] /\ (i # 0 => w[i - 1] = g[i - 1])
        BY <3>2
      <4> HIDE DEF w
      <4> QED BY <4>1, <3>2, <2>2
    <3> QED
      BY <3>1, <3>2
  <2>4. w = [i \in 0 .. m + 1 |-> w[i]]
    OBVIOUS
  <2>5. TagsSteps(order, written, m + 1, w)
    <3> HIDE DEF w
    <3> QED BY <2>3, <2>4 DEF TagsSteps, F, B
  <2> QED
    BY <2>5, Zenon
<1>3. Nat \subseteq P
  <2> HIDE DEF P
  <2> QED BY <1>1, <1>2, SetInduction, Zenon
<1> QED
  BY <1>3

LEMMA TagsIs ==
    ASSUME NEW order, NEW written, Len(order) \in Nat
    PROVE  \E w : /\ ExportTags(order, written) = w[Len(order)] /\ w[0] = written
                  /\ \A i \in 1..Len(order) : w[i] = Insert(w[i - 1], order[i], WriteTag(w[i - 1], order[i]))
<1>1. PICK N \in Nat : N = Len(order)
  OBVIOUS
<1> DEFINE w == CHOOSE g : TagsSteps(order, written, N, g)
<1>2. TagsSteps(order, written, N, w)
  BY <1>1, TagsExists, Zenon
<1>3. ExportTags(order, written) = w[N]
  BY <1>1, Zenon DEF ExportTags, TagsSteps
<1> HIDE DEF w
<1>4. \A i \in 0..N : w[i] = IF i = 0 THEN written ELSE Insert(w[i - 1], order[i], WriteTag(w[i - 1], order[i]))
  BY <1>2 DEF TagsSteps
<1>5. w[0] = written /\ \A i \in 1..N : w[i] = Insert(w[i - 1], order[i], WriteTag(w[i - 1], order[i]))
  <2>1. 0 \in 0..N /\ \A i \in 1..N : i \in 0..N /\ i # 0
    OBVIOUS
  <2> QED
    BY <1>4, <2>1
<1> QED
  BY <1>1, <1>3, <1>5

(* Tags are written in any order; one whose target is written keeps it. *)
TargetsKept(tags, written, f) ==
    \A o \in tags : o.target \in DOMAIN written => f[o] = [kind |-> "tag", text |-> SerializeText(o.text), target |-> written[o.target]]

LEMMA TagsWrite ==
    ASSUME NEW tags, IsFiniteSet(tags), NEW order \in SetToSeqs(tags), NEW written, tags \cap DOMAIN written = {},
           NEW f, f = ExportTags(order, written)
    PROVE  /\ DOMAIN f = DOMAIN written \cup tags /\ Extends(written, f)
           /\ TargetsKept(tags, written, f)
<1>1. PICK N \in Nat : N = Cardinality(tags)
  BY FS_CardinalityType
<1>2. order \in [1..N -> tags] /\ \A i, j \in 1..N : i # j => order[i] # order[j]
  BY <1>1 DEF SetToSeqs
<1>3. Len(order) = N
  BY <1>2
<1>4. {order[i] : i \in 1..N} = tags
  <2>1. order \in Injection(1..N, tags)
    BY <1>2 DEF Injection, IsInjective
  <2>2. IsFiniteSet(1..N) /\ Cardinality(1..N) = N
    BY FS_Interval
  <2>3. order \in Surjection(1..N, tags)
    BY <1>1, <2>1, <2>2, FS_Injection, Zenon
  <2> QED
    BY <1>2, <2>3 DEF Surjection
<1>5. PICK w : /\ f = w[N] /\ w[0] = written
               /\ \A i \in 1..N : w[i] = Insert(w[i - 1], order[i], WriteTag(w[i - 1], order[i]))
  <2>1. \E w : /\ ExportTags(order, written) = w[Len(order)] /\ w[0] = written
               /\ \A i \in 1..Len(order) : w[i] = Insert(w[i - 1], order[i], WriteTag(w[i - 1], order[i]))
    BY <1>3, TagsIs
  <2> QED
    BY <1>3, <2>1
<1> DEFINE Upto(k) == {order[i] : i \in 1..k}
           Good(m, k) == /\ DOMAIN m = DOMAIN written \cup Upto(k) /\ Extends(written, m)
                         /\ \A o \in Upto(k) : o.target \in DOMAIN written =>
                               m[o] = [kind |-> "tag", text |-> SerializeText(o.text), target |-> written[o.target]]
           P == {k \in 0..N : Good(w[k], k)}
<1>6. 0 \in P
  <2>1. Good(written, 0)
    BY DEF Extends
  <2> HIDE DEF Good
  <2> QED BY <1>5, <2>1
<1>7. ASSUME NEW k \in P, k < N PROVE k + 1 \in P
  <2>1. k \in 0..N /\ k + 1 \in 1..N /\ (k + 1) - 1 = k /\ k + 1 \in 0..N /\ Good(w[k], k)
    <3> HIDE DEF Good
    <3> QED BY <1>7
  <2>2. PICK m : m = w[k]
    OBVIOUS
  <2>3. PICK e : e = order[k + 1]
    OBVIOUS
  <2>4. PICK v : v = WriteTag(m, e)
    OBVIOUS
  <2>5. PICK n : n = Insert(m, e, v)
    OBVIOUS
  <2>6. w[k + 1] = n /\ Good(m, k)
    <3> HIDE DEF Good
    <3> QED BY <1>5, <2>1, <2>2, <2>3, <2>4, <2>5
  <2>7. e \in tags /\ e \notin DOMAIN written /\ e \notin Upto(k)
    BY <1>2, <2>1, <2>3
  <2>8. Upto(k + 1) = Upto(k) \cup {e}
    BY <2>1, <2>3
  <2>9. DOMAIN n = DOMAIN m \cup {e} /\ n[e] = v /\ \A x \in DOMAIN m : x # e => n[x] = m[x]
    BY <2>5 DEF Insert
  <2> HIDE DEF Upto
  <2>10. DOMAIN n = DOMAIN written \cup Upto(k + 1)
    BY <2>6, <2>8, <2>9
  <2>11. Extends(written, n)
    BY <2>6, <2>7, <2>9 DEF Extends
  <2>12. ASSUME NEW o \in Upto(k + 1), o.target \in DOMAIN written
         PROVE  n[o] = [kind |-> "tag", text |-> SerializeText(o.text), target |-> written[o.target]]
    <3>1. CASE o = e
      <4>1. MapOr0(m, e.target) = written[e.target]
        BY <2>6, <2>12, <3>1 DEF MapOr0, Extends
      <4>2. v = [kind |-> "tag", text |-> SerializeText(e.text), target |-> MapOr0(m, e.target)]
        BY <2>4 DEF WriteTag
      <4> QED
        BY <2>9, <3>1, <4>1, <4>2
    <3>2. CASE o \in Upto(k) /\ o # e
      <4>1. o \in DOMAIN m /\ m[o] = [kind |-> "tag", text |-> SerializeText(o.text), target |-> written[o.target]]
        BY <2>6, <2>12, <3>2
      <4> QED
        BY <2>9, <3>2, <4>1
    <3> QED
      BY <2>8, <2>12, <3>1, <3>2
  <2>13. Good(n, k + 1)
    BY <2>10, <2>11, <2>12
  <2> HIDE DEF Good
  <2> QED
    BY <2>1, <2>6, <2>13
<1>8. N \in P
  <2>1. \A k \in P : k \in Nat /\ k < N => k + 1 \in P
    BY <1>7
  <2> HIDE DEF P
  <2> QED BY <1>6, <2>1, UpTo, Zenon
<1>9. Good(f, N)
  <2> HIDE DEF Good
  <2> QED BY <1>5, <1>8
<1> QED
  BY <1>4, <1>9 DEF TargetsKept

(* Everything is written, and given all that is, as it should be. *)
WellWritten(map, f) ==
    /\ DOMAIN f = ovc.objects
    /\ \A id \in DOMAIN map \cap BlobIds : f[map[id]] = map[id]
    /\ \A id \in DOMAIN map \cap TreeIds : f[map[id]] = WriteTree(f, map[id])
    /\ \A id \in DOMAIN map \cap CommitIds : f[map[id]] = WriteCommit(f, map[id])
    /\ \A id \in DOMAIN map \cap TagIds : map[id].target \in ovc.objects \ OfKind("tag") =>
          f[map[id]] = WriteTag(f, map[id])

LEMMA ExportHas ==
    ASSUME GitFits, NEW order \in Seq(Ids), Distinct(order), NEW map, map = ImportMap(order),
           ovc.objects = Made(map, DOMAIN map), NEW tags \in SetToSeqs(OfKind("tag")),
           NEW f, f = ExportMap(tags)
    PROVE  WellWritten(map, f)
<1> DEFINE BlobObjects == OfKind("blob")
           TreeObjects == OfKind("tree")
           CommitObjects == OfKind("commit")
           TagObjects == OfKind("tag")
<1>1. /\ BlobObjects = Made(map, BlobIds)
      /\ TreeObjects = Made(map, TreeIds)
      /\ CommitObjects = Made(map, CommitIds)
      /\ TagObjects = Made(map, TagIds)
      /\ ovc.objects = BlobObjects \cup TreeObjects \cup CommitObjects \cup TagObjects
      /\ ZERO \notin ovc.objects /\ IsFiniteSet(ovc.objects)
  BY ObjectsAre
<1>2. /\ \A o \in BlobObjects : o.kind = "blob"
      /\ \A o \in TreeObjects : o.kind = "tree"
      /\ \A o \in CommitObjects : o.kind = "commit"
      /\ \A o \in TagObjects : o.kind = "tag"
  BY DEF OfKind
<1>3. TagObjects \cap (BlobObjects \cup TreeObjects \cup CommitObjects) = {} /\ CommitObjects \cap (BlobObjects \cup TreeObjects) = {} /\ TreeObjects \cap BlobObjects = {}
  BY <1>2
<1> HIDE DEF BlobObjects, TreeObjects, CommitObjects, TagObjects
<1>4. PICK B : B = [o \in BlobObjects |-> o]
  OBVIOUS
<1>5. PICK T : T = Passes(TreeObjects, B)
  OBVIOUS
<1>6. PICK C : C = Passes(CommitObjects, T)
  OBVIOUS
<1>7. f = ExportTags(tags, C)
  BY <1>4, <1>5, <1>6 DEF ExportMap, BlobObjects, TreeObjects, CommitObjects
<1>8. DOMAIN map = ToSet(order) /\ Len(order) \in Nat /\ Len(order) <= Cardinality(Ids)
  BY MapGrows, DistinctLength, KindsDiffer
<1> DEFINE s == [j \in 1..Len(order) |-> map[order[j]]]
<1>9. ASSUME NEW j \in 1..Len(order)
      PROVE  /\ s[j] = map[order[j]] /\ order[j] \in DOMAIN map
             /\ s[j] \in TreeObjects <=> order[j] \in TreeIds
             /\ s[j] \in CommitObjects <=> order[j] \in CommitIds
  <2>1. PICK id \in DOMAIN map \cap Ids : id = order[j]
    BY <1>8, RangeIs
  <2>2. PICK o : o = map[id]
    OBVIOUS
  <2>3. /\ id \in BlobIds => o \in BlobObjects
        /\ id \in TreeIds => o \in TreeObjects
        /\ id \in CommitIds => o \in CommitObjects
        /\ id \in TagIds => o \in TagObjects
    BY <1>1, <2>2 DEF Made
  <2>4. (o \in TreeObjects <=> id \in TreeIds) /\ (o \in CommitObjects <=> id \in CommitIds)
    BY <1>3, <2>1, <2>3, KindsDiffer
  <2> QED
    BY <2>1, <2>2, <2>4
<1>10. \A o \in TreeObjects \cup CommitObjects : \E j \in 1..Len(order) : s[j] = o
  <2> TAKE o \in TreeObjects \cup CommitObjects
  <2>1. PICK id \in DOMAIN map : map[id] = o
    BY <1>1 DEF Made
  <2>2. PICK j \in 1..Len(order) : order[j] = id
    BY <1>8, <2>1, RangeIs
  <2> QED
    BY <2>1, <2>2
<1>11. PICK list : list = s
  OBVIOUS
<1> HIDE DEF s
(* The trees. *)
<1>11a. ASSUME NEW j \in 1..Len(order), order[j] \in TreeIds
       PROVE  map[order[j]].kind = "tree" /\ TreeFollows(order, map, j)
  <2>1. map[order[j]].kind = "tree"
    BY <1>2, <1>9, <1>11a
  <2>2. TreeFollows(order, map, j)
    BY <1>11a, ImportFollows
  <2> QED
    BY <2>1, <2>2
<1>12. ASSUME NEW j \in 1..Len(order), NEW m, list[j] \in TreeObjects, Extends(B, m),
              \A i \in 1..(j - 1) : list[i] \in TreeObjects => list[i] \in DOMAIN m
       PROVE  ObjectReady(m, list[j])
  <2>1. order[j] \in TreeIds /\ list[j] = map[order[j]]
    BY <1>9, <1>11, <1>12
  <2>2. map[order[j]].kind = "tree" /\ TreeFollows(order, map, j)
    BY <1>11a, <2>1
  <2>3. ASSUME NEW i \in 1..(j - 1), order[i] \in BlobIds \cup TreeIds PROVE map[order[i]] \in DOMAIN m
    <3>1. i \in 1..Len(order)
      BY <1>8
    <3>2. list[i] = map[order[i]] /\ order[i] \in DOMAIN map
      BY <1>9, <1>11, <3>1
    <3>3. CASE order[i] \in BlobIds
      <4>1. map[order[i]] \in BlobObjects
        BY <1>1, <3>2, <3>3 DEF Made
      <4>2. map[order[i]] \in DOMAIN B
        BY <1>4, <4>1
      <4> QED
        BY <1>12, <4>2 DEF Extends
    <3>4. CASE order[i] \in TreeIds
      BY <1>9, <1>11, <1>12, <3>1, <3>2, <3>4
    <3> QED
      BY <2>3, <3>3, <3>4
  <2>4. ASSUME NEW a \in DOMAIN list[j].entries PROVE CanName(m, list[j].entries[a].oid)
    BY <2>1, <2>2, <2>3, <2>4 DEF CanName, TreeFollows
  <2> QED
    BY <2>1, <2>2, <2>4 DEF ObjectReady, TreeReady
<1>13. ZERO \notin TreeObjects \cup DOMAIN B /\ \A o \in TreeObjects : o.kind # "tree" => o.parents \in Seq(TreeObjects)
  BY <1>1, <1>2, <1>4
<1>14. TreeObjects \subseteq DOMAIN T
  <2>1. \A o \in TreeObjects : \E j \in 1..Len(order) : list[j] = o
    BY <1>10, <1>11
  <2>2. ReadyInTurn(TreeObjects, B, list, Len(order))
    BY <1>12 DEF ReadyInTurn
  <2> QED
    BY <1>5, <1>8, <2>1, <2>2, PassesSuffice
<1>15. /\ Extends(B, T) /\ DOMAIN T \subseteq DOMAIN B \cup TreeObjects
       /\ \A o \in DOMAIN T \ DOMAIN B : ObjectReady(T, o) /\ T[o] = WriteObject(T, o)
  BY <1>5, <1>13, PassesWrite
<1>16. DOMAIN B = BlobObjects /\ DOMAIN T = BlobObjects \cup TreeObjects
  BY <1>4, <1>14, <1>15 DEF Extends
(* The commits. *)
<1>17. ASSUME NEW j \in 1..Len(order), list[j] \in CommitObjects
       PROVE  /\ order[j] \in CommitIds /\ list[j] = map[order[j]]
              /\ map[order[j]].kind = "commit" /\ CommitFollows(order, map, j)
  <2>1. order[j] \in CommitIds /\ list[j] = map[order[j]]
    BY <1>9, <1>11, <1>17
  <2> QED
    BY <2>1, ImportFollows, ZenonT(20)
<1>18. ASSUME NEW j \in 1..Len(order), NEW m, list[j] \in CommitObjects, Extends(T, m),
              \A i \in 1..(j - 1) : list[i] \in CommitObjects => list[i] \in DOMAIN m
       PROVE  ObjectReady(m, list[j])
  <2>1. list[j] = map[order[j]] /\ map[order[j]].kind = "commit" /\ CommitFollows(order, map, j)
    BY <1>17, <1>18
  <2>2. \A i \in 1..(j - 1) : i \in 1..Len(order)
    BY <1>8
  <2>3. CanName(m, list[j].tree)
    <3>1. CASE list[j].tree = ZERO
      BY <3>1 DEF CanName
    <3>2. ASSUME NEW i \in 1..(j - 1), list[j].tree = map[order[i]], order[i] \in TreeIds
          PROVE  list[j].tree \in DOMAIN m
      <4>1. map[order[i]] \in TreeObjects
        BY <1>9, <2>2, <3>2
      <4> QED
        BY <1>16, <1>18, <3>2, <4>1 DEF Extends
    <3> QED
      BY <2>1, <3>1, <3>2 DEF CanName, CommitFollows
  <2> DEFINE S == {map[order[i]] : i \in {l \in 1..(j - 1) : order[l] \in CommitIds}}
  <2>4. PICK parents : parents = list[j].parents
    OBVIOUS
  <2>5. parents \in Seq(S)
    BY <2>1, <2>4 DEF CommitFollows
  <2>6. \A x \in S : x \in DOMAIN m
    <3>1. \A i \in 1..(j - 1) : order[i] \in CommitIds => list[i] = map[order[i]] /\ list[i] \in CommitObjects
      BY <1>9, <1>11, <2>2
    <3> QED
      BY <1>18, <3>1
  <2> HIDE DEF S
  <2>7. \A i \in 1..Len(parents) : CanName(m, parents[i])
    BY <2>5, <2>6 DEF CanName
  <2> QED
    BY <2>1, <2>3, <2>4, <2>7 DEF ObjectReady, CommitReady
<1>19. ZERO \notin CommitObjects \cup DOMAIN T /\ \A o \in CommitObjects : o.kind # "tree" => o.parents \in Seq(CommitObjects)
  <2>1. ZERO \notin CommitObjects \cup DOMAIN T
    BY <1>1, <1>16
  <2>2. ASSUME NEW o \in CommitObjects PROVE o.parents \in Seq(CommitObjects)
    <3>1. PICK j \in 1..Len(order) : list[j] = o
      BY <1>10, <1>11
    <3>2. list[j] = map[order[j]] /\ CommitFollows(order, map, j)
      BY <1>17, <2>2, <3>1
    <3> DEFINE S == {map[order[i]] : i \in {l \in 1..(j - 1) : order[l] \in CommitIds}}
    <3>3. o.parents \in Seq(S)
      BY <3>1, <3>2 DEF CommitFollows
    <3>4. \A i \in 1..(j - 1) : i \in 1..Len(order)
      BY <1>8
    <3>5. S \subseteq CommitObjects
      BY <1>9, <3>4
    <3> HIDE DEF S
    <3> QED
      BY <3>3, <3>5
  <2> QED
    BY <2>1, <2>2
<1>20. CommitObjects \subseteq DOMAIN C
  <2>1. \A o \in CommitObjects : \E j \in 1..Len(order) : list[j] = o
    BY <1>10, <1>11
  <2>2. ReadyInTurn(CommitObjects, T, list, Len(order))
    BY <1>18 DEF ReadyInTurn
  <2> QED
    BY <1>6, <1>8, <2>1, <2>2, PassesSuffice
<1>21. /\ Extends(T, C) /\ DOMAIN C \subseteq DOMAIN T \cup CommitObjects
       /\ \A o \in DOMAIN C \ DOMAIN T : ObjectReady(C, o) /\ C[o] = WriteObject(C, o)
  BY <1>6, <1>19, PassesWrite
<1>22. DOMAIN C = BlobObjects \cup TreeObjects \cup CommitObjects
  BY <1>16, <1>20, <1>21 DEF Extends
(* The tags. *)
<1>23. /\ DOMAIN f = DOMAIN C \cup TagObjects /\ Extends(C, f)
       /\ TargetsKept(TagObjects, C, f)
  <2>1. IsFiniteSet(TagObjects)
    BY <1>1, FS_Subset
  <2>2. tags \in SetToSeqs(TagObjects)
    BY DEF TagObjects
  <2>3. TagObjects \cap DOMAIN C = {}
    BY <1>3, <1>22
  <2> QED
    BY <1>7, <2>1, <2>2, <2>3, TagsWrite
<1>24. DOMAIN f = ovc.objects
  BY <1>1, <1>22, <1>23
<1>25. Extends(T, f) /\ ZERO \notin DOMAIN f
  BY <1>1, <1>21, <1>23, <1>24 DEF Extends
<1>26. ASSUME NEW id \in DOMAIN map \cap BlobIds PROVE f[map[id]] = map[id]
  <2>1. map[id] \in BlobObjects
    BY <1>1 DEF Made
  <2>2. B[map[id]] = map[id] /\ T[map[id]] = B[map[id]]
    BY <1>4, <1>15, <1>16, <2>1 DEF Extends
  <2> QED
    BY <1>16, <1>25, <2>1, <2>2 DEF Extends
<1>27. ASSUME NEW id \in DOMAIN map \cap TreeIds PROVE f[map[id]] = WriteTree(f, map[id])
  <2>1. PICK o : o = map[id]
    OBVIOUS
  <2>2. o \in TreeObjects /\ o \in DOMAIN T \ DOMAIN B /\ o.kind = "tree"
    BY <1>1, <1>2, <1>3, <1>16, <2>1 DEF Made
  <2>3. ObjectReady(T, o) /\ T[o] = WriteObject(T, o)
    BY <1>15, <2>2
  <2>4. WriteObject(f, o) = WriteObject(T, o)
    BY <1>25, <2>2, <2>3, WriteAgrees
  <2> QED
    BY <1>25, <2>1, <2>2, <2>3, <2>4 DEF Extends, WriteObject
<1>28. ASSUME NEW id \in DOMAIN map \cap CommitIds PROVE f[map[id]] = WriteCommit(f, map[id])
  <2>1. PICK o : o = map[id]
    OBVIOUS
  <2>2. o \in CommitObjects /\ o \in DOMAIN C \ DOMAIN T /\ o.kind # "tree"
    BY <1>1, <1>2, <1>3, <1>16, <1>22, <2>1 DEF Made
  <2>3. ObjectReady(C, o) /\ C[o] = WriteObject(C, o)
    BY <1>21, <2>2
  <2>4. o.parents \in Seq(CommitObjects) /\ ZERO \notin CommitObjects
    BY <1>19, <2>2
  <2>5. WriteObject(f, o) = WriteObject(C, o)
    BY <1>23, <1>25, <2>2, <2>3, <2>4, WriteAgrees
  <2> QED
    BY <1>23, <2>1, <2>2, <2>3, <2>5 DEF Extends, WriteObject
<1>29. ASSUME NEW id \in DOMAIN map \cap TagIds, map[id].target \in ovc.objects \ TagObjects
       PROVE  f[map[id]] = WriteTag(f, map[id])
  <2>1. PICK o : o = map[id]
    OBVIOUS
  <2>2. o \in TagObjects
    BY <1>1, <2>1 DEF Made
  <2>3. o.target \in DOMAIN C /\ o.target \in DOMAIN f
    BY <1>1, <1>22, <1>24, <1>29, <2>1
  <2>4. f[o] = [kind |-> "tag", text |-> SerializeText(o.text), target |-> C[o.target]] /\ f[o.target] = C[o.target]
    BY <1>23, <2>2, <2>3 DEF Extends, TargetsKept
  <2>5. WriteTag(f, o) = [kind |-> "tag", text |-> SerializeText(o.text), target |-> f[o.target]]
    BY <2>3 DEF WriteTag, MapOr0
  <2> QED
    BY <2>1, <2>4, <2>5
<1> QED
  BY <1>24, <1>26, <1>27, <1>28, <1>29 DEF TagObjects, WellWritten

-----------------------------------------------------------------------------
(* There and back. *)

(* A time zone read into minutes and written back is the same one. *)
LEMMA ZonesReturn ==
    ASSUME NEW z \in [neg : BOOLEAN, h : Nat, m : 0..59]
    PROVE  FormatZone(parse_tz_offset(z)) = SameZone(z)
<1>1. PICK tz : tz = parse_tz_offset(z)
  OBVIOUS
<1>2. z \in [neg : BOOLEAN, h : Nat, m : 0..59]
  OBVIOUS
<1>3. PICK h \in Nat : h = z.h
  BY <1>2
<1>4. PICK m \in 0..59 : m = z.m
  BY <1>2
<1>5. PICK n \in BOOLEAN : n = z.neg
  BY <1>2
<1>6. z = [neg |-> n, h |-> h, m |-> m]
  BY <1>2, <1>3, <1>4, <1>5
<1>7. PICK size \in Nat : size = h * 60 + m
  BY <1>3, <1>4
<1>8. size \div 60 = h /\ size % 60 = m
  BY <1>7
<1>9. size = 0 <=> h = 0 /\ m = 0
  BY <1>7
<1>10. tz = IF n THEN -size ELSE size
  BY <1>1, <1>3, <1>4, <1>5, <1>7 DEF parse_tz_offset
<1>11. FormatZone(tz) = [neg |-> n /\ size # 0, h |-> h, m |-> m]
  <2>1. CASE n
    <3>1. tz = -size
      BY <1>10, <2>1
    <3>2. (-size < 0) <=> size # 0
      OBVIOUS
    <3>3. (IF -size < 0 THEN -(-size) ELSE -size) = size
      OBVIOUS
    <3>4. FormatZone(-size) = [neg |-> -size < 0, h |-> size \div 60, m |-> size % 60]
      BY <3>3 DEF FormatZone
    <3>5. (-size < 0) = (n /\ size # 0)
      BY <2>1, <3>2
    <3> QED
      BY <1>8, <3>1, <3>4, <3>5
  <2>2. CASE ~n
    <3>1. tz = size /\ ~(size < 0)
      BY <1>10, <2>2
    <3>2. FormatZone(size) = [neg |-> size < 0, h |-> size \div 60, m |-> size % 60]
      BY <3>1 DEF FormatZone
    <3>3. (size < 0) = (n /\ size # 0)
      BY <2>2, <3>1
    <3> QED
      BY <1>8, <3>1, <3>2, <3>3
  <2> QED
    BY <2>1, <2>2
<1>12. SameZone(z) = [neg |-> n /\ ~(h = 0 /\ m = 0), h |-> h, m |-> m]
  <2>2. CASE h = 0 /\ m = 0
    BY <1>3, <1>4, <1>6, <2>2 DEF SameZone
  <2>3. CASE ~(h = 0 /\ m = 0)
    BY <1>3, <1>4, <1>6, <2>3 DEF SameZone
  <2> QED
    BY <2>2, <2>3
<1> QED
  BY <1>1, <1>9, <1>11, <1>12

(* A text and a mode that were read and are written again are in normal    *)
(* form.                                                                   *)
LEMMA TextsReturn ==
    ASSUME NEW id \in CommitIds \cup TagIds
    PROVE  SerializeText(Here[id]) = NormalForm[id]
<1>1. PICK z : z = TextOf[id].zone
  OBVIOUS
<1>2. z \in [neg : BOOLEAN, h : Nat, m : 0..59]
  BY <1>1, BridgeAssumption
<1>3. FormatZone(parse_tz_offset(z)) = SameZone(z)
  BY <1>2, ZonesReturn
<1>4. Here[id] = [says |-> TextOf[id].says, tz |-> parse_tz_offset(z)]
  BY <1>1, FormIs DEF ParseText
<1>5. NormalForm[id] = [says |-> TextOf[id].says, extra |-> FALSE, blank |-> FALSE, ends |-> TRUE,
                        zone |-> SameZone(z)]
  BY <1>1, FormIs DEF NormalText
<1>6. Here[id].says = TextOf[id].says /\ Here[id].tz = parse_tz_offset(z)
  BY <1>4
<1> QED
  BY <1>3, <1>5, <1>6 DEF SerializeText

LEMMA ModesReturn ==
    ASSUME NEW t \in TreeIds, NEW n \in DOMAIN EntriesOf[t]
    PROVE  ovc_mode_to_git(Here[t][n]) = NormalForm[t][n]
<1>1. PICK mode \in GitModes : mode = EntriesOf[t][n].mode
  BY EntriesFit
<1>2. Here[t][n] = git_mode_to_ovc(mode) /\ NormalForm[t][n] = NormalMode(mode)
  BY <1>1, FormIs
<1>3. ovc_mode_to_git(git_mode_to_ovc(mode)) = NormalMode(mode)
  BY DEF GitModes, git_mode_to_ovc, ovc_mode_to_git, NormalMode
<1> QED
  BY <1>2, <1>3

(* An object whose names were all written is written as its content. *)
AllWritten(id, means, given, f) ==
    /\ \A n \in ToSet(Named(id)) : MapOr0(f, means[n]) = given[n]
    /\ \A n \in ToSet(Named(id)) \ {Elsewhere} : means[n] \in DOMAIN f

LEMMA WriteIsContent ==
    ASSUME GitFits, NEW id \in Ids, NEW means, NEW given, NEW f, NEW o, o = Content(id, means, Here),
           AllWritten(id, means, given, f)
    PROVE  /\ id \in BlobIds => o = Content(id, given, NormalForm)
           /\ id \in TreeIds => WriteTree(f, o) = Content(id, given, NormalForm)
           /\ id \in CommitIds => WriteCommit(f, o) = Content(id, given, NormalForm)
           /\ id \in TagIds => WriteTag(f, o) = Content(id, given, NormalForm)
<1>5. /\ \A n \in ToSet(Named(id)) : MapOr0(f, means[n]) = given[n]
      /\ \A n \in ToSet(Named(id)) \ {Elsewhere} : means[n] \in DOMAIN f
  BY DEF AllWritten
<1>1. ASSUME id \in BlobIds PROVE o = Content(id, given, NormalForm)
  BY <1>1, KindsDiffer DEF Content
<1>2. ASSUME id \in TreeIds PROVE WriteTree(f, o) = Content(id, given, NormalForm)
  <2>1. PICK entries : entries = [n \in DOMAIN EntriesOf[id] |->
                               [mode |-> Here[id][n], oid |-> means[EntriesOf[id][n].id]]]
    OBVIOUS
  <2>2. o = [kind |-> "tree", entries |-> entries]
    BY <1>2, <2>1, KindsDiffer DEF Content
  <2>3. DOMAIN entries = DOMAIN EntriesOf[id]
    BY <2>1
  <2>4. ASSUME NEW n \in DOMAIN EntriesOf[id]
        PROVE  [mode |-> ovc_mode_to_git(entries[n].mode), oid |-> MapOr0(f, entries[n].oid)]
               = [mode |-> NormalForm[id][n], oid |-> given[EntriesOf[id][n].id]]
    <3>1. entries[n].mode = Here[id][n] /\ entries[n].oid = means[EntriesOf[id][n].id]
      BY <2>1
    <3>2. MapOr0(f, means[EntriesOf[id][n].id]) = given[EntriesOf[id][n].id]
      BY <1>2, <1>5, NamedAre
    <3>3. ovc_mode_to_git(Here[id][n]) = NormalForm[id][n]
      BY <1>2, ModesReturn
    <3> QED
      BY <3>1, <3>2, <3>3
  <2>5. [n \in DOMAIN entries |-> [mode |-> ovc_mode_to_git(entries[n].mode), oid |-> MapOr0(f, entries[n].oid)]]
        = [n \in DOMAIN EntriesOf[id] |-> [mode |-> NormalForm[id][n], oid |-> given[EntriesOf[id][n].id]]]
    BY <2>3, <2>4
  <2>6. o.entries = entries
    BY <2>2
  <2>7. PICK x : x = [n \in DOMAIN entries |->
                        [mode |-> ovc_mode_to_git(entries[n].mode), oid |-> MapOr0(f, entries[n].oid)]]
    OBVIOUS
  <2>8. WriteTree(f, o) = [o EXCEPT !.entries = x]
    BY <2>6, <2>7 DEF WriteTree
  <2>9. Content(id, given, NormalForm) = [kind |-> "tree", entries |-> [n \in DOMAIN EntriesOf[id] |->
                               [mode |-> NormalForm[id][n], oid |-> given[EntriesOf[id][n].id]]]]
    BY <1>2, KindsDiffer DEF Content
  <2>10. Content(id, given, NormalForm) = [kind |-> "tree", entries |-> x]
    BY <2>5, <2>7, <2>9, Zenon
  <2>11. [o EXCEPT !.entries = x] = [kind |-> "tree", entries |-> x]
    BY <2>2
  <2> QED
    BY <2>8, <2>10, <2>11
<1>3. ASSUME id \in CommitIds PROVE WriteCommit(f, o) = Content(id, given, NormalForm)
  <2>1. PICK names : names = git.parentsOf[id]
    OBVIOUS
  <2>2. PICK N \in Nat : N = Len(names)
    BY <1>3, <2>1 DEF GitFits
  <2>3. names \in Seq(CommitIds) /\ DOMAIN names = 1..N
    BY <1>3, <2>1, <2>2 DEF GitFits
  <2>4. PICK parents : parents = [i \in 1..N |-> means[names[i]]]
    OBVIOUS
  <2>5. o = [kind |-> "commit", text |-> Here[id], tree |-> means[TreeOf[id]], parents |-> parents]
    BY <1>3, <2>1, <2>3, <2>4, KindsDiffer DEF Content
  <2>6. ASSUME NEW i \in 1..N
        PROVE  /\ means[names[i]] \in DOMAIN f /\ f[means[names[i]]] = given[names[i]]
    <3>1. names[i] \in ToSet(Named(id)) /\ names[i] # Elsewhere
      BY <1>3, <2>1, <2>2, <2>3, NamedAre, RangeIs, KindsDiffer
    <3> QED
      BY <1>5, <3>1 DEF MapOr0
  <2> DEFINE S == {means[names[i]] : i \in 1..N}
  <2>7. parents \in Seq(S) /\ Len(parents) = N
    BY <2>4
  <2>8. \A i \in 1..N : parents[i] = means[names[i]]
    BY <2>4
  <2> DEFINE is == Matching(parents, LAMBDA p : p \in DOMAIN f)
  <2>9. 1..Len(parents) \subseteq is
    BY <2>6, <2>7, <2>8 DEF Matching
  <2> HIDE DEF is, S
  <2>10. Chosen(parents, is) = parents
    BY <2>7, <2>9, ChosenWhole
  <2>11. [i \in 1..N |-> f[parents[i]]] = [i \in 1..N |-> given[names[i]]]
    BY <2>6, <2>8
  <2>12. o.parents = parents /\ o.tree = means[TreeOf[id]] /\ o.text = Here[id]
    BY <2>5
  <2>13. WriteCommit(f, o) = [kind |-> "commit", text |-> SerializeText(o.text), tree |-> MapOr0(f, o.tree),
                              parents |-> [i \in 1..N |-> f[parents[i]]]]
    BY <2>7, <2>10, <2>12 DEF WriteCommit, is
  <2>14. MapOr0(f, means[TreeOf[id]]) = given[TreeOf[id]] /\ SerializeText(Here[id]) = NormalForm[id]
    BY <1>3, <1>5, NamedAre, TextsReturn
  <2>15. WriteCommit(f, o) = [kind |-> "commit", text |-> NormalForm[id], tree |-> given[TreeOf[id]],
                              parents |-> [i \in 1..N |-> given[names[i]]]]
    BY <2>11, <2>12, <2>13, <2>14, Zenon
  <2>16. Content(id, given, NormalForm) = [kind |-> "commit", text |-> NormalForm[id], tree |-> given[TreeOf[id]],
                              parents |-> [i \in 1..N |-> given[names[i]]]]
    BY <1>3, <2>1, <2>3, KindsDiffer DEF Content
  <2> QED
    BY <2>15, <2>16
<1>4. ASSUME id \in TagIds PROVE WriteTag(f, o) = Content(id, given, NormalForm)
  <2>1. o = [kind |-> "tag", text |-> Here[id], target |-> means[git.targetOf[id]]]
    BY <1>4, KindsDiffer DEF Content
  <2>2. MapOr0(f, means[git.targetOf[id]]) = given[git.targetOf[id]] /\ SerializeText(Here[id]) = NormalForm[id]
    BY <1>4, <1>5, NamedAre, TextsReturn
  <2>3. WriteTag(f, o) = [kind |-> "tag", text |-> NormalForm[id], target |-> given[git.targetOf[id]]]
    BY <2>1, <2>2 DEF WriteTag
  <2> QED
    BY <1>4, <2>3, KindsDiffer DEF Content
<1> QED
  BY <1>1, <1>2, <1>3, <1>4

(* What can be understood is written as what it stands for. *)
LEMMA ExportMeans ==
    ASSUME GitFits, NEW order, order = bfs_objects, NEW map, map = ImportMap(order),
           ovc.objects = Made(map, DOMAIN map), NEW tags \in SetToSeqs(OfKind("tag")),
           NEW f, f = ExportMap(tags)
    PROVE  \A id \in ToSet(order) \cap DOMAIN Meaning(NormalForm) : f[map[id]] = Meaning(NormalForm)[id]
<1>1. PICK means : means = Meaning(Here)
  OBVIOUS
<1>2. PICK given : given = Meaning(NormalForm)
  OBVIOUS
<1>3. PICK known : known = DOMAIN means
  OBVIOUS
<1>4. known = DOMAIN given
  BY <1>1, <1>2, <1>3, SameMeant
<1>5. order \in Seq(Ids) /\ Distinct(order) /\ Ordered(order, known, {})
  BY <1>1, <1>3, OrderIs
<1>6. Standing(means, Here) /\ Standing(given, NormalForm)
  BY <1>1, <1>2, MeaningStands
<1>7. DOMAIN map = ToSet(order)
  BY <1>5, MapGrows
<1>8. \A id \in ToSet(order) \cap known : map[id] = means[id]
  BY <1>1, <1>3, MapMeans
<1>9. /\ DOMAIN f = ovc.objects
      /\ \A id \in DOMAIN map \cap BlobIds : f[map[id]] = map[id]
      /\ \A id \in DOMAIN map \cap TreeIds : f[map[id]] = WriteTree(f, map[id])
      /\ \A id \in DOMAIN map \cap CommitIds : f[map[id]] = WriteCommit(f, map[id])
      /\ \A id \in DOMAIN map \cap TagIds : map[id].target \in ovc.objects \ OfKind("tag") =>
            f[map[id]] = WriteTag(f, map[id])
  <2>1. WellWritten(map, f)
    BY <1>5, ExportHas
  <2> QED
    BY <2>1 DEF WellWritten
<1>10. /\ ZERO \notin ovc.objects
       /\ OfKind("tag") = Made(map, TagIds)
  BY <1>5, ObjectsAre
<1> DEFINE Q == {Elsewhere} \cup {x \in known : x \in ToSet(order) => f[map[x]] = given[x]}
<1>11. ASSUME NEW id \in known \ {Elsewhere}, ToSet(Named(id)) \subseteq Q PROVE id \in Q
  <2> SUFFICES ASSUME id \in ToSet(order) PROVE f[map[id]] = given[id]
    BY <1>11
  <2>1. PICK j \in 1..Len(order) : order[j] = id
    BY <1>5, RangeIs
  <2>2. ASSUME NEW n \in ToSet(Named(id)) \ {Elsewhere}
        PROVE  n \in ToSet(order) /\ n \in known /\ means[n] \in DOMAIN f /\ f[means[n]] = given[n]
    <3>1. PICK q \in 1..(j - 1) : order[q] = n
      BY <1>5, <1>11, <2>1, <2>2 DEF Ordered
    <3>2. q \in 1..Len(order)
      BY <1>5, <3>1
    <3>3. n \in ToSet(order)
      BY <1>5, <3>1, <3>2, RangeIs
    <3>4. n \in known /\ f[map[n]] = given[n]
      BY <1>11, <2>2, <3>3
    <3>5. map[n] = means[n] /\ map[n] \in ovc.objects
      BY <1>7, <1>8, <3>3, <3>4 DEF Made
    <3> QED
      BY <1>9, <3>3, <3>4, <3>5
  <2>3. \A n \in ToSet(Named(id)) : MapOr0(f, means[n]) = given[n]
    <3>1. MapOr0(f, means[Elsewhere]) = given[Elsewhere]
      BY <1>6, <1>9, <1>10 DEF MapOr0, Standing
    <3> QED
      BY <2>2, <3>1 DEF MapOr0
  <2>4. /\ id \in Ids /\ means[id] = Content(id, means, Here) /\ given[id] = Content(id, given, NormalForm)
        /\ ~(id \in TagIds /\ git.targetOf[id] \in TagIds)
    BY <1>3, <1>4, <1>6, <1>11 DEF Standing, Readable
  <2>5. PICK o : o = map[id]
    OBVIOUS
  <2>6. o = Content(id, means, Here)
    BY <1>8, <1>11, <2>4, <2>5
  <2>7. /\ id \in BlobIds => o = Content(id, given, NormalForm)
        /\ id \in TreeIds => WriteTree(f, o) = Content(id, given, NormalForm)
        /\ id \in CommitIds => WriteCommit(f, o) = Content(id, given, NormalForm)
        /\ id \in TagIds => WriteTag(f, o) = Content(id, given, NormalForm)
    <3>1. \A n \in ToSet(Named(id)) \ {Elsewhere} : means[n] \in DOMAIN f
      BY <2>2
    <3>2. AllWritten(id, means, given, f) /\ id \in Ids
      BY <2>3, <2>4, <3>1 DEF AllWritten
    <3> QED
      BY <2>6, <3>2, WriteIsContent
  <2>8. CASE id \in TagIds
    <3>1. PICK n : n = git.targetOf[id]
      OBVIOUS
    <3>2. o.target = means[n]
      BY <2>4, <2>6, <2>8, <3>1, KindsDiffer DEF Content
    <3>3. n \in ToSet(Named(id)) \ {Elsewhere}
      BY <2>4, <2>8, <3>1, NamedAre, KindsDiffer DEF GitFits
    <3>4. means[n] = map[n] /\ n \in DOMAIN map /\ n \notin TagIds /\ n \in known
      BY <1>7, <1>8, <2>2, <2>4, <2>8, <3>1, <3>3
    <3>5. means[n].kind # "tag"
      <4>1. n \in Ids /\ means[n] = Content(n, means, Here)
        BY <1>3, <1>6, <3>3, <3>4 DEF Standing, Readable
      <4>2. n \in BlobIds \/ n \in TreeIds \/ n \in CommitIds
        BY <3>4, <4>1, KindsDiffer
      <4>3. CASE n \in BlobIds
        BY <4>1, <4>3, KindsDiffer DEF Content
      <4>4. CASE n \in TreeIds
        BY <4>1, <4>4, KindsDiffer DEF Content
      <4>5. CASE n \in CommitIds
        BY <4>1, <4>5, KindsDiffer DEF Content
      <4> QED
        BY <4>2, <4>3, <4>4, <4>5
    <3>6. means[n] \in ovc.objects \ OfKind("tag")
      BY <3>4, <3>5 DEF OfKind, Made
    <3> QED
      BY <1>7, <1>9, <2>4, <2>5, <2>7, <2>8, <3>2, <3>6
  <2>9. CASE id \in BlobIds
    BY <1>7, <1>9, <2>4, <2>5, <2>7, <2>9
  <2>10. CASE id \in TreeIds
    BY <1>7, <1>9, <2>4, <2>5, <2>7, <2>10
  <2>11. CASE id \in CommitIds
    BY <1>7, <1>9, <2>4, <2>5, <2>7, <2>11
  <2> QED
    BY <2>4, <2>8, <2>9, <2>10, <2>11, KindsDiffer
<1>12. known \subseteq Q
  <2>1. Elsewhere \in Q
    OBVIOUS
  <2> HIDE DEF Q
  <2> QED BY <1>1, <1>3, <1>11, <2>1, MeaningStands
<1>13. Elsewhere \notin ToSet(order)
  BY <1>5, RangeIs, KindsDiffer
<1> QED
  BY <1>2, <1>4, <1>12, <1>13

LEMMA ExportCarries ==
    ASSUME GitFits, ovc = Imported(ImportMap(bfs_objects), read_git_refs),
           NEW tags \in SetToSeqs(OfKind("tag")), out = Exported(ExportMap(tags))
    PROVE  RoundTrip /\ ExportComplete
<1>1. PICK order : order = bfs_objects
  OBVIOUS
<1>2. PICK map : map = ImportMap(order)
  OBVIOUS
<1>3. PICK f : f = ExportMap(tags)
  OBVIOUS
<1>4. /\ ovc.objects = Made(map, DOMAIN map)
      /\ ovc.refs = [r \in {x \in DOMAIN read_git_refs : /\ read_git_refs[x] \in DOMAIN map
                                                        /\ x \in Branches \cup (Tags \ LongNames)} |->
                        map[read_git_refs[r]]]
      /\ ovc.head = head_branch_from_refs
  BY <1>1, <1>2 DEF Imported, Made
<1>5. /\ out.refs = [r \in {x \in DOMAIN ovc.refs : ovc.refs[x] \in DOMAIN f} |-> f[ovc.refs[r]]]
      /\ out.files = checkout_head
  BY <1>3 DEF Exported
<1>6. DOMAIN read_git_refs = TrueRefs /\ \A r \in TrueRefs : read_git_refs[r] = TrueRef(r)
  BY RootsAre
<1>7. order \in Seq(Ids) /\ Distinct(order)
  BY <1>1, OrderIs
<1>8. DOMAIN f = ovc.objects
  <2>1. WellWritten(map, f)
    BY <1>2, <1>3, <1>4, <1>7, ExportHas
  <2> QED
    BY <2>1 DEF WellWritten
<1>9. ASSUME NEW r \in DOMAIN ovc.refs PROVE ovc.refs[r] \in DOMAIN f
  BY <1>4, <1>8, <1>9 DEF Made
<1>10. DOMAIN out.refs = DOMAIN ovc.refs /\ \A r \in DOMAIN ovc.refs : out.refs[r] = f[ovc.refs[r]]
  BY <1>5, <1>9
<1>11. PICK means : means = Meaning(Here)
  OBVIOUS
<1>12. PICK given : given = Meaning(NormalForm)
  OBVIOUS
<1>13. DOMAIN means = DOMAIN given
  BY <1>11, <1>12, SameMeant
<1>14. ASSUME NEW r \in KeptRefs, TrueRef(r) \in DOMAIN given
       PROVE  r \in DOMAIN ovc.refs /\ ovc.refs[r] = means[TrueRef(r)] /\ out.refs[r] = given[TrueRef(r)]
  <2>6. r \in TrueRefs /\ r \in Branches \cup (Tags \ LongNames)
    BY DEF KeptRefs
  <2>1. TrueRef(r) \in ToSet(order)
    BY <1>1, <1>12, <1>14, <2>6, OrderIs
  <2>2. TrueRef(r) \in DOMAIN map
    BY <1>2, <1>7, <2>1, MapGrows
  <2>3. r \in DOMAIN ovc.refs /\ ovc.refs[r] = map[TrueRef(r)]
    BY <1>4, <1>6, <2>2, <2>6
  <2>4. map[TrueRef(r)] = means[TrueRef(r)]
    BY <1>1, <1>2, <1>11, <1>13, <1>14, <2>1, MapMeans
  <2>5. f[map[TrueRef(r)]] = given[TrueRef(r)]
    BY <1>1, <1>2, <1>3, <1>4, <1>12, <1>14, <2>1, ExportMeans
  <2> QED
    BY <1>10, <2>3, <2>4, <2>5
<1>15. ASSUME git.head \in KeptRefs \cap Branches, TrueRef(git.head) \in DOMAIN given
       PROVE  out.files = checkout_tree(means[TreeOf[TrueRef(git.head)]])
  <2>1. PICK c : c = TrueRef(git.head)
    OBVIOUS
  <2>2. c \in CommitIds /\ git.head \notin Ids
    BY <1>15, <2>1 DEF GitFits, KeptRefs
  <2>3. ovc.head = git.head
    BY <1>4, <1>15 DEF head_branch_from_refs
  <2>4. ovc.head \in DOMAIN ovc.refs /\ ovc.refs[ovc.head] = means[c]
    BY <1>14, <1>15, <2>1, <2>3
  <2>5. means[c] = Content(c, means, Here)
    <3>1. Standing(means, Here) /\ c # Elsewhere /\ c \in DOMAIN means
      BY <1>11, <1>13, <1>15, <2>1, <2>2, MeaningStands, KindsDiffer
    <3> QED
      BY <3>1 DEF Standing
  <2>6. means[c].kind = "commit" /\ means[c].tree = means[TreeOf[c]]
    BY <2>2, <2>5, KindsDiffer DEF Content
  <2> QED
    BY <1>5, <2>1, <2>4, <2>6 DEF checkout_head
<1>16. RoundTrip
  BY <1>10, <1>11, <1>12, <1>14, <1>15 DEF RoundTrip
<1>17. ExportComplete
  BY <1>10 DEF ExportComplete
<1> QED
  BY <1>16, <1>17

-----------------------------------------------------------------------------
(* The bridge only ever has one of the git directories, what the import    *)
(* makes of it, and what the export makes of that.                         *)
BridgeInv ==
    /\ git \in Directories /\ told \in {"nothing", "ok", "error"}
    /\ told = "nothing" => ovc = NotYet
    /\ told = "ok" => ~ReadFails /\ ovc = Imported(ImportMap(bfs_objects), read_git_refs)
    /\ told = "error" => ovc \in {NotYet, Empty}
    /\ out # NotYet => ovc # NotYet /\ \E tags \in SetToSeqs(OfKind("tag")) : out = Exported(ExportMap(tags))

(* As long as the git directory is the same, so is what is made of it. *)
LEMMA SameOrder ==
    ASSUME git' = git
    PROVE  (bfs_objects)' = bfs_objects /\ (ReadFails)' = ReadFails
<1>1. (Bfs(SetToSeq(RefTargets)))' = Bfs(SetToSeq(RefTargets))
  BY DEF RefTargets, read_git_refs, Bfs, Visit, Unseen, Named, Readable
<1>2. PICK seen : seen = Bfs(SetToSeq(RefTargets))
  OBVIOUS
<1>3. (Bfs(SetToSeq(RefTargets)))' = seen
  BY <1>1, <1>2
<1> DEFINE Of(S) == Chosen(seen, Matching(seen, LAMBDA id : id \in S /\ Readable(id)))
<1>4. bfs_objects = Of(BlobIds) \o TopoSort(Of(TreeIds)) \o TopoSort(Of(CommitIds)) \o Of(TagIds)
  BY <1>2 DEF bfs_objects
<1>5. bfs_objects' = (Of(BlobIds) \o TopoSort(Of(TreeIds)) \o TopoSort(Of(CommitIds)) \o Of(TagIds))'
  BY <1>3 DEF bfs_objects
<1>6. Of(BlobIds)' = Of(BlobIds) /\ Of(TagIds)' = Of(TagIds)
  BY DEF Readable, Matching
<1>7. TopoSort(Of(TreeIds))' = TopoSort(Of(TreeIds))
  BY DEF TopoSort, Kahn, Emit, Free, Named, Readable, Matching
<1>8. TopoSort(Of(CommitIds))' = TopoSort(Of(CommitIds))
  BY DEF TopoSort, Kahn, Emit, Free, Named, Readable, Matching
<1>9. (ReadFails)' = ReadFails
  BY <1>2, <1>3 DEF ReadFails
<1> HIDE DEF Of
<1> QED
  BY <1>4, <1>5, <1>6, <1>7, <1>8, <1>9

LEMMA SameImport ==
    ASSUME git' = git
    PROVE  (Imported(ImportMap(bfs_objects), read_git_refs))' = Imported(ImportMap(bfs_objects), read_git_refs)
<1>1. (bfs_objects)' = bfs_objects
  BY SameOrder
<1>2. (ImportMap(bfs_objects))' = ImportMap(bfs_objects)
  BY <1>1 DEF ImportMap, Convert, convert_tree, convert_commit, convert_tag, Matching
<1>3. (read_git_refs)' = read_git_refs
  BY DEF read_git_refs
<1>4. head_branch_from_refs' = head_branch_from_refs
  BY DEF head_branch_from_refs
<1> QED
  BY <1>2, <1>3, <1>4 DEF Imported

LEMMA SameExport ==
    ASSUME ovc' = ovc, NEW tags
    PROVE  (OfKind("tag"))' = OfKind("tag") /\ (Exported(ExportMap(tags)))' = Exported(ExportMap(tags))
  BY DEF OfKind, Exported, ExportMap, checkout_head

LEMMA BridgeInvHolds == BridgeSpec => []BridgeInv
<1>1. BridgeInit => BridgeInv
  BY DEF BridgeInit, BridgeInv
<1>2. ASSUME BridgeInv, [BridgeNext]_bridgeVars PROVE BridgeInv'
  <2>1. CASE Import
    <3>1. git' = git /\ out' = out /\ told = "nothing" /\ ovc = NotYet
      BY <1>2, <2>1 DEF Import, BridgeInv
    <3>2. PICK map : map = ImportMap(bfs_objects)
      OBVIOUS
    <3>3. \/ told' = "error" /\ ovc' = ovc
          \/ told' = "error" /\ ovc' = Empty
          \/ ~ReadFails /\ told' = "ok" /\ ovc' = Imported(map, read_git_refs)
      BY <2>1, <3>2 DEF Import
    <3>4. /\ (ReadFails)' = ReadFails
          /\ (Imported(ImportMap(bfs_objects), read_git_refs))' = Imported(map, read_git_refs)
      BY <3>1, <3>2, SameOrder, SameImport
    <3>5. git' \in Directories /\ ~(out' # NotYet)
      BY <1>2, <3>1 DEF BridgeInv
    <3>6. PICK made : made = Imported(map, read_git_refs)
      OBVIOUS
    <3>7. told' = "ok" => (~ReadFails)' /\ (ovc = Imported(ImportMap(bfs_objects), read_git_refs))'
      BY <3>3, <3>4, <3>6
    <3> QED
      BY <3>1, <3>3, <3>5, <3>7 DEF BridgeInv
  <2>2. ASSUME git' = git, ovc' = ovc, told' = told
        PROVE  /\ git' \in Directories /\ told' \in {"nothing", "ok", "error"}
               /\ told' = "nothing" => ovc' = NotYet
               /\ told' = "ok" => (~ReadFails)' /\ (ovc = Imported(ImportMap(bfs_objects), read_git_refs))'
               /\ told' = "error" => ovc' \in {NotYet, Empty'}
    <3>1. /\ (ReadFails)' = ReadFails
          /\ (Imported(ImportMap(bfs_objects), read_git_refs))' = Imported(ImportMap(bfs_objects), read_git_refs)
      BY <2>2, SameOrder, SameImport
    <3>2. Empty' = Empty
      BY DEF Empty
    <3> QED
      BY <1>2, <2>2, <3>1, <3>2 DEF BridgeInv
  <2>3. ASSUME NEW tags \in SetToSeqs(OfKind("tag")), ovc # NotYet, Export(tags) PROVE BridgeInv'
    <3>1. git' = git /\ ovc' = ovc /\ told' = told /\ out' = Exported(ExportMap(tags))
      BY <2>3 DEF Export
    <3>2. (OfKind("tag"))' = OfKind("tag") /\ (Exported(ExportMap(tags)))' = Exported(ExportMap(tags))
      BY <3>1, SameExport
    <3>3. ovc' # NotYet /\ (\E order \in SetToSeqs(OfKind("tag")) : out = Exported(ExportMap(order)))'
      BY <2>3, <3>1, <3>2
    <3> QED
      BY <2>2, <3>1, <3>3 DEF BridgeInv
  <2>4. CASE UNCHANGED bridgeVars
    <3>1. git' = git /\ ovc' = ovc /\ told' = told /\ out' = out
      BY <2>4 DEF bridgeVars
    <3>2. ASSUME out' # NotYet
          PROVE  ovc' # NotYet /\ (\E order \in SetToSeqs(OfKind("tag")) : out = Exported(ExportMap(order)))'
      <4>1. ovc # NotYet
        BY <1>2, <3>1, <3>2 DEF BridgeInv
      <4>2. PICK order \in SetToSeqs(OfKind("tag")) : out = Exported(ExportMap(order))
        BY <1>2, <3>1, <3>2 DEF BridgeInv
      <4>3. (OfKind("tag"))' = OfKind("tag") /\ (Exported(ExportMap(order)))' = Exported(ExportMap(order))
        BY <3>1, SameExport
      <4> QED
        BY <3>1, <4>1, <4>2, <4>3
    <3> QED
      BY <2>2, <3>1, <3>2 DEF BridgeInv
  <2> QED
    BY <1>2, <2>1, <2>3, <2>4 DEF BridgeNext
<1> QED
  BY <1>1, <1>2, PTL DEF BridgeSpec

(* BridgeCarries: whatever git directory is imported and exported, an      *)
(* import that tells success has met no damaged object, it carries every   *)
(* history that can be read, exporting gives that history back in its      *)
(* normal form, and no ref is lost between the two.                        *)
THEOREM BridgeCarries == BridgeSpec => []BridgeSound
<1>1. ASSUME BridgeInv PROVE BridgeSound
  <2>1. GitFits
    BY <1>1, DirectoriesFit DEF BridgeInv
  <2>2. ImportFaithful
    <3>1. CASE told # "ok"
      BY <3>1 DEF ImportFaithful
    <3>2. CASE told = "ok"
      BY <1>1, <2>1, <3>2, ImportCarries DEF BridgeInv
    <3> QED
      BY <3>1, <3>2
  <2>3. RoundTrip /\ ExportComplete
    <3>1. CASE out = NotYet
      BY <3>1 DEF RoundTrip, ExportComplete
    <3>2. CASE out # NotYet /\ told = "ok"
      <4>1. ovc = Imported(ImportMap(bfs_objects), read_git_refs)
        BY <1>1, <3>2 DEF BridgeInv
      <4>2. PICK tags \in SetToSeqs(OfKind("tag")) : out = Exported(ExportMap(tags))
        BY <1>1, <3>2 DEF BridgeInv
      <4> QED
        BY <2>1, <4>1, <4>2, ExportCarries
    <3>3. CASE out # NotYet /\ told # "ok"
      <4>1. ovc = Empty
        BY <1>1, <3>3 DEF BridgeInv
      <4>2. PICK tags : out = Exported(ExportMap(tags))
        BY <1>1, <3>3 DEF BridgeInv
      <4>3. PICK f : f = ExportMap(tags)
        OBVIOUS
      <4>4. out.refs = [r \in {x \in DOMAIN ovc.refs : ovc.refs[x] \in DOMAIN f} |-> f[ovc.refs[r]]]
        BY <4>2, <4>3 DEF Exported
      <4>5. DOMAIN ovc.refs = {}
        BY <4>1 DEF Empty
      <4> QED
        BY <3>3, <4>4, <4>5 DEF RoundTrip, ExportComplete
    <3> QED
      BY <3>1, <3>2, <3>3
  <2>4. ErrorsTold
    BY <1>1, <2>1, ReachedSeen DEF ErrorsTold, BridgeInv
  <2> QED
    BY <2>2, <2>3, <2>4 DEF BridgeSound
<1> QED
  BY <1>1, BridgeInvHolds, PTL
=============================================================================
