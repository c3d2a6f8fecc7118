----------------------------- MODULE CommitGraph -----------------------------
(***************************************************************************)
(* Walks over the commit history.  A history G is a sequence whose i-th    *)
(* element is the sequence of parents of commit i; a commit is created     *)
(* after its parents, so a parent always has a smaller number.             *)
(*                                                                         *)
(* The code walks the history in many places, each with a walk of its own: *)
(* the level-by-level search of rebase.rs, the two-pass search of          *)
(* `ovc merge`, the first-parent search of the merge handler, the chain    *)
(* that a rebase replays and the candidates of a bisection.                *)
(***************************************************************************)
EXTENDS Naturals, Sequences, SequencesExt

\* No commit: an absent reference, a search that found nothing.
None == 0

Ids(G) == DOMAIN G

(***************************************************************************)
(* Every commit that can be reached from c through any parent, c included. *)
(***************************************************************************)
Ancestors(G, c) ==
    LET anc[i \in Ids(G)] == {i} \cup UNION {anc[G[i][k]] : k \in DOMAIN G[i]}
    IN  IF c = None THEN {} ELSE anc[c]

\* is_ancestor of `ovc branch -d`: a search of every parent of the descendant.
IsAncestor(G, a, d) == a \in Ancestors(G, d)

(***************************************************************************)
(* The commits of a breadth-first walk from c in the order in which the    *)
(* queue gives them out.                                                   *)
(***************************************************************************)
BfsOrder(G, c) ==
    LET run[n \in 0 .. Len(G)] ==
            IF n = 0 THEN [queue |-> <<c>>, seen |-> {c}, out |-> <<>>]
            ELSE LET s == run[n - 1]
                 IN  IF s.queue = <<>> THEN s
                     ELSE LET o   == Head(s.queue)
                              new == SelectSeq(G[o], LAMBDA p : p \notin s.seen)
                          IN  [queue |-> Tail(s.queue) \o new,
                               seen  |-> s.seen \cup ToSet(new),
                               out   |-> Append(s.out, o)]
    IN  run[Len(G)].out

\* The first element of s that is in S, None when there is none.
FirstIn(s, S) ==
    LET hits == SelectSeq(s, LAMBDA c : c \in S)
    IN  IF hits = <<>> THEN None ELSE Head(hits)

(***************************************************************************)
(* rebase::find_merge_base: two walks that advance one level in turn and   *)
(* stop at the first commit of one that the other has already seen.        *)
(***************************************************************************)
VisitParent(acc, p, other) ==
    IF acc.found # None \/ p \in acc.seen THEN acc
    ELSE IF p \in other
         THEN [acc EXCEPT !.seen = @ \cup {p}, !.found = p]
         ELSE [acc EXCEPT !.seen = @ \cup {p}, !.queue = Append(@, p)]

VisitCommit(G, acc, o, other) ==
    IF acc.found # None THEN acc
    ELSE IF o \in other THEN [acc EXCEPT !.found = o]
    ELSE FoldLeft(LAMBDA x, p : VisitParent(x, p, other), acc, G[o])

Level(G, side, other) ==
    FoldLeft(LAMBDA x, o : VisitCommit(G, x, o, other),
             [side EXCEPT !.queue = <<>>], side.queue)

CoreMergeBase(G, a, b) ==
    LET From(c) == [queue |-> <<c>>, seen |-> {c}, found |-> None]
        run[n \in 0 .. Len(G)] ==
            IF n = 0 THEN [a |-> From(a), b |-> From(b)]
            ELSE LET s  == run[n - 1]
                     la == Level(G, s.a, s.b.seen)
                     lb == Level(G, s.b, la.seen)
                 IN  IF s.a.found # None \/ s.b.found # None THEN s
                     ELSE IF la.found # None THEN [s EXCEPT !.a = la]
                     ELSE [a |-> la, b |-> lb]
        end == run[Len(G)]
    IN  IF a = b THEN a
        ELSE IF end.a.found # None THEN end.a.found ELSE end.b.found

(***************************************************************************)
(* find_merge_base of `ovc merge`: all ancestors of a, then the first      *)
(* commit of a breadth-first walk from b that is one of them.              *)
(***************************************************************************)
CliMergeBase(G, a, b) == FirstIn(BfsOrder(G, b), Ancestors(G, a))

(***************************************************************************)
(* The first-parent chain of c, c first.                                   *)
(***************************************************************************)
FirstParents(G, c) ==
    LET chain[i \in Ids(G)] ==
            IF G[i] = <<>> THEN <<i>> ELSE <<i>> \o chain[G[i][1]]
    IN  chain[c]

\* find_merge_base of the merge handler: both walks follow first parents only.
ApiMergeBase(G, a, b) == FirstIn(FirstParents(G, b), ToSet(FirstParents(G, a)))

(***************************************************************************)
(* rebase::collect_commits: the first-parent walk from the tip back to the *)
(* base, which it leaves out.  The walk stops with an error at a merge     *)
(* commit and at a root commit that is not the base.                       *)
(***************************************************************************)
RebaseWalk(G, tip, base) ==
    LET walk == FirstParents(G, tip)
        k    == SelectInSeq(walk, LAMBDA c : c = base)
    IN  IF k = 0 THEN walk ELSE SubSeq(walk, 1, k - 1)

RebaseRefused(G, tip, base) ==
    \/ ~Contains(FirstParents(G, tip), base)
    \/ \E c \in ToSet(RebaseWalk(G, tip, base)) : Len(G[c]) > 1

===============================================================================
