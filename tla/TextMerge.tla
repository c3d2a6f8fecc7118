------------------------------ MODULE TextMerge -----------------------------
(***************************************************************************)
(* The line algorithms of ovc-core: the Myers diff with its hunks          *)
(* (diff.rs) and the three-way merge built on it (merge.rs).               *)
(*                                                                         *)
(* A text is the sequence of its lines as split_lines cuts them, each with *)
(* its line feed.  Indices start at 0 as in the code, so line i of a text  *)
(* is text[i + 1].                                                         *)
(***************************************************************************)
EXTENDS Integers, Sequences, SequencesExt, Selections

CONSTANTS
    Lines,          \* every line a text may hold
    BinaryLines,    \* the lines with a NUL byte
    BinaryCheck,    \* how many lines is_binary looks at: its first 8192 bytes
    MAX_DIFF_LINES, \* longer texts are not compared line by line
    MaxLines,       \* bound: every text up to this length is tried
    LongTexts       \* and these, longer ones

ASSUME TextAssumption ==
    /\ BinaryLines \subseteq Lines /\ LongTexts \subseteq Seq(Lines)
    /\ MAX_DIFF_LINES \in Nat /\ MaxLines \in Nat /\ BinaryCheck \in Nat

VARIABLES texts, answer

textVars == <<texts, answer>>

(* What split_lines yields.  To the diff a line with a NUL byte is a line  *)
(* like any other.                                                         *)
Contents == BoundedSeq(Lines \ BinaryLines, MaxLines) \cup LongTexts

Pick(cond, x, y) == IF cond THEN x ELSE y
Larger(m, n) == Pick(m < n, n, m)
Smaller(m, n) == Pick(m < n, m, n)

-----------------------------------------------------------------------------
(* The edit script.  A step is one or more lines of one kind: "eq" kept,   *)
(* "ins" only in new, "del" only in old.                                   *)

DiffOp(kind, old, new, n) == [kind |-> kind, old |-> old, new |-> new, n |-> n]

(* How many lines agree from old[col] and new[row] on. *)
Agree(old, new, col, row) ==
    LET room == Larger(0, Smaller(Len(old) - col, Len(new) - row))
    IN  Max({n \in 0..room : \A i \in 1..n : old[col + i] = new[row + i]})

(* The diagonal a path of the given length comes from to reach diag. *)
MutGoesDown(frontier, diag, dist) ==
    diag = -dist \/ (diag # dist /\ frontier[diag - 1] <= frontier[diag + 1])
GoesDown(frontier, diag, dist) ==
    diag = -dist \/ (diag # dist /\ frontier[diag - 1] < frontier[diag + 1])

StartCol(frontier, diag, dist) ==
    Pick(GoesDown(frontier, diag, dist), frontier[diag + 1], frontier[diag - 1] + 1)

(* How far the best path on a diagonal now reaches. *)
Reach(old, new, frontier, diag, dist) ==
    LET start == StartCol(frontier, diag, dist)
    IN  start + Agree(old, new, start, Larger(0, start - diag))

(* One diagonal of one round. *)
Extend(old, new, dist, search, diag) ==
    LET col == Reach(old, new, search.frontier, diag, dist)
    IN  IF search.found
          THEN search
          ELSE [search EXCEPT !.frontier[diag] = col,
                              !.found = col >= Len(old) /\ col - diag >= Len(new)]

(* A round; trace keeps the frontier from before each. *)
Round(old, new, dist, search) ==
    LET after[j \in 0..(dist + 1)] ==
            IF j = 0 THEN [search EXCEPT !.trace = Append(@, search.frontier)]
            ELSE Extend(old, new, dist, after[j - 1], 2 * j - 2 - dist)
    IN  after[dist + 1]

RoundUnlessFound(old, new, dist, search) ==
    IF search.found THEN search ELSE Round(old, new, dist, search)

(* All rounds, one for each distance, up to the one that gets to the end. *)
Search(old, new) ==
    LET most == Len(old) + Len(new)
        start == [frontier |-> [d \in -most..most |-> 0], trace |-> <<>>, found |-> FALSE]
        after[k \in 0..(most + 1)] ==
            IF k = 0 THEN start ELSE RoundUnlessFound(old, new, k - 1, after[k - 1])
    IN  after[most + 1]

(* The walk back from the end, one round of the trace at a time. *)
BackOver(trace, offset, walk, depth) ==
    LET frontier == trace[depth + 1]
        diag     == walk.col - walk.row
        prevDiag == Pick(GoesDown(frontier, diag, depth), diag + 1, diag - 1)
        prevCol  == frontier[prevDiag]
        prevRow  == Larger(0, prevCol - prevDiag)
        slide    == Larger(0, Smaller(walk.col - prevCol, walk.row - prevRow))
        col      == walk.col - slide
        row      == walk.row - slide
        kept     == [i \in 1..slide |-> DiffOp("eq", col + i - 1 + offset, row + i - 1 + offset, 1)]
    IN  IF depth = 0
          THEN [col |-> col, row |-> row, ops |-> kept \o walk.ops]
        ELSE IF col = prevCol
          THEN [col |-> col, row |-> row - 1,
                ops |-> <<DiffOp("ins", 0, row - 1 + offset, 1)>> \o kept \o walk.ops]
          ELSE [col |-> col - 1, row |-> row,
                ops |-> <<DiffOp("del", col - 1 + offset, 0, 1)>> \o kept \o walk.ops]

backtrack(trace, oldLen, newLen, offset) ==
    LET walk[i \in 0..Len(trace)] ==
            IF i = 0 THEN [col |-> oldLen, row |-> newLen, ops |-> <<>>]
            ELSE BackOver(trace, offset, walk[i - 1], Len(trace) - i)
    IN  walk[Len(trace)].ops

(* Does op continue the step before it? *)
Continues(last, op) ==
    /\ last.kind = op.kind
    /\ op.kind \in {"eq", "del"} => op.old = last.old + last.n
    /\ op.kind \in {"eq", "ins"} => op.new = last.new + last.n

Joined(merged, op) ==
    IF merged # <<>> /\ Continues(Last(merged), op)
      THEN [merged EXCEPT ![Len(merged)].n = @ + op.n]
      ELSE Append(merged, op)

merge_ops(ops) ==
    LET merged[i \in 0..Len(ops)] == IF i = 0 THEN <<>> ELSE Joined(merged[i - 1], ops[i])
    IN  merged[Len(ops)]

myers_core(old, new, offset) ==
    merge_ops(backtrack(Search(old, new).trace, Len(old), Len(new), offset))

(* A step that is left out when it stands for no line. *)
Unless0(op) == Pick(op.n = 0, <<>>, <<op>>)

(* The common first and last lines are cut off before the search. *)
myers_diff(old, new) ==
    LET pre      == Agree(old, new, 0, 0)
        oldRest  == SubSeq(old, pre + 1, Len(old))
        newRest  == SubSeq(new, pre + 1, Len(new))
        suf      == Agree(Reverse(oldRest), Reverse(newRest), 0, 0)
        oldInner == SubSeq(oldRest, 1, Len(oldRest) - suf)
        newInner == SubSeq(newRest, 1, Len(newRest) - suf)
    IN  Unless0(DiffOp("eq", 0, 0, pre))
        \o (IF oldInner = <<>> THEN Unless0(DiffOp("ins", 0, pre, Len(newInner)))
            ELSE IF newInner = <<>> THEN <<DiffOp("del", pre, 0, Len(oldInner))>>
            ELSE myers_core(oldInner, newInner, pre))
        \o Unless0(DiffOp("eq", Len(old) - suf, Len(new) - suf, suf))

TooLong(old, new) == Len(old) > MAX_DIFF_LINES \/ Len(new) > MAX_DIFF_LINES

diff_lines(old, new) ==
    IF TooLong(old, new)
      THEN Unless0(DiffOp("del", 0, 0, Len(old))) \o Unless0(DiffOp("ins", 0, 0, Len(new)))
      ELSE myers_diff(old, new)

-----------------------------------------------------------------------------
(* Hunks: the changes with some lines of context around them. *)

expand_ops_to_actions(ops) ==
    FlattenSeq([i \in 1..Len(ops) |->
        [j \in 1..ops[i].n |->
            DiffOp(ops[i].kind, Pick(ops[i].kind = "ins", 0, ops[i].old + j - 1),
                   Pick(ops[i].kind = "del", 0, ops[i].new + j - 1), 1)]])

OfKinds(lines, kinds) == {i \in 1..Len(lines) : lines[i].kind \in kinds}

(* The positions (from 0) of the actions that change something. *)
collect_change_indices(actions) ==
    Chosen([i \in 1..Len(actions) |-> i - 1], OfKinds(actions, {"ins", "del"}))

(* Changes more than two contexts apart start a new group. *)
MutApart(end, ci, context) == ci > end + 1
Apart(end, ci, context) == ci > end + 2 * context + 1

Grouped(groups, ci, context) ==
    IF Apart(Last(groups)[2], ci, context)
      THEN Append(groups, <<ci, ci>>)
      ELSE [groups EXCEPT ![Len(groups)][2] = ci]

group_changes(indices, context) ==
    LET groups[i \in 0..(Len(indices) - 1)] ==
            IF i = 0 THEN <<<<indices[1], indices[1]>>>>
            ELSE Grouped(groups[i - 1], indices[i + 1], context)
    IN  groups[Len(indices) - 1]

(* The first line of a hunk fixes both starting points. *)
HunkStart(first, oldLen, newLen) ==
    [old |-> Pick(first.kind = "ins", Smaller(first.new, oldLen), first.old),
     new |-> Pick(first.kind = "del", Smaller(first.old, newLen), first.new)]

HunkOf(group, actions, old, new, context) ==
    LET from  == Larger(0, group[1] - context)
        upTo  == Smaller(group[2] + context + 1, Len(actions))
        body  == SubSeq(actions, from + 1, upTo)
        start == HunkStart(body[1], Len(old), Len(new))
        Count(kinds) == Len(Chosen(body, OfKinds(body, kinds)))
    IN  [old_start |-> start.old + 1, old_count |-> Count({"eq", "del"}),
         new_start |-> start.new + 1, new_count |-> Count({"eq", "ins"}),
         lines |-> [i \in 1..Len(body) |->
            [kind |-> body[i].kind,
             line |-> Pick(body[i].kind = "ins", new, old)
                        [1 + Pick(body[i].kind = "ins", body[i].new, body[i].old)]]]]

diff_to_hunks(old, new, context) ==
    LET actions == expand_ops_to_actions(myers_diff(old, new))
        indices == collect_change_indices(actions)
        groups  == group_changes(indices, context)
    IN  IF TooLong(old, new) \/ indices = <<>> THEN <<>>
        ELSE [g \in 1..Len(groups) |-> HunkOf(groups[g], actions, old, new, context)]

-----------------------------------------------------------------------------
(* The three-way merge.  A change map gives, for a line of base, how many  *)
(* lines of base the side takes away there and what it puts in their place;*)
(* the lines of a replacement are kept behind the ones they replace.       *)

ChangeRegion(n, new) == [base_count |-> n, new_lines |-> new]

(* The line of base an insertion stands before. *)
Before(ops, i) == {k \in 1..(i - 1) : ops[k].kind # "ins"}
MutAnchor(ops, i) == Max({0} \cup {ops[k].old : k \in Before(ops, i)})
Anchor(ops, i) == Max({0} \cup {ops[k].old + ops[k].n : k \in Before(ops, i)})

With(changes, at, region) ==
    [x \in DOMAIN changes \cup {at} |-> IF x = at THEN region ELSE changes[x]]
Enter(changes, ops, i, new) ==
    LET op == ops[i]
        at == Anchor(ops, i)
        before == IF at \in DOMAIN changes THEN changes[at] ELSE ChangeRegion(0, <<>>)
    IN  CASE op.kind = "eq"  -> changes
          [] op.kind = "del" -> With(changes, op.old, ChangeRegion(op.n, <<>>))
          [] op.kind = "ins" -> With(changes, at, ChangeRegion(before.base_count,
                                        before.new_lines \o SubSeq(new, op.new + 1, op.new + op.n)))

build_change_map(ops, new) ==
    LET changes[i \in 0..Len(ops)] == IF i = 0 THEN <<>> ELSE Enter(changes[i - 1], ops, i, new)
    IN  changes[Len(ops)]

(* The marker lines of a conflict. *)
Conflict(ours, theirs) ==
    <<"<<<<<<< ours">> \o ours \o <<"equal signs">> \o theirs \o <<">>>>>>> theirs">>

(* What both sides put at one place: once if they agree, else a conflict. *)
Both(ours, theirs) ==
    IF ours = theirs THEN [out |-> ours, conflicts |-> 0]
                     ELSE [out |-> Conflict(ours, theirs), conflicts |-> 1]

(* How many lines of base a place takes up. *)
MutConsumed(at, ours, theirs) ==
    Pick(at \in DOMAIN ours, ours[at].base_count, Pick(at \in DOMAIN theirs, theirs[at].base_count, 0))
MutConsumedOne(at, ours, theirs) ==
    Pick(at \in DOMAIN ours \cup DOMAIN theirs,
         Max({1} \cup {side[at].base_count : side \in {s \in {ours, theirs} : at \in DOMAIN s}}), 0)
MutConsumedLess(at, ours, theirs) ==
    Min({Pick(at \in DOMAIN side, side[at].base_count, 0) :
         side \in {s \in {ours, theirs} : at \in DOMAIN ours \cap DOMAIN theirs => at \in DOMAIN s}})
Consumed(at, ours, theirs) ==
    Max({Pick(at \in DOMAIN side, side[at].base_count, 0) : side \in {ours, theirs}})

(* What is written at one place. *)
AtPlace(at, ours, theirs) ==
    CASE at \in DOMAIN ours /\ at \in DOMAIN theirs ->
             Both(ours[at].new_lines, theirs[at].new_lines)
      [] at \in DOMAIN ours \ DOMAIN theirs -> [out |-> ours[at].new_lines, conflicts |-> 0]
      [] at \in DOMAIN theirs \ DOMAIN ours -> [out |-> theirs[at].new_lines, conflicts |-> 0]
      [] OTHER -> [out |-> <<>>, conflicts |-> 0]

(* A step of the walk over base. *)
WalkStep(base, ours, theirs, walk) ==
    LET here  == AtPlace(walk.at, ours, theirs)
        takes == Consumed(walk.at, ours, theirs)
        kept  == IF takes = 0 THEN <<base[walk.at + 1]>> ELSE <<>>
    IN  IF walk.at >= Len(base) THEN walk
        ELSE [at |-> walk.at + Larger(1, takes), out |-> walk.out \o here.out \o kept,
              conflicts |-> walk.conflicts + here.conflicts]

(* The walk ends behind the last line, where something may still be added. *)
Walk(base, ours, theirs) ==
    LET after[k \in 0..Len(base)] ==
            IF k = 0 THEN [at |-> 0, out |-> <<>>, conflicts |-> 0]
            ELSE WalkStep(base, ours, theirs, after[k - 1])
        walk == after[Len(base)]
        tail == AtPlace(Len(base), ours, theirs)
    IN  [out |-> walk.out \o tail.out, conflicts |-> walk.conflicts + tail.conflicts]

three_way_merge(base, ours, theirs) ==
    IF ours = theirs \/ base = theirs THEN [out |-> ours, conflicts |-> 0]
    ELSE IF base = ours THEN [out |-> theirs, conflicts |-> 0]
    ELSE Walk(base, build_change_map(diff_lines(base, ours), ours),
              build_change_map(diff_lines(base, theirs), theirs))

(* A NUL byte behind the first 8192 bytes is not seen. *)
is_binary(text) == \E i \in 1..Smaller(Len(text), BinaryCheck) : text[i] \in BinaryLines

-----------------------------------------------------------------------------
TextInit ==
    /\ texts \in [base : Contents, ours : Contents, theirs : Contents]
    /\ answer = <<>>

Diff(context) ==
    /\ answer = <<>> /\ texts.theirs = <<>>
    /\ answer' = [kind |-> "diff", context |-> context,
                  ops |-> diff_lines(texts.base, texts.ours),
                  hunks |-> diff_to_hunks(texts.base, texts.ours, context)]
    /\ UNCHANGED texts

Merge ==
    /\ answer = <<>>
    /\ answer' = [kind |-> "merge",
                  merge |-> three_way_merge(texts.base, texts.ours, texts.theirs),
                  swapped |-> three_way_merge(texts.base, texts.theirs, texts.ours)]
    /\ UNCHANGED texts

TextNext == Merge \/ \E context \in {1, 3} : Diff(context)

TextSpec == TextInit /\ [][TextNext]_textVars

-----------------------------------------------------------------------------
Answered(kind) == answer # <<>> /\ answer.kind = kind

(* What is left of a text without some of its lines. *)
Subsequences(text) == {Chosen(text, is) : is \in SUBSET (1..Len(text))}

LinesKept(ops) ==
    LET kept[i \in 0..Len(ops)] ==
            IF i = 0 THEN 0 ELSE kept[i - 1] + Pick(ops[i].kind = "eq", ops[i].n, 0)
    IN  kept[Len(ops)]

(* DiffShortest: the edit script of diff_lines rewrites old into new when  *)
(* its steps are followed in order, touches every line of both once, and,  *)
(* unless a text is longer than MAX_DIFF_LINES, keeps as many lines as any *)
(* script can.                                                             *)
DiffShortest ==
    Answered("diff") =>
        LET ops == answer.ops
            old == FlattenSeq([i \in 1..Len(ops) |-> SubSeq(texts.base, ops[i].old + 1,
                                  ops[i].old + Pick(ops[i].kind = "ins", 0, ops[i].n))])
            new == FlattenSeq([i \in 1..Len(ops) |->
                      IF ops[i].kind = "eq" THEN SubSeq(texts.base, ops[i].old + 1, ops[i].old + ops[i].n)
                      ELSE SubSeq(texts.ours, ops[i].new + 1,
                                  ops[i].new + Pick(ops[i].kind = "del", 0, ops[i].n))])
        IN  /\ old = texts.base /\ new = texts.ours
            /\ TooLong(texts.base, texts.ours)
               \/ \A s \in Subsequences(texts.base) \cap Subsequences(texts.ours) : Len(s) <= LinesKept(ops)

(* The lines of a hunk that one of the two texts has. *)
HunkSide(h, kinds) ==
    Chosen([i \in 1..Len(h.lines) |-> h.lines[i].line], OfKinds(h.lines, kinds))

(* Replays hunks on old: the lines between them are copied, and a hunk is  *)
(* rejected when it goes back or does not fit where its header says.       *)
Replay(old, patch, h) ==
    IF h.old_start < patch.from
       \/ HunkSide(h, {"eq", "del"}) # SubSeq(old, h.old_start, h.old_start + h.old_count - 1)
      THEN [from |-> Len(old) + 1, out |-> <<"rejected">>]
      ELSE [from |-> h.old_start + h.old_count,
            out  |-> patch.out \o SubSeq(old, patch.from, h.old_start - 1) \o HunkSide(h, {"eq", "ins"})]
Patched(old, hunks) ==
    LET patch[i \in 0..Len(hunks)] ==
            IF i = 0 THEN [from |-> 1, out |-> <<>>] ELSE Replay(old, patch[i - 1], hunks[i])
        end == patch[Len(hunks)]
    IN  end.out \o SubSeq(old, end.from, Len(old))

(* HunksApply: the hunks a diff is shown and exported as say where they    *)
(* belong: each one's header names the lines of old and of new that it     *)
(* repeats, no two overlap, and applying them in order to old gives new.   *)
(* A text that is too long has no hunks.                                   *)
HunksApply ==
    Answered("diff") =>
        IF TooLong(texts.base, texts.ours) THEN answer.hunks = <<>>
        ELSE /\ Patched(texts.base, answer.hunks) = texts.ours
             /\ \A h \in ToSet(answer.hunks) :
                   HunkSide(h, {"eq", "ins"})
                     = SubSeq(texts.ours, h.new_start, h.new_start + h.new_count - 1)

(* The places of base a side changes: the lines it takes away and the line *)
(* before which it puts something.                                         *)
Touched(changes) == UNION {at..(at + changes[at].base_count) : at \in DOMAIN changes}

(* Reference: each line of base stays unless a side takes it away, behind  *)
(* what a side puts before it.                                             *)
Combined(base, ours, theirs) ==
    LET Gone(i) == \E side \in {ours, theirs}, at \in DOMAIN ours \cup DOMAIN theirs :
                       at \in DOMAIN side /\ i \in at..(at + side[at].base_count - 1)
        New(side, i) == IF i \in DOMAIN side THEN side[i].new_lines ELSE <<>>
    IN  FlattenSeq([k \in 1..(Len(base) + 1) |->
            New(ours, k - 1) \o New(theirs, k - 1)
            \o (IF k > Len(base) \/ Gone(k - 1) THEN <<>> ELSE <<base[k]>>)])

(* ChangesWhole: the map that a script is read into holds all of it: alone *)
(* it makes the side from base.  The map has one region for a line of base *)
(* and a deletion replaces what is there, so a script that inserts and     *)
(* then deletes at the same line would lose the insertion.                 *)
ChangesWhole ==
    Answered("merge") =>
        \A side \in {texts.ours, texts.theirs} :
            Combined(texts.base, build_change_map(diff_lines(texts.base, side), side), <<>>) = side

(* SeparateChangesMerge: when the two sides change places of base that     *)
(* have no line in common, three_way_merge reports no conflict and its     *)
(* result holds both changes in full.                                      *)
SeparateChangesMerge ==
    Answered("merge") =>
        LET ours   == build_change_map(diff_lines(texts.base, texts.ours), texts.ours)
            theirs == build_change_map(diff_lines(texts.base, texts.theirs), texts.theirs)
        IN  Touched(ours) \cap Touched(theirs) = {} =>
                answer.merge = [out |-> Combined(texts.base, ours, theirs), conflicts |-> 0]

(* A change of one side starts inside the lines the other takes away. *)
StartsInside(ours, theirs) ==
    \E x \in {<<ours, theirs>>, <<theirs, ours>>} : \E i \in DOMAIN x[1], j \in DOMAIN x[2] :
        i < j /\ j < i + x[1][i].base_count

(* CleanMergeExact: a merge that is reported clean is the two changes and  *)
(* nothing else: lines that one side takes away are gone, also where the   *)
(* two take away different lengths from the same line on, and what both    *)
(* put at the same place is there once.  Left out is the one case in which *)
(* the walk loses a change without markers, although the comment of        *)
(* three_way_merge promises them: it starts inside what the other side     *)
(* takes away.                                                             *)
CleanMergeExact ==
    Answered("merge") /\ texts.base \notin {texts.ours, texts.theirs} =>
        LET ours   == build_change_map(diff_lines(texts.base, texts.ours), texts.ours)
            theirs == build_change_map(diff_lines(texts.base, texts.theirs), texts.theirs)
            once   == [at \in DOMAIN theirs |->
                          [theirs[at] EXCEPT !.new_lines = Pick(at \in DOMAIN ours, <<>>, @)]]
        IN  answer.merge.conflicts = 0 /\ ~StartsInside(ours, theirs) =>
                answer.merge.out = Combined(texts.base, ours, once)

(* MergeSymmetric: it does not matter which side is ours: both orders find *)
(* the same number of conflicts, and a clean result is the same.           *)
MergeSymmetric ==
    Answered("merge") =>
        /\ answer.merge.conflicts = answer.swapped.conflicts
        /\ answer.merge.conflicts = 0 => answer.merge.out = answer.swapped.out

(* How many lines of s, from the first on, are found in text in this       *)
(* order, each behind the one before.                                      *)
FoundNext(s, line, found) == Pick(found < Len(s) /\ line = s[found + 1], found + 1, found)
FoundIn(s, text) ==
    LET found[i \in 0..Len(text)] == IF i = 0 THEN 0 ELSE FoundNext(s, text[i], found[i - 1])
    IN  found[Len(text)]

(* KeptLinesSurvive: whatever else collides, a line of base that neither   *)
(* side takes away is in the result, and such lines keep their order.      *)
KeptLinesSurvive ==
    Answered("merge") =>
        LET Removed(side) == UNION {op.old..(op.old + op.n - 1) :
                 op \in {o \in ToSet(diff_lines(texts.base, side)) : o.kind = "del"}}
            gone  == Removed(texts.ours) \cup Removed(texts.theirs)
            kept  == Chosen(texts.base, {i \in 1..Len(texts.base) : i - 1 \notin gone})
        IN  FoundIn(kept, answer.merge.out) = Len(kept)

(* TextSound: the diff is a shortest one, its hunks apply, and the merge   *)
(* of two edits of a text takes both alike and has what both sides kept    *)
(* and what they changed apart from each other.                            *)
TextSound ==
    /\ DiffShortest /\ HunksApply /\ ChangesWhole
    /\ SeparateChangesMerge /\ KeptLinesSurvive /\ MergeSymmetric
=============================================================================
