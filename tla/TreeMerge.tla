------------------------------ MODULE TreeMerge -----------------------------
(***************************************************************************)
(* merge_trees of ovc-core (merge.rs): the merge of two trees with a       *)
(* common base, path by path, down into directories that all three have    *)
(* and into the text of files that both sides changed.                     *)
(*                                                                         *)
(* Objects are named by the hash of their content, so an object stands for *)
(* its own id: [blob |-> text] or [tree |-> entries], where entries gives  *)
(* each name its mode and object.                                          *)
(***************************************************************************)
EXTENDS TextMerge

CONSTANTS
    BlobTexts,   \* the texts files hold
    Modes,       \* modes of a file
    Levels       \* the trees tried, by depth: see TreeAssumption

VARIABLES trees, treeAnswer

treeVars == <<trees, treeAnswer>>

IsBlob(entry) == "blob" \in DOMAIN entry.oid
IsTree(entry) == "tree" \in DOMAIN entry.oid

Files == [mode : Modes, oid : [blob : BlobTexts]]
Dir(entries) == [mode |-> "dir", oid |-> [tree |-> entries]]

(* The trees of a level hold files, and directories of the level below. *)
ASSUME TreeAssumption ==
    /\ "dir" \notin Modes
    /\ DOMAIN Levels = 1..Len(Levels) /\ Len(Levels) \in Nat \ {0}
    /\ \A k \in DOMAIN Levels : \A e \in Levels[k] : \A n \in DOMAIN e :
          e[n] \in Files \/ (k > 1 /\ \E sub \in Levels[k - 1] : e[n] = Dir(sub))

Trees == Levels[Len(Levels)]

-----------------------------------------------------------------------------
(* A merged path: the entry that stays, if any, and the paths in conflict. *)
Result(entries, conflicts) == [entries |-> entries, conflicts |-> conflicts]
Only(name, entry) == [n \in {name} |-> entry]
Clean(name, entry) == Result(Only(name, entry), {})
Conflicted(name, entry, kind) == Result(Only(name, entry), {[path |-> <<name>>, kind |-> kind]})
Nothing == Result(<<>>, {})

(* Both sides changed the blob differently. *)
MergeBlobs(name, b, o, t) ==
    LET base   == b.oid.blob
        ours   == o.oid.blob
        theirs == t.oid.blob
        merged == three_way_merge(base, ours, theirs)
    IN  IF is_binary(base) \/ is_binary(ours) \/ is_binary(theirs)
          THEN CASE ours = theirs -> Clean(name, o)
                 [] ours # theirs /\ base = ours -> Clean(name, t)
                 [] ours # theirs /\ base = theirs -> Clean(name, o)
                 [] OTHER -> Conflicted(name, o, "ModifyModify")
        ELSE IF merged.conflicts = 0
          THEN Clean(name, [o EXCEPT !.oid = [blob |-> merged.out]])
          ELSE Conflicted(name, o, "ModifyModify")

(* One side changed the entry, the other deleted it. *)
MutMergeDelete(name, b, kept) == Conflicted(name, kept, "ModifyDelete")
MergeDelete(name, b, kept) ==
    IF b.oid = kept.oid THEN Nothing ELSE Conflicted(name, kept, "ModifyDelete")

(* Both sides have the entry, and so has base.  Directories are merged by  *)
(* below, the merge of the trees one level down.                           *)
MutMergeKept(name, b, o, t, below) ==
    IF b.oid = o.oid THEN Clean(name, t)
    ELSE IF IsBlob(b) /\ IsBlob(o) /\ IsBlob(t) THEN MergeBlobs(name, b, o, t)
    ELSE Clean(name, o)
MergeKept(name, b, o, t, below) ==
    IF b.oid = o.oid /\ b.oid = t.oid THEN Clean(name, b)
    ELSE IF b.oid = t.oid THEN Clean(name, o)
    ELSE IF b.oid = o.oid THEN Clean(name, t)
    ELSE IF o.oid = t.oid THEN Clean(name, o)
    ELSE IF b.mode = "dir" /\ o.mode = "dir" /\ t.mode = "dir"
      THEN LET sub == below[<<b.oid.tree, o.oid.tree, t.oid.tree>>]
           IN  Result(Only(name, [o EXCEPT !.oid = [tree |-> sub.entries]]),
                      {[c EXCEPT !.path = <<name>> \o @] : c \in sub.conflicts})
    ELSE IF IsBlob(b) /\ IsBlob(o) /\ IsBlob(t) THEN MergeBlobs(name, b, o, t)
    ELSE Conflicted(name, o, "ModifyModify")

MergeName(name, base, ours, theirs, below) ==
    LET inB == name \in DOMAIN base
        inO == name \in DOMAIN ours
        inT == name \in DOMAIN theirs
    IN  CASE inB /\ inO /\ inT -> MergeKept(name, base[name], ours[name], theirs[name], below)
          [] inB /\ inO /\ ~inT -> MergeDelete(name, base[name], ours[name])
          [] inB /\ ~inO /\ inT -> MergeDelete(name, base[name], theirs[name])
          [] ~inO /\ ~inT -> Nothing
          [] ~inB /\ inO /\ ~inT -> Clean(name, ours[name])
          [] ~inB /\ ~inO /\ inT -> Clean(name, theirs[name])
          [] ~inB /\ inO /\ inT ->
               IF ours[name].oid = theirs[name].oid THEN Clean(name, ours[name])
               ELSE Conflicted(name, ours[name], "AddAdd")

MergeLevel(base, ours, theirs, below) ==
    LET names  == DOMAIN base \cup DOMAIN ours \cup DOMAIN theirs
        merged == [n \in names |-> MergeName(n, base, ours, theirs, below)]
        kept   == {n \in names : n \in DOMAIN merged[n].entries}
    IN  Result([n \in kept |-> merged[n].entries[n]],
               UNION {merged[n].conflicts : n \in names})

(* The merges of the trees of each level, by those of the level below. *)
MergeAll(level, below) ==
    [x \in level \X level \X level |-> MergeLevel(x[1], x[2], x[3], below)]
MergesAt ==
    LET merges[k \in 0..Len(Levels)] ==
            IF k = 0 THEN <<>> ELSE MergeAll(Levels[k], merges[k - 1])
    IN  merges

merge_trees(base, ours, theirs) == MergesAt[Len(Levels)][<<base, ours, theirs>>]

-----------------------------------------------------------------------------
TreeInit ==
    /\ trees \in [base : Trees, ours : Trees, theirs : Trees]
    /\ treeAnswer = <<>>

MergeTrees ==
    /\ treeAnswer = <<>>
    /\ treeAnswer' = merge_trees(trees.base, trees.ours, trees.theirs)
    /\ UNCHANGED trees

TreeSpec == TreeInit /\ [][MergeTrees]_treeVars

-----------------------------------------------------------------------------
(* What a tree has at a path, and the text of the file there, if one is. *)
NoEntry == [mode |-> "none", oid |-> [none |-> TRUE]]
Child(dir, name) ==
    IF IsTree(dir) /\ name \in DOMAIN dir.oid.tree THEN dir.oid.tree[name] ELSE NoEntry
EntryAt(entries, path) ==
    LET node[i \in 0..Len(path)] ==
            IF i = 0 THEN Dir(entries) ELSE Child(node[i - 1], path[i])
    IN  node[Len(path)]
At(entries, path) ==
    LET entry == EntryAt(entries, path) IN IF IsBlob(entry) THEN <<entry.oid.blob>> ELSE <<>>

(* Every path of the trees tried. *)
FileNames == UNION {DOMAIN e : e \in UNION {Levels[k] : k \in DOMAIN Levels}}
Paths == UNION {[1..n -> FileNames] : n \in DOMAIN Levels}

(* NoSideOverwritten: the merge of trees answers file by file, however     *)
(* deep they are.  Unless a conflict is reported at the path or at a       *)
(* directory above it, a file that one side left alone ends up as the      *)
(* other side has it (deletion included), one that both sides changed      *)
(* alike as they have it, and one they changed differently as the clean    *)
(* merge of its text.                                                      *)
NoSideOverwritten ==
    treeAnswer # <<>> =>
        \A p \in Paths :
            LET base   == At(trees.base, p)
                ours   == At(trees.ours, p)
                theirs == At(trees.theirs, p)
                merged == At(treeAnswer.entries, p)
            IN  \/ \E c \in treeAnswer.conflicts : IsPrefix(c.path, p)
                \/ base = ours /\ merged = theirs
                \/ base = theirs /\ merged = ours
                \/ ours = theirs /\ merged = ours
                \/ /\ \A file \in {base, ours, theirs} : file # <<>> /\ ~is_binary(file[1])
                   /\ merged # <<>>
                   /\ [out |-> merged[1], conflicts |-> 0]
                        = three_way_merge(base[1], ours[1], theirs[1])

(* ConflictsReal: a conflict is reported only where both sides changed     *)
(* what base has, differently; its path then still holds what one of the   *)
(* sides has there, never text with conflict markers or a mixture.         *)
ConflictsReal ==
    treeAnswer # <<>> =>
        \A c \in treeAnswer.conflicts :
            LET Has(entries) == EntryAt(entries, c.path).oid
            IN  /\ Has(trees.ours) # Has(trees.theirs)
                /\ Has(trees.base) \notin {Has(trees.ours), Has(trees.theirs)}
                /\ Has(treeAnswer.entries) \in {Has(trees.ours), Has(trees.theirs)}

(* TreeMergeSound: outside the conflicts it reports merge_trees overwrites *)
(* the text of no file that a side changed, and it makes up no conflict.   *)
(* Modes are not compared: one that only theirs changed is lost.  What     *)
(* three_way_merge leaves out of a clean text is left out here too.        *)
TreeMergeSound == NoSideOverwritten /\ ConflictsReal
=============================================================================
