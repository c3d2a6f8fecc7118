------------------------------- MODULE WorkTree -------------------------------
(***************************************************************************)
(* What one repository holds and what the commands do to it: objects,      *)
(* branches, HEAD, reflog, staging index, stash, tags and notes, and the   *)
(* working directory beside it.  The commands of the command line          *)
(* (crates/ovc-cli/src/commands) and the handlers of the API server        *)
(* (crates/ovc-api/src/routes) work on the same state, often with rules    *)
(* of their own.                                                           *)
(*                                                                         *)
(* A command opens the file, changes the handle and the working directory, *)
(* and saves; RepoSave has the interleavings of that.  Here a command is   *)
(* one step, or two when it dies or cannot save after it has written the   *)
(* working directory: then the directory is new and the file is old.       *)
(*                                                                         *)
(* A file is one line of text.  A tree is a function from paths to         *)
(* contents (nested trees are read and written as a whole); a commit is    *)
(* its tree and its parents, numbered in the order of creation.  HEAD is a *)
(* branch name: no command detaches it.                                    *)
(***************************************************************************)
EXTENDS Naturals, Sequences, FiniteSets, SequencesExt, CommitGraph

CONSTANTS
    Path,        \* file names
    Ignored,     \* the paths that the ignore file of the directory excludes
    Text,        \* what a user writes into a file
    Empty,       \* the empty file
    Marked,      \* a file with conflict markers
    NoFile,      \* no file at a path
    Branch,      \* branch names
    Main,        \* RepositoryConfig::default_branch
    Tag,         \* tag names
    Start,       \* the histories the runs start from
    MaxReflog,   \* MAX_REFLOG_ENTRIES
    MaxCommits,  \* bound: commits ever made
    MaxStash,    \* bound: stash entries
    MaxNotes,    \* bound: commits with a note
    MaxSteps,    \* bound: commands, requests and edits in a behaviour
    MaxFaults    \* bound: commands that die before their save

ASSUME WorkTreeAssumption ==
    /\ Ignored \subseteq Path
    /\ Main \in Branch
    /\ MaxReflog \in Nat \ {0}
    /\ {Empty, Marked} \cap Text = {} /\ Empty # Marked
    /\ NoFile \notin Text \cup {Empty, Marked}
    /\ {MaxCommits, MaxStash, MaxNotes, MaxSteps, MaxFaults} \subseteq Nat

VARIABLES
    repo,    \* the saved repository
    disk,    \* the working directory
    steps,   \* commands and edits so far
    faults,  \* commands that died so far
    touched, \* history: the paths whose index entry somebody chose
    moved,   \* history: HEAD's commit changed and the index is not its tree
    dropped, \* history: contents that were staged and gc removed
    past,    \* history: every commit a branch ever pointed at
    trimmed  \* history: a reflog entry was dropped at the limit

vars == <<repo, disk, steps, faults, touched, moved, dropped, past, trimmed>>

Data == Text \cup {Empty, Marked}
Tree == [Path -> Data \cup {NoFile}]
EmptyTree == [p \in Path |-> NoFile]
Files(t) == {p \in Path : t[p] # NoFile}
Contents(t) == {t[p] : p \in Files(t)}

Oid == 1 .. MaxCommits

\* The Repository handle: the objects, of which have are the commits that gc
\* left and blobs the contents, and the fields saved beside them.
Repo ==
    [commits : Seq([tree : Tree, parents : Seq(Oid)]), have : SUBSET Oid,
     blobs : SUBSET Data, refs : [Branch -> 0 .. MaxCommits],
     tags : [Tag -> 0 .. MaxCommits], head : Branch, headRef : Branch,
     reflog : Seq([old : 0 .. MaxCommits, new : Oid]), index : Tree,
     stash : Seq([tree : Tree, base : Oid]), notes : SUBSET Oid]

-------------------------------------------------------------------------------
(***************************************************************************)
(* References: RefStore.                                                   *)
(***************************************************************************)

Graph(r) == [i \in DOMAIN r.commits |-> r.commits[i].parents]
HeadOid(r) == r.refs[r.head]
TreeOf(r, c) == IF c \in r.have THEN r.commits[c].tree ELSE EmptyTree
HeadTree(r) == TreeOf(r, HeadOid(r))

\* What gc::garbage_collect starts from: the index is not among the roots.
Roots(r) ==
    {r.refs[b] : b \in Branch} \cup {r.tags[t] : t \in Tag}
        \cup {r.stash[k].base : k \in DOMAIN r.stash}
        \cup UNION {{r.reflog[k].old, r.reflog[k].new} : k \in DOMAIN r.reflog}

(***************************************************************************)
(* A repository that lacks nothing but the contents in lost: the commits   *)
(* of the store have their parents and their files there, and whatever     *)
(* names a commit names one of the store.                                  *)
(***************************************************************************)
Whole(r, lost) ==
    /\ Len(r.commits) <= MaxCommits /\ Len(r.reflog) <= MaxReflog
    /\ r.have \subseteq DOMAIN r.commits
    /\ \A i \in DOMAIN r.commits : \A k \in DOMAIN r.commits[i].parents :
          r.commits[i].parents[k] < i
    /\ \A c \in r.have :
          /\ ToSet(r.commits[c].parents) \subseteq r.have
          /\ Contents(r.commits[c].tree) \subseteq r.blobs \cup lost
    /\ Roots(r) \subseteq r.have \cup {None}
    /\ Contents(r.index) \subseteq r.blobs \cup lost
    /\ \A k \in DOMAIN r.stash : Contents(r.stash[k].tree) \subseteq r.blobs \cup lost

\* HEAD names a commit when there is any.
Headed(r) == r.have # {} => HeadOid(r) # None

\* Every branch tip is in the reflog.
TipsLogged(r) ==
    {r.refs[b] : b \in Branch} \ {None} \subseteq {r.reflog[k].new : k \in DOMAIN r.reflog}

\* A run starts from a repository that commands leave, with nothing staged.
ASSUME StartAssumption ==
    \A r \in Start :
        /\ r \in Repo /\ Whole(r, {}) /\ Headed(r) /\ TipsLogged(r)
        /\ r.index = HeadTree(r)

\* Mutant: the limit is forgotten.
MutLogged(log, e) == Append(log, e)

\* The reflog keeps its last MaxReflog entries.
Logged(log, e) ==
    LET l == Append(log, e)
    IN  IF Len(l) > MaxReflog THEN SubSeq(l, Len(l) - MaxReflog + 1, Len(l)) ELSE l

\* Mutant: the move is not logged.
MutSetBranch(r, b, c) == [r EXCEPT !.refs[b] = c]

\* RefStore::set_branch: creates or moves the branch and logs it.
SetBranch(r, b, c) ==
    [r EXCEPT !.refs[b] = c,
              !.reflog = Logged(@, [old |-> r.refs[b], new |-> c])]

\* Mutant: HEAD does not follow the rename.
MutRenamed(r, b, n) ==
    [r EXCEPT !.refs = [@ EXCEPT ![b] = None, ![n] = r.refs[b]],
              !.reflog = Logged(@, [old |-> None, new |-> r.refs[b]])]

\* RefStore::rename_branch: the entry logs no old value; HEAD follows, the
\* superblock's own copy of the HEAD name does not.
Renamed(r, b, n) ==
    [r EXCEPT !.refs = [@ EXCEPT ![b] = None, ![n] = r.refs[b]],
              !.reflog = Logged(@, [old |-> None, new |-> r.refs[b]]),
              !.head = IF @ = b THEN n ELSE @]

-------------------------------------------------------------------------------
(***************************************************************************)
(* Objects and the index.                                                  *)
(***************************************************************************)

\* ObjectStore::insert of a commit; its number is the length of the history.
AddCommit(r, t, parents) ==
    [r EXCEPT !.commits = Append(@, [tree |-> t, parents |-> parents]),
              !.have = @ \cup {Len(r.commits) + 1}]
NewOid(r) == Len(r.commits) + 1

\* Index::stage_file and Index::unstage_file.
StageFile(r, p, x) == [r EXCEPT !.index[p] = x, !.blobs = @ \cup {x}]
UnstageFile(r, p) == [r EXCEPT !.index[p] = NoFile]

StageSet(r, d, P) ==
    [r EXCEPT !.index = [p \in Path |-> IF p \in P THEN d[p] ELSE @[p]],
              !.blobs = @ \cup {d[p] : p \in P}]

\* Repository::create_commit: the tree of the index, HEAD as only parent.
CreateCommit(r) ==
    LET parents == IF HeadOid(r) = None THEN <<>> ELSE <<HeadOid(r)>>
    IN  SetBranch(AddCommit(r, r.index, parents), r.head, NewOid(r))

\* A commit on top of HEAD that the code builds itself: merge, cherry-pick.
CommitOn(r, t, parents) ==
    SetBranch(AddCommit(r, t, parents), r.head, NewOid(r))

-------------------------------------------------------------------------------
(***************************************************************************)
(* The working directory: WorkDir.                                         *)
(***************************************************************************)

\* scan_files sees what the given ignore rules leave.
Scan(d, ignore) == Files(d) \ ignore

\* compute_status: what is staged against HEAD and what differs on disk.  A
\* path in HEAD that the index lacks is reported as deleted even while an
\* untracked file is there; a tracked file that is ignored counts as deleted.
Staged(r, p) ==
    IF r.index[p] # NoFile
    THEN IF HeadTree(r)[p] = NoFile THEN "added"
         ELSE IF HeadTree(r)[p] = r.index[p] THEN "same" ELSE "modified"
    ELSE IF HeadTree(r)[p] # NoFile THEN "deleted" ELSE "none"

Unstaged(r, d, p) ==
    IF r.index[p] = NoFile THEN "same"
    ELSE IF p \notin Scan(d, Ignored) THEN "deleted"
    ELSE IF d[p] # r.index[p] THEN "modified" ELSE "same"

Untracked(r, d) == {p \in Scan(d, Ignored) : Staged(r, p) = "none"}

HasStaged(r) == \E p \in Path : Staged(r, p) \in {"added", "modified", "deleted"}
\* Mutant: the files on disk are not compared.
MutDirty(r, d) == HasStaged(r)

Dirty(r, d) ==
    HasStaged(r) \/ \E p \in Path : Unstaged(r, d, p) \in {"modified", "deleted"}

\* Every file of the tree whose content is in the store is written.
WriteOut(r, d, t) ==
    [p \in Path |-> IF t[p] \in r.blobs THEN t[p] ELSE d[p]]
Deleted(d, P) == [p \in Path |-> IF p \in P THEN NoFile ELSE d[p]]

\* Everything scanned that the tree lacks is deleted, then the tree is written.
Replaced(r, d, t, ignore) ==
    WriteOut(r, Deleted(d, Scan(d, ignore) \ Files(t)), t)

\* Mutant: the files of the target are not written.
MutCheckedOut(r, d, b) ==
    LET t == TreeOf(r, r.refs[b])
    IN  [r |-> [r EXCEPT !.index = t, !.head = b, !.headRef = b],
         d |-> Deleted(d, Files(r.index) \ Files(t))]

\* Repository::checkout_branch: index, HEAD and files; the files that only
\* the old index had are deleted.
CheckedOut(r, d, b) ==
    LET t == TreeOf(r, r.refs[b])
        n == [r EXCEPT !.index = t, !.head = b, !.headRef = b]
    IN  [r |-> n, d |-> WriteOut(n, Deleted(d, Files(r.index) \ Files(t)), t)]

-------------------------------------------------------------------------------
(***************************************************************************)
(* Three-way merge of trees: merge::merge_trees, path by path.  Two        *)
(* different changes of a one-line file overlap.                           *)
(***************************************************************************)

MergePath(b, o, t, blobs) ==
    LET Clean(x)       == [to |-> x, kind |-> "clean", text |-> NoFile]
        Clash(x, k, y) == [to |-> x, kind |-> k, text |-> y]
    IN  IF o = t \/ b = t THEN Clean(o)
        ELSE IF b = o THEN Clean(t)
        ELSE IF NoFile \notin {b, o, t}
             THEN Clash(o, "modify", IF {b, o, t} \subseteq blobs THEN Marked ELSE Empty)
        ELSE IF b = NoFile THEN Clash(o, "add", NoFile)
        ELSE Clash(IF t = NoFile THEN o ELSE t, "delete", NoFile)

MergeTrees(r, b, o, t) == [p \in Path |-> MergePath(b[p], o[p], t[p], r.blobs)]
Conflicts(m) == {p \in Path : m[p].kind # "clean"}
MergedTree(m) == [p \in Path |-> m[p].to]

-------------------------------------------------------------------------------
(***************************************************************************)
(* Rebase, cherry-pick and revert on the handle.                           *)
(***************************************************************************)

ParentTree(r, c) ==
    LET ps == r.commits[c].parents IN IF ps = <<>> THEN EmptyTree ELSE TreeOf(r, ps[1])

\* cherry_pick: the change of c applied to HEAD; revert: its inverse.
PickTrees(r, c) == MergeTrees(r, ParentTree(r, c), HeadTree(r), TreeOf(r, c))
RevertTrees(r, c) == MergeTrees(r, TreeOf(r, c), HeadTree(r), ParentTree(r, c))

\* Mutant: the index keeps the old tree.
MutPicked(r, c) == CommitOn(r, MergedTree(PickTrees(r, c)), <<HeadOid(r)>>)

\* Repository::cherry_pick_commit and revert_commit: the merged tree is
\* committed on HEAD and loaded into the index.
Picked(r, c) ==
    LET t == MergedTree(PickTrees(r, c))
    IN  [CommitOn(r, t, <<HeadOid(r)>>) EXCEPT !.index = t]

Reverted(r, c) ==
    LET t == MergedTree(RevertTrees(r, c))
    IN  [CommitOn(r, t, <<HeadOid(r)>>) EXCEPT !.index = t]

\* One commit of rebase::rebase, applied to the new tip; s is the handle, the
\* tip and whether a conflict has made the handle useless.
Replay(s, c) ==
    LET r == s.repo
        m == MergeTrees(r, ParentTree(r, c), TreeOf(r, s.tip), TreeOf(r, c))
    IN  IF s.bad \/ Conflicts(m) # {} THEN [s EXCEPT !.bad = TRUE]
        ELSE [repo |-> AddCommit(r, MergedTree(m), <<s.tip>>), tip |-> NewOid(r),
              bad |-> FALSE]

RebaseBase(r, b, onto) == CoreMergeBase(Graph(r), r.refs[b], r.refs[onto])

RebasePlan(r, b, onto) ==
    Reverse(RebaseWalk(Graph(r), r.refs[b], RebaseBase(r, b, onto)))

\* The commits of the walk, oldest first.
Replayed(r, b, onto) ==
    LET plan == RebasePlan(r, b, onto)
        run[n \in 0 .. Len(plan)] ==
            IF n = 0 THEN [repo |-> r, tip |-> r.refs[onto], bad |-> FALSE]
            ELSE Replay(run[n - 1], plan[n])
    IN  run[Len(plan)]

Rebased(r, b, onto) ==
    LET s == Replayed(r, b, onto) IN SetBranch(s.repo, b, s.tip)

RebaseWorks(r, b, onto) ==
    /\ r.refs[b] # None /\ r.refs[onto] # None
    /\ RebaseBase(r, b, onto) # None
    /\ ~RebaseRefused(Graph(r), r.refs[b], RebaseBase(r, b, onto))
    /\ ~Replayed(r, b, onto).bad
    /\ Len(r.commits) + Len(RebasePlan(r, b, onto)) <= MaxCommits

-------------------------------------------------------------------------------
(***************************************************************************)
(* Garbage collection: gc::garbage_collect and Repository::gc.             *)
(***************************************************************************)

\* Mutant: the reflog and the stash are not walked.
MutReached(r) ==
    (UNION {Ancestors(Graph(r), c) :
                c \in {r.refs[b] : b \in Branch} \cup {r.tags[t] : t \in Tag}}) \cap r.have

Reached(r) == (UNION {Ancestors(Graph(r), c) : c \in Roots(r)}) \cap r.have

Collected(r) ==
    LET live == Reached(r)
        kept == (UNION {Contents(r.commits[c].tree) : c \in live})
                  \cup UNION {Contents(r.stash[k].tree) : k \in DOMAIN r.stash}
    IN  [r EXCEPT !.have = live, !.blobs = @ \cap kept]

\* Repository::gc also drops the notes of commits that are gone.
GcRepo(r) == [Collected(r) EXCEPT !.notes = @ \cap Reached(r)]

-------------------------------------------------------------------------------
(***************************************************************************)
(* The end of a command.  r and d are the handle and the directory it has  *)
(* made, chosen the paths whose index entry it set on request, left        *)
(* whether it moved HEAD's commit without loading its tree into the index. *)
(***************************************************************************)

Saved(r, d, chosen, left) ==
    /\ repo' = r
    /\ disk' = d
    /\ touched' = {p \in touched \cup chosen : r.index[p] # HeadTree(r)[p]}
    /\ moved' = ((moved \/ left) /\ r.index # HeadTree(r))
    /\ dropped' = dropped \ r.blobs
    /\ past' = past \cup ({r.refs[b] : b \in Branch} \ {None})
    /\ trimmed' = (trimmed \/ ~IsPrefix(repo.reflog, r.reflog))
    /\ UNCHANGED faults

\* The process dies, or its save fails, after it has written the directory.
DiesBeforeSave(d) ==
    /\ d # disk
    /\ faults < MaxFaults
    /\ faults' = faults + 1
    /\ disk' = d
    /\ UNCHANGED <<repo, touched, moved, dropped, past, trimmed>>

Finish(r, d, chosen, left) == Saved(r, d, chosen, left) \/ DiesBeforeSave(d)

-------------------------------------------------------------------------------
(***************************************************************************)
(* The user's editor, and the file handlers of the API (put_blob, upload,  *)
(* delete_blob, move_file), which touch the directory and not the index.   *)
(***************************************************************************)

Edited(d) ==
    /\ d # disk
    /\ disk' = d
    /\ UNCHANGED <<repo, faults, touched, moved, dropped, past, trimmed>>

Upload(P, x) == P # {} /\ Edited([p \in Path |-> IF p \in P THEN x ELSE disk[p]])
PutBlob(p, x) == Edited([disk EXCEPT ![p] = x])
DeleteBlob(p) == disk[p] # NoFile /\ Edited([disk EXCEPT ![p] = NoFile])
MoveFile(p, q) ==
    p # q /\ disk[p] # NoFile /\ Edited([disk EXCEPT ![p] = NoFile, ![q] = disk[p]])

\* `ovc clean -f`: the untracked files; the clean handler takes a filter.
ApiClean(P) ==
    /\ Untracked(repo, disk) \cap P # {}
    /\ disk' = Deleted(disk, Untracked(repo, disk) \cap P)
    /\ UNCHANGED <<repo, faults, touched, moved, dropped, past, trimmed>>

Clean == ApiClean(Path)

-------------------------------------------------------------------------------
(***************************************************************************)
(* Staging.                                                                *)
(***************************************************************************)

\* `ovc add <path>`: an ignored path needs --force.
Add(p, force) ==
    /\ force \/ p \notin Ignored
    /\ disk[p] # NoFile
    /\ Finish(StageFile(repo, p, disk[p]), disk, {p}, FALSE)

\* `ovc add .`: every file the scan sees; deletions are not staged.
AddDir(force) ==
    LET P == Scan(disk, IF force THEN {} ELSE Ignored)
    IN  Finish(StageSet(repo, disk, P), disk, P, FALSE)

\* `ovc add --all` stages what differs and what is untracked.
AddAll ==
    LET gone == {p \in Path : Unstaged(repo, disk, p) = "deleted"}
        new  == {p \in Path : Unstaged(repo, disk, p) = "modified"}
                    \cup Untracked(repo, disk)
    IN  Finish([StageSet(repo, disk, new) EXCEPT
                   !.index = [p \in Path |-> IF p \in gone THEN NoFile ELSE @[p]]],
               disk, gone \cup new, FALSE)

\* The stage handler: a path without a file is unstaged.
ApiStage(p) ==
    Finish(IF disk[p] = NoFile THEN UnstageFile(repo, p)
           ELSE StageFile(repo, p, disk[p]), disk, {p}, FALSE)

\* The unstage handler removes the entry, whatever HEAD has.
ApiUnstage(p) == Finish(UnstageFile(repo, p), disk, {p}, FALSE)

\* The restore handler and `ovc reset <path>`: the entry of HEAD.
ApiRestore(p) ==
    Finish([repo EXCEPT !.index[p] = HeadTree(repo)[p]], disk, {p}, FALSE)

UnstagePath(p) ==
    /\ HeadTree(repo)[p] \in repo.blobs \cup {NoFile}
    /\ Finish([repo EXCEPT !.index[p] = HeadTree(repo)[p]], disk, {p}, FALSE)

\* `ovc checkout -- <path>`: file and entry from HEAD.
RestorePath(p) ==
    /\ HeadTree(repo)[p] \in repo.blobs
    /\ Finish(StageFile(repo, p, HeadTree(repo)[p]),
              [disk EXCEPT ![p] = HeadTree(repo)[p]], {p}, FALSE)

-------------------------------------------------------------------------------
(***************************************************************************)
(* Commits.                                                                *)
(***************************************************************************)

CanCommit == Len(repo.commits) < MaxCommits

\* stage_all_modified of `ovc commit -a`: no untracked files.
AllModified(r, d) ==
    LET gone == {p \in Path : Unstaged(r, d, p) = "deleted"}
        new  == {p \in Path : Unstaged(r, d, p) = "modified"}
    IN  [StageSet(r, d, new) EXCEPT
            !.index = [p \in Path |-> IF p \in gone THEN NoFile ELSE @[p]]]

Committed(all) == IF all THEN AllModified(repo, disk) ELSE repo

Commit(all) ==
    /\ CanCommit
    /\ HasStaged(Committed(all))
    /\ Finish(CreateCommit(Committed(all)), disk, {}, FALSE)

\* The commit handler does not ask whether anything is staged.
ApiCommit == CanCommit /\ Finish(CreateCommit(repo), disk, {}, FALSE)

\* `ovc commit --amend`: HEAD's parents, the tree of the index.
Amended(r) == CommitOn(r, r.index, r.commits[HeadOid(r)].parents)

Amend(all) ==
    /\ CanCommit
    /\ HeadOid(repo) # None
    /\ Finish(Amended(Committed(all)), disk, {}, FALSE)

\* execute_amend_commit of the commit handler.
ApiAmend ==
    /\ CanCommit
    /\ HeadOid(repo) # None
    /\ Finish(Amended(repo), disk, {}, FALSE)

-------------------------------------------------------------------------------
(***************************************************************************)
(* Branches and checkout.                                                  *)
(***************************************************************************)

\* `ovc branch <n> [start]`, Repository::create_branch_at: an existing branch
\* is moved, the current one too.
CreateBranch(n, c) ==
    Finish(SetBranch(repo, n, c), disk, {}, n = repo.head)

\* The create handler also wants a HEAD commit.
ApiCreateBranch(n, c) == HeadOid(repo) # None /\ CreateBranch(n, c)

RenameBranch(b, n) ==
    /\ repo.refs[b] # None
    /\ repo.refs[n] = None
    /\ Finish(Renamed(repo, b, n), disk, {}, FALSE)

\* `ovc branch -d` wants the branch merged into HEAD, -D does not.
DeleteBranch(b, force) ==
    /\ repo.refs[b] # None
    /\ b # repo.head
    /\ force \/ HeadOid(repo) = None
              \/ IsAncestor(Graph(repo), repo.refs[b], HeadOid(repo))
    /\ Finish([repo EXCEPT !.refs[b] = None], disk, {}, FALSE)

\* The delete handler also keeps the default branch.
ApiDeleteBranch(b) == b # Main /\ DeleteBranch(b, TRUE)

Present(b) == repo.refs[b] \in repo.have

\* `ovc checkout <b>` refuses when something is uncommitted, unless forced.
Checkout(b, force) ==
    /\ force \/ ~Dirty(repo, disk)
    /\ Present(b)
    /\ LET s == CheckedOut(repo, disk, b) IN Finish(s.r, s.d, {}, FALSE)

\* `ovc checkout -b <n> [start]` does not look for uncommitted changes.
CheckoutNew(n, start) ==
    LET s == CheckedOut(repo, disk, start)
        r == SetBranch(s.r, n, HeadOid(s.r))
        z == CheckedOut(r, s.d, n)
    IN  Present(start) /\ Finish(z.r, z.d, {}, FALSE)

\* check_for_dirty_state: the index against HEAD, the files against the index.
ApiDirty(r, d) ==
    r.index # HeadTree(r) \/ \E p \in Files(r.index) : d[p] # r.index[p]

\* The checkout handler deletes whatever the target lacks, untracked and
\* ignored files included.
ApiCheckout(b) ==
    /\ Present(b)
    /\ ~ApiDirty(repo, disk)
    /\ LET t == TreeOf(repo, repo.refs[b])
       IN  Finish([repo EXCEPT !.index = t, !.head = b, !.headRef = b],
                  Replaced(repo, disk, t, {}), {}, FALSE)

\* `ovc reset`: branch, index and files.
ResetTo(c, mode, ignore) ==
    LET t == TreeOf(repo, c)
        r == SetBranch(repo, repo.head, c)
    IN  /\ c \in repo.have
        /\ Finish(IF mode = "soft" THEN r ELSE [r EXCEPT !.index = t],
                  IF mode = "hard" THEN Replaced(repo, disk, t, ignore) ELSE disk,
                  IF mode = "soft" THEN Path ELSE {}, FALSE)

Reset(c, mode) == ResetTo(c, mode, Ignored)

\* The reset handler deletes ignored files too (reset_working_tree).
ApiReset(c, mode) == ResetTo(c, mode, {})

-------------------------------------------------------------------------------
(***************************************************************************)
(* Merge.                                                                  *)
(***************************************************************************)

\* `ovc merge <b>`: on success a commit with both parents; the index is
\* cleared and every file is written and staged, an object that is missing
\* as an empty file.  Files that the merge removed stay on disk.
MergeOf(b, base) ==
    MergeTrees(repo, TreeOf(repo, base), HeadTree(repo), TreeOf(repo, repo.refs[b]))

\* Mutant: the merged branch is no parent.
MutMergeParents(b) == <<HeadOid(repo)>>

MergeParents(b) == <<HeadOid(repo), repo.refs[b]>>

MergeBranch(b) ==
    LET base == CliMergeBase(Graph(repo), HeadOid(repo), repo.refs[b])
        t    == MergedTree(MergeOf(b, base))
        full == [p \in Path |-> IF t[p] = NoFile \/ t[p] \in repo.blobs THEN t[p] ELSE Empty]
        r    == CommitOn(repo, t, MergeParents(b))
    IN  /\ HeadOid(repo) # None /\ Present(b) /\ CanCommit
        /\ HeadOid(repo) # repo.refs[b]
        /\ base # None
        /\ Conflicts(MergeOf(b, base)) = {}
        /\ Finish([r EXCEPT !.index = full, !.blobs = @ \cup Contents(full)],
                  [p \in Path |-> IF full[p] # NoFile THEN full[p] ELSE disk[p]],
                  {}, full # t)

\* A conflict writes the marked files and saves nothing.
MergeConflict(b) ==
    LET base == CliMergeBase(Graph(repo), HeadOid(repo), repo.refs[b])
        m    == MergeOf(b, base)
    IN  /\ HeadOid(repo) # None /\ Present(b)
        /\ HeadOid(repo) # repo.refs[b]
        /\ base # None
        /\ Conflicts(m) # {}
        /\ disk' = [p \in Path |-> IF m[p].kind = "modify" THEN m[p].text ELSE disk[p]]
        /\ UNCHANGED <<repo, faults, touched, moved, dropped, past, trimmed>>

\* The merge handler: first-parent base, the empty tree when there is none;
\* the commit has HEAD as its only parent and no file is written.
ApiMerge(b) ==
    LET base == ApiMergeBase(Graph(repo), HeadOid(repo), repo.refs[b])
        m    == MergeOf(b, base)
    IN  /\ HeadOid(repo) # None /\ Present(b) /\ CanCommit
        /\ HeadOid(repo) # repo.refs[b]
        /\ Conflicts(m) = {}
        /\ Finish(CreateCommit([repo EXCEPT !.index = MergedTree(m)]), disk, {}, FALSE)

-------------------------------------------------------------------------------
(***************************************************************************)
(* Stash: StashStore keeps the tree of the index, never the directory.     *)
(***************************************************************************)

StashEntry(r) == [tree |-> r.index, base |-> HeadOid(r)]

\* Repository::stash_push: the index goes back to HEAD.
Pushed(r) == [r EXCEPT !.stash = <<StashEntry(r)>> \o @, !.index = HeadTree(r)]

\* StashStore::apply, pop and drop_entry.
StashLoaded(r, k) == [r EXCEPT !.index = r.stash[k].tree]
StashDropped(r, k) == [r EXCEPT !.stash = RemoveAt(@, k)]

CanStash == HeadOid(repo) # None /\ Len(repo.stash) < MaxStash

\* `ovc stash` also makes the directory look like HEAD.
StashPush ==
    LET d == WriteOut(repo, disk, HeadTree(repo))
    IN  /\ CanStash
        /\ Finish(Pushed(repo), Deleted(d, Scan(d, Ignored) \ Files(HeadTree(repo))),
                  {}, FALSE)

\* `ovc stash pop` and `ovc stash apply` write the files of the entry.
StashPop(k) ==
    LET r == StashLoaded(repo, k)
    IN  Finish(StashDropped(r, k), WriteOut(r, disk, r.index), Path, FALSE)

StashApply(k) ==
    LET r == StashLoaded(repo, k) IN Finish(r, WriteOut(r, disk, r.index), Path, FALSE)

StashDrop(k) == Finish(StashDropped(repo, k), disk, {}, FALSE)

StashClear == Finish([repo EXCEPT !.stash = <<>>], disk, {}, FALSE)

\* The handlers leave the directory alone.
ApiStashPush == CanStash /\ Finish(Pushed(repo), disk, {}, FALSE)
ApiStashPop(k) == Finish(StashDropped(StashLoaded(repo, k), k), disk, Path, FALSE)
ApiStashApply(k) == Finish(StashLoaded(repo, k), disk, Path, FALSE)
ApiStashDrop(k) == StashDrop(k)
ApiStashClear == StashClear

-------------------------------------------------------------------------------
(***************************************************************************)
(* Rebase, cherry-pick, revert, tags, notes and gc.                        *)
(***************************************************************************)

\* `ovc rebase <onto>` checks the rebased branch out.
Rebase(onto) ==
    /\ RebaseWorks(repo, repo.head, onto)
    /\ LET s == CheckedOut(Rebased(repo, repo.head, onto), disk, repo.head)
       IN  Finish(s.r, s.d, {}, FALSE)

\* The rebase handler moves the branch and leaves index and files.
ApiRebase(onto) ==
    /\ RebaseWorks(repo, repo.head, onto)
    /\ Finish(Rebased(repo, repo.head, onto), disk, {}, TRUE)

CanPick(c) ==
    /\ HeadOid(repo) # None /\ c \in repo.have /\ CanCommit
    /\ Conflicts(PickTrees(repo, c)) = {}

CherryPick(c) ==
    CanPick(c) /\ LET r == Picked(repo, c) IN Finish(r, WriteOut(r, disk, r.index), {}, FALSE)

ApiCherryPick(c) == CanPick(c) /\ Finish(Picked(repo, c), disk, {}, FALSE)

CanRevert(c) ==
    /\ HeadOid(repo) # None /\ c \in repo.have /\ CanCommit
    /\ Conflicts(RevertTrees(repo, c)) = {}

\* `ovc revert` also deletes every scanned file that the new tree lacks.
RevertCommit(c) ==
    /\ CanRevert(c)
    /\ LET r == Reverted(repo, c) IN Finish(r, Replaced(r, disk, r.index, Ignored), {}, FALSE)

ApiRevert(c) == CanRevert(c) /\ Finish(Reverted(repo, c), disk, {}, FALSE)

\* RefStore::create_tag refuses a name that exists.
Tagged(r, t, c) == [r EXCEPT !.tags[t] = c]

CreateTag(t) ==
    /\ HeadOid(repo) # None
    /\ repo.tags[t] = None
    /\ Finish(Tagged(repo, t, HeadOid(repo)), disk, {}, FALSE)

\* The tag handler takes any commit.
ApiCreateTag(t, c) ==
    /\ repo.tags[t] = None
    /\ Finish(Tagged(repo, t, c), disk, {}, FALSE)

DeleteTag(t) ==
    /\ repo.tags[t] # None
    /\ Finish(Tagged(repo, t, None), disk, {}, FALSE)

ApiDeleteTag(t) == DeleteTag(t)

SetNote(c) ==
    /\ Cardinality(repo.notes \cup {c}) <= MaxNotes
    /\ Finish([repo EXCEPT !.notes = @ \cup {c}], disk, {}, FALSE)
RemoveNote(c) == c \in repo.notes /\ Finish([repo EXCEPT !.notes = @ \ {c}], disk, {}, FALSE)
ApiSetNote(c) == SetNote(c)
ApiRemoveNote(c) == RemoveNote(c)

Gc ==
    LET r == GcRepo(repo)
    IN  /\ repo' = r
        /\ dropped' = dropped \cup (Contents(repo.index) \ r.blobs)
        /\ UNCHANGED <<disk, faults, touched, moved, past, trimmed>>

\* The gc handler.
ApiGc == Gc

-------------------------------------------------------------------------------
Init ==
    /\ repo \in Start
    /\ disk = repo.index
    /\ steps = 0 /\ faults = 0
    /\ touched = {} /\ moved = FALSE /\ dropped = {} /\ trimmed = FALSE
    /\ past = {repo.refs[b] : b \in Branch} \ {None}

FileStep ==
    \/ \E p \in Path : DeleteBlob(p) \/ \E x \in Text : PutBlob(p, x)
    \/ \E p, q \in Path : MoveFile(p, q)
    \/ \E x \in Text : Upload(Path, x)
    \/ Clean
    \/ \E p \in Path : ApiClean({p})

StageStep ==
    \/ AddAll
    \/ \E f \in BOOLEAN : AddDir(f) \/ \E p \in Path : Add(p, f)
    \/ \E p \in Path : \/ ApiStage(p) \/ ApiUnstage(p) \/ ApiRestore(p)
                       \/ UnstagePath(p) \/ RestorePath(p)

CommitStep ==
    \/ \E all \in BOOLEAN : Commit(all) \/ Amend(all)
    \/ ApiCommit
    \/ ApiAmend

BranchStep ==
    \/ \E n \in Branch, c \in repo.have : CreateBranch(n, c) \/ ApiCreateBranch(n, c)
    \/ \E b, n \in Branch : RenameBranch(b, n) \/ CheckoutNew(n, b)
    \/ \E b \in Branch, f \in BOOLEAN : DeleteBranch(b, f) \/ Checkout(b, f)
    \/ \E b \in Branch : ApiDeleteBranch(b) \/ ApiCheckout(b)
    \/ \E c \in repo.have, m \in {"soft", "mixed", "hard"} : Reset(c, m) \/ ApiReset(c, m)

MergeStep ==
    \/ \E b \in Branch : \/ MergeBranch(b) \/ MergeConflict(b) \/ ApiMerge(b)
                         \/ Rebase(b) \/ ApiRebase(b)
    \/ \E c \in repo.have : \/ CherryPick(c) \/ ApiCherryPick(c)
                            \/ RevertCommit(c) \/ ApiRevert(c)

StashStep ==
    \/ StashPush \/ StashClear \/ ApiStashPush \/ ApiStashClear
    \/ \E k \in DOMAIN repo.stash : \/ StashPop(k) \/ StashApply(k) \/ StashDrop(k)
                                    \/ ApiStashPop(k) \/ ApiStashApply(k) \/ ApiStashDrop(k)

NoteStep ==
    \/ \E t \in Tag : CreateTag(t) \/ DeleteTag(t) \/ ApiDeleteTag(t)
    \/ \E t \in Tag, c \in repo.have : ApiCreateTag(t, c)
    \/ \E c \in repo.have : SetNote(c) \/ RemoveNote(c) \/ ApiSetNote(c) \/ ApiRemoveNote(c)
    \/ Gc \/ ApiGc

Next ==
    /\ steps < MaxSteps
    /\ steps' = steps + 1
    /\ \/ FileStep \/ StageStep \/ CommitStep \/ BranchStep
       \/ MergeStep \/ StashStep \/ NoteStep

Spec == Init /\ [][Next]_vars

-------------------------------------------------------------------------------
(***************************************************************************)
(* Properties.                                                             *)
(***************************************************************************)

TypeOK ==
    /\ repo \in Repo
    /\ Len(repo.commits) <= MaxCommits
    /\ repo.have \subseteq DOMAIN repo.commits
    /\ Len(repo.reflog) <= MaxReflog
    /\ disk \in Tree
    /\ steps \in 0 .. MaxSteps /\ faults \in 0 .. MaxFaults
    /\ touched \subseteq Path /\ past \subseteq Oid /\ dropped \subseteq Data
    /\ moved \in BOOLEAN /\ trimmed \in BOOLEAN

(***************************************************************************)
(* Whatever a branch, a tag, a stash entry or a reflog entry names is in   *)
(* the store with its whole history and every file of it, except contents  *)
(* that gc removed while they were only staged: garbage_collect takes no   *)
(* roots from the index, and a later commit of that index is incomplete.   *)
(***************************************************************************)
HistoryComplete ==
    \A c \in Roots(repo) \ {None} :
        /\ Ancestors(Graph(repo), c) \subseteq repo.have
        /\ \A a \in Ancestors(Graph(repo), c) :
              Contents(repo.commits[a].tree) \subseteq repo.blobs \cup dropped

(***************************************************************************)
(* A commit that was once the tip of a branch survives resets, rebases,    *)
(* amends, renames, deletions and gc until the reflog has overflowed.      *)
(***************************************************************************)
OldTipsKept == ~trimmed => past \subseteq repo.have

(***************************************************************************)
(* The index differs from HEAD only where somebody staged something: no    *)
(* command that moves HEAD leaves the index behind, so the next commit     *)
(* cannot silently undo the commits in between.  Three do: the rebase      *)
(* handler, creating a branch under the name of the current one, and       *)
(* `ovc merge` when gc removed a content of the merged tree.               *)
(***************************************************************************)
IndexExplained ==
    moved \/ \A p \in Path : repo.index[p] # HeadTree(repo)[p] => p \in touched

(***************************************************************************)
(* Once some branch has a commit, HEAD names one: delete, rename and       *)
(* checkout never leave HEAD on a missing branch.                          *)
(***************************************************************************)
HeadResolves == (\E b \in Branch : repo.refs[b] # None) => HeadOid(repo) # None

(***************************************************************************)
(* A checkout that is not forced, of the command or of the handler, never  *)
(* destroys an edit of a tracked file: every tracked file it overwrites or *)
(* deletes had the content of HEAD.                                        *)
(***************************************************************************)
EditLost == \E p \in Files(repo.index) : disk[p] \notin {disk'[p], HeadTree(repo)[p]}

CheckoutKeepsEdits ==
    [][EditLost => ~\E b \in Branch : Checkout(b, FALSE) \/ ApiCheckout(b)]_vars

(***************************************************************************)
(* After a checkout, a hard reset, a rebase or a clean merge that saved,   *)
(* the index is HEAD's tree and the directory has every file of it whose   *)
(* content the store holds.                                                *)
(***************************************************************************)
Diverged(r, d) ==
    \E p \in Path : /\ HeadTree(r)[p] \in r.blobs
                    /\ r.index[p] # HeadTree(r)[p] \/ d[p] # HeadTree(r)[p]

DiskFollowsHead ==
    [][repo' # repo /\ Diverged(repo', disk')
        => ~\/ \E b \in Branch, f \in BOOLEAN : Checkout(b, f)
            \/ \E b \in Branch : ApiCheckout(b) \/ Rebase(b) \/ MergeBranch(b)
            \/ \E b, n \in Branch : CheckoutNew(n, b)
            \/ \E c \in repo.have : Reset(c, "hard") \/ ApiReset(c, "hard")]_vars

(***************************************************************************)
(* `ovc merge` is remembered: afterwards both merged tips are ancestors of *)
(* HEAD, and the merged branch can be deleted without force.               *)
(***************************************************************************)
MergeRemembered ==
    [][\A b \in Branch :
         ~({HeadOid(repo), repo.refs[b]} \subseteq Ancestors(Graph(repo'), HeadOid(repo')))
             => ~(repo' # repo /\ MergeBranch(b))]_vars

(***************************************************************************)
(* Nothing that a user can still name is lost, whatever sequence of        *)
(* commands, requests, deaths and collections led here.                    *)
(***************************************************************************)
NothingLost == TypeOK /\ HistoryComplete /\ OldTipsKept /\ HeadResolves

(***************************************************************************)
(* The directory is safe with the commands that write it: a checkout       *)
(* keeps edits, and what replaces HEAD replaces the files too.             *)
(***************************************************************************)
DirectorySafe == CheckoutKeepsEdits /\ DiskFollowsHead
===============================================================================
