------------------------------- MODULE RepoSave -------------------------------
(***************************************************************************)
(* The life of one `.ovc` file that several commands open and save at the  *)
(* same time: Repository::open and Repository::save (repository.rs), the   *)
(* advisory lock file (lock.rs), the write-ahead log and the sweep of      *)
(* temporary files (wal.rs), the conflict check (conflict.rs) and the      *)
(* automatic merge of save_with_merge.                                     *)
(*                                                                         *)
(* A process is one CLI command or one API request: it opens the file,     *)
(* changes its in-memory copy, saves, and ends.  Every step of a process   *)
(* is one file-system call of the code (or a run of steps that no other    *)
(* process can observe), so TLC interleaves the calls of all processes.    *)
(*                                                                         *)
(* A branch is represented by the set of commits in its history, {} when   *)
(* the branch does not exist; a commit is named by the process that makes  *)
(* it and a counter.                                                       *)
(***************************************************************************)
EXTENDS Naturals

CONSTANTS
    Procs,      \* the commands that run against the file
    NoOne,      \* the owner of a lock file that does not exist
    HostName,   \* HostName[p]: what lock.rs hostname() reports for p
    Unknown,    \* the name reported when neither HOSTNAME nor HOST is set
    Probes,     \* <<p, q>>: `kill -0` run by p tells truly whether q lives
    Merging,    \* processes that call save_with_merge (ovc commit, ovc sync)
    Branches,   \* branch names
    Root,       \* the commit that is in the file from the start
    Sizes,      \* file sizes a save may produce
    MaxOps,     \* bound: changes (each followed by a save) per process
    MaxClock    \* bound: seconds that pass

ASSUME ConstantsAssumption ==
    /\ NoOne \notin Procs
    /\ Root \notin Procs \X (1 .. MaxOps)
    /\ Probes \subseteq Procs \X Procs
    /\ Merging \subseteq Procs
    /\ MaxOps \in Nat
    /\ MaxClock \in Nat
    /\ Branches # {}
    /\ Sizes # {}

VARIABLES
    disk,    \* the .ovc file: its content and the stat data of its inode
    lockf,   \* the lock file
    wal,     \* the write-ahead log file: absent, or the status it records
    tmps,    \* processes whose randomly named temporary file exists
    tstat,   \* tstat[p]: mtime and size of p's temporary file
    clock,   \* wall clock in seconds
    pc,      \* where each process is
    mem,     \* mem[p]: the Repository handle of p
    rd,      \* rd[p]: the file as p's last open read it
    merged,  \* merged[p]: p's current save has been through merge_and_save
    ops      \* ops[p]: changes p has made

(* History: these record what happened and enable or disable no step. *)
VARIABLES
    base,    \* base[p]: the version of the file p's handle was built from
    chk,     \* chk[p]: the version on disk when p's conflict check passed
    broken,  \* some process removed the lock file of a process still saving
    lost,    \* some save replaced a version its process had not seen
    acked,   \* commits whose save returned Ok
    dropped  \* commits that a merging save left out of the store it saved

diskVars  == <<disk, lockf, wal, tmps, tstat, clock>>
procVars  == <<pc, mem, rd, merged, ops>>
histVars  == <<base, chk, broken, lost, acked, dropped>>
vars      == <<diskVars, procVars, histVars>>

Commits   == Procs \X (1 .. MaxOps)
Objects   == Commits \cup {Root}
Refs      == [Branches -> SUBSET Objects]
Stat      == [mtime : Nat, size : Sizes]
Snapshot  == [seq : Nat, mtime : Nat, size : Sizes]
File      == [ver : Nat, seq : Nat, mtime : Nat, size : Sizes,
              objs : SUBSET Objects, refs : Refs]
Handle    == [seq : Nat, store : SUBSET Objects, stored : SUBSET Objects,
              refs : Refs, snap : Snapshot]
LockFile  == [by : Procs \cup {NoOne}, written : BOOLEAN, old : BOOLEAN]
NoLock    == [by |-> NoOne, written |-> FALSE, old |-> FALSE]

Final     == {"done", "failed", "crashed"}
Opening   == {"open", "recover", "readwal", "clean", "cleanwal", "dropwal",
              "capture"}
Locking   == {"inspect", "probe", "unlink", "create"}
Saving    == {"stamp", "begin", "write", "rename", "complete", "recapture",
              "unlock", "unlockerr"}
PCs       == Final \cup Opening \cup Locking \cup Saving \cup {"work", "check"}

(* p is inside the write section that RepoLock is meant to protect. *)
Holding(p) == pc[p] \in Saving

Goto(p, from, to) ==
    /\ pc[p] = from
    /\ pc' = [pc EXCEPT ![p] = to]

(***************************************************************************)
(* Repository::open                                                        *)
(***************************************************************************)

(* Header, trailer and superblock are read through one file descriptor, so *)
(* a rename over the path cannot mix two versions.                         *)
OpenRead(p) ==
    /\ Goto(p, "open", "recover")
    /\ rd' = [rd EXCEPT ![p] = disk]
    /\ UNCHANGED <<diskVars, mem, merged, ops, histVars>>

(* WriteAheadLog::needs_recovery: is_file, then read_to_string. *)
LookForWal(p) ==
    /\ pc[p] = "recover"
    /\ pc' = [pc EXCEPT ![p] = IF wal = "none" THEN "clean" ELSE "readwal"]
    /\ UNCHANGED <<diskVars, mem, rd, merged, ops, histVars>>

(* The log may be gone by the time it is read, and then open fails.  An    *)
(* entry marked failed is deleted here, so recover never sees one.         *)
ReadWal(p) ==
    /\ pc[p] = "readwal"
    /\ pc' = [pc EXCEPT ![p] = CASE wal = "none"       -> "failed"
                                 [] wal = "failed"     -> "clean"
                                 [] wal = "inprogress" -> "cleanwal"]
    /\ wal' = IF wal = "failed" THEN "none" ELSE wal
    /\ UNCHANGED <<disk, lockf, tmps, tstat, clock, mem, rd, merged, ops,
                   histVars>>

(* Mutant: the directory is swept only when a write-ahead log was found. *)
MutCleanTemps(p) ==
    /\ pc[p] \in {"clean", "cleanwal"}
    /\ pc' = [pc EXCEPT ![p] = IF @ = "cleanwal" THEN "dropwal" ELSE "capture"]
    /\ tmps' = IF pc[p] = "cleanwal" THEN {} ELSE tmps
    /\ UNCHANGED <<disk, lockf, wal, tstat, clock, mem, rd, merged, ops,
                   histVars>>

(* cleanup_orphaned_temp_files removes every temporary file of the repository. *)
CleanTemps(p) ==
    /\ pc[p] \in {"clean", "cleanwal"}
    /\ pc' = [pc EXCEPT ![p] = IF @ = "cleanwal" THEN "dropwal" ELSE "capture"]
    /\ tmps' = {}
    /\ UNCHANGED <<disk, lockf, wal, tstat, clock, mem, rd, merged, ops,
                   histVars>>

DropWal(p) ==
    /\ Goto(p, "dropwal", "capture")
    /\ wal' = "none"
    /\ UNCHANGED <<disk, lockf, tmps, tstat, clock, mem, rd, merged, ops,
                   histVars>>

(* FileSnapshot::capture: the sequence that was read with the stat data of *)
(* whatever file is at the path now.                                       *)
SnapshotOf(seq) == [seq |-> seq, mtime |-> disk.mtime, size |-> disk.size]

OpenedHandle(r) ==
    [seq |-> r.seq, snap |-> SnapshotOf(r.seq), refs |-> r.refs,
     store |-> r.objs, stored |-> r.objs]

CaptureOpen(p) ==
    /\ Goto(p, "capture", "work")
    /\ ~merged[p]
    /\ mem' = [mem EXCEPT ![p] = OpenedHandle(rd[p])]
    /\ base' = [base EXCEPT ![p] = rd[p].ver]
    /\ UNCHANGED <<diskVars, rd, merged, ops, chk, broken, lost, acked, dropped>>

(* merge_and_save: the objects persisted in this handle's superblock and   *)
(* the remote ones replace the live store (ObjectStore::import); a branch  *)
(* the handle has keeps its own value, the others are taken over.          *)
MergedStore(h, r) == h.stored \cup r.objs

MergedRefs(h, r) ==
    [b \in Branches |-> IF h.refs[b] # {} THEN h.refs[b] ELSE r.refs[b]]

MergedHandle(h, r) ==
    [seq |-> r.seq, snap |-> SnapshotOf(r.seq), refs |-> MergedRefs(h, r),
     store |-> MergedStore(h, r), stored |-> MergedStore(h, r)]

CaptureMerge(p) ==
    /\ Goto(p, "capture", "check")
    /\ merged[p]
    /\ mem' = [mem EXCEPT ![p] = MergedHandle(@, rd[p])]
    /\ base' = [base EXCEPT ![p] = rd[p].ver]
    /\ dropped' = dropped \cup (mem[p].store \ MergedStore(mem[p], rd[p]))
    /\ UNCHANGED <<diskVars, rd, merged, ops, chk, broken, lost, acked>>

(***************************************************************************)
(* Changes to the handle; every command that makes one saves next.         *)
(***************************************************************************)
Change(p, store, refs) ==
    /\ Goto(p, "work", "check")
    /\ ops[p] < MaxOps
    /\ ops' = [ops EXCEPT ![p] = @ + 1]
    /\ mem' = [mem EXCEPT ![p].store = store, ![p].refs = refs]
    /\ UNCHANGED <<diskVars, rd, merged, histVars>>

(* HEAD, an input of the command, selects the branch a commit extends. *)
CreateCommit(p) ==
    \E b \in Branches :
        LET c == <<p, ops[p] + 1>>
        IN  /\ mem[p].refs[b] # {}
            /\ Change(p, mem[p].store \cup {c},
                      [mem[p].refs EXCEPT ![b] = @ \cup {c}])

(* set_branch does not ask whether the branch exists already. *)
CreateBranch(p) ==
    \E b, from \in Branches :
        /\ mem[p].refs[from] # {}
        /\ Change(p, mem[p].store,
                  [mem[p].refs EXCEPT ![b] = mem[p].refs[from]])

DeleteBranch(p) ==
    \E b, head \in Branches :
        /\ b # head         \* the checked-out branch cannot be deleted
        /\ mem[p].refs[b] # {}
        /\ Change(p, mem[p].store, [mem[p].refs EXCEPT ![b] = {}])

(* A read-only command, or the end of one that has saved. *)
Exit(p) ==
    /\ Goto(p, "work", "done")
    /\ UNCHANGED <<diskVars, mem, rd, merged, ops, histVars>>

Work(p) == CreateCommit(p) \/ CreateBranch(p) \/ DeleteBranch(p) \/ Exit(p)

(***************************************************************************)
(* Repository::save: the conflict check comes before the lock.             *)
(***************************************************************************)
SameStat(p) == disk.mtime = mem[p].snap.mtime /\ disk.size = mem[p].snap.size

(* Mutant: only the mtime is compared. *)
MutConflictSize(p) ==
    disk.mtime # mem[p].snap.mtime /\ disk.seq # mem[p].snap.seq

Conflict(p) == ~SameStat(p) /\ disk.seq # mem[p].snap.seq

CheckPasses(p) ==
    /\ Goto(p, "check", "inspect")
    /\ ~Conflict(p)
    /\ chk' = [chk EXCEPT ![p] = disk.ver]
    /\ UNCHANGED <<diskVars, mem, rd, merged, ops, base, broken, lost, acked,
                   dropped>>

CheckConflictMerge(p) ==
    /\ Goto(p, "check", "open")
    /\ Conflict(p)
    /\ p \in Merging /\ ~merged[p]
    /\ merged' = [merged EXCEPT ![p] = TRUE]
    /\ UNCHANGED <<diskVars, mem, rd, ops, histVars>>

CheckConflictError(p) ==
    /\ Goto(p, "check", "failed")
    /\ Conflict(p)
    /\ p \notin Merging \/ merged[p]
    /\ UNCHANGED <<diskVars, mem, rd, merged, ops, histVars>>

(***************************************************************************)
(* RepoLock::acquire                                                       *)
(***************************************************************************)
ForeignHost(p) ==
    lockf.written /\ HostName[lockf.by] \notin {Unknown, HostName[p]}

(* Mutant: a lock file without a pid counts as held. *)
MutAliveAnswers(p) ==
    IF lockf.written /\ <<p, lockf.by>> \in Probes
    THEN {pc[lockf.by] \notin Final}
    ELSE BOOLEAN \ {lockf.written}

(* What `kill -0` may answer p about the process named in the lock file; a *)
(* lock file that is gone, or whose text is not written yet, names none.   *)
AliveAnswers(p) ==
    CASE ~lockf.written                -> {FALSE}
      [] lockf.written /\ <<p, lockf.by>> \in Probes
                                       -> {pc[lockf.by] \notin Final}
      [] OTHER                         -> BOOLEAN

(* try_clean_stale_lock: lock_path.exists(). *)
InspectLock(p) ==
    /\ pc[p] = "inspect"
    /\ pc' = [pc EXCEPT ![p] = IF lockf.by = NoOne THEN "create" ELSE "probe"]
    /\ UNCHANGED <<diskVars, mem, rd, merged, ops, histVars>>

(* The file is then read for its host, read again for its pid and its age  *)
(* is taken: one step here, since what three reads of different files find *)
(* is also found by one read of one of them, or by none existing.  A lock  *)
(* that vanished meanwhile reads as a dead holder's.                       *)
FindStaleLock(p) ==
    /\ Goto(p, "probe", "unlink")
    /\ ForeignHost(p) \/ FALSE \in AliveAnswers(p) \/ lockf.old
    /\ UNCHANGED <<diskVars, mem, rd, merged, ops, histVars>>

FindLiveLock(p) ==
    /\ Goto(p, "probe", "create")
    /\ ~ForeignHost(p) /\ TRUE \in AliveAnswers(p) /\ ~lockf.old
    /\ UNCHANGED <<diskVars, mem, rd, merged, ops, histVars>>

(* remove_file takes the path: whichever lock file is there now is gone. *)
UnlinkLock(p) ==
    /\ lockf' = NoLock
    /\ broken' = (broken \/ \E q \in Procs : /\ q # p
                                             /\ q = lockf.by
                                             /\ Holding(q))

RemoveStaleLock(p) ==
    /\ Goto(p, "unlink", "create")
    /\ UnlinkLock(p)
    /\ UNCHANGED <<disk, wal, tmps, tstat, clock, mem, rd, merged, ops,
                   base, chk, lost, acked, dropped>>

(* Mutant: the lock file is opened with create instead of create_new. *)
MutCreateLock(p) ==
    /\ Goto(p, "create", "stamp")
    /\ lockf' = [by |-> p, written |-> FALSE, old |-> FALSE]
    /\ UNCHANGED <<disk, wal, tmps, tstat, clock, mem, rd, merged, ops,
                   histVars>>

(* create_new succeeds; the text is written by the next step. *)
CreateLock(p) ==
    /\ Goto(p, "create", "stamp")
    /\ lockf.by = NoOne
    /\ lockf' = [by |-> p, written |-> FALSE, old |-> FALSE]
    /\ UNCHANGED <<disk, wal, tmps, tstat, clock, mem, rd, merged, ops,
                   histVars>>

LockBusy(p) ==
    /\ Goto(p, "create", "inspect")
    /\ lockf.by # NoOne
    /\ UNCHANGED <<diskVars, mem, rd, merged, ops, histVars>>

(* Mutant: the retry loop never looks at its timeout. *)
MutLockTimeout(p) == LockBusy(p)

LockTimeout(p) ==
    /\ Goto(p, "create", "failed")
    /\ lockf.by # NoOne
    /\ UNCHANGED <<diskVars, mem, rd, merged, ops, histVars>>

(* Writing to a lock file that was unlinked meanwhile changes no path. *)
StampLock(p) ==
    /\ Goto(p, "stamp", "begin")
    /\ lockf' = IF lockf.by = p THEN [lockf EXCEPT !.written = TRUE] ELSE lockf
    /\ UNCHANGED <<disk, wal, tmps, tstat, clock, mem, rd, merged, ops,
                   histVars>>

(* The text cannot be written: acquire returns the error and the empty     *)
(* lock file stays.                                                        *)
StampFails(p) ==
    /\ Goto(p, "stamp", "failed")
    /\ UNCHANGED <<diskVars, mem, rd, merged, ops, histVars>>

(***************************************************************************)
(* Repository::save, the write section                                     *)
(***************************************************************************)

(* Mutant: file_sequence is not advanced. *)
MutBeginSave(p) ==
    /\ Goto(p, "begin", "write")
    /\ wal' \in {wal, "inprogress"}
    /\ UNCHANGED <<disk, lockf, tmps, tstat, clock, mem, rd, merged, ops,
                   histVars>>

(* WAL failure does not prevent the save. *)
BeginSave(p) ==
    /\ Goto(p, "begin", "write")
    /\ mem' = [mem EXCEPT ![p].seq = @ + 1]
    /\ wal' \in {wal, "inprogress"}
    /\ UNCHANGED <<disk, lockf, tmps, tstat, clock, rd, merged, ops, histVars>>

(* Mutant: the entry is marked completed instead. *)
MutMarkFailed == wal' \in IF wal = "none" THEN {"none"} ELSE {"completed"}

(* The entry is rewritten if it can be read, and that may fail too. *)
MarkFailed == wal' \in IF wal = "none" THEN {"none"} ELSE {wal, "failed"}

(* Serialization or encryption fails: `?` leaves save with the log as is. *)
EncodeFails(p) ==
    /\ Goto(p, "write", "unlockerr")
    /\ UNCHANGED <<diskVars, mem, rd, merged, ops, histVars>>

(* superblock.stored_objects = store.export(); the mutant leaves it out. *)
MutExportStore(h) == h
ExportStore(h) == [h EXCEPT !.stored = h.store]

WriteTemp(p) ==
    /\ Goto(p, "write", "rename")
    /\ mem' = [mem EXCEPT ![p] = ExportStore(@)]
    /\ tmps' = tmps \cup {p}
    /\ \E s \in Sizes :
          tstat' = [tstat EXCEPT ![p] = [mtime |-> clock, size |-> s]]
    /\ UNCHANGED <<disk, lockf, wal, clock, rd, merged, ops, histVars>>

WriteFails(p) ==
    /\ Goto(p, "write", "unlockerr")
    /\ mem' = [mem EXCEPT ![p] = ExportStore(@)]
    /\ MarkFailed
    /\ UNCHANGED <<disk, lockf, tmps, tstat, clock, rd, merged, ops, histVars>>

Rename(p) ==
    /\ Goto(p, "rename", "complete")
    /\ p \in tmps
    /\ disk' = [ver   |-> disk.ver + 1,
                seq   |-> mem[p].seq,
                mtime |-> tstat[p].mtime,
                size  |-> tstat[p].size,
                objs  |-> mem[p].stored,
                refs  |-> mem[p].refs]
    /\ tmps' = tmps \ {p}
    /\ base' = [base EXCEPT ![p] = disk.ver + 1]
    /\ lost' = (lost \/ disk.ver # base[p])
    /\ UNCHANGED <<lockf, wal, tstat, clock, mem, rd, merged, ops, chk,
                   broken, acked, dropped>>

(* Mutant: an error of rename is not propagated. *)
MutRenameFails(p) ==
    /\ Goto(p, "rename", "complete")
    /\ tmps' = tmps \ {p}
    /\ UNCHANGED <<disk, lockf, wal, tstat, clock, mem, rd, merged, ops,
                   histVars>>

(* The temporary file was swept by another process's open, or the rename   *)
(* itself failed and the file is removed.                                  *)
RenameFails(p) ==
    /\ Goto(p, "rename", "unlockerr")
    /\ tmps' = tmps \ {p}
    /\ MarkFailed
    /\ UNCHANGED <<disk, lockf, tstat, clock, mem, rd, merged, ops, histVars>>

CompleteWal(p) ==
    /\ Goto(p, "complete", "recapture")
    /\ wal' = "none"
    /\ UNCHANGED <<disk, lockf, tmps, tstat, clock, mem, rd, merged, ops,
                   histVars>>

Recapture(p) ==
    /\ Goto(p, "recapture", "unlock")
    /\ mem' = [mem EXCEPT ![p].snap = SnapshotOf(mem[p].seq)]
    /\ UNCHANGED <<diskVars, rd, merged, ops, histVars>>

(* Commits of p that are on a branch of its handle. *)
OwnCommits(p) ==
    {c \in Commits : c[1] = p /\ \E b \in Branches : c \in mem[p].refs[b]}

(* save returns Ok and RepoLock is dropped. *)
Unlock(p) ==
    /\ Goto(p, "unlock", "work")
    /\ UnlinkLock(p)
    /\ merged' = [merged EXCEPT ![p] = FALSE]
    /\ acked' = acked \cup OwnCommits(p)
    /\ UNCHANGED <<disk, wal, tmps, tstat, clock, mem, rd, ops, base, chk,
                   lost, dropped>>

UnlockError(p) ==
    /\ Goto(p, "unlockerr", "failed")
    /\ UnlinkLock(p)
    /\ UNCHANGED <<disk, wal, tmps, tstat, clock, mem, rd, merged, ops,
                   base, chk, lost, acked, dropped>>

(***************************************************************************)
(* The environment                                                         *)
(***************************************************************************)
Crash(p) ==
    /\ pc[p] \notin Final
    /\ pc' = [pc EXCEPT ![p] = "crashed"]
    /\ UNCHANGED <<diskVars, mem, rd, merged, ops, histVars>>

Tick ==
    /\ clock < MaxClock
    /\ clock' = clock + 1
    /\ UNCHANGED <<disk, lockf, wal, tmps, tstat, procVars, histVars>>

(* More than STALE_THRESHOLD has passed since the lock file was written. *)
AgeLock ==
    /\ lockf.by # NoOne
    /\ ~lockf.old
    /\ lockf' = [lockf EXCEPT !.old = TRUE]
    /\ UNCHANGED <<disk, wal, tmps, tstat, clock, procVars, histVars>>

InitialFile ==
    [ver |-> 0, seq |-> 1, mtime |-> 0, size |-> CHOOSE s \in Sizes : TRUE,
     objs |-> {Root},
     refs |-> [b \in Branches |-> IF b = CHOOSE m \in Branches : TRUE
                                  THEN {Root} ELSE {}]]

Init ==
    /\ disk = InitialFile
    /\ lockf = NoLock
    /\ wal = "none"
    /\ tmps = {}
    /\ tstat = [p \in Procs |-> [mtime |-> 0, size |-> InitialFile.size]]
    /\ clock = 0
    /\ pc = [p \in Procs |-> "open"]
    /\ mem = [p \in Procs |->
                [seq |-> 0, store |-> {}, stored |-> {},
                 refs |-> [b \in Branches |-> {}],
                 snap |-> [seq |-> 0, mtime |-> 0, size |-> InitialFile.size]]]
    /\ rd = [p \in Procs |-> InitialFile]
    /\ merged = [p \in Procs |-> FALSE]
    /\ ops = [p \in Procs |-> 0]
    /\ base = [p \in Procs |-> 0]
    /\ chk = [p \in Procs |-> 0]
    /\ broken = FALSE
    /\ lost = FALSE
    /\ acked = {}
    /\ dropped = {}

Open(p) ==
    \/ OpenRead(p)   \/ LookForWal(p) \/ ReadWal(p)      \/ CleanTemps(p)
    \/ DropWal(p)    \/ CaptureOpen(p) \/ CaptureMerge(p)

Check(p) ==
    CheckPasses(p) \/ CheckConflictMerge(p) \/ CheckConflictError(p)

Acquire(p) ==
    \/ InspectLock(p) \/ FindStaleLock(p) \/ FindLiveLock(p)
    \/ RemoveStaleLock(p)
    \/ CreateLock(p) \/ LockBusy(p) \/ LockTimeout(p)
    \/ StampLock(p)  \/ StampFails(p)

Write(p) ==
    \/ BeginSave(p) \/ EncodeFails(p) \/ WriteTemp(p) \/ WriteFails(p)
    \/ Rename(p) \/ RenameFails(p) \/ CompleteWal(p) \/ Recapture(p)
    \/ Unlock(p) \/ UnlockError(p)

Step(p) == Open(p) \/ Work(p) \/ Check(p) \/ Acquire(p) \/ Write(p)

Next ==
    \/ \E p \in Procs : Step(p) \/ Crash(p)
    \/ Tick
    \/ AgeLock

Spec == Init /\ [][Next]_vars

(* A live process keeps executing; the 30 s timeout of acquire runs out    *)
(* while it retries.  Nothing forces a crash, the clock or the lock's age. *)
Fairness ==
    \A p \in Procs : WF_vars(Step(p)) /\ SF_vars(LockTimeout(p))

FairSpec == Spec /\ Fairness

-------------------------------------------------------------------------------
(***************************************************************************)
(* Properties                                                              *)
(***************************************************************************)

(* Type invariant of the file system, the processes and the history. *)
TypeOK ==
    /\ disk \in File
    /\ lockf \in LockFile
    /\ wal \in {"none", "inprogress", "failed"}
    /\ tmps \subseteq Procs
    /\ tstat \in [Procs -> Stat]
    /\ clock \in Nat
    /\ pc \in [Procs -> PCs]
    /\ mem \in [Procs -> Handle]
    /\ rd \in [Procs -> File]
    /\ merged \in [Procs -> BOOLEAN]
    /\ ops \in [Procs -> 0 .. MaxOps]
    /\ base \in [Procs -> Nat]
    /\ chk \in [Procs -> Nat]
    /\ broken \in BOOLEAN
    /\ lost \in BOOLEAN
    /\ acked \subseteq Commits
    /\ dropped \subseteq Objects

(* Two processes are inside the write section of Repository::save at once  *)
(* only if some process has removed the lock file of one that was still    *)
(* saving: create_new itself never lets two through (lock.rs).             *)
ExclusionUnlessBroken ==
    \A p, q \in Procs : Holding(p) /\ Holding(q) /\ p # q => broken

(* As long as no update has been lost, a save that is about to rename over *)
(* a version its process never saw got there in one of two ways: the file  *)
(* changed after check_for_conflict ran (it runs before the lock is        *)
(* taken), or the unseen version has the mtime (in seconds) and the size   *)
(* of the snapshot, so check_for_conflict never compared sequence numbers. *)
LossNeedsWindow ==
    \A p \in Procs :
        pc[p] = "rename" /\ ~lost /\ disk.ver # base[p]
            => disk.ver # chk[p] \/ SameStat(p)

(* file_sequence, which check_for_conflict relies on, strictly grows with  *)
(* every rename until an update has been lost.                             *)
SeqGrows ==
    [][disk'.ver # disk.ver /\ ~lost' => disk'.seq > disk.seq]_vars

(* Every commit in the history of a branch of the file is an object of the *)
(* file, whatever saves race, fail, merge or overwrite one another.  The   *)
(* exception is the commit that a save was making when it met a conflict   *)
(* and merged (repository.rs:539): no other is ever left out, and none of  *)
(* a process that does not merge.                                          *)
RefsResolve ==
    /\ \A b \in Branches : disk.refs[b] \subseteq disk.objs \cup dropped
    /\ \A c \in dropped : \E p \in Merging : \E n \in 1 .. ops[p] : c = <<p, n>>

(* A commit whose save returned Ok stays among the file's objects until a  *)
(* save replaces a version that its process had not seen, unless it was    *)
(* merged and left out, as above.                                          *)
AckedCommitsKept == ~lost => acked \subseteq disk.objs \cup dropped

(* Every command ends, whoever holds the lock and whoever crashed: acquire *)
(* retries for at most 30 s.                                               *)
EveryCommandEnds == \A p \in Procs : <>(pc[p] \in Final)

(* A lock file left by a process that is gone is removed by the next       *)
(* process of the same host that wants the lock, before its timeout can    *)
(* strike (try_clean_stale_lock runs before every attempt).                *)
DeadLockReclaimed ==
    \A p, q \in Procs :
        (/\ pc[p] = "inspect"
         /\ lockf.by = q /\ pc[q] \in Final
         /\ <<p, q>> \in Probes)
            ~> (lockf.by # q \/ pc[p] = "crashed")

(* The temporary file of a crashed save is gone after the next open that   *)
(* succeeds (recover sweeps with and without a write-ahead log).           *)
OrphansSwept ==
    \A p, q \in Procs :
        (pc[p] = "open" /\ q \in tmps /\ pc[q] = "crashed")
            ~> (q \notin tmps \/ pc[p] \in {"failed", "crashed"})

(* What a crash leaves behind does not stay: neither the lock of a dead    *)
(* process (RepoLock::try_remove_stale) nor its temporary file (the sweep  *)
(* of open).                                                               *)
CrashCleanedUp == DeadLockReclaimed /\ OrphansSwept
===============================================================================
