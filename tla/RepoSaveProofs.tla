--------------------------- MODULE RepoSaveProofs ---------------------------
(***************************************************************************)
(* Theorems about RepoSave for any number of processes, branches, sizes    *)
(* and operations; then about ApiRequests, for any number of requests,     *)
(* branches and changes: what the per-repository mutex of the server       *)
(* gives, and until when.                                                  *)
(***************************************************************************)
EXTENDS ApiRequests, TLAPS

(* The values a step reads from the file system and the handles are of the *)
(* right type; stated once for the actions that build a new handle.        *)
LEMMA SnapshotType ==
    ASSUME TypeOK, NEW n \in Nat
    PROVE  SnapshotOf(n) \in Snapshot
  BY DEF TypeOK, File, Snapshot, SnapshotOf

LEMMA OpenedHandleType ==
    ASSUME TypeOK, NEW r \in File
    PROVE  OpenedHandle(r) \in Handle
  <1>1. SnapshotOf(r.seq) \in Snapshot
    BY SnapshotType DEF File
  <1> QED
    BY <1>1 DEF OpenedHandle, Handle, File

LEMMA MergedHandleType ==
    ASSUME TypeOK, NEW h \in Handle, NEW r \in File
    PROVE  MergedHandle(h, r) \in Handle
  <1>1. SnapshotOf(r.seq) \in Snapshot
    BY SnapshotType DEF File
  <1>2. MergedRefs(h, r) \in Refs
    BY DEF MergedRefs, Refs, Handle, File
  <1>3. MergedStore(h, r) \subseteq Objects
    BY DEF MergedStore, Handle, File
  <1>4. r.seq \in Nat
    BY DEF File
  <1> HIDE DEF Refs
  <1> QED
    BY <1>1, <1>2, <1>3, <1>4 DEF MergedHandle, Handle

LEMMA ExportStoreType ==
    ASSUME NEW h \in Handle
    PROVE  ExportStore(h) \in Handle
  BY DEF ExportStore, Handle

LEMMA InitialFileType == InitialFile \in File
  <1>1. (CHOOSE s \in Sizes : TRUE) \in Sizes
    BY ConstantsAssumption
  <1>2. [b \in Branches |-> IF b = CHOOSE m \in Branches : TRUE
                            THEN {Root} ELSE {}] \in Refs
    BY DEF Refs, Objects
  <1> HIDE DEF Refs
  <1> QED
    BY <1>1, <1>2 DEF InitialFile, File, Objects

(* Steps of Repository::open keep the types. *)
LEMMA OpenType ==
    ASSUME TypeOK, NEW p \in Procs, Open(p)
    PROVE  TypeOK'
  <1> USE DEF PCs, Final, Opening, Locking, Saving
  <1> HIDE DEF Refs, File, Handle, LockFile, Stat
  <1>1. CASE OpenRead(p)
    BY <1>1 DEF OpenRead, Goto, TypeOK, diskVars, histVars
  <1>2. CASE LookForWal(p)
    BY <1>2 DEF LookForWal, TypeOK, diskVars, histVars
  <1>3. CASE ReadWal(p)
    BY <1>3 DEF ReadWal, TypeOK, histVars
  <1>4. CASE CleanTemps(p)
    BY <1>4 DEF CleanTemps, TypeOK, histVars
  <1>5. CASE DropWal(p)
    BY <1>5 DEF DropWal, Goto, TypeOK, histVars
  <1>6. CASE CaptureOpen(p)
    <2>1. OpenedHandle(rd[p]) \in Handle /\ rd[p].ver \in Nat
      BY OpenedHandleType DEF TypeOK, File
    <2> QED
      BY <1>6, <2>1 DEF CaptureOpen, Goto, TypeOK, diskVars
  <1>7. CASE CaptureMerge(p)
    <2>1. MergedHandle(mem[p], rd[p]) \in Handle /\ rd[p].ver \in Nat
      BY MergedHandleType DEF TypeOK, File
    <2>2. mem[p].store \subseteq Objects
      BY DEF TypeOK, Handle
    <2>3. dropped' \subseteq Objects
      BY <1>7, <2>2 DEF CaptureMerge, TypeOK
    <2> QED
      BY <1>7, <2>1, <2>3 DEF CaptureMerge, Goto, TypeOK, diskVars
  <1> QED
    BY <1>1, <1>2, <1>3, <1>4, <1>5, <1>6, <1>7 DEF Open

(* Changes of the handle and the end of a command keep the types. *)
LEMMA WorkType ==
    ASSUME TypeOK, NEW p \in Procs, Work(p)
    PROVE  TypeOK'
  <1> USE DEF PCs, Final, Opening, Locking, Saving
  <1>1. ASSUME NEW store \in SUBSET Objects, NEW refs \in Refs,
               Change(p, store, refs)
        PROVE  TypeOK'
    <2>1. [mem[p] EXCEPT !.store = store, !.refs = refs] \in Handle
      BY <1>1 DEF TypeOK, Handle
    <2>2. mem' \in [Procs -> Handle]
      BY <1>1, <2>1 DEF Change, TypeOK
    <2>3. ops[p] + 1 \in 0 .. MaxOps
      BY <1>1, ConstantsAssumption DEF Change, TypeOK
    <2>4. ops' \in [Procs -> 0 .. MaxOps]
      BY <1>1, <2>3 DEF Change, TypeOK
    <2> HIDE DEF Refs, File, Handle, LockFile, Stat
    <2> QED
      BY <1>1, <2>2, <2>4 DEF Change, Goto, TypeOK, diskVars, histVars
  <1>2. mem[p].store \in SUBSET Objects /\ mem[p].refs \in Refs
    BY DEF TypeOK, Handle
  <1>3. CASE CreateCommit(p)
    <2>1. PICK b \in Branches :
              Change(p, mem[p].store \cup {<<p, ops[p] + 1>>},
                     [mem[p].refs EXCEPT ![b] = @ \cup {<<p, ops[p] + 1>>}])
      BY <1>3 DEF CreateCommit
    <2>2. <<p, ops[p] + 1>> \in Objects
      BY <2>1, ConstantsAssumption DEF Change, TypeOK, Objects, Commits
    <2>3. [mem[p].refs EXCEPT ![b] = @ \cup {<<p, ops[p] + 1>>}] \in Refs
      BY <1>2, <2>2 DEF Refs
    <2> QED
      BY <1>1, <1>2, <2>1, <2>2, <2>3
  <1>4. CASE CreateBranch(p)
    <2>1. PICK b \in Branches, from \in Branches :
              Change(p, mem[p].store,
                     [mem[p].refs EXCEPT ![b] = mem[p].refs[from]])
      BY <1>4 DEF CreateBranch
    <2>2. [mem[p].refs EXCEPT ![b] = mem[p].refs[from]] \in Refs
      BY <1>2 DEF Refs
    <2> QED
      BY <1>1, <1>2, <2>1, <2>2
  <1>5. CASE DeleteBranch(p)
    <2>1. PICK b \in Branches :
              Change(p, mem[p].store, [mem[p].refs EXCEPT ![b] = {}])
      BY <1>5 DEF DeleteBranch
    <2>2. [mem[p].refs EXCEPT ![b] = {}] \in Refs
      BY <1>2 DEF Refs
    <2> QED
      BY <1>1, <1>2, <2>1, <2>2
  <1>6. CASE Exit(p)
    <2> HIDE DEF Refs, File, Handle, LockFile, Stat
    <2> QED
      BY <1>6 DEF Exit, Goto, TypeOK, diskVars, histVars
  <1> QED
    BY <1>3, <1>4, <1>5, <1>6 DEF Work

(* The conflict check keeps the types. *)
LEMMA CheckType ==
    ASSUME TypeOK, NEW p \in Procs, Check(p)
    PROVE  TypeOK'
  <1> USE DEF PCs, Final, Opening, Locking, Saving
  <1>0. disk.ver \in Nat
    BY DEF TypeOK, File
  <1> HIDE DEF Refs, File, Handle, LockFile, Stat
  <1>1. CASE CheckPasses(p)
    BY <1>0, <1>1 DEF CheckPasses, Goto, TypeOK, diskVars
  <1>2. CASE CheckConflictMerge(p)
    BY <1>2 DEF CheckConflictMerge, Goto, TypeOK, diskVars, histVars
  <1>3. CASE CheckConflictError(p)
    BY <1>3 DEF CheckConflictError, Goto, TypeOK, diskVars, histVars
  <1> QED
    BY <1>1, <1>2, <1>3 DEF Check

(* Removing the lock file leaves a lock file value and a Boolean. *)
LEMMA UnlinkType ==
    ASSUME TypeOK, NEW p \in Procs, UnlinkLock(p)
    PROVE  lockf' \in LockFile /\ broken' \in BOOLEAN
  BY DEF UnlinkLock, NoLock, LockFile, TypeOK

(* Steps of RepoLock::acquire keep the types. *)
LEMMA AcquireType ==
    ASSUME TypeOK, NEW p \in Procs, Acquire(p)
    PROVE  TypeOK'
  <1> USE DEF PCs, Final, Opening, Locking, Saving
  <1> HIDE DEF Refs, File, Handle, LockFile, Stat
  <1>1. CASE InspectLock(p)
    BY <1>1 DEF InspectLock, TypeOK, diskVars, histVars
  <1>2. CASE FindStaleLock(p)
    BY <1>2 DEF FindStaleLock, Goto, TypeOK, diskVars, histVars
  <1>3. CASE FindLiveLock(p)
    BY <1>3 DEF FindLiveLock, Goto, TypeOK, diskVars, histVars
  <1>4. CASE RemoveStaleLock(p)
    <2>1. lockf' \in LockFile /\ broken' \in BOOLEAN
      BY <1>4, UnlinkType DEF RemoveStaleLock
    <2> QED
      BY <1>4, <2>1 DEF RemoveStaleLock, Goto, TypeOK
  <1>5. CASE CreateLock(p)
    <2>1. lockf' \in LockFile
      BY <1>5 DEF CreateLock, LockFile
    <2> QED
      BY <1>5, <2>1 DEF CreateLock, Goto, TypeOK, histVars
  <1>6. CASE LockBusy(p)
    BY <1>6 DEF LockBusy, Goto, TypeOK, diskVars, histVars
  <1>7. CASE LockTimeout(p)
    BY <1>7 DEF LockTimeout, Goto, TypeOK, diskVars, histVars
  <1>8. CASE StampLock(p)
    <2>1. lockf' \in LockFile
      BY <1>8 DEF StampLock, LockFile, TypeOK
    <2> QED
      BY <1>8, <2>1 DEF StampLock, Goto, TypeOK, histVars
  <1>9. CASE StampFails(p)
    BY <1>9 DEF StampFails, Goto, TypeOK, diskVars, histVars
  <1> QED
    BY <1>1, <1>2, <1>3, <1>4, <1>5, <1>6, <1>7, <1>8, <1>9 DEF Acquire

(* Steps of the write section of Repository::save keep the types. *)
LEMMA WriteType ==
    ASSUME TypeOK, NEW p \in Procs, Write(p)
    PROVE  TypeOK'
  <1> USE DEF PCs, Final, Opening, Locking, Saving
  <1> HIDE DEF Refs, File, Handle, LockFile, Stat
  <1>0. MarkFailed => wal' \in {"none", "inprogress", "failed"}
    BY DEF MarkFailed, TypeOK
  <1>1. CASE BeginSave(p)
    <2>1. \A n \in Nat : [mem[p] EXCEPT !.seq = n] \in Handle
      BY DEF TypeOK, Handle
    <2>2. mem[p].seq + 1 \in Nat
      BY DEF TypeOK, Handle
    <2>3. mem' \in [Procs -> Handle]
      BY <1>1, <2>1, <2>2 DEF BeginSave, TypeOK
    <2> QED
      BY <1>1, <2>3 DEF BeginSave, Goto, TypeOK, histVars
  <1>2. CASE EncodeFails(p)
    BY <1>2 DEF EncodeFails, Goto, TypeOK, diskVars, histVars
  <1>3. CASE WriteTemp(p)
    <2>1. mem' \in [Procs -> Handle]
      BY <1>3, ExportStoreType DEF WriteTemp, TypeOK
    <2>2. PICK s \in Sizes :
              tstat' = [tstat EXCEPT ![p] = [mtime |-> clock, size |-> s]]
      BY <1>3 DEF WriteTemp
    <2>3. [mtime |-> clock, size |-> s] \in Stat
      BY DEF Stat, TypeOK
    <2>4. tstat' \in [Procs -> Stat]
      BY <2>2, <2>3 DEF TypeOK
    <2> QED
      BY <1>3, <2>1, <2>4 DEF WriteTemp, Goto, TypeOK, histVars
  <1>4. CASE WriteFails(p)
    <2>1. mem' \in [Procs -> Handle]
      BY <1>4, ExportStoreType DEF WriteFails, TypeOK
    <2> QED
      BY <1>0, <1>4, <2>1 DEF WriteFails, Goto, TypeOK, histVars
  <1>5. CASE Rename(p)
    <2>1. /\ disk.ver \in Nat /\ mem[p].seq \in Nat
          /\ tstat[p].mtime \in Nat /\ tstat[p].size \in Sizes
          /\ mem[p].stored \in SUBSET Objects /\ mem[p].refs \in Refs
      BY DEF TypeOK, File, Handle, Stat
    <2>2. disk' \in File
      BY <1>5, <2>1 DEF Rename, File
    <2>3. disk.ver + 1 \in Nat
      BY <2>1
    <2>4. lost' \in BOOLEAN
      BY <1>5 DEF Rename, TypeOK
    <2> QED
      BY <1>5, <2>2, <2>3, <2>4 DEF Rename, Goto, TypeOK
  <1>6. CASE RenameFails(p)
    BY <1>0, <1>6 DEF RenameFails, Goto, TypeOK, histVars
  <1>7. CASE CompleteWal(p)
    BY <1>7 DEF CompleteWal, Goto, TypeOK, histVars
  <1>8. CASE Recapture(p)
    <2>1. mem[p].seq \in Nat
      BY DEF TypeOK, Handle
    <2>2. SnapshotOf(mem[p].seq) \in Snapshot
      BY <2>1, SnapshotType
    <2>3. [mem[p] EXCEPT !.snap = SnapshotOf(mem[p].seq)] \in Handle
      BY <2>2 DEF TypeOK, Handle
    <2>4. mem' \in [Procs -> Handle]
      BY <1>8, <2>3 DEF Recapture, TypeOK
    <2> QED
      BY <1>8, <2>4 DEF Recapture, Goto, TypeOK, diskVars, histVars
  <1>9. CASE Unlock(p)
    <2>1. lockf' \in LockFile /\ broken' \in BOOLEAN
      BY <1>9, UnlinkType DEF Unlock
    <2>2. acked' \subseteq Commits
      <3> HIDE DEF Commits
      <3> QED
        BY <1>9 DEF Unlock, OwnCommits, TypeOK
    <2> QED
      BY <1>9, <2>1, <2>2 DEF Unlock, Goto, TypeOK
  <1>10. CASE UnlockError(p)
    <2>1. lockf' \in LockFile /\ broken' \in BOOLEAN
      BY <1>10, UnlinkType DEF UnlockError
    <2> QED
      BY <1>10, <2>1 DEF UnlockError, Goto, TypeOK
  <1> QED
    BY <1>1, <1>2, <1>3, <1>4, <1>5, <1>6, <1>7, <1>8, <1>9, <1>10 DEF Write

LEMMA InitType == Init => TypeOK
  <1> SUFFICES ASSUME Init PROVE TypeOK
    OBVIOUS
  <1>1. InitialFile \in File /\ InitialFile.size \in Sizes
    BY InitialFileType DEF File
  <1>2. NoLock \in LockFile
    BY DEF NoLock, LockFile
  <1>3. [mtime |-> 0, size |-> InitialFile.size] \in Stat
    BY <1>1 DEF Stat
  <1>4. [seq |-> 0, store |-> {}, stored |-> {},
         refs |-> [b \in Branches |-> {}],
         snap |-> [seq |-> 0, mtime |-> 0, size |-> InitialFile.size]]
            \in Handle
    BY <1>1 DEF Handle, Refs, Snapshot
  <1>5. 0 \in 0 .. MaxOps
    BY ConstantsAssumption
  <1> HIDE DEF InitialFile, NoLock, File, Handle, LockFile, Stat
  <1> QED
    BY <1>1, <1>2, <1>3, <1>4, <1>5 DEF Init, TypeOK, PCs, Opening

LEMMA TypeStep == TypeOK /\ [Next]_vars => TypeOK'
  <1> SUFFICES ASSUME TypeOK, [Next]_vars PROVE TypeOK'
    OBVIOUS
  <1> HIDE DEF File, Handle, LockFile, Stat
  <1>1. ASSUME NEW p \in Procs, Step(p) PROVE TypeOK'
    BY <1>1, OpenType, WorkType, CheckType, AcquireType, WriteType DEF Step
  <1>2. ASSUME NEW p \in Procs, Crash(p) PROVE TypeOK'
    BY <1>2 DEF Crash, TypeOK, PCs, Final, diskVars, histVars
  <1>3. CASE Tick
    BY <1>3 DEF Tick, TypeOK, procVars, histVars
  <1>4. CASE AgeLock
    <2>1. lockf' \in LockFile
      BY <1>4 DEF AgeLock, LockFile, TypeOK
    <2> QED
      BY <1>4, <2>1 DEF AgeLock, TypeOK, procVars, histVars
  <1>5. CASE UNCHANGED vars
    BY <1>5 DEF vars, diskVars, procVars, histVars, TypeOK
  <1> QED
    BY <1>1, <1>2, <1>3, <1>4, <1>5 DEF Next

(* The type invariant holds in every state of every execution: open, save, *)
(* lock, log and merge never build a value outside their types.            *)
THEOREM TypeCorrect == Spec => []TypeOK
  BY InitType, TypeStep, PTL DEF Spec

-----------------------------------------------------------------------------
(* While no live lock has been removed, the lock file belongs to every     *)
(* process in the write section.                                           *)
LockInv == ~broken => \A p \in Procs : Holding(p) => lockf.by = p

(* A version and a sequence number that were read together still agree     *)
(* with the file: both are current or both are behind.                     *)
Seen(v, n) ==
    /\ v <= disk.ver /\ n <= disk.seq
    /\ v = disk.ver <=> n = disk.seq

Unsaved  == {"work", "check", "stamp", "begin", "unlock"} \cup Locking
Numbered == {"write", "rename"}
Renamed  == {"complete", "recapture"}
Checked  == Locking \cup Numbered \cup {"stamp", "begin"}

(* Until an update is lost: what a process read, and what its handle was   *)
(* built from, is either the current version or behind it in both version  *)
(* and sequence; and a version that passed the conflict check still passes *)
(* it while it is the current one.                                         *)
VersionInv ==
    ~lost => \A p \in Procs :
        /\ pc[p] \in Opening \ {"open"} => Seen(rd[p].ver, rd[p].seq)
        /\ pc[p] \in Unsaved \cup Numbered => Seen(base[p], mem[p].snap.seq)
        /\ pc[p] \in Renamed => Seen(base[p], mem[p].seq)
        /\ pc[p] \in Unsaved => mem[p].seq = mem[p].snap.seq
        /\ pc[p] \in Numbered => mem[p].seq = mem[p].snap.seq + 1
        /\ pc[p] \in Checked => /\ chk[p] <= disk.ver
                                /\ chk[p] = disk.ver => ~Conflict(p)

(* Every branch of the file, of every copy read from it and of every       *)
(* handle resolves in the objects beside it, also in the objects a save    *)
(* has exported, but for the commits that a merge left out.                *)
Closed(refs, objs) == \A b \in Branches : refs[b] \subseteq objs \cup dropped

ClosedInv ==
    /\ Closed(disk.refs, disk.objs)
    /\ \A p \in Procs : /\ Closed(rd[p].refs, rd[p].objs)
                        /\ Closed(mem[p].refs, mem[p].store)
                        /\ pc[p] = "rename" => Closed(mem[p].refs, mem[p].stored)

(* What a handle has not stored yet are commits of its own process; so     *)
(* that is what its merge can leave out.                                   *)
Own(p) == {<<p, n>> : n \in 1 .. ops[p]}

LeftOutInv ==
    /\ \A p \in Procs : /\ merged[p] => p \in Merging
                        /\ mem[p].store \subseteq mem[p].stored \cup Own(p)
    /\ \A c \in dropped : \E p \in Merging : c \in Own(p)

(* Until an update is lost, a copy or a handle that is current has all     *)
(* objects of the file, an acknowledged commit is in the file, and so is   *)
(* every commit about to be acknowledged.                                  *)
KeptInv ==
    ~lost =>
        /\ acked \subseteq disk.objs \cup dropped
        /\ \A p \in Procs :
              /\ pc[p] \in Opening \ {"open"} =>
                    /\ rd[p].ver <= disk.ver
                    /\ rd[p].ver = disk.ver => disk.objs \subseteq rd[p].objs
              /\ pc[p] \in Unsaved \cup Numbered \cup Renamed =>
                    /\ base[p] <= disk.ver
                    /\ base[p] = disk.ver => disk.objs \subseteq mem[p].store
              /\ pc[p] = "rename" => mem[p].stored = mem[p].store
              /\ pc[p] \in Renamed \cup {"unlock"} =>
                    OwnCommits(p) \subseteq disk.objs \cup dropped

-----------------------------------------------------------------------------
(* Every step keeps LockInv: only UnlinkLock takes the lock file away, and *)
(* taking it from a process in the write section sets broken.              *)
LEMMA LockStep ==
    ASSUME TypeOK, LockInv, [Next]_vars
    PROVE  LockInv'
  <1> USE DEF LockInv, Holding, Saving, Final
  <1>1. ASSUME NEW p \in Procs, Open(p) PROVE LockInv'
    BY <1>1 DEF Open, OpenRead, LookForWal, ReadWal, CleanTemps, DropWal,
        CaptureOpen, CaptureMerge, Goto, TypeOK, diskVars, histVars
  <1>2. ASSUME NEW p \in Procs, Work(p) PROVE LockInv'
    BY <1>2 DEF Work, CreateCommit, CreateBranch, DeleteBranch, Exit, Change,
        Goto, TypeOK, diskVars, histVars
  <1>3. ASSUME NEW p \in Procs, Check(p) PROVE LockInv'
    BY <1>3 DEF Check, CheckPasses, CheckConflictMerge, CheckConflictError,
        Goto, TypeOK, diskVars, histVars
  <1>4. ASSUME NEW p \in Procs, Acquire(p) PROVE LockInv'
    <2>1. CASE RemoveStaleLock(p)
      BY <2>1 DEF RemoveStaleLock, UnlinkLock, Goto, TypeOK
    <2>2. CASE CreateLock(p)
      BY <2>2, ConstantsAssumption DEF CreateLock, Goto, TypeOK, histVars
    <2>3. CASE StampLock(p)
      BY <2>3 DEF StampLock, Goto, TypeOK, LockFile, histVars
    <2>4. CASE ~(RemoveStaleLock(p) \/ CreateLock(p) \/ StampLock(p))
      BY <1>4, <2>4 DEF Acquire, InspectLock, FindStaleLock, FindLiveLock,
          LockBusy, LockTimeout, StampFails, Goto, TypeOK, diskVars, histVars
    <2> QED
      BY <2>1, <2>2, <2>3, <2>4
  <1>5. ASSUME NEW p \in Procs, Write(p) PROVE LockInv'
    <2>1. CASE Unlock(p)
      BY <2>1 DEF Unlock, UnlinkLock, Goto, TypeOK
    <2>2. CASE UnlockError(p)
      BY <2>2 DEF UnlockError, UnlinkLock, Goto, TypeOK
    <2>3. CASE ~(Unlock(p) \/ UnlockError(p))
      BY <1>5, <2>3 DEF Write, BeginSave, EncodeFails, WriteTemp, WriteFails,
          Rename, RenameFails, CompleteWal, Recapture, Goto, TypeOK, diskVars,
          histVars
    <2> QED
      BY <2>1, <2>2, <2>3
  <1>6. ASSUME NEW p \in Procs, Crash(p) PROVE LockInv'
    BY <1>6 DEF Crash, TypeOK, diskVars, histVars
  <1>7. CASE Tick
    BY <1>7 DEF Tick, procVars, histVars
  <1>8. CASE AgeLock
    BY <1>8 DEF AgeLock, TypeOK, LockFile, procVars, histVars
  <1>9. CASE UNCHANGED vars
    BY <1>9 DEF vars, diskVars, procVars, histVars
  <1> QED
    BY <1>1, <1>2, <1>3, <1>4, <1>5, <1>6, <1>7, <1>8, <1>9 DEF Next, Step

(* RepoLock gives mutual exclusion of the write sections for any number of *)
(* processes and hosts until a lock file is removed under its live holder. *)
THEOREM LockExclusion == Spec => []ExclusionUnlessBroken
  <1>1. Init => LockInv
    BY DEF Init, LockInv, Holding, Saving
  <1>2. LockInv => ExclusionUnlessBroken
    BY DEF LockInv, ExclusionUnlessBroken
  <1> QED
    BY <1>1, <1>2, LockStep, TypeCorrect, PTL DEF Spec

-----------------------------------------------------------------------------
(* A step that leaves the file alone and moves no process into a part of   *)
(* the protocol where VersionInv says more than before keeps it.           *)
LEMMA VersionStep ==
    ASSUME TypeOK, VersionInv, [Next]_vars
    PROVE  VersionInv'
  <1> USE DEF VersionInv, Seen, Unsaved, Numbered, Renamed, Checked, Opening,
          Locking
  <1>0. /\ disk.ver \in Nat /\ disk.seq \in Nat
        /\ \A q \in Procs : /\ rd[q].ver \in Nat /\ rd[q].seq \in Nat
                            /\ mem[q].seq \in Nat /\ mem[q].snap.seq \in Nat
                            /\ base[q] \in Nat /\ chk[q] \in Nat
    BY DEF TypeOK, File, Handle, Snapshot
  <1>1. ASSUME NEW p \in Procs, Open(p) PROVE VersionInv'
    <2>1. CASE OpenRead(p)
      BY <1>0, <2>1 DEF OpenRead, Goto, TypeOK, diskVars, histVars, Conflict,
          SameStat
    <2>2. CASE CaptureOpen(p)
      BY <1>0, <2>2 DEF CaptureOpen, OpenedHandle, SnapshotOf, Goto, TypeOK,
          diskVars, Conflict, SameStat
    <2>3. CASE CaptureMerge(p)
      BY <1>0, <2>3 DEF CaptureMerge, MergedHandle, SnapshotOf, Goto, TypeOK,
          diskVars, Conflict, SameStat
    <2>4. CASE LookForWal(p) \/ ReadWal(p) \/ CleanTemps(p) \/ DropWal(p)
      BY <1>0, <2>4 DEF LookForWal, ReadWal, CleanTemps, DropWal, Goto, TypeOK,
          diskVars, histVars, Conflict, SameStat
    <2> QED
      BY <1>1, <2>1, <2>2, <2>3, <2>4 DEF Open
  <1>2. ASSUME NEW p \in Procs, Work(p) PROVE VersionInv'
    <2>1. ASSUME NEW store, NEW refs, Change(p, store, refs)
          PROVE  VersionInv'
      BY <1>0, <2>1 DEF Change, Goto, TypeOK, Handle, diskVars, histVars,
          Conflict, SameStat
    <2>2. CASE Exit(p)
      BY <1>0, <2>2 DEF Exit, Goto, TypeOK, diskVars, histVars, Conflict,
          SameStat
    <2> QED
      BY <1>2, <2>1, <2>2 DEF Work, CreateCommit, CreateBranch, DeleteBranch
  <1>3. ASSUME NEW p \in Procs, Check(p) PROVE VersionInv'
    BY <1>0, <1>3 DEF Check, CheckPasses, CheckConflictMerge,
        CheckConflictError, Goto, TypeOK, diskVars, histVars, Conflict, SameStat
  <1>4. ASSUME NEW p \in Procs, Acquire(p) PROVE VersionInv'
    <2>0. CASE InspectLock(p)
      BY <1>0, <2>0 DEF InspectLock, TypeOK, diskVars, histVars, Conflict,
          SameStat
    <2>1. CASE FindStaleLock(p) \/ FindLiveLock(p)
      <3>1. /\ pc[p] = "probe"
            /\ \E to \in {"unlink", "create"} : pc' = [pc EXCEPT ![p] = to]
            /\ UNCHANGED <<disk, mem, rd, base, chk, lost>>
        BY <2>1 DEF FindStaleLock, FindLiveLock, Goto, diskVars, histVars
      <3> QED
        BY <1>0, <3>1 DEF TypeOK, Conflict, SameStat
    <2>2. CASE RemoveStaleLock(p) \/ CreateLock(p) \/ StampLock(p)
      BY <1>0, <2>2 DEF RemoveStaleLock, CreateLock, StampLock, Goto, TypeOK,
          histVars, Conflict, SameStat
    <2>3. CASE LockBusy(p) \/ LockTimeout(p) \/ StampFails(p)
      BY <1>0, <2>3 DEF LockBusy, LockTimeout, StampFails, Goto, TypeOK,
          diskVars, histVars, Conflict, SameStat
    <2> QED
      BY <1>4, <2>0, <2>1, <2>2, <2>3 DEF Acquire
  <1>5. ASSUME NEW p \in Procs, Write(p) PROVE VersionInv'
    <2>1. CASE BeginSave(p)
      BY <1>0, <2>1 DEF BeginSave, Goto, TypeOK, Handle, histVars, Conflict,
          SameStat
    <2>2. CASE WriteTemp(p) \/ WriteFails(p)
      <3>1. /\ ExportStore(mem[p]).seq = mem[p].seq
            /\ ExportStore(mem[p]).snap = mem[p].snap
        BY DEF ExportStore, TypeOK, Handle
      <3>2. \A q \in Procs : /\ mem'[q].seq = mem[q].seq
                             /\ mem'[q].snap = mem[q].snap
        BY <2>2, <3>1 DEF WriteTemp, WriteFails, TypeOK
      <3> QED
        BY <1>0, <2>2, <3>2 DEF WriteTemp, WriteFails, Goto, TypeOK, histVars,
            Conflict, SameStat
    <2>3. CASE Rename(p)
      <3> SUFFICES ASSUME ~lost' PROVE VersionInv'
        OBVIOUS
      <3>1. /\ ~lost /\ base[p] = disk.ver
            /\ mem[p].snap.seq = disk.seq /\ mem[p].seq = disk.seq + 1
        BY <2>3 DEF Rename, Goto
      <3>2. disk'.ver = disk.ver + 1 /\ disk'.seq = disk.seq + 1
        BY <2>3, <3>1 DEF Rename
      <3>3. /\ pc'[p] = "complete" /\ base'[p] = disk'.ver
            /\ mem' = mem /\ rd' = rd /\ chk' = chk
            /\ \A q \in Procs \ {p} : pc'[q] = pc[q] /\ base'[q] = base[q]
        BY <2>3, <3>2 DEF Rename, Goto, TypeOK
      <3> QED
        BY <1>0, <3>1, <3>2, <3>3
    <2>4. CASE Recapture(p)
      BY <1>0, <2>4 DEF Recapture, SnapshotOf, Goto, TypeOK, Handle, diskVars,
          histVars, Conflict, SameStat
    <2>5. CASE EncodeFails(p) \/ RenameFails(p) \/ CompleteWal(p)
                 \/ Unlock(p) \/ UnlockError(p)
      BY <1>0, <2>5 DEF EncodeFails, RenameFails, CompleteWal, Unlock,
          UnlockError, Goto, TypeOK, diskVars, histVars, Conflict, SameStat
    <2> QED
      BY <1>5, <2>1, <2>2, <2>3, <2>4, <2>5 DEF Write
  <1>6. ASSUME NEW p \in Procs, Crash(p) PROVE VersionInv'
    BY <1>6 DEF Crash, TypeOK, diskVars, histVars, Conflict, SameStat
  <1>7. CASE Tick
    BY <1>7 DEF Tick, procVars, histVars, Conflict, SameStat
  <1>8. CASE AgeLock
    BY <1>8 DEF AgeLock, procVars, histVars, Conflict, SameStat
  <1>9. CASE UNCHANGED vars
    BY <1>9 DEF vars, diskVars, procVars, histVars, Conflict, SameStat
  <1> QED
    BY <1>1, <1>2, <1>3, <1>4, <1>5, <1>6, <1>7, <1>8, <1>9 DEF Next, Step

LEMMA VersionInit == Init => VersionInv
  BY DEF Init, VersionInv, Unsaved, Numbered, Renamed, Checked, Opening, Locking

(* For any number of processes, hosts and seconds: the first update that   *)
(* is lost is lost in one of the two windows of the conflict check.        *)
THEOREM LossWindows == Spec => []LossNeedsWindow
  <1>1. TypeOK /\ VersionInv => LossNeedsWindow
    <2> SUFFICES ASSUME TypeOK, VersionInv, NEW p \in Procs,
                        pc[p] = "rename", ~lost, disk.ver # base[p],
                        disk.ver = chk[p]
                 PROVE  SameStat(p)
      BY DEF LossNeedsWindow
    <2>1. Seen(base[p], mem[p].snap.seq) /\ ~Conflict(p)
      BY DEF VersionInv, Numbered, Checked
    <2>2. disk.seq # mem[p].snap.seq
      BY <2>1 DEF Seen
    <2> QED
      BY <2>1, <2>2 DEF Conflict
  <1> QED
    BY <1>1, VersionInit, VersionStep, TypeCorrect, PTL DEF Spec

(* Until an update is lost, file_sequence strictly grows with every        *)
(* rename, for any number of processes.                                    *)
THEOREM SequenceGrows == Spec => SeqGrows
  <1>1. ASSUME TypeOK, VersionInv, [Next]_vars
        PROVE  [disk'.ver # disk.ver /\ ~lost' => disk'.seq > disk.seq]_vars
    <2>0. disk.ver \in Nat /\ disk.seq \in Nat
      BY <1>1 DEF TypeOK, File
    <2>1. ASSUME NEW p \in Procs, Rename(p), ~lost'
          PROVE  disk'.seq > disk.seq
      <3>1. ~lost /\ base[p] = disk.ver /\ pc[p] = "rename"
        BY <2>1 DEF Rename, Goto
      <3>2. mem[p].snap.seq = disk.seq /\ mem[p].seq = mem[p].snap.seq + 1
        BY <1>1, <3>1 DEF VersionInv, Seen, Numbered
      <3> QED
        BY <2>0, <2>1, <3>2 DEF Rename
    <2>2. ASSUME NEW p \in Procs, Step(p), ~Rename(p)
          PROVE  disk' = disk
      BY <2>2 DEF Step, Open, OpenRead, LookForWal, ReadWal, CleanTemps,
          DropWal, CaptureOpen, CaptureMerge, Work, CreateCommit, CreateBranch,
          DeleteBranch, Exit, Change, Check, CheckPasses, CheckConflictMerge,
          CheckConflictError, Acquire, InspectLock, FindStaleLock,
          FindLiveLock, RemoveStaleLock, CreateLock, LockBusy, LockTimeout,
          StampLock, StampFails, Write, BeginSave, EncodeFails, WriteTemp,
          WriteFails, RenameFails, CompleteWal, Recapture, Unlock, UnlockError,
          diskVars
    <2>3. ASSUME NEW p \in Procs, Crash(p) PROVE disk' = disk
      BY <2>3 DEF Crash, diskVars
    <2>4. CASE Tick \/ AgeLock \/ UNCHANGED vars
      BY <2>4 DEF Tick, AgeLock, vars, diskVars
    <2> QED
      BY <1>1, <2>1, <2>2, <2>3, <2>4 DEF Next
  <1> QED
    BY <1>1, VersionInit, VersionStep, TypeCorrect, PTL DEF Spec, SeqGrows

-----------------------------------------------------------------------------
(* Each step keeps references and objects together: they are read,         *)
(* changed, exported and renamed as one value, and what a merge leaves     *)
(* behind is remembered.                                                   *)
LEMMA ClosedStep ==
    ASSUME TypeOK, ClosedInv, [Next]_vars
    PROVE  ClosedInv'
  <1> USE DEF ClosedInv, Closed, histVars
  <1>1. ASSUME NEW p \in Procs, Open(p) PROVE ClosedInv'
    <2>1. CASE OpenRead(p)
      BY <2>1 DEF OpenRead, Goto, TypeOK, diskVars
    <2>2. CASE CaptureOpen(p)
      BY <2>2 DEF CaptureOpen, OpenedHandle, Goto, TypeOK, diskVars
    <2>3. CASE LookForWal(p) \/ ReadWal(p) \/ CleanTemps(p) \/ DropWal(p)
      BY <2>3 DEF LookForWal, ReadWal, CleanTemps, DropWal, Goto, TypeOK,
          diskVars
    <2>4. CASE CaptureMerge(p)
      <3>1. PICK m : m = MergedHandle(mem[p], rd[p])
        OBVIOUS
      <3>2. mem' = [mem EXCEPT ![p] = m] /\ pc' = [pc EXCEPT ![p] = "check"]
            /\ UNCHANGED <<disk, rd>>
            /\ dropped' = dropped \cup (mem[p].store \ m.store)
        BY <2>4, <3>1 DEF CaptureMerge, Goto, MergedHandle, diskVars
      <3>3. rd[p].objs \subseteq m.store
        BY <3>1 DEF MergedHandle, MergedStore
      <3>4. \A b \in Branches : m.refs[b] = mem[p].refs[b] \/ m.refs[b] = rd[p].refs[b]
        BY <3>1 DEF MergedHandle, MergedRefs
      <3>5. \A b \in Branches : m.refs[b] \subseteq m.store \cup dropped'
        BY <3>2, <3>3, <3>4
      <3>6. mem'[p] = m /\ \A q \in Procs \ {p} : mem'[q] = mem[q]
        BY <3>2 DEF TypeOK
      <3>7. dropped \subseteq dropped' /\ pc'[p] # "rename"
            /\ \A q \in Procs \ {p} : pc'[q] = pc[q]
        BY <3>2 DEF TypeOK
      <3> QED
        BY <3>2, <3>5, <3>6, <3>7
    <2> QED
      BY <1>1, <2>1, <2>2, <2>3, <2>4 DEF Open
  <1>2. ASSUME NEW p \in Procs, Work(p) PROVE ClosedInv'
    <2>1. ASSUME NEW store, NEW refs, Change(p, store, refs),
                 \A b \in Branches : refs[b] \subseteq store \cup dropped
          PROVE  ClosedInv'
      <3>1. mem'[p].refs = refs /\ mem'[p].store = store
        BY <2>1 DEF Change, TypeOK, Handle
      <3> QED
        BY <2>1, <3>1 DEF Change, Goto, TypeOK, diskVars
    <2>2. mem[p].refs \in [Branches -> SUBSET Objects]
      BY DEF TypeOK, Handle, Refs
    <2>3. CASE CreateCommit(p)
      BY <2>1, <2>2, <2>3 DEF CreateCommit
    <2>4. CASE CreateBranch(p)
      BY <2>1, <2>2, <2>4 DEF CreateBranch
    <2>5. CASE DeleteBranch(p)
      BY <2>1, <2>2, <2>5 DEF DeleteBranch
    <2>6. CASE Exit(p)
      BY <2>6 DEF Exit, Goto, TypeOK, diskVars
    <2> QED
      BY <1>2, <2>3, <2>4, <2>5, <2>6 DEF Work
  <1>3. ASSUME NEW p \in Procs, Check(p) PROVE ClosedInv'
    BY <1>3 DEF Check, CheckPasses, CheckConflictMerge, CheckConflictError,
        Goto, TypeOK, diskVars
  <1>4. ASSUME NEW p \in Procs, Acquire(p) PROVE ClosedInv'
    <2>1. /\ UNCHANGED <<disk, mem, rd, dropped>>
          /\ \A q \in Procs : pc'[q] = "rename" => pc[q] = "rename"
      BY <1>4 DEF Acquire, InspectLock, FindStaleLock, FindLiveLock,
          RemoveStaleLock, CreateLock, LockBusy, LockTimeout, StampLock,
          StampFails, Goto, TypeOK, diskVars
    <2> QED
      BY <2>1
  <1>5. ASSUME NEW p \in Procs, Write(p) PROVE ClosedInv'
    <2>1. CASE BeginSave(p)
      BY <2>1 DEF BeginSave, Goto, TypeOK, Handle
    <2>2. CASE WriteTemp(p) \/ WriteFails(p)
      <3>1. /\ ExportStore(mem[p]).refs = mem[p].refs
            /\ ExportStore(mem[p]).store = mem[p].store
            /\ ExportStore(mem[p]).stored = mem[p].store
        BY DEF ExportStore, TypeOK, Handle
      <3>2. mem' = [mem EXCEPT ![p] = ExportStore(mem[p])]
        BY <2>2 DEF WriteTemp, WriteFails
      <3> QED
        BY <2>2, <3>1, <3>2 DEF WriteTemp, WriteFails, Goto, TypeOK
    <2>3. CASE Rename(p)
      BY <2>3 DEF Rename, Goto, TypeOK
    <2>4. CASE Recapture(p)
      BY <2>4 DEF Recapture, Goto, TypeOK, Handle, diskVars
    <2>5. CASE Unlock(p)
      BY <2>5 DEF Unlock, Goto, TypeOK
    <2>6. CASE EncodeFails(p) \/ RenameFails(p) \/ CompleteWal(p)
                 \/ UnlockError(p)
      BY <2>6 DEF EncodeFails, RenameFails, CompleteWal, UnlockError, Goto,
          TypeOK, diskVars
    <2> QED
      BY <1>5, <2>1, <2>2, <2>3, <2>4, <2>5, <2>6 DEF Write
  <1>6. ASSUME NEW p \in Procs, Crash(p) PROVE ClosedInv'
    BY <1>6 DEF Crash, TypeOK, diskVars
  <1>7. CASE Tick \/ AgeLock \/ UNCHANGED vars
    BY <1>7 DEF Tick, AgeLock, vars, diskVars, procVars
  <1> QED
    BY <1>1, <1>2, <1>3, <1>4, <1>5, <1>6, <1>7 DEF Next, Step

LEMMA ClosedInit == Init => ClosedInv
  BY DEF Init, ClosedInv, Closed, InitialFile

LEMMA LeftOutInit == Init => LeftOutInv
  BY DEF Init, LeftOutInv

(* A handle differs from what it has stored by commits of its own, and     *)
(* only a merge leaves anything out.                                       *)
LEMMA LeftOutStep ==
    ASSUME TypeOK, LeftOutInv, [Next]_vars
    PROVE  LeftOutInv'
  <1> USE DEF LeftOutInv, histVars
  <1>0. ops \in [Procs -> Nat] /\ \A p \in Procs : p \in Merging => p \in Procs
    BY ConstantsAssumption DEF TypeOK
  <1>1. ASSUME NEW p \in Procs, Open(p) PROVE LeftOutInv'
    <2>1. CASE CaptureOpen(p)
      BY <2>1 DEF CaptureOpen, OpenedHandle, Goto, TypeOK, Own
    <2>2. CASE CaptureMerge(p)
      <3>1. PICK m : m = MergedHandle(mem[p], rd[p])
        OBVIOUS
      <3>2. mem' = [mem EXCEPT ![p] = m] /\ merged[p] /\ UNCHANGED <<merged, ops>>
            /\ dropped' = dropped \cup (mem[p].store \ m.store)
        BY <2>2, <3>1 DEF CaptureMerge, Goto, MergedHandle
      <3>3. m.store = m.stored /\ mem[p].stored \subseteq m.store
        BY <3>1 DEF MergedHandle, MergedStore
      <3>4. mem[p].store \ m.store \subseteq Own(p) /\ p \in Merging
        BY <3>2, <3>3
      <3>5. mem'[p] = m /\ \A q \in Procs \ {p} : mem'[q] = mem[q]
        BY <3>2 DEF TypeOK
      <3>6. \A q : Own(q)' = Own(q)
        BY <3>2 DEF Own
      <3> QED
        BY <3>2, <3>3, <3>4, <3>5, <3>6
    <2>3. CASE OpenRead(p) \/ LookForWal(p) \/ ReadWal(p) \/ CleanTemps(p)
                  \/ DropWal(p)
      BY <2>3 DEF OpenRead, LookForWal, ReadWal, CleanTemps, DropWal, Own
    <2> QED
      BY <1>1, <2>1, <2>2, <2>3 DEF Open
  <1>2. ASSUME NEW p \in Procs, Work(p) PROVE LeftOutInv'
    <2>1. ASSUME NEW store, NEW refs, Change(p, store, refs),
                 store \subseteq mem[p].store \cup {<<p, ops[p] + 1>>}
          PROVE  LeftOutInv'
      <3>1. /\ mem'[p].store = store /\ mem'[p].stored = mem[p].stored
            /\ \A q \in Procs \ {p} : mem'[q] = mem[q]
            /\ UNCHANGED <<merged, dropped>>
        BY <2>1 DEF Change, TypeOK, Handle
      <3>2. ops'[p] = ops[p] + 1 /\ \A q \in Procs \ {p} : ops'[q] = ops[q]
        BY <2>1 DEF Change, TypeOK
      <3>3. \A q \in Procs : 1 .. ops[q] \subseteq 1 .. ops'[q]
        BY <1>0, <3>2
      <3>4. \A q \in Procs : Own(q) \subseteq Own(q)'
        BY <3>3 DEF Own
      <3>5. ops[p] + 1 \in 1 .. ops'[p]
        BY <1>0, <3>2
      <3>6. <<p, ops[p] + 1>> \in Own(p)'
        BY <3>5 DEF Own
      <3>7. mem'[p].store \subseteq mem'[p].stored \cup Own(p)'
        BY <2>1, <3>1, <3>4, <3>6
      <3>8. \A c \in dropped : \E q \in Merging : c \in Own(q)'
        BY <3>4, ConstantsAssumption
      <3> QED
        BY <3>1, <3>4, <3>7, <3>8
    <2>2. CASE CreateCommit(p)
      BY <2>1, <2>2 DEF CreateCommit
    <2>3. CASE CreateBranch(p)
      BY <2>1, <2>3 DEF CreateBranch
    <2>4. CASE DeleteBranch(p)
      BY <2>1, <2>4 DEF DeleteBranch
    <2>5. CASE Exit(p)
      BY <2>5 DEF Exit, Own
    <2> QED
      BY <1>2, <2>2, <2>3, <2>4, <2>5 DEF Work
  <1>3. ASSUME NEW p \in Procs, Check(p) PROVE LeftOutInv'
    BY <1>3 DEF Check, CheckPasses, CheckConflictMerge, CheckConflictError, TypeOK, Own
  <1>4. ASSUME NEW p \in Procs, Acquire(p) PROVE LeftOutInv'
    <2>1. UNCHANGED <<mem, merged, ops, dropped>>
      BY <1>4 DEF Acquire, InspectLock, FindStaleLock, FindLiveLock,
          RemoveStaleLock, CreateLock, LockBusy, LockTimeout, StampLock,
          StampFails
    <2> QED
      BY <2>1 DEF Own
  <1>5. ASSUME NEW p \in Procs, Write(p) PROVE LeftOutInv'
    <2>1. UNCHANGED <<ops, dropped>> /\ \A q \in Procs : merged'[q] => merged[q]
      BY <1>5 DEF Write, BeginSave, EncodeFails, WriteTemp, WriteFails, Rename, RenameFails,
          CompleteWal, Recapture, Unlock, UnlockError, TypeOK
    <2>2. \A q \in Procs : \/ mem'[q].store = mem[q].store /\ mem'[q].stored = mem[q].stored
                           \/ mem'[q].store = mem'[q].stored
      <3>1. CASE BeginSave(p)
        BY <3>1 DEF BeginSave, TypeOK, Handle
      <3>2. CASE WriteTemp(p) \/ WriteFails(p)
        <4>1. ExportStore(mem[p]).store = ExportStore(mem[p]).stored
          BY DEF ExportStore, TypeOK, Handle
        <4>2. mem' = [mem EXCEPT ![p] = ExportStore(mem[p])]
          BY <3>2 DEF WriteTemp, WriteFails
        <4> QED
          BY <4>1, <4>2 DEF TypeOK
      <3>3. CASE Recapture(p)
        BY <3>3 DEF Recapture, TypeOK, Handle
      <3>4. CASE EncodeFails(p) \/ Rename(p) \/ RenameFails(p) \/ CompleteWal(p)
                   \/ Unlock(p) \/ UnlockError(p)
        BY <3>4 DEF EncodeFails, Rename, RenameFails, CompleteWal, Unlock, UnlockError
      <3> QED
        BY <1>5, <3>1, <3>2, <3>3, <3>4 DEF Write
    <2>3. \A q : Own(q)' = Own(q)
      BY <2>1 DEF Own
    <2> QED
      BY <2>1, <2>2, <2>3
  <1>6. CASE \/ \E p \in Procs : Crash(p)
             \/ Tick \/ AgeLock \/ UNCHANGED vars
    BY <1>6 DEF Crash, Tick, AgeLock, vars, procVars, Own
  <1> QED
    BY <1>1, <1>2, <1>3, <1>4, <1>5, <1>6 DEF Next, Step

(* No interleaving of opens, saves, merges, failures and crashes writes a  *)
(* branch with a commit missing, other than one that its own process was   *)
(* saving when it merged.                                                  *)
THEOREM NoDanglingRefs == Spec => []RefsResolve
  <1>1. ClosedInv /\ LeftOutInv => RefsResolve
    BY DEF ClosedInv, Closed, LeftOutInv, Own, RefsResolve
  <1> QED
    BY <1>1, ClosedInit, ClosedStep, LeftOutInit, LeftOutStep, TypeCorrect, PTL DEF Spec

-----------------------------------------------------------------------------
(* Until an update is lost, a rename only adds objects, since the handle   *)
(* that is saved was built from the version it replaces.                   *)
LEMMA KeptStep ==
    ASSUME TypeOK, ClosedInv, KeptInv, [Next]_vars
    PROVE  KeptInv'
  <1> USE DEF KeptInv, Unsaved, Numbered, Renamed, Opening, Locking
  <1>0. disk.ver \in Nat
        /\ \A q \in Procs : rd[q].ver \in Nat /\ base[q] \in Nat
    BY DEF TypeOK, File
  <1>1. ASSUME NEW p \in Procs, Open(p) PROVE KeptInv'
    <2>1. CASE OpenRead(p)
      BY <1>0, <2>1 DEF OpenRead, Goto, TypeOK, diskVars, histVars, OwnCommits
    <2>2. CASE CaptureOpen(p)
      BY <1>0, <2>2 DEF CaptureOpen, OpenedHandle, Goto, TypeOK, diskVars,
          OwnCommits
    <2>3. CASE LookForWal(p) \/ ReadWal(p) \/ CleanTemps(p) \/ DropWal(p)
      BY <1>0, <2>3 DEF LookForWal, ReadWal, CleanTemps, DropWal, Goto, TypeOK,
          diskVars, histVars, OwnCommits
    <2>4. CASE CaptureMerge(p)
      <3>1. PICK m : m = MergedHandle(mem[p], rd[p])
        OBVIOUS
      <3>2. /\ mem' = [mem EXCEPT ![p] = m] /\ pc[p] = "capture"
            /\ pc' = [pc EXCEPT ![p] = "check"] /\ base' = [base EXCEPT ![p] = rd[p].ver]
            /\ UNCHANGED <<disk, rd, lost, acked>> /\ dropped \subseteq dropped'
        BY <2>4, <3>1 DEF CaptureMerge, Goto, diskVars
      <3>3. rd[p].objs \subseteq m.store
        BY <3>1 DEF MergedHandle, MergedStore
      <3>4. mem'[p] = m /\ \A q \in Procs \ {p} : mem'[q] = mem[q] /\ OwnCommits(q)' = OwnCommits(q)
        BY <3>2 DEF TypeOK, OwnCommits
      <3>5. /\ pc'[p] = "check" /\ base'[p] = rd[p].ver
            /\ \A q \in Procs \ {p} : pc'[q] = pc[q] /\ base'[q] = base[q]
        BY <3>2 DEF TypeOK
      <3> QED
        BY <1>0, <3>2, <3>3, <3>4, <3>5
    <2> QED
      BY <1>1, <2>1, <2>2, <2>3, <2>4 DEF Open
  <1>2. ASSUME NEW p \in Procs, Work(p) PROVE KeptInv'
    <2>1. ASSUME NEW store, NEW refs, Change(p, store, refs),
                 mem[p].store \subseteq store
          PROVE  KeptInv'
      <3>1. mem'[p].store = store
        BY <2>1 DEF Change, TypeOK, Handle
      <3>2. /\ pc[p] = "work" /\ pc' = [pc EXCEPT ![p] = "check"]
            /\ \A q \in Procs \ {p} : mem'[q] = mem[q]
            /\ UNCHANGED <<disk, rd, base, lost, acked, dropped>>
        BY <2>1 DEF Change, Goto, TypeOK, diskVars, histVars
      <3> QED
        BY <1>0, <2>1, <3>1, <3>2 DEF TypeOK, OwnCommits
    <2>2. CASE CreateCommit(p)
      BY <2>1, <2>2 DEF CreateCommit
    <2>3. CASE CreateBranch(p)
      BY <2>1, <2>3 DEF CreateBranch
    <2>4. CASE DeleteBranch(p)
      BY <2>1, <2>4 DEF DeleteBranch
    <2>5. CASE Exit(p)
      BY <1>0, <2>5 DEF Exit, Goto, TypeOK, diskVars, histVars, OwnCommits
    <2> QED
      BY <1>2, <2>2, <2>3, <2>4, <2>5 DEF Work
  <1>3. ASSUME NEW p \in Procs, Check(p) PROVE KeptInv'
    BY <1>0, <1>3 DEF Check, CheckPasses, CheckConflictMerge,
        CheckConflictError, Goto, TypeOK, diskVars, histVars, OwnCommits
  <1>4. ASSUME NEW p \in Procs, Acquire(p) PROVE KeptInv'
    <2>1. /\ UNCHANGED <<disk, mem, rd, base, lost, acked, dropped>>
          /\ pc[p] \in Locking \cup {"stamp"}
          /\ \E to \in Locking \cup {"stamp", "begin", "failed"} :
                pc' = [pc EXCEPT ![p] = to]
      BY <1>4 DEF Acquire, InspectLock, FindStaleLock, FindLiveLock,
          RemoveStaleLock, CreateLock, LockBusy, LockTimeout, StampLock,
          StampFails, Goto, diskVars, histVars
    <2> QED
      BY <1>0, <2>1 DEF TypeOK, OwnCommits
  <1>5. ASSUME NEW p \in Procs, Write(p) PROVE KeptInv'
    <2>1. CASE BeginSave(p)
      BY <1>0, <2>1 DEF BeginSave, Goto, TypeOK, Handle, histVars, OwnCommits
    <2>2. CASE WriteTemp(p) \/ WriteFails(p)
      <3>1. /\ ExportStore(mem[p]).refs = mem[p].refs
            /\ ExportStore(mem[p]).store = mem[p].store
            /\ ExportStore(mem[p]).stored = mem[p].store
        BY DEF ExportStore, TypeOK, Handle
      <3>2. mem' = [mem EXCEPT ![p] = ExportStore(mem[p])]
        BY <2>2 DEF WriteTemp, WriteFails
      <3> QED
        BY <1>0, <2>2, <3>1, <3>2 DEF WriteTemp, WriteFails, Goto, TypeOK,
            histVars, OwnCommits
    <2>3. CASE Rename(p)
      <3> SUFFICES ASSUME ~lost' PROVE KeptInv'
        OBVIOUS
      <3>1. /\ ~lost /\ base[p] = disk.ver /\ pc[p] = "rename"
            /\ mem[p].stored = mem[p].store
        BY <2>3 DEF Rename, Goto
      <3>2. disk.objs \subseteq mem[p].stored
        BY <3>1
      <3>3. /\ disk'.ver = disk.ver + 1 /\ disk'.objs = mem[p].stored
            /\ pc'[p] = "complete" /\ base'[p] = disk'.ver
            /\ UNCHANGED <<mem, rd, acked, dropped>>
            /\ \A q \in Procs \ {p} : pc'[q] = pc[q] /\ base'[q] = base[q]
        BY <2>3 DEF Rename, Goto, TypeOK
      <3>4. OwnCommits(p) \subseteq mem[p].stored \cup dropped
        BY <3>1 DEF OwnCommits, ClosedInv, Closed
      <3> QED
        BY <1>0, <3>1, <3>2, <3>3, <3>4 DEF OwnCommits
    <2>4. CASE Recapture(p)
      BY <1>0, <2>4 DEF Recapture, Goto, TypeOK, Handle, diskVars, histVars,
          OwnCommits
    <2>5. CASE Unlock(p)
      BY <1>0, <2>5 DEF Unlock, Goto, TypeOK, OwnCommits
    <2>6. CASE EncodeFails(p) \/ RenameFails(p) \/ CompleteWal(p)
                 \/ UnlockError(p)
      BY <1>0, <2>6 DEF EncodeFails, RenameFails, CompleteWal, UnlockError,
          Goto, TypeOK, diskVars, histVars, OwnCommits
    <2> QED
      BY <1>5, <2>1, <2>2, <2>3, <2>4, <2>5, <2>6 DEF Write
  <1>6. ASSUME NEW p \in Procs, Crash(p) PROVE KeptInv'
    BY <1>0, <1>6 DEF Crash, TypeOK, diskVars, histVars, OwnCommits
  <1>7. CASE Tick \/ AgeLock \/ UNCHANGED vars
    BY <1>7 DEF Tick, AgeLock, vars, diskVars, procVars, histVars, OwnCommits
  <1> QED
    BY <1>1, <1>2, <1>3, <1>4, <1>5, <1>6, <1>7 DEF Next, Step

LEMMA KeptInit == Init => KeptInv
  BY DEF Init, KeptInv, Unsaved, Numbered, Renamed, Opening, Locking

(* As long as no update has been lost, a commit whose save returned Ok is  *)
(* in the file, whatever else happened, unless its own merge left it out.  *)
THEOREM AcknowledgedKept == Spec => []AckedCommitsKept
  <1>1. KeptInv => AckedCommitsKept
    BY DEF KeptInv, AckedCommitsKept
  <1> QED
    BY <1>1, ClosedInit, ClosedStep, KeptInit, KeptStep, TypeCorrect, PTL
        DEF Spec

-----------------------------------------------------------------------------
(* The requests of the server.                                             *)

(* Where the handlers are.  A request past its open works under the mutex  *)
(* or has ended; one that only reads, or was dropped while it opened,      *)
(* never gets to a save.                                                   *)
Places ==
    \A p \in Procs :
          /\ stage[p] = "queued" => pc[p] = "open"
          /\ stage[p] \in {"reading", "dropped"} =>
                pc[p] \in Opening \cup {"work"} \cup Final
          /\ stage[p] = "guarded" => mutex = p \/ pc[p] \in Final

(* A commit that is still to be made is nowhere yet. *)
Nowhere(c) ==
    \A q \in Procs : c \notin disk.objs \cup rd[q].objs \cup mem[q].store \cup mem[q].stored

CommitsFresh ==
    \A p \in Procs, i \in 1 .. MaxOps : ops[p] < i => Nowhere(<<p, i>>)

(* The objects s and branches n are those of o and r after one operation.  *)
Applied(o, r, s, n) ==
    \/ \E b \in Branches, c \in Commits \ o :
          /\ r[b] # {}
          /\ s = o \cup {c}
          /\ n = [r EXCEPT ![b] = @ \cup {c}]
    \/ \E b, from \in Branches :
          /\ r[from] # {}
          /\ s = o
          /\ n = [r EXCEPT ![b] = r[from]]
    \/ \E b \in Branches :
          /\ s = o
          /\ n = [r EXCEPT ![b] = {}]

Based     == {"work", "check", "stamp", "begin", "write", "rename", "complete",
              "recapture", "unlock"} \cup Locking
Changed   == {"check", "stamp", "begin", "write", "rename"} \cup Locking
Unchanged == {"work", "complete", "recapture", "unlock"}

(* What p knows of the file while nobody else can write it: its copy is    *)
(* the file itself, or the file with p's one change, or, after the rename, *)
(* the file again.                                                         *)
Knows(p) ==
    /\ pc[p] \in Opening \ {"open"} => rd[p] = disk
    /\ pc[p] \in Based => base[p] = disk.ver
    /\ pc[p] \in {"work", "check", "unlock"} => mem[p].snap.seq = disk.seq
    /\ pc[p] \in {"complete", "recapture"} => mem[p].seq = disk.seq
    /\ pc[p] \in Unchanged => mem[p].store = disk.objs /\ mem[p].refs = disk.refs
    /\ pc[p] \in Changed =>
          Applied(disk.objs, disk.refs, mem[p].store, mem[p].refs)
    /\ pc[p] = "rename" => mem[p].stored = mem[p].store

Intact ==
    /\ ~lost /\ ~broken
    /\ \A p \in Procs : ~merged[p]
    /\ \A p \in Procs : stage[p] = "guarded" => Knows(p)

HandlerTypes ==
    /\ mutex \in Procs \cup {NoOne}
    /\ stage \in [Procs -> Stages]
    /\ mutex # NoOne => stage[mutex] = "guarded"

(* All of this holds until a save outlives its mutex. *)
ApiInv ==
    /\ TypeOK /\ HandlerTypes /\ CommitsFresh
    /\ Orphaned \/ (Places /\ Intact)

-----------------------------------------------------------------------------
(* A step of the server is a step of the save protocol, or a stutter of    *)
(* it, or the crash of every request in flight.                            *)
LEMMA ServerStep ==
    ASSUME [ApiNext]_allVars
    PROVE  [Next]_vars \/ ServerCrash
  BY DEF ApiNext, allVars, RequestStep, TakeGuard, WriterStep, ReaderStep,
      ReleaseGuard, DroppedStep, OrphanStep, Disconnect, Next, Step, Open, Work

LEMMA ApiTypeStep ==
    ASSUME TypeOK, [ApiNext]_allVars
    PROVE  TypeOK'
  <1>1. CASE [Next]_vars
    BY <1>1, TypeStep
  <1>2. CASE ServerCrash
    BY <1>2 DEF ServerCrash, TypeOK, PCs, Final, diskVars, histVars
  <1> QED
    BY <1>1, <1>2, ServerStep

(* A step of one process moves no other. *)
LEMMA StepMoves ==
    ASSUME TypeOK, NEW p \in Procs, Step(p), NEW q \in Procs, q # p
    PROVE  pc'[q] = pc[q]
  <1> USE DEF Goto, TypeOK
  <1>1. CASE Open(p)
    BY <1>1 DEF Open, OpenRead, LookForWal, ReadWal, CleanTemps, DropWal,
        CaptureOpen, CaptureMerge
  <1>2. CASE Work(p)
    BY <1>2 DEF Work, CreateCommit, CreateBranch, DeleteBranch, Exit, Change
  <1>3. CASE Check(p)
    BY <1>3 DEF Check, CheckPasses, CheckConflictMerge, CheckConflictError
  <1>4. CASE Acquire(p)
    BY <1>4 DEF Acquire, InspectLock, FindStaleLock, FindLiveLock,
        RemoveStaleLock, CreateLock, LockBusy, LockTimeout, StampLock, StampFails
  <1>5. CASE Write(p)
    BY <1>5 DEF Write, BeginSave, EncodeFails, WriteTemp, WriteFails, Rename,
        RenameFails, CompleteWal, Recapture, Unlock, UnlockError
  <1> QED
    BY <1>1, <1>2, <1>3, <1>4, <1>5 DEF Step

(* A process that has ended takes no step. *)
LEMMA FinalStays ==
    ASSUME NEW p \in Procs, Step(p)
    PROVE  pc[p] \notin Final
  <1> USE DEF Goto, Final
  <1>1. CASE Open(p)
    BY <1>1 DEF Open, OpenRead, LookForWal, ReadWal, CleanTemps, DropWal,
        CaptureOpen, CaptureMerge
  <1>2. CASE Work(p)
    BY <1>2 DEF Work, CreateCommit, CreateBranch, DeleteBranch, Exit, Change
  <1>3. CASE Check(p)
    BY <1>3 DEF Check, CheckPasses, CheckConflictMerge, CheckConflictError
  <1>4. CASE Acquire(p)
    BY <1>4 DEF Acquire, InspectLock, FindStaleLock, FindLiveLock,
        RemoveStaleLock, CreateLock, LockBusy, LockTimeout, StampLock, StampFails
  <1>5. CASE Write(p)
    BY <1>5 DEF Write, BeginSave, EncodeFails, WriteTemp, WriteFails, Rename,
        RenameFails, CompleteWal, Recapture, Unlock, UnlockError
  <1> QED
    BY <1>1, <1>2, <1>3, <1>4, <1>5 DEF Step

LEMMA MergedOwn ==
    ASSUME TypeOK, NEW p \in Procs, Step(p), NEW q \in Procs, q # p
    PROVE  merged'[q] = merged[q]
  <1> USE DEF TypeOK
  <1>1. CASE Open(p)
    BY <1>1 DEF Open, OpenRead, LookForWal, ReadWal, CleanTemps, DropWal,
        CaptureOpen, CaptureMerge
  <1>2. CASE Work(p)
    BY <1>2 DEF Work, CreateCommit, CreateBranch, DeleteBranch, Exit, Change
  <1>3. CASE Check(p)
    BY <1>3 DEF Check, CheckPasses, CheckConflictMerge, CheckConflictError
  <1>4. CASE Acquire(p)
    BY <1>4 DEF Acquire, InspectLock, FindStaleLock, FindLiveLock,
        RemoveStaleLock, CreateLock, LockBusy, LockTimeout, StampLock, StampFails
  <1>5. CASE Write(p)
    BY <1>5 DEF Write, BeginSave, EncodeFails, WriteTemp, WriteFails, Rename,
        RenameFails, CompleteWal, Recapture, Unlock, UnlockError
  <1> QED
    BY <1>1, <1>2, <1>3, <1>4, <1>5 DEF Step

(* An open without merging ends in work or fails, and changes neither the  *)
(* file nor another process's copy.                                        *)
LEMMA OpenFrame ==
    ASSUME TypeOK, NEW p \in Procs, Open(p) \/ Exit(p), ~merged[p]
    PROVE  /\ pc'[p] \in Opening \cup {"work"} \cup Final
           /\ UNCHANGED <<disk, lost, broken, merged, ops>>
           /\ \A q \in Procs \ {p} :
                 /\ pc'[q] = pc[q] /\ mem'[q] = mem[q]
                 /\ rd'[q] = rd[q] /\ base'[q] = base[q]
  BY DEF Open, OpenRead, LookForWal, ReadWal, CleanTemps, DropWal, CaptureOpen,
      CaptureMerge, Exit, Goto, TypeOK, diskVars, histVars, Opening, Final

LEMMA HandlerTypesStep ==
    ASSUME HandlerTypes, [ApiNext]_allVars
    PROVE  HandlerTypes' /\ (Orphaned => Orphaned')
  <1> USE DEF HandlerTypes, Stages, Orphaned, apiVars
  <1>1. ASSUME NEW p \in Procs, TakeGuard(p) \/ Disconnect(p)
        PROVE  HandlerTypes' /\ (Orphaned => Orphaned')
    <2>1. stage[p] # "orphan"
      BY <1>1, ConstantsAssumption DEF TakeGuard, Disconnect
    <2>2. \A q \in Procs \ {p} : stage'[q] = stage[q]
      BY <1>1 DEF TakeGuard, Disconnect
    <2>3. HandlerTypes'
      BY <1>1, ConstantsAssumption DEF TakeGuard, Disconnect
    <2> QED
      BY <2>1, <2>2, <2>3
  <1>2. CASE UNCHANGED stage /\ mutex' \in {mutex, NoOne}
    BY <1>2
  <1> QED
    BY <1>1, <1>2 DEF ApiNext, allVars, RequestStep, WriterStep, ReaderStep,
        ReleaseGuard, DroppedStep, OrphanStep, ServerCrash

LEMMA PlacesStep ==
    ASSUME TypeOK, HandlerTypes, Places, Intact, [ApiNext]_allVars
    PROVE  Places' \/ Orphaned'
  <1> USE DEF HandlerTypes, Places, Stages, apiVars
  <1>0. NoOne \notin Procs
    BY ConstantsAssumption
  <1>1. ASSUME NEW p \in Procs, TakeGuard(p) PROVE Places'
    BY <1>0, <1>1 DEF TakeGuard, vars, procVars
  <1>2. ASSUME NEW p \in Procs, WriterStep(p) PROVE Places'
    <2>1. Step(p) /\ stage[p] = "guarded" /\ UNCHANGED <<mutex, stage>>
      BY <1>2 DEF WriterStep
    <2>2. \A q \in Procs \ {p} : pc'[q] = pc[q]
      BY <2>1, StepMoves
    <2>3. mutex = p
      BY <2>1, FinalStays
    <2> QED
      BY <2>1, <2>2, <2>3
  <1>3. ASSUME NEW p \in Procs, ReaderStep(p) \/ DroppedStep(p) PROVE Places'
    <2>1. (Open(p) \/ Exit(p)) /\ stage[p] \in {"reading", "dropped"} /\ UNCHANGED <<mutex, stage>>
      BY <1>3 DEF ReaderStep, DroppedStep
    <2>2. ~merged[p]
      BY DEF Intact
    <2>3. /\ pc'[p] \in Opening \cup {"work"} \cup Final
          /\ \A q \in Procs \ {p} : pc'[q] = pc[q]
      BY <2>1, <2>2, OpenFrame
    <2> QED
      BY <2>1, <2>3
  <1>4. ASSUME NEW p \in Procs, ReleaseGuard(p) PROVE Places'
    BY <1>0, <1>4 DEF ReleaseGuard, vars, procVars
  <1>5. ASSUME NEW p \in Procs, Disconnect(p) PROVE Places' \/ Orphaned'
    <2>1. CASE pc[p] \in Opening
      BY <1>0, <1>5, <2>1 DEF Disconnect, vars, procVars
    <2>2. CASE pc[p] \notin Opening
      BY <1>5, <2>2 DEF Disconnect, Orphaned
    <2> QED
      BY <2>1, <2>2
  <1>6. ASSUME NEW p \in Procs, OrphanStep(p) PROVE Orphaned'
    BY <1>6 DEF OrphanStep, Orphaned
  <1>7. CASE ServerCrash
    <2>1. \A p \in Procs : pc'[p] = IF Begun(p) THEN "crashed" ELSE pc[p]
      BY <1>7 DEF ServerCrash
    <2>2. mutex' = NoOne /\ stage' = stage
      BY <1>7 DEF ServerCrash
    <2>3. \A p \in Procs : stage[p] = "queued" => ~Begun(p)
      BY <1>0 DEF Begun, Final
    <2>4. \A p \in Procs : stage[p] = "guarded" /\ ~Begun(p) => pc[p] \in Final
      BY DEF Begun
    <2> QED
      BY <2>1, <2>2, <2>3, <2>4 DEF Final
  <1>8. CASE UNCHANGED <<pc, mutex, stage>>
    BY <1>8
  <1> QED
    BY <1>1, <1>2, <1>3, <1>4, <1>5, <1>6, <1>7, <1>8
       DEF ApiNext, allVars, vars, RequestStep, Tick, AgeLock, procVars

-----------------------------------------------------------------------------
LEMMA FreshInit == Init => CommitsFresh
  BY ConstantsAssumption DEF Init, CommitsFresh, Nowhere, InitialFile, Commits

LEMMA FreshStep ==
    ASSUME TypeOK, CommitsFresh, [Next]_vars \/ ServerCrash
    PROVE  CommitsFresh'
  <1> USE DEF CommitsFresh, Nowhere
  <1>1. ASSUME NEW p \in Procs, Open(p) PROVE CommitsFresh'
    <2>1. CASE OpenRead(p)
      BY <2>1 DEF OpenRead, TypeOK, diskVars
    <2>2. CASE CaptureOpen(p)
      BY <2>2 DEF CaptureOpen, OpenedHandle, TypeOK, diskVars
    <2>3. CASE CaptureMerge(p)
      BY <2>3 DEF CaptureMerge, MergedHandle, MergedStore, TypeOK, diskVars
    <2>4. CASE ~(OpenRead(p) \/ CaptureOpen(p) \/ CaptureMerge(p))
      BY <1>1, <2>4 DEF Open, LookForWal, ReadWal, CleanTemps, DropWal, diskVars
    <2> QED
      BY <2>1, <2>2, <2>3, <2>4
  <1>2. ASSUME NEW p \in Procs, Work(p) PROVE CommitsFresh'
    <2>1. ASSUME NEW store, NEW refs, Change(p, store, refs),
                 store \in {mem[p].store, mem[p].store \cup {<<p, ops[p] + 1>>}}
          PROVE  CommitsFresh'
      <3>1. /\ ops' = [ops EXCEPT ![p] = ops[p] + 1] /\ UNCHANGED <<disk, rd>>
            /\ mem'[p].store = store /\ mem'[p].stored = mem[p].stored
            /\ \A q \in Procs \ {p} : mem'[q] = mem[q]
        BY <2>1 DEF Change, TypeOK, Handle, diskVars
      <3>2. \A q \in Procs : ops[q] \in Nat /\ ops'[q] \in Nat /\ ops[q] <= ops'[q]
        BY <3>1 DEF TypeOK
      <3>3. ops'[p] = ops[p] + 1
        BY <3>1 DEF TypeOK
      <3> SUFFICES ASSUME NEW r \in Procs, NEW i \in 1 .. MaxOps, ops'[r] < i, NEW q \in Procs
                   PROVE  <<r, i>> \notin disk.objs \cup rd[q].objs \cup mem'[q].store \cup mem'[q].stored
        BY <3>1
      <3>4. ops[r] < i
        BY <3>2, <3>3 DEF TypeOK
      <3>5. <<r, i>> \notin disk.objs \cup rd[q].objs \cup mem[q].store \cup mem[q].stored
        BY <3>4
      <3>6. <<r, i>> # <<p, ops[p] + 1>>
        BY <3>2, <3>3
      <3> QED
        BY <2>1, <3>1, <3>5, <3>6
    <2>2. CASE CreateCommit(p)
      BY <2>1, <2>2 DEF CreateCommit
    <2>3. CASE CreateBranch(p)
      BY <2>1, <2>3 DEF CreateBranch
    <2>4. CASE DeleteBranch(p)
      BY <2>1, <2>4 DEF DeleteBranch
    <2>5. CASE Exit(p)
      BY <2>5 DEF Exit, diskVars
    <2> QED
      BY <1>2, <2>2, <2>3, <2>4, <2>5 DEF Work
  <1>3. ASSUME NEW p \in Procs, Check(p) PROVE CommitsFresh'
    BY <1>3 DEF Check, CheckPasses, CheckConflictMerge, CheckConflictError, diskVars
  <1>4. ASSUME NEW p \in Procs, Acquire(p) PROVE CommitsFresh'
    BY <1>4 DEF Acquire, InspectLock, FindStaleLock, FindLiveLock,
        RemoveStaleLock, CreateLock, LockBusy, LockTimeout, StampLock,
        StampFails, diskVars
  <1>5. ASSUME NEW p \in Procs, Write(p) PROVE CommitsFresh'
    <2>1. CASE BeginSave(p)
      BY <2>1 DEF BeginSave, TypeOK, Handle
    <2>2. CASE WriteTemp(p) \/ WriteFails(p)
      <3>1. /\ mem'[p].store = mem[p].store /\ mem'[p].stored = mem[p].store
            /\ \A q \in Procs \ {p} : mem'[q] = mem[q]
        BY <2>2 DEF WriteTemp, WriteFails, ExportStore, TypeOK, Handle
      <3>2. UNCHANGED <<disk, rd, ops>>
        BY <2>2 DEF WriteTemp, WriteFails
      <3> QED
        BY <3>1, <3>2
    <2>3. CASE Rename(p)
      BY <2>3 DEF Rename, TypeOK
    <2>4. CASE Recapture(p)
      BY <2>4 DEF Recapture, TypeOK, Handle, diskVars
    <2>5. CASE EncodeFails(p) \/ RenameFails(p) \/ CompleteWal(p) \/ Unlock(p) \/ UnlockError(p)
      BY <2>5 DEF EncodeFails, RenameFails, CompleteWal, Unlock, UnlockError, diskVars
    <2> QED
      BY <1>5, <2>1, <2>2, <2>3, <2>4, <2>5 DEF Write
  <1>6. CASE UNCHANGED <<disk, rd, mem, ops>>
    BY <1>6
  <1> QED
    BY <1>1, <1>2, <1>3, <1>4, <1>5, <1>6 DEF Next, Step, Crash, Tick, AgeLock,
        ServerCrash, vars, diskVars, procVars

-----------------------------------------------------------------------------
(* Knows is about the file and p only, and asks nothing of one that ended. *)
LEMMA KnowsFrame ==
    ASSUME NEW p \in Procs, Knows(p), pc'[p] = pc[p], mem'[p] = mem[p],
           rd'[p] = rd[p], base'[p] = base[p], disk' = disk
    PROVE  Knows(p)'
  BY DEF Knows

LEMMA KnowsFinal ==
    ASSUME NEW p \in Procs, pc'[p] \in Final
    PROVE  Knows(p)'
  BY DEF Knows, Final, Based, Changed, Unchanged, Opening, Locking

(* The one process that writes keeps knowing the file, through its open,   *)
(* its change, the conflict check, the lock and the rename.                *)
LEMMA OwnStep ==
    ASSUME TypeOK, CommitsFresh, NEW p \in Procs, Step(p), Knows(p),
           ~merged[p], ~lost, ~broken, \A q \in Procs : Holding(q) => q = p
    PROVE  Knows(p)' /\ ~merged'[p] /\ ~lost' /\ ~broken'
  <1> USE DEF Knows, Based, Changed, Unchanged, Opening, Locking
  <1> HIDE DEF Applied
  <1>1. CASE Open(p)
    BY <1>1 DEF Open, OpenRead, LookForWal, ReadWal, CleanTemps, DropWal,
        CaptureOpen, CaptureMerge, OpenedHandle, SnapshotOf, Goto, TypeOK,
        diskVars, histVars
  <1>2. CASE Work(p)
    <2>1. CASE Exit(p)
      BY <2>1 DEF Exit, Goto, TypeOK, diskVars, histVars
    <2>2. ASSUME NEW store, NEW refs, Change(p, store, refs),
                 Applied(mem[p].store, mem[p].refs, store, refs)
          PROVE  Knows(p)' /\ ~merged'[p] /\ ~lost' /\ ~broken'
      BY <2>2 DEF Change, Goto, TypeOK, Handle, diskVars, histVars
    <2>3. CASE CreateCommit(p)
      <3> DEFINE c == <<p, ops[p] + 1>>
      <3>1. PICK b \in Branches :
                /\ mem[p].refs[b] # {}
                /\ Change(p, mem[p].store \cup {c},
                          [mem[p].refs EXCEPT ![b] = mem[p].refs[b] \cup {c}])
        BY <2>3 DEF CreateCommit
      <3>2. ops[p] + 1 \in 1 .. MaxOps /\ ops[p] < ops[p] + 1
        BY <3>1, ConstantsAssumption DEF Change, TypeOK
      <3>3. c \in Commits \ mem[p].store
        BY <3>2 DEF CommitsFresh, Nowhere, Commits
      <3>4. Applied(mem[p].store, mem[p].refs, mem[p].store \cup {c},
                    [mem[p].refs EXCEPT ![b] = mem[p].refs[b] \cup {c}])
        BY <3>1, <3>3 DEF Applied
      <3> QED
        BY <2>2, <3>1, <3>4
    <2>4. CASE CreateBranch(p)
      BY <2>2, <2>4 DEF CreateBranch, Applied
    <2>5. CASE DeleteBranch(p)
      BY <2>2, <2>5 DEF DeleteBranch, Applied
    <2> QED
      BY <1>2, <2>1, <2>3, <2>4, <2>5 DEF Work
  <1>3. CASE Check(p)
    BY <1>3 DEF Check, CheckPasses, CheckConflictMerge, CheckConflictError,
        Conflict, Goto, TypeOK, diskVars, histVars
  <1>4. CASE Acquire(p)
    <2>1. CASE RemoveStaleLock(p)
      BY <2>1 DEF RemoveStaleLock, UnlinkLock, Goto, TypeOK
    <2>2. CASE InspectLock(p) \/ FindStaleLock(p) \/ FindLiveLock(p)
      <3>1. pc[p] \in Locking /\ pc'[p] \in Locking
        BY <2>2 DEF InspectLock, FindStaleLock, FindLiveLock, Goto, TypeOK
      <3>2. UNCHANGED <<disk, mem, rd, merged, base, lost, broken>>
        BY <2>2 DEF InspectLock, FindStaleLock, FindLiveLock, diskVars, histVars
      <3> QED
        BY <3>1, <3>2
    <2>3. CASE CreateLock(p) \/ LockBusy(p) \/ LockTimeout(p)
      BY <2>3 DEF CreateLock, LockBusy, LockTimeout, Goto, TypeOK, diskVars,
          histVars
    <2>4. CASE StampLock(p) \/ StampFails(p)
      BY <2>4 DEF StampLock, StampFails, Goto, TypeOK, diskVars, histVars
    <2> QED
      BY <1>4, <2>1, <2>2, <2>3, <2>4 DEF Acquire
  <1>5. CASE Write(p)
    BY <1>5 DEF Write, BeginSave, EncodeFails, WriteTemp, WriteFails, Rename,
        RenameFails, CompleteWal, Recapture, Unlock, UnlockError, UnlinkLock,
        ExportStore, SnapshotOf, Goto, TypeOK, Handle, diskVars, histVars
  <1> QED
    BY <1>1, <1>2, <1>3, <1>4, <1>5 DEF Step
(* A rename by the one that writes is one operation on the file's content; *)
(* nothing else touches the content.                                       *)
LEMMA OwnRename ==
    ASSUME TypeOK, NEW p \in Procs, Step(p), Knows(p)
    PROVE  \/ Applied(disk.objs, disk.refs, disk'.objs, disk'.refs)
           \/ disk' = disk
  <1> HIDE DEF Applied
  <1>1. CASE Rename(p)
    BY <1>1 DEF Rename, Goto, Knows, Changed
  <1>2. CASE Open(p)
    BY <1>2 DEF Open, OpenRead, LookForWal, ReadWal, CleanTemps, DropWal,
        CaptureOpen, CaptureMerge, diskVars
  <1>3. CASE Work(p)
    BY <1>3 DEF Work, CreateCommit, CreateBranch, DeleteBranch, Exit, Change, diskVars
  <1>4. CASE Check(p)
    BY <1>4 DEF Check, CheckPasses, CheckConflictMerge, CheckConflictError, diskVars
  <1>5. CASE Acquire(p)
    BY <1>5 DEF Acquire, InspectLock, FindStaleLock, FindLiveLock,
        RemoveStaleLock, CreateLock, LockBusy, LockTimeout, StampLock,
        StampFails, diskVars
  <1>6. CASE Write(p) /\ ~Rename(p)
    BY <1>6 DEF Write, BeginSave, EncodeFails, WriteTemp, WriteFails,
        RenameFails, CompleteWal, Recapture, Unlock, UnlockError, diskVars
  <1> QED
    BY <1>1, <1>2, <1>3, <1>4, <1>5, <1>6 DEF Step

(* What the server's step does, while no save has outlived its mutex.      *)
LEMMA IntactStep ==
    ASSUME ApiInv, ~Orphaned, [ApiNext]_allVars
    PROVE  /\ Intact' \/ Orphaned'
           /\ \/ Applied(disk.objs, disk.refs, disk'.objs, disk'.refs)
              \/ disk' = disk
  <1> USE DEF ApiInv
  <1> HIDE DEF Applied, Knows, TypeOK
  <1>1. ASSUME NEW p \in Procs, WriterStep(p)
        PROVE  Intact' /\ (Applied(disk.objs, disk.refs, disk'.objs, disk'.refs) \/ disk' = disk)
    <2>1. Step(p) /\ stage[p] = "guarded" /\ stage' = stage
      BY <1>1 DEF WriterStep, apiVars
    <2>2. mutex = p
      BY <2>1, FinalStays DEF Places
    <2>3. \A q \in Procs \ {p} : stage[q] = "guarded" => pc[q] \in Final
      BY <2>2 DEF Places
    <2>4. \A q \in Procs : Holding(q) => q = p
      <3>1. ASSUME NEW q \in Procs, q # p, pc[q] \in Saving PROVE FALSE
        <4>1. stage[q] \in {"queued", "guarded", "reading", "dropped"}
          BY DEF HandlerTypes, Stages, Orphaned
        <4>2. pc[q] \in {"open", "work"} \cup Opening \cup Final
          BY <2>3, <3>1, <4>1 DEF Places
        <4> QED
          BY <3>1, <4>2 DEF Saving, Opening, Final
      <3> QED
        BY <3>1 DEF Holding
    <2>5. Knows(p) /\ ~merged[p] /\ ~lost /\ ~broken
      BY <2>1 DEF Intact
    <2>6. Knows(p)' /\ ~merged'[p] /\ ~lost' /\ ~broken'
      BY <2>1, <2>4, <2>5, OwnStep
    <2>7. \A q \in Procs \ {p} : pc'[q] = pc[q]
      BY <2>1, StepMoves
    <2>8. \A q \in Procs : stage'[q] = "guarded" => Knows(q)'
      BY <2>1, <2>3, <2>6, <2>7, KnowsFinal
    <2>9. \A q \in Procs : ~merged'[q]
      BY <2>1, <2>6, MergedOwn DEF Intact
    <2> QED
      BY <2>1, <2>5, <2>6, <2>8, <2>9, OwnRename DEF Intact
  <1>2. ASSUME NEW p \in Procs, ReaderStep(p) \/ DroppedStep(p)
        PROVE  Intact' /\ disk' = disk
    <2>1. (Open(p) \/ Exit(p)) /\ stage[p] # "guarded" /\ stage' = stage
      BY <1>2 DEF ReaderStep, DroppedStep, apiVars
    <2>2. /\ UNCHANGED <<disk, lost, broken, merged, ops>>
          /\ \A q \in Procs \ {p} :
                /\ pc'[q] = pc[q] /\ mem'[q] = mem[q]
                /\ rd'[q] = rd[q] /\ base'[q] = base[q]
      BY <2>1, OpenFrame DEF Intact
    <2>3. \A q \in Procs : stage'[q] = "guarded" => Knows(q)'
      BY <2>1, <2>2, KnowsFrame DEF Intact
    <2> QED
      BY <2>1, <2>2, <2>3 DEF Intact
  <1>3. ASSUME NEW p \in Procs, TakeGuard(p) PROVE Intact' /\ disk' = disk
    <2>1. /\ UNCHANGED <<disk, lost, broken, merged, pc, mem, rd, base>> /\ pc[p] = "open"
          /\ \A q \in Procs \ {p} : stage'[q] = stage[q]
      BY <1>3 DEF TakeGuard, vars, diskVars, procVars, histVars, Places, HandlerTypes
    <2>2. \A q \in Procs \ {p} : stage'[q] = "guarded" => Knows(q)'
      BY <2>1, KnowsFrame DEF Intact
    <2>3. Knows(p)'
      BY <2>1 DEF Knows, Based, Changed, Unchanged, Locking
    <2> QED
      BY <2>1, <2>2, <2>3 DEF Intact
  <1>4. ASSUME NEW p \in Procs, ReleaseGuard(p) \/ Disconnect(p)
        PROVE  Intact' /\ disk' = disk
    <2>1. /\ UNCHANGED <<disk, lost, broken, merged, pc, mem, rd, base>>
          /\ \A q \in Procs : stage'[q] = "guarded" => stage[q] = "guarded"
      BY <1>4 DEF ReleaseGuard, Disconnect, vars, diskVars, procVars, histVars, HandlerTypes
    <2>2. \A q \in Procs : stage'[q] = "guarded" => Knows(q)'
      BY <2>1, KnowsFrame DEF Intact
    <2> QED
      BY <2>1, <2>2 DEF Intact
  <1>5. ASSUME NEW p \in Procs, OrphanStep(p) PROVE FALSE
    BY <1>5 DEF OrphanStep, Orphaned
  <1>6. CASE ServerCrash
    <2>1. /\ UNCHANGED <<disk, lost, broken, merged, mem, rd, base, stage>>
          /\ \A q \in Procs : pc'[q] = IF Begun(q) THEN "crashed" ELSE pc[q]
      BY <1>6 DEF ServerCrash, diskVars, histVars
    <2>2. \A q \in Procs : stage'[q] = "guarded" => Knows(q)'
      BY <2>1, KnowsFrame, KnowsFinal DEF Intact, Final
    <2> QED
      BY <2>1, <2>2 DEF Intact
  <1>7. CASE ((Tick \/ AgeLock) /\ UNCHANGED apiVars) \/ UNCHANGED allVars
    <2>1. UNCHANGED <<disk, lost, broken, merged, pc, mem, rd, base, stage>>
      BY <1>7 DEF Tick, AgeLock, apiVars, allVars, vars, diskVars, procVars, histVars
    <2>2. \A q \in Procs : stage'[q] = "guarded" => Knows(q)'
      BY <2>1, KnowsFrame DEF Intact
    <2> QED
      BY <2>1, <2>2 DEF Intact
  <1> QED
    BY <1>1, <1>2, <1>3, <1>4, <1>5, <1>6, <1>7 DEF ApiNext, RequestStep

LEMMA ApiInit0 == ApiInit => ApiInv
  <1> SUFFICES ASSUME ApiInit PROVE ApiInv
    OBVIOUS
  <1>1. TypeOK /\ CommitsFresh
    BY InitType, FreshInit DEF ApiInit
  <1>2. HandlerTypes /\ Places
    BY ConstantsAssumption DEF ApiInit, Init, HandlerTypes, Places, Stages, Opening
  <1>3. Intact
    BY DEF ApiInit, Init, Intact
  <1> QED
    BY <1>1, <1>2, <1>3 DEF ApiInv

LEMMA ApiStep == ApiInv /\ [ApiNext]_allVars => ApiInv'
  <1> SUFFICES ASSUME ApiInv, [ApiNext]_allVars PROVE ApiInv'
    OBVIOUS
  <1>1. TypeOK'
    BY ApiTypeStep DEF ApiInv
  <1>2. HandlerTypes' /\ (Orphaned => Orphaned')
    BY HandlerTypesStep DEF ApiInv
  <1>3. CommitsFresh'
    BY FreshStep, ServerStep DEF ApiInv
  <1>4. ~Orphaned => Orphaned' \/ (Places' /\ Intact')
    BY PlacesStep, IntactStep DEF ApiInv
  <1> QED
    BY <1>1, <1>2, <1>3, <1>4 DEF ApiInv

THEOREM ApiInvariant == ApiSpec => []ApiInv
  BY ApiInit0, ApiStep, PTL DEF ApiSpec

(* For any number of requests: until a save outlives its mutex because its *)
(* client went away, no update is lost and no live lock is removed.        *)
THEOREM MutexGuards == ApiSpec => []ApiGuarded
  <1>1. ApiInv => ApiGuarded
    BY DEF ApiInv, Intact, ApiGuarded
  <1> QED
    BY <1>1, ApiInvariant, PTL

(* For any number of requests: until then the file is a serial repository, *)
(* whose every step is one whole operation on what the last one left.      *)
THEOREM MutexSerializes == ApiSpec => ApiSerializable
  <1>1. ASSUME ApiInv, [ApiNext]_allVars
        PROVE  [Serial!Next \/ Orphaned]_<<disk.objs, disk.refs>>
    <2>1. Applied(disk.objs, disk.refs, disk'.objs, disk'.refs) => Serial!Next
      BY DEF Applied, Serial!Next, Serial!Commit, Serial!CreateBranch, Serial!DeleteBranch
    <2> QED
      BY <1>1, <2>1, IntactStep
  <1> QED
    BY <1>1, ApiInvariant, PTL DEF ApiSpec, ApiSerializable
=============================================================================
