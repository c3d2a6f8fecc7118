---------------------------- MODULE ServerProofs ----------------------------
(***************************************************************************)
(* Theorems about what the API server keeps and does for itself, for any   *)
(* bounds and any sizes: the maps about repositories (ServerRepos), the    *)
(* sessions (Sessions), the dependency updates (DepUpdates), the schedule  *)
(* (Scheduler), the files under .ovc (ActionFiles), and the runs of        *)
(* actions that it starts (ActionRunner): any number of actions, any graph *)
(* of dependencies, any matrices and attempts.                             *)
(***************************************************************************)
EXTENDS ServerRepos, Sessions, DepUpdates, Scheduler, ActionFiles, ActionRunner,
        SequenceTheorems, FiniteSetTheorems, WellFoundedInduction, TLAPS

(***************************************************************************)
(* The maps about repositories                                             *)
(***************************************************************************)

HandlerPCs == {"idle", "waiting", "locked", "opened", "checked", "saved", "ended"}
KeeperPCs  == {"idle", "creating", "naming", "unlocking", "deleting"}
Snaps      == [gen : Nat, seq : Nat, ver : Nat]

(* The types. *)
ReposTypes ==
    /\ {clock, gens, vers, slot, mutexes, floor} \subseteq Nat
    /\ file \in Snaps /\ password \in Nat
    /\ hand \in [Handlers -> [pc : HandlerPCs, mutex : Nat, snap : Snaps]]
    /\ keeper \in [pc : KeeperPCs, gen : Nat, ver : Nat]
    /\ stats = NoStats \/ stats \in [at : Nat, ver : Nat, late : BOOLEAN]
    /\ lister \in [pc : {"idle", "read"}, ver : Nat, floor : Nat]
    /\ evicted \in BOOLEAN /\ crossed \in BOOLEAN

(* A request under way that was not dropped has the mutex that the map     *)
(* has, unless a deletion took that one out of the map; so a second mutex  *)
(* is never made.                                                          *)
Mutexes ==
    evicted \/ \A h \in Handlers :
                  hand[h].mutex # 0 => slot # 0 /\ hand[h].mutex = slot

Separate ==
    evicted \/ \A g, h \in Handlers :
                  hand[g].pc \in Inside /\ hand[h].pc \in Inside =>
                      g = h \/ hand[g].mutex = 0 \/ hand[h].mutex = 0

(* No two files have a version in common. *)
Versions ==
    /\ Exists => file.ver = vers
    /\ floor <= vers
    /\ \A h \in Handlers :
          hand[h].pc \in {"opened", "checked", "saved"} =>
              /\ hand[h].snap.ver <= vers
              /\ Exists /\ hand[h].snap.ver = file.ver => hand[h].snap.gen = file.gen

(* Unless a request crossed into another creation, the file is of the last *)
(* creation, and so is what a request has that passed its conflict check.  *)
Generations ==
    crossed \/
        /\ Exists => file.gen = gens
        /\ \A h \in Handlers :
              hand[h].pc = "checked" => Exists /\ hand[h].snap.gen = gens
        /\ keeper.pc = "creating" => ~Exists
        /\ keeper.pc = "naming" => keeper.gen = gens

Statistics ==
    /\ lister.pc = "read" => lister.ver >= lister.floor \/ lister.ver = 0
    /\ StatsFresh

ReposInv == ReposTypes /\ Mutexes /\ Separate /\ Versions /\ Generations /\ Statistics

---------------------------------------------------------------------------

(* The initial state. *)
LEMMA InitReposInv == ReposInit => ReposInv
  <1> SUFFICES ASSUME ReposInit PROVE ReposInv
    OBVIOUS
  <1> USE DEF ReposInit, Arrived, NoFile, Resting
  <1>1. ReposTypes
    <2>1. hand \in [Handlers -> [pc : HandlerPCs, mutex : Nat, snap : Snaps]]
      BY DEF HandlerPCs, Snaps
    <2>2. file \in Snaps /\ password \in Nat
      BY DEF Snaps
    <2>3. keeper \in [pc : KeeperPCs, gen : Nat, ver : Nat]
      BY DEF KeeperPCs
    <2>4. lister \in [pc : {"idle", "read"}, ver : Nat, floor : Nat]
      BY DEF Unread
    <2>5. evicted \in BOOLEAN /\ crossed \in BOOLEAN
      OBVIOUS
    <2>6. {clock, gens, vers, slot, mutexes, floor} \subseteq Nat
      OBVIOUS
    <2>7. stats = NoStats
      OBVIOUS
    <2> QED
      BY <2>1, <2>2, <2>3, <2>4, <2>5, <2>6, <2>7 DEF ReposTypes
  <1>2. Mutexes /\ Separate
    BY DEF Mutexes, Separate, Inside
  <1>3. Versions /\ Generations
    BY DEF Versions, Generations, Exists
  <1>4. Statistics
    BY DEF Statistics, StatsFresh, Unread
  <1> QED
    BY <1>1, <1>2, <1>3, <1>4 DEF ReposInv

(* A request's step keeps the types. *)
LEMMA HandlerTypes ==
    ASSUME ReposTypes, NEW h \in Handlers, HandlerStep(h)
    PROVE  ReposTypes'
  <1> USE DEF ReposTypes, HandlerPCs, Snaps, world, marks
  <1>1. CASE RepoLock(h)
    <2>1. Entry \in Nat
      BY DEF Entry
    <2>2. hand' \in [Handlers -> [pc : HandlerPCs, mutex : Nat, snap : Snaps]]
      BY <1>1, <2>1 DEF RepoLock, Arrived, NoFile
    <2>3. /\ slot' \in Nat /\ mutexes' \in Nat
          /\ UNCHANGED <<clock, file, gens, vers, password, keeper, stats, lister>>
          /\ UNCHANGED <<evicted, crossed, floor>>
      BY <1>1, <2>1 DEF RepoLock
    <2> QED
      BY <2>2, <2>3
  <1>2. CASE Lock(h)
    BY <1>2 DEF Lock
  <1>3. CASE OpenRepo(h)
    <2>1. hand' \in [Handlers -> [pc : HandlerPCs, mutex : Nat, snap : Snaps]]
      <3>1. CASE hand' = [hand EXCEPT ![h] = Ended]
        BY <3>1 DEF Ended, Arrived, NoFile
      <3>2. CASE hand' = [hand EXCEPT ![h] = [@ EXCEPT !.pc = "opened", !.snap = file]]
        <4> DEFINE next == [hand[h] EXCEPT !.pc = "opened", !.snap = file]
        <4>1. next \in [pc : HandlerPCs, mutex : Nat, snap : Snaps]
          OBVIOUS
        <4>2. hand' = [hand EXCEPT ![h] = next]
          BY <3>2
        <4> HIDE DEF next
        <4> QED
          BY <4>1, <4>2
      <3> QED
        BY <1>3, <3>1, <3>2 DEF OpenRepo
    <2> QED
      BY <1>3, <2>1 DEF OpenRepo
  <1>4. CASE CheckForConflict(h)
    <2>1. crossed' \in BOOLEAN
      BY <1>4, Zenon DEF CheckForConflict
    <2>2. hand' \in [Handlers -> [pc : HandlerPCs, mutex : Nat, snap : Snaps]]
      <3>1. CASE hand' = [hand EXCEPT ![h] = Ended]
        BY <3>1 DEF Ended, Arrived, NoFile
      <3>2. CASE hand' = [hand EXCEPT ![h].pc = "checked"]
        BY <3>2
      <3> QED
        BY <1>4, <3>1, <3>2 DEF CheckForConflict
    <2> QED
      BY <1>4, <2>1, <2>2 DEF CheckForConflict
  <1>5. CASE Save(h)
    BY <1>5 DEF Save
  <1>6. CASE Finish(h)
    BY <1>6 DEF Finish, Invalidated, Ended, Arrived, NoFile
  <1>7. CASE Dropped(h)
    <2>1. hand' = [hand EXCEPT ![h] = Ended] \/ hand' = [hand EXCEPT ![h].mutex = 0]
      BY <1>7 DEF Dropped
    <2>2. hand' \in [Handlers -> [pc : HandlerPCs, mutex : Nat, snap : Snaps]]
      <3>1. CASE hand' = [hand EXCEPT ![h] = Ended]
        BY <3>1 DEF Ended, Arrived, NoFile
      <3>2. CASE hand' = [hand EXCEPT ![h].mutex = 0]
        BY <3>2
      <3> QED
        BY <2>1, <3>1, <3>2
    <2> QED
      BY <1>7, <2>2 DEF Dropped
  <1> QED
    BY <1>1, <1>2, <1>3, <1>4, <1>5, <1>6, <1>7 DEF HandlerStep

(* So does every other step. *)
LEMMA OtherRepoTypes ==
    ASSUME ReposTypes,
           KeeperStep \/ EvictUnused \/ ListReads \/ SetCachedRepoStats \/ ClockTick
    PROVE  ReposTypes'
  <1> USE DEF ReposTypes, HandlerPCs, KeeperPCs, Snaps, Resting, world, marks
  <1>1. CASE CreateLooks
    BY <1>1 DEF CreateLooks
  <1>2. CASE CreateRepo
    BY <1>2 DEF CreateRepo
  <1>3. CASE UnlockOpens
    BY <1>3 DEF UnlockOpens
  <1>4. CASE RememberPassword
    BY <1>4 DEF RememberPassword
  <1>5. CASE DeleteFile
    BY <1>5 DEF DeleteFile, NoFile
  <1>6. CASE DeleteForgets
    BY <1>6 DEF DeleteForgets
  <1>7. CASE EvictUnused
    BY <1>7 DEF EvictUnused
  <1>8. CASE ListReads
    BY <1>8 DEF ListReads, try_read_repo_stats
  <1>9. CASE SetCachedRepoStats
    BY <1>9 DEF SetCachedRepoStats, Unread
  <1>10. CASE ClockTick
    BY <1>10 DEF ClockTick
  <1>11. CASE SaveAuthor
    <2>1. CASE keeper' = Resting /\ UNCHANGED <<file, vers>>
      BY <1>11, <2>1 DEF SaveAuthor
    <2>2. CASE /\ file' = [gen |-> keeper.gen, seq |-> 2, ver |-> vers + 1]
               /\ vers' = vers + 1
               /\ keeper' = [keeper EXCEPT !.pc = "unlocking"]
      BY <1>11, <2>2 DEF SaveAuthor
    <2> QED
      BY <1>11, <2>1, <2>2 DEF SaveAuthor
  <1>12. CASE KeeperDropped
    BY <1>12 DEF KeeperDropped
  <1> QED
    BY <1>1, <1>2, <1>3, <1>4, <1>5, <1>6, <1>7, <1>8, <1>9, <1>10, <1>11, <1>12
    DEF KeeperStep

(* A new entry of the map is made when no request is under way, and the    *)
(* eviction takes only an entry that no request has.                       *)
LEMMA MutexesStep ==
    ASSUME ReposTypes, Mutexes, ReposNext
    PROVE  Mutexes'
  <1> USE DEF ReposTypes, Mutexes, Snaps, world, marks
  <1>1. ASSUME NEW h \in Handlers, RepoLock(h) PROVE Mutexes'
    BY <1>1 DEF RepoLock, Entry, Arrived
  <1>2. ASSUME NEW h \in Handlers, Lock(h) PROVE Mutexes'
    BY <1>2 DEF Lock
  <1>3. ASSUME NEW h \in Handlers, OpenRepo(h) PROVE Mutexes'
    BY <1>3 DEF OpenRepo, Ended, Arrived
  <1>4. ASSUME NEW h \in Handlers, CheckForConflict(h) PROVE Mutexes'
    <2>1. CASE hand' = [hand EXCEPT ![h] = Ended]
      BY <1>4, <2>1 DEF CheckForConflict, Ended, Arrived
    <2>2. CASE hand' = [hand EXCEPT ![h].pc = "checked"]
      BY <1>4, <2>2 DEF CheckForConflict
    <2> QED
      BY <1>4, <2>1, <2>2 DEF CheckForConflict
  <1>5. ASSUME NEW h \in Handlers, Save(h) PROVE Mutexes'
    BY <1>5 DEF Save
  <1>6. ASSUME NEW h \in Handlers, Finish(h) PROVE Mutexes'
    BY <1>6 DEF Finish, Ended, Arrived
  <1>7. CASE EvictUnused
    BY <1>7 DEF EvictUnused, Unused
  <1>8. CASE DeleteForgets
    BY <1>8 DEF DeleteForgets, Unused
  <1>9. CASE \/ CreateLooks \/ CreateRepo \/ SaveAuthor \/ UnlockOpens
             \/ RememberPassword \/ DeleteFile \/ KeeperDropped
    BY <1>9 DEF CreateLooks, CreateRepo, SaveAuthor, UnlockOpens, RememberPassword,
                DeleteFile, KeeperDropped
  <1>10. CASE ListReads \/ SetCachedRepoStats \/ ClockTick
    BY <1>10 DEF ListReads, SetCachedRepoStats, ClockTick
  <1>11. ASSUME NEW h \in Handlers, Dropped(h) PROVE Mutexes'
    <2>1. hand' = [hand EXCEPT ![h] = Ended] \/ hand' = [hand EXCEPT ![h].mutex = 0]
      BY <1>11 DEF Dropped
    <2> QED
      BY <1>11, <2>1 DEF Dropped, Ended, Arrived
  <1> QED
    BY <1>1, <1>2, <1>3, <1>4, <1>5, <1>6, <1>7, <1>8, <1>9, <1>10, <1>11
    DEF ReposNext, HandlerStep, KeeperStep

(* Requests that have the same mutex are inside one at a time. *)
LEMMA SeparateStep ==
    ASSUME ReposTypes, Mutexes, Separate, ReposNext
    PROVE  Separate'
  <1> USE DEF ReposTypes, Separate, Inside, Snaps, world, marks
  <1>1. ASSUME NEW h \in Handlers, RepoLock(h) PROVE Separate'
    BY <1>1 DEF RepoLock, Arrived
  <1>2. ASSUME NEW h \in Handlers, Lock(h) PROVE Separate'
    BY <1>2 DEF Lock, Mutexes
  <1>3. ASSUME NEW h \in Handlers, OpenRepo(h) PROVE Separate'
    BY <1>3 DEF OpenRepo, Ended, Arrived
  <1>4. ASSUME NEW h \in Handlers, CheckForConflict(h) PROVE Separate'
    BY <1>4 DEF CheckForConflict, Ended, Arrived
  <1>5. ASSUME NEW h \in Handlers, Save(h) PROVE Separate'
    BY <1>5 DEF Save
  <1>6. ASSUME NEW h \in Handlers, Finish(h) PROVE Separate'
    BY <1>6 DEF Finish, Ended, Arrived
  <1>7. CASE EvictUnused \/ DeleteForgets
    BY <1>7 DEF EvictUnused, DeleteForgets
  <1>8. CASE \/ CreateLooks \/ CreateRepo \/ SaveAuthor \/ UnlockOpens
             \/ RememberPassword \/ DeleteFile \/ KeeperDropped
    BY <1>8 DEF CreateLooks, CreateRepo, SaveAuthor, UnlockOpens, RememberPassword,
                DeleteFile, KeeperDropped
  <1>9. CASE ListReads \/ SetCachedRepoStats \/ ClockTick
    BY <1>9 DEF ListReads, SetCachedRepoStats, ClockTick
  <1>10. ASSUME NEW h \in Handlers, Dropped(h) PROVE Separate'
    <2>1. hand' = [hand EXCEPT ![h] = Ended] \/ hand' = [hand EXCEPT ![h].mutex = 0]
      BY <1>10 DEF Dropped
    <2> QED
      BY <1>10, <2>1 DEF Dropped, Ended, Arrived
  <1> QED
    BY <1>1, <1>2, <1>3, <1>4, <1>5, <1>6, <1>7, <1>8, <1>9, <1>10
    DEF ReposNext, HandlerStep, KeeperStep

(* Every write takes a version that nothing has yet. *)
LEMMA VersionsStep ==
    ASSUME ReposTypes, Versions, ReposNext
    PROVE  Versions'
  <1> USE DEF ReposTypes, Versions, Snaps, Exists, NoFile, world, marks
  <1>1. ASSUME NEW h \in Handlers, RepoLock(h) PROVE Versions'
    BY <1>1 DEF RepoLock, Arrived
  <1>2. ASSUME NEW h \in Handlers, Lock(h) PROVE Versions'
    BY <1>2 DEF Lock
  <1>3. ASSUME NEW h \in Handlers, OpenRepo(h) PROVE Versions'
    BY <1>3 DEF OpenRepo, Ended, Arrived
  <1>4. ASSUME NEW h \in Handlers, CheckForConflict(h) PROVE Versions'
    <2>1. /\ UNCHANGED <<file, vers, floor>> /\ hand[h].pc = "opened"
          /\ \/ hand' = [hand EXCEPT ![h] = Ended]
             \/ hand' = [hand EXCEPT ![h].pc = "checked"]
      BY <1>4 DEF CheckForConflict
    <2>2. CASE hand' = [hand EXCEPT ![h] = Ended]
      BY <2>1, <2>2 DEF Ended, Arrived
    <2>3. CASE hand' = [hand EXCEPT ![h].pc = "checked"]
      BY <2>1, <2>3
    <2> QED
      BY <2>1, <2>2, <2>3
  <1>5. ASSUME NEW h \in Handlers, Save(h) PROVE Versions'
    BY <1>5 DEF Save
  <1>6. ASSUME NEW h \in Handlers, Finish(h) PROVE Versions'
    BY <1>6 DEF Finish, Ended, Arrived
  <1>7. CASE CreateRepo \/ DeleteFile
    BY <1>7 DEF CreateRepo, DeleteFile
  <1>8. CASE \/ EvictUnused \/ CreateLooks \/ UnlockOpens \/ RememberPassword
             \/ DeleteForgets \/ KeeperDropped
    BY <1>8 DEF EvictUnused, CreateLooks, UnlockOpens, RememberPassword, DeleteForgets,
                KeeperDropped
  <1>9. CASE ListReads \/ SetCachedRepoStats \/ ClockTick
    BY <1>9 DEF ListReads, SetCachedRepoStats, ClockTick
  <1>10. ASSUME NEW h \in Handlers, Dropped(h) PROVE Versions'
    <2>1. hand' = [hand EXCEPT ![h] = Ended] \/ hand' = [hand EXCEPT ![h].mutex = 0]
      BY <1>10 DEF Dropped
    <2> QED
      BY <1>10, <2>1 DEF Dropped, Ended, Arrived
  <1>11. CASE SaveAuthor
    BY <1>11 DEF SaveAuthor
  <1> QED
    BY <1>1, <1>2, <1>3, <1>4, <1>5, <1>6, <1>7, <1>8, <1>9, <1>10, <1>11
    DEF ReposNext, HandlerStep, KeeperStep

(* A request that passes its conflict check has the file's creation, and   *)
(* the file stays until it has saved.                                      *)
LEMMA GenerationsStep ==
    ASSUME ReposTypes, Versions, Generations, ReposNext
    PROVE  Generations'
  <1> USE DEF ReposTypes, Generations, Snaps, Resting, world, marks
  <1>1. ASSUME NEW h \in Handlers, RepoLock(h) PROVE Generations'
    BY <1>1 DEF RepoLock, Arrived, Exists
  <1>2. ASSUME NEW h \in Handlers, Lock(h) PROVE Generations'
    BY <1>2 DEF Lock, Exists
  <1>3. ASSUME NEW h \in Handlers, OpenRepo(h) PROVE Generations'
    BY <1>3 DEF OpenRepo, Ended, Arrived, Exists
  <1>4. ASSUME NEW h \in Handlers, CheckForConflict(h) PROVE Generations'
    <2>1. CASE ~Exists \/ Conflict(h)
      BY <1>4, <2>1 DEF CheckForConflict, Ended, Arrived, Exists
    <2>2. CASE Exists /\ ~Conflict(h)
      <3>1. crossed' \/ (~crossed /\ ~(file.gen # hand[h].snap.gen
                                      /\ file.seq = hand[h].snap.seq))
        BY <1>4, <2>2, Zenon DEF CheckForConflict
      <3>2. ~crossed' => ~crossed /\ hand[h].snap.gen = file.gen
        BY <1>4, <2>2, <3>1 DEF CheckForConflict, Conflict, Versions
      <3>3. /\ hand' = [hand EXCEPT ![h].pc = "checked"]
            /\ UNCHANGED <<file, gens, keeper>>
        BY <1>4, <2>2 DEF CheckForConflict
      <3> QED
        BY <2>2, <3>2, <3>3 DEF Exists
    <2> QED
      BY <2>1, <2>2
  <1>5. ASSUME NEW h \in Handlers, Save(h) PROVE Generations'
    BY <1>5 DEF Save, Exists, NoFile
  <1>6. ASSUME NEW h \in Handlers, Finish(h) PROVE Generations'
    BY <1>6 DEF Finish, Ended, Arrived, Exists
  <1>7. CASE CreateRepo
    <2>1. file' # NoFile /\ file'.gen = gens' /\ keeper'.gen = gens' /\ gens' = gens + 1
      BY <1>7 DEF CreateRepo, NoFile
    <2>2. keeper'.pc # "creating" /\ UNCHANGED <<hand, crossed>>
      BY <1>7 DEF CreateRepo
    <2>3. crossed \/ \A h \in Handlers : hand[h].pc # "checked"
      BY <1>7 DEF CreateRepo
    <2>4. Exists' /\ file'.gen = gens'
      BY <2>1 DEF Exists
    <2>5. crossed' = crossed /\ hand' = hand
      BY <2>2
    <2>6. CASE crossed
      BY <2>5, <2>6, Zenon
    <2>7. CASE ~crossed
      <3>1. \A h \in Handlers : hand'[h].pc # "checked"
        BY <2>3, <2>5, <2>7
      <3> QED
        BY <2>1, <2>2, <2>4, <3>1
    <2> QED
      BY <2>6, <2>7
  <1>8. CASE DeleteFile
    BY <1>8 DEF DeleteFile, Exists
  <1>9. CASE \/ EvictUnused \/ CreateLooks \/ UnlockOpens \/ RememberPassword
             \/ DeleteForgets \/ KeeperDropped
    <2>1. UNCHANGED <<file, gens, hand, crossed>>
      BY <1>9 DEF EvictUnused, CreateLooks, UnlockOpens, RememberPassword, DeleteForgets,
                  KeeperDropped
    <2>2. /\ keeper'.pc = "creating" => keeper.pc = "creating" \/ ~Exists
          /\ keeper'.pc = "naming" => keeper' = keeper
      <3>1. CASE EvictUnused \/ CreateLooks \/ UnlockOpens
        BY <3>1 DEF EvictUnused, CreateLooks, UnlockOpens
      <3>2. CASE RememberPassword \/ DeleteForgets \/ KeeperDropped
        BY <3>2 DEF RememberPassword, DeleteForgets, KeeperDropped
      <3> QED
        BY <1>9, <3>1, <3>2
    <2> QED
      BY <2>1, <2>2 DEF Exists
  <1>10. CASE ListReads \/ SetCachedRepoStats \/ ClockTick
    BY <1>10 DEF ListReads, SetCachedRepoStats, ClockTick, Exists
  <1>11. ASSUME NEW h \in Handlers, Dropped(h) PROVE Generations'
    <2>1. hand' = [hand EXCEPT ![h] = Ended] \/ hand' = [hand EXCEPT ![h].mutex = 0]
      BY <1>11 DEF Dropped
    <2> QED
      BY <1>11, <2>1 DEF Dropped, Ended, Arrived, Exists
  <1>12. CASE SaveAuthor
    <2>1. CASE keeper' = Resting /\ UNCHANGED <<file, vers>>
      BY <1>12, <2>1 DEF SaveAuthor, Exists
    <2>2. CASE /\ file' = [gen |-> keeper.gen, seq |-> 2, ver |-> vers + 1]
               /\ keeper' = [keeper EXCEPT !.pc = "unlocking"]
      BY <1>12, <2>2 DEF SaveAuthor, Exists, NoFile
    <2> QED
      BY <1>12, <2>1, <2>2 DEF SaveAuthor
  <1> QED
    BY <1>1, <1>2, <1>3, <1>4, <1>5, <1>6, <1>7, <1>8, <1>9, <1>10, <1>11, <1>12
    DEF ReposNext, HandlerStep, KeeperStep

(* Statistics that are read show the last version that is finished, and    *)
(* those that are stored later say so.                                     *)
LEMMA StatisticsStep ==
    ASSUME ReposTypes, Versions, Statistics, ReposNext
    PROVE  Statistics'
  <1> USE DEF ReposTypes, Statistics, StatsFresh, Snaps, world, marks
  <1>1. ASSUME NEW h \in Handlers, Finish(h) PROVE Statistics'
    BY <1>1 DEF Finish, Invalidated
  <1>2. ASSUME NEW h \in Handlers, HandlerStep(h), ~Finish(h) PROVE Statistics'
    BY <1>2 DEF HandlerStep, RepoLock, Lock, OpenRepo, CheckForConflict, Save, Dropped
  <1>3. CASE ListReads
    BY <1>3 DEF ListReads, try_read_repo_stats, Versions
  <1>4. CASE SetCachedRepoStats
    BY <1>4 DEF SetCachedRepoStats, Unread
  <1>5. CASE EvictUnused \/ ClockTick
    BY <1>5 DEF EvictUnused, ClockTick
  <1>6. CASE KeeperStep
    BY <1>6 DEF KeeperStep, CreateLooks, CreateRepo, SaveAuthor, UnlockOpens,
                RememberPassword, DeleteFile, DeleteForgets, KeeperDropped
  <1> QED
    BY <1>1, <1>2, <1>3, <1>4, <1>5, <1>6 DEF ReposNext

(* The invariant holds in every state. *)
THEOREM ReposInvariant == ReposSpec => []ReposInv
  <1>1. ReposInv /\ [ReposNext]_reposVars => ReposInv'
    <2> SUFFICES ASSUME ReposInv, [ReposNext]_reposVars PROVE ReposInv'
      OBVIOUS
    <2>1. CASE ReposNext
      <3>1. ReposTypes'
        BY <2>1, HandlerTypes, OtherRepoTypes DEF ReposInv, ReposNext
      <3>2. Mutexes' /\ Separate'
        BY <2>1, MutexesStep, SeparateStep DEF ReposInv
      <3>3. Versions' /\ Generations' /\ Statistics'
        BY <2>1, VersionsStep, GenerationsStep, StatisticsStep DEF ReposInv
      <3> QED
        BY <3>1, <3>2, <3>3 DEF ReposInv
    <2>2. CASE UNCHANGED reposVars
      BY <2>2 DEF ReposInv, ReposTypes, Mutexes, Separate, Versions, Generations, Statistics,
                  StatsFresh, Exists, reposVars, world, marks
    <2> QED
      BY <2>1, <2>2
  <1> QED
    BY InitReposInv, <1>1, PTL DEF ReposSpec

(* The maps of the server agree with the file, in every state: two         *)
(* requests change a repository at once only after its deletion or when    *)
(* one of them is left of a dropped handler, a repository that was created *)
(* again is not replaced by an old one but in the cases that are named,    *)
(* and the cached statistics show what was finished before they were read. *)
THEOREM ServerReposSafe == ReposSpec => []ReposSafe
  <1>1. ReposInv => ReposSafe
    BY DEF ReposInv, Separate, Generations, Statistics, ReposSafe, OneInside, RecreatedKept
  <1> QED
    BY ReposInvariant, <1>1, PTL

(***************************************************************************)
(* Sessions                                                                *)
(***************************************************************************)

Somewhere == Repos \cup {Nowhere}

Token == [sub : {User, Local}, role : Roles, repo : Somewhere, tkv : Nat, exp : Nat,
          key : Nat, chal : Nat, fresh : BOOLEAN]

AuthCalls == [pc : {"idle", "opened"}, role : Standing, repo : Somewhere, chal : Nat]

AdminCalls == [pc : {"idle", "entered", "orphan", "saved"}, repo : Somewhere]

(* The types. *)
SessionTypes ==
    /\ now \in 0..MaxNow /\ up \in BOOLEAN
    /\ secretFile \in Nat \cup {-1} /\ secret \in Nat /\ version \in Nat \ {0}
    /\ bucket \in [count : Nat, start : Nat]
    /\ made \in Nat /\ changes \in Nat
    /\ acl \in [Repos -> Standing] /\ admin \in [Admins -> AdminCalls]
    /\ auth \in [Auths -> AuthCalls]
    /\ tokens \subseteq Token
    /\ admitted \in Seq(Nat)
    /\ forgotten \in BOOLEAN

(* The file keeps the secret that every token was made with. *)
Secrets ==
    /\ up => secret = secretFile /\ secretFile # -1 /\ secretFile # 0
    /\ \A t \in tokens : t.key = secretFile /\ secretFile # 0 /\ t.tkv # 0

(* A version is forgotten only by a restart that says so. *)
Raised ==
    forgotten \/
        /\ ~up => version = 1
        /\ \A t \in tokens : t.tkv <= version

(* Whatever the expiry and the key are, a token of the present version     *)
(* gives no more than the access list.                                     *)
Revoked ==
    \A t \in tokens :
        t.sub = User /\ t.tkv >= version =>
            \/ Covered(t.role, t.repo)
            \/ \E h \in Admins : admin[h].pc = "saved" /\ admin[h].repo = t.repo
            \/ t.repo \in unraised \/ ~t.fresh \/ forgotten \/ t.repo \in outside

(* A challenge is pending, or with one call, or in one token. *)
Places ==
    /\ \A c \in DOMAIN challenges : c \in 1..made
    /\ \A a \in Auths : auth[a].pc = "opened" =>
          /\ auth[a].role \in Roles /\ auth[a].repo \in Repos
          /\ auth[a].chal \in 1..made /\ auth[a].chal \notin DOMAIN challenges
          /\ \A b \in Auths : auth[b].pc = "opened" /\ auth[b].chal = auth[a].chal => a = b
          /\ \A t \in tokens : t.sub = User => t.chal # auth[a].chal
    /\ \A t \in tokens : t.sub = User =>
          t.repo \in Repos /\ t.chal \in 1..made /\ t.chal \notin DOMAIN challenges
    /\ ChallengeOnce

ChallengesBounded ==
    /\ IsFiniteSet(DOMAIN challenges)
    /\ Cardinality(DOMAIN challenges) <= MaxPending

(* The attempts of the present window are the last ones admitted, those    *)
(* before them came before it, and all but a limit's worth of these more   *)
(* than a window before it.                                                *)
Windows ==
    changes = 0 =>
        /\ ~up => admitted = <<>>
        /\ bucket.start <= now
        /\ bucket.count <= AuthRateLimit /\ bucket.count <= Len(admitted)
        /\ \A i \in 1..Len(admitted) :
              /\ admitted[i] < bucket.start + AuthRateWindow
              /\ i <= Len(admitted) - bucket.count => admitted[i] < bucket.start
              /\ i <= Len(admitted) - bucket.count - AuthRateLimit =>
                     admitted[i] + AuthRateWindow < bucket.start

SessionsInv ==
    /\ SessionTypes /\ Secrets /\ Raised /\ Revoked /\ Places /\ ChallengesBounded /\ Windows

---------------------------------------------------------------------------

(* The requests that change access, in two groups. *)
AclChanged(h, s) ==
    \/ s \in GivenRoles /\ (GrantAccess(h, s) \/ SetRole(h, s))
    \/ s = "none" /\ RevokeAccess(h)

AdminStep(h) ==
    \/ RevokeAccess(h) \/ RevokeAllTokens(h) \/ AdminDropped(h)
    \/ \E r \in Repos : AdminEnter(h, r)
    \/ \E role \in GivenRoles : GrantAccess(h, role) \/ SetRole(h, role)

(* All that they leave alone. *)
LEMMA AdminFrame ==
    ASSUME NEW h, AdminStep(h)
    PROVE  /\ up /\ UNCHANGED <<now, up, secretFile, secret, forgotten, bucket, challenges,
                                made, auth, tokens, admitted, outside>>
           /\ UNCHANGED version \/ RevokeAllTokens(h)
  BY DEF AdminStep, RevokeAccess, RevokeAllTokens, AdminDropped, AdminEnter, GrantAccess,
         SetRole, Saved, server, history

(* What the provers need of the operators. *)
LEMMA KeepDomain == \A C : DOMAIN Keep(C) = C
  BY DEF Keep

LEMMA RoleIsStanding == \A s \in Standing : TokenRole(s) \in Standing
  BY DEF Standing, Roles, TokenRole

(* Only a user without standing has no role to put into a token. *)
LEMMA TokenRoleIsRole == \A s \in Standing : s # "none" => TokenRole(s) \in Roles
  BY DEF Standing, Roles, TokenRole

LEMMA IssuedToken ==
    ASSUME SessionTypes, NEW sub \in {User, Local}, NEW role \in Roles,
           NEW repo \in Somewhere, NEW chal \in Nat, NEW fresh \in BOOLEAN
    PROVE  create_jwt_with_claims(sub, role, repo, chal, fresh) \in Token
  BY SessionsAssumptions DEF SessionTypes, create_jwt_with_claims, Token

(* An attempt leaves the bucket and the admitted ones of the right type. *)
LEMMA AttemptTypes ==
    ASSUME SessionTypes, check_auth_rate_limit
    PROVE  bucket' \in [count : Nat, start : Nat] /\ admitted' \in Seq(Nat)
  <1>1. CurrentBucket \in [count : Nat, start : Nat]
    BY SessionsAssumptions DEF SessionTypes, CurrentBucket, FreshBucket
  <1>2. now \in Nat
    BY SessionsAssumptions DEF SessionTypes
  <1> QED
    <2>1. CASE Allowed(CurrentBucket)
      <3>1. bucket' = [CurrentBucket EXCEPT !.count = @ + 1] /\ admitted' = Append(admitted, now)
        BY <2>1 DEF check_auth_rate_limit
      <3>2. bucket' \in [count : Nat, start : Nat]
        BY <1>1, <3>1
      <3>3. admitted' \in Seq(Nat)
        BY <1>2, <3>1 DEF SessionTypes
      <3> QED
        BY <3>2, <3>3
    <2>2. CASE ~Allowed(CurrentBucket)
      BY <1>1, <2>2 DEF check_auth_rate_limit, SessionTypes
    <2> QED
      BY <2>1, <2>2

---------------------------------------------------------------------------

(* The initial state. *)
LEMMA InitSessionsInv == SessionsInit => SessionsInv
  <1> SUFFICES ASSUME SessionsInit PROVE SessionsInv
    OBVIOUS
  <1> USE DEF SessionsInit
  <1>1. SessionTypes
    <2>1. auth \in [Auths -> AuthCalls] /\ admin \in [Admins -> AdminCalls]
      BY DEF AuthCalls, AdminCalls, Idle, Rest, Standing, Somewhere
    <2>2. now \in 0..MaxNow
      BY SessionsAssumptions
    <2>3. acl \in [Repos -> Standing]
      BY DEF Standing, Roles
    <2>4. admitted \in Seq(Nat)
      OBVIOUS
    <2>5. up \in BOOLEAN /\ forgotten \in BOOLEAN
      OBVIOUS
    <2>6. tokens \subseteq Token
      OBVIOUS
    <2> QED
      BY <2>1, <2>2, <2>3, <2>4, <2>5, <2>6 DEF SessionTypes
  <1>2. Secrets
    BY DEF Secrets
  <1>3. Raised /\ Revoked
    BY DEF Raised, Revoked
  <1>4. Places
    BY DEF Places, ChallengeOnce, Idle
  <1>5. ChallengesBounded
    <2>1. DOMAIN challenges = {}
      OBVIOUS
    <2> QED
      BY <2>1, FS_EmptySet, SessionsAssumptions DEF ChallengesBounded
  <1>6. Windows
    BY SessionsAssumptions DEF Windows
  <1> QED
    BY <1>1, <1>2, <1>3, <1>4, <1>5, <1>6 DEF SessionsInv

(* The steps of sign-in keep the types. *)
LEMMA SignInTypes ==
    ASSUME SessionTypes, Places, SessionsNext,
           \/ \E b \in BOOLEAN : CreateToken(b)
           \/ GetChallenge \/ CleanupExpiredChallenges
           \/ \E a \in Auths : KeyAuthOpen(a) \/ KeyAuthIssue(a)
    PROVE  SessionTypes'
  <1> USE DEF server, history
  <1>1. ASSUME NEW b \in BOOLEAN, CreateToken(b) PROVE SessionTypes'
    <2>1. create_jwt_with_claims(Local, "admin", Nowhere, 0, TRUE) \in Token
      BY IssuedToken DEF Roles, Somewhere
    <2>2. tokens' \subseteq Token
      BY <1>1, <2>1 DEF CreateToken, SessionTypes
    <2>3. bucket' \in [count : Nat, start : Nat] /\ admitted' \in Seq(Nat)
      BY <1>1, AttemptTypes DEF CreateToken
    <2> QED
      BY <1>1, <2>2, <2>3 DEF CreateToken, SessionTypes
  <1>2. CASE GetChallenge
    BY <1>2 DEF GetChallenge, SessionTypes
  <1>3. CASE CleanupExpiredChallenges
    BY <1>3 DEF CleanupExpiredChallenges, SessionTypes
  <1>4. ASSUME NEW a \in Auths, KeyAuthOpen(a) PROVE SessionTypes'
    <2>1. bucket' \in [count : Nat, start : Nat] /\ admitted' \in Seq(Nat)
      BY <1>4, AttemptTypes DEF KeyAuthOpen
    <2>2. ASSUME NEW c \in DOMAIN challenges, NEW r \in Repos
          PROVE  [pc |-> "opened", role |-> TokenRole(acl[r]), repo |-> r, chal |-> c]
                     \in AuthCalls
      <3>1. acl[r] \in Standing
        BY DEF SessionTypes
      <3> QED
        BY <3>1, RoleIsStanding DEF Places, AuthCalls, Somewhere
    <2>3. auth' \in [Auths -> AuthCalls]
      BY <1>4, <2>2 DEF KeyAuthOpen, SessionTypes
    <2> QED
      BY <1>4, <2>1, <2>3 DEF KeyAuthOpen, SessionTypes
  <1>5. ASSUME NEW a \in Auths, KeyAuthIssue(a) PROVE SessionTypes'
    <2>1. auth[a].role \in Roles /\ auth[a].repo \in Somewhere /\ auth[a].chal \in Nat
      BY <1>5 DEF KeyAuthIssue, SessionTypes, Places, AuthCalls
    <2>2. ASSUME NEW f \in BOOLEAN
          PROVE  create_jwt_with_claims(User, auth[a].role, auth[a].repo, auth[a].chal, f)
                     \in Token
      BY <2>1, IssuedToken
    <2>3. tokens' \subseteq Token
      <3> DEFINE f == Covered(auth[a].role, auth[a].repo)
      <3>1. f \in BOOLEAN
        BY DEF Covered
      <3>2. create_jwt_with_claims(User, auth[a].role, auth[a].repo, auth[a].chal, f) \in Token
        BY <2>2, <3>1, Zenon
      <3>3. tokens' = tokens \cup
                {create_jwt_with_claims(User, auth[a].role, auth[a].repo, auth[a].chal, f)}
        BY <1>5, Zenon DEF KeyAuthIssue
      <3> QED
        BY <3>2, <3>3, Zenon DEF SessionTypes
    <2>4. auth' \in [Auths -> AuthCalls]
      BY <1>5 DEF KeyAuthIssue, SessionTypes, AuthCalls, Idle, Standing, Somewhere
    <2> QED
      BY <1>5, <2>3, <2>4 DEF KeyAuthIssue, SessionTypes
  <1> QED
    BY <1>1, <1>2, <1>3, <1>4, <1>5

(* So do the changes of access, the restarts and the clock. *)
LEMMA OtherSessionTypes ==
    ASSUME SessionTypes,
           \/ Start \/ Stop \/ Tick
           \/ \E h \in Admins : AdminStep(h)
           \/ \E r \in Repos, s \in GivenRoles \cup {"none", "keyonly"} : CommandLine(r, s)
    PROVE  SessionTypes'
  <1> USE DEF server, history
  <1>1. CASE Start
    <2>1. FreshBucket \in [count : Nat, start : Nat]
      BY SessionsAssumptions DEF SessionTypes, FreshBucket
    <2>2. LoadSecret \in Nat
      BY DEF SessionTypes, LoadSecret
    <2> QED
      <3>1. up' \in BOOLEAN /\ secretFile' \in Nat \cup {-1}
        BY <1>1, <2>2 DEF Start
      <3>2. UNCHANGED <<now, made, acl, auth, admin, tokens, admitted, forgotten, changes>>
        BY <1>1 DEF Start
      <3> QED
        BY <1>1, <2>1, <2>2, <3>1, <3>2 DEF Start, SessionTypes
  <1>2. CASE Stop
    <2>1. forgotten' \in BOOLEAN
      BY <1>2, Zenon DEF Stop
    <2>2. auth' \in [Auths -> AuthCalls] /\ admin' \in [Admins -> AdminCalls]
      BY <1>2 DEF Stop, AuthCalls, AdminCalls, Idle, Rest, Standing, Somewhere
    <2>3. up' \in BOOLEAN
      BY <1>2, Zenon DEF Stop
    <2>4. changes' \in Nat
      BY <1>2 DEF Stop, SessionTypes
    <2>5. UNCHANGED <<now, secretFile, secret, version, bucket, made, acl, tokens,
                      admitted>>
      BY <1>2 DEF Stop
    <2> QED
      BY <2>1, <2>2, <2>3, <2>4, <2>5 DEF SessionTypes
  <1>3. CASE Tick
    BY <1>3, SessionsAssumptions DEF Tick, SessionTypes
  <1>4. ASSUME NEW h \in Admins, NEW r \in Repos, AdminEnter(h, r) PROVE SessionTypes'
    <2>1. admin' \in [Admins -> AdminCalls]
      BY <1>4 DEF AdminEnter, SessionTypes, AdminCalls, Somewhere
    <2> QED
      BY <1>4, <2>1 DEF AdminEnter, SessionTypes
  <1>5. ASSUME NEW h \in Admins, RevokeAllTokens(h) \/ AdminDropped(h) PROVE SessionTypes'
    <2>1. admin' \in [Admins -> AdminCalls]
      BY <1>5 DEF RevokeAllTokens, AdminDropped, SessionTypes, AdminCalls, Rest, Somewhere
    <2> QED
      BY <1>5, <2>1 DEF RevokeAllTokens, AdminDropped, SessionTypes
  <1>6. ASSUME NEW h \in Admins, NEW s, AclChanged(h, s) PROVE SessionTypes'
    <2>1. s \in Standing
      BY <1>6, SessionsAssumptions DEF AclChanged, Standing, Roles
    <2>2. acl' \in [Repos -> Standing]
      BY <1>6, <2>1 DEF AclChanged, Saved, GrantAccess, SetRole, RevokeAccess, SessionTypes
    <2>3. admin' \in [Admins -> AdminCalls]
      <3>1. \/ admin' = [admin EXCEPT ![h] = Rest]
            \/ admin' = [admin EXCEPT ![h].pc = "saved"]
        BY <1>6 DEF AclChanged, GrantAccess, SetRole, RevokeAccess, RaiseNext
      <3>2. Rest \in AdminCalls
        BY DEF Rest, AdminCalls, Somewhere
      <3>3. [admin[h] EXCEPT !.pc = "saved"] \in AdminCalls
        BY DEF SessionTypes, AdminCalls
      <3> QED
        BY <3>1, <3>2, <3>3 DEF SessionTypes
    <2> QED
      BY <1>6, <2>2, <2>3 DEF AclChanged, Saved, GrantAccess, SetRole, RevokeAccess, SessionTypes
  <1>7. ASSUME NEW r \in Repos, NEW s \in GivenRoles \cup {"none", "keyonly"},
               CommandLine(r, s)
        PROVE  SessionTypes'
    <2>1. s \in Standing
      BY SessionsAssumptions DEF Standing, Roles
    <2> QED
      BY <1>7, <2>1 DEF CommandLine, SessionTypes
  <1> QED
    BY <1>1, <1>2, <1>3, <1>4, <1>5, <1>6, <1>7 DEF AdminStep, AclChanged

(* A token is made with the secret that the file has, and a start keeps    *)
(* the secret of a file that has one.                                      *)
LEMMA SecretsStep ==
    ASSUME SessionTypes, Secrets, SessionsNext
    PROVE  Secrets'
  <1> USE DEF server, history
  <1>1. CASE Start
    <2>1. tokens' = tokens /\ secret' = LoadSecret
      BY <1>1 DEF Start
    <2>2. CASE up' = TRUE /\ secretFile' = LoadSecret
      BY <2>1, <2>2 DEF LoadSecret, Secrets, SessionTypes, Token
    <2>3. CASE up' = FALSE /\ secretFile = 0
      BY <2>1, <2>3 DEF Secrets, SessionTypes, Token
    <2> QED
      BY <1>1, <2>2, <2>3 DEF Start
  <1>2. CASE Stop
    <2>1. up' = FALSE /\ UNCHANGED <<tokens, secretFile>>
      BY <1>2 DEF Stop
    <2> QED
      BY <2>1 DEF Secrets
  <1>3. ASSUME NEW b \in BOOLEAN, CreateToken(b) PROVE Secrets'
    <2>1. \A t \in tokens' : t \in tokens \/ (t.key = secret /\ t.tkv = version)
      BY <1>3 DEF CreateToken, create_jwt_with_claims
    <2> QED
      BY <1>3, <2>1 DEF CreateToken, Secrets, SessionTypes
  <1>4. ASSUME NEW a \in Auths, KeyAuthIssue(a) PROVE Secrets'
    <2>1. \A t \in tokens' : t \in tokens \/ (t.key = secret /\ t.tkv = version)
      BY <1>4 DEF KeyAuthIssue, create_jwt_with_claims
    <2> QED
      BY <1>4, <2>1 DEF KeyAuthIssue, Secrets, SessionTypes
  <1>5. ASSUME NEW a \in Auths, KeyAuthOpen(a) PROVE Secrets'
    BY <1>5 DEF KeyAuthOpen, Secrets
  <1>6. CASE Tick \/ GetChallenge \/ CleanupExpiredChallenges
    BY <1>6 DEF Tick, GetChallenge, CleanupExpiredChallenges, Secrets
  <1>7. ASSUME NEW h, AdminStep(h) PROVE Secrets'
    BY <1>7, AdminFrame DEF Secrets
  <1>8. ASSUME NEW r, NEW s, CommandLine(r, s) PROVE Secrets'
    BY <1>8 DEF CommandLine, Secrets
  <1> QED
    BY <1>1, <1>2, <1>3, <1>4, <1>5, <1>6, <1>7, <1>8 DEF SessionsNext, AdminStep

(* The version goes down only at a start that was forgotten. *)
LEMMA RaisedStep ==
    ASSUME SessionTypes, Raised, SessionsNext
    PROVE  Raised'
  <1> USE DEF server, history
  <1>1. CASE Start
    BY <1>1 DEF Start, Raised
  <1>2. CASE Stop
    <2>1. CASE forgotten \/ version > 1 \/ \E h \in Admins : admin[h].pc = "saved"
      BY <1>2, <2>1 DEF Stop, Raised
    <2>2. CASE ~forgotten /\ version <= 1
      BY <1>2, <2>2 DEF Stop, Raised, SessionTypes
    <2> QED
      BY <2>1, <2>2 DEF SessionTypes
  <1>3. ASSUME NEW b \in BOOLEAN, CreateToken(b) PROVE Raised'
    <2>1. \A t \in tokens' : t \in tokens \/ t.tkv = version
      BY <1>3 DEF CreateToken, create_jwt_with_claims
    <2>2. up /\ UNCHANGED <<up, version, forgotten>>
      BY <1>3 DEF CreateToken
    <2> QED
      BY <2>1, <2>2 DEF Raised, SessionTypes
  <1>4. ASSUME NEW a \in Auths, KeyAuthIssue(a) PROVE Raised'
    <2>1. \A t \in tokens' : t \in tokens \/ t.tkv = version
      BY <1>4 DEF KeyAuthIssue, create_jwt_with_claims
    <2>2. up /\ UNCHANGED <<up, version, forgotten>>
      BY <1>4 DEF KeyAuthIssue
    <2> QED
      BY <2>1, <2>2 DEF Raised, SessionTypes
  <1>5. ASSUME NEW a \in Auths, KeyAuthOpen(a) PROVE Raised'
    BY <1>5 DEF KeyAuthOpen, Raised
  <1>6. CASE Tick \/ GetChallenge \/ CleanupExpiredChallenges
    BY <1>6 DEF Tick, GetChallenge, CleanupExpiredChallenges, Raised
  <1>7. ASSUME NEW h, AdminStep(h), UNCHANGED version PROVE Raised'
    BY <1>7, AdminFrame DEF Raised
  <1>8. ASSUME NEW h, RevokeAllTokens(h) PROVE Raised'
    BY <1>8 DEF RevokeAllTokens, Raised, SessionTypes, Token
  <1>9. ASSUME NEW r, NEW s, CommandLine(r, s) PROVE Raised'
    BY <1>9 DEF CommandLine, Raised
  <1> QED
    BY <1>1, <1>2, <1>3, <1>4, <1>5, <1>6, <1>7, <1>8, <1>9, AdminFrame
    DEF SessionsNext, AdminStep

(* What a role gives changes only with a save, which the version follows:  *)
(* no token has the version that it is raised to.                          *)
LEMMA RevokedStep ==
    ASSUME SessionTypes, Raised, Places, Revoked, SessionsNext
    PROVE  Revoked'
  <1> USE DEF server, history, Revoked, Covered
  <1>1. CASE Start
    BY <1>1 DEF Start, Raised
  <1>2. CASE Stop
    BY <1>2 DEF Stop
  <1>3. ASSUME NEW b \in BOOLEAN, CreateToken(b) PROVE Revoked'
    <2>1. \A t \in tokens' : t \in tokens \/ t.sub = Local
      BY <1>3 DEF CreateToken, create_jwt_with_claims
    <2> QED
      BY <1>3, <2>1 DEF CreateToken, User, Local
  <1>4. ASSUME NEW a \in Auths, KeyAuthIssue(a) PROVE Revoked'
    <2> DEFINE f == Covered(auth[a].role, auth[a].repo)
               u == create_jwt_with_claims(User, auth[a].role, auth[a].repo, auth[a].chal, f)
    <2>1. tokens' = tokens \cup {u}
      BY <1>4, Zenon DEF KeyAuthIssue
    <2>2. u.role = auth[a].role /\ u.repo = auth[a].repo /\ u.fresh = f
      BY Zenon DEF create_jwt_with_claims
    <2>3. ~u.fresh \/ Covered(u.role, u.repo)
      BY <2>2, Zenon
    <2>4. UNCHANGED <<version, acl, admin, forgotten, unraised, outside>>
      BY <1>4 DEF KeyAuthIssue
    <2> HIDE DEF u
    <2> QED
      BY <2>1, <2>3, <2>4
  <1>5. ASSUME NEW a \in Auths, KeyAuthOpen(a) PROVE Revoked'
    BY <1>5 DEF KeyAuthOpen
  <1>6. CASE Tick \/ GetChallenge \/ CleanupExpiredChallenges
    BY <1>6 DEF Tick, GetChallenge, CleanupExpiredChallenges
  <1>7. ASSUME NEW h \in Admins, NEW r, AdminEnter(h, r) PROVE Revoked'
    <2>1. /\ admin[h].pc # "saved" /\ \A k \in Admins \ {h} : admin'[k] = admin[k]
          /\ UNCHANGED <<version, acl, tokens, forgotten, unraised, outside>>
      BY <1>7 DEF AdminEnter, SessionTypes
    <2> QED
      BY <2>1
  <1>8. ASSUME NEW h \in Admins, RevokeAllTokens(h) PROVE Revoked'
    <2>1. ~forgotten => \A t \in tokens : ~(t.tkv >= version + 1)
      BY DEF Raised, SessionTypes, Token
    <2> QED
      BY <1>8, <2>1 DEF RevokeAllTokens
  <1>9. ASSUME NEW h \in Admins, AdminDropped(h) PROVE Revoked'
    <2>1. /\ admin[h].pc = "saved" => admin[h].repo \in unraised'
          /\ unraised \subseteq unraised'
          /\ \A k \in Admins \ {h} : admin'[k] = admin[k]
          /\ UNCHANGED <<version, acl, tokens, forgotten, outside>>
      BY <1>9 DEF AdminDropped, SessionTypes
    <2> QED
      BY <2>1
  <1>10. ASSUME NEW h \in Admins, NEW s, AclChanged(h, s) PROVE Revoked'
    <2>1. /\ admin[h].pc # "saved" /\ \A k \in Admins \ {h} : admin'[k] = admin[k]
          /\ acl' = [acl EXCEPT ![admin[h].repo] = s] /\ unraised \subseteq unraised'
          /\ UNCHANGED <<version, tokens, forgotten, outside>>
      BY <1>10 DEF AclChanged, GrantAccess, SetRole, RevokeAccess, RaiseNext, Saved, MaySave,
                   SessionTypes
    <2>2. \A r \in Repos \ {admin[h].repo} : acl'[r] = acl[r]
      BY <2>1 DEF SessionTypes
    <2>3. CASE GrantAccess(h, s)
      <3>1. acl[admin[h].repo] = "none"
        BY <2>3 DEF GrantAccess
      <3>2. \A t \in tokens : ~(Rank(t.role) <= Rank(TokenRole("none")))
        BY DEF SessionTypes, Token, Roles, Rank, TokenRole
      <3>3. \A t \in tokens : t.repo = admin[h].repo => ~Covered(t.role, t.repo)
        BY <3>1, <3>2
      <3>4. \A t \in tokens : t.sub = User => t.repo \in Repos
        BY DEF Places
      <3>5. \A t \in tokens : t.sub = User /\ Covered(t.role, t.repo) =>
               Covered(t.role, t.repo)'
        BY <2>1, <2>2, <3>3, <3>4
      <3> HIDE DEF Covered
      <3> QED
        BY <2>1, <3>5
    <2>4. CASE SetRole(h, s) \/ RevokeAccess(h)
      <3>1. \/ admin'[h].pc = "saved" /\ admin'[h].repo = admin[h].repo
            \/ admin[h].repo \in unraised'
        BY <2>4 DEF SetRole, RevokeAccess, RaiseNext, SessionTypes, AdminCalls
      <3>2. \A t \in tokens : t.sub = User => t.repo \in Repos
        BY DEF Places
      <3>3. \A t \in tokens : t.sub = User /\ t.repo # admin[h].repo =>
               Covered(t.role, t.repo)' = Covered(t.role, t.repo)
        BY <2>1, <2>2, <3>2
      <3> HIDE DEF Covered
      <3> QED
        BY <2>1, <3>1, <3>3
    <2> QED
      BY <1>10, <2>3, <2>4 DEF AclChanged
  <1>11. ASSUME NEW r \in Repos, NEW s, CommandLine(r, s) PROVE Revoked'
    <2>1. /\ acl' = [acl EXCEPT ![r] = s] /\ outside' = outside \cup {r}
          /\ UNCHANGED <<version, tokens, admin, forgotten, unraised>>
      BY <1>11 DEF CommandLine
    <2>2. \A t \in tokens : t.sub = User /\ t.repo # r =>
             Covered(t.role, t.repo)' = Covered(t.role, t.repo)
      BY <2>1 DEF SessionTypes, Places
    <2> HIDE DEF Covered
    <2> QED
      BY <2>1, <2>2
  <1> QED
    BY <1>1, <1>2, <1>3, <1>4, <1>5, <1>6, <1>7, <1>8, <1>9, <1>10, <1>11
    DEF SessionsNext, AclChanged

(* A challenge goes from the map to one call and from there to one token;  *)
(* its number is not used again, whatever is forgotten.                    *)
LEMMA PlacesStep ==
    ASSUME SessionTypes, Places, SessionsNext
    PROVE  Places'
  <1> USE DEF server, history, Places, ChallengeOnce
  <1>1. CASE Start
    <2>1. DOMAIN challenges' = {} /\ UNCHANGED <<made, auth, tokens>>
      BY <1>1 DEF Start
    <2> QED
      BY <2>1
  <1>2. CASE Stop
    <2>1. UNCHANGED <<made, challenges, tokens>> /\ \A a \in Auths : auth'[a].pc = "idle"
      BY <1>2 DEF Stop, Idle
    <2> QED
      BY <2>1
  <1>3. ASSUME NEW b \in BOOLEAN, CreateToken(b) PROVE Places'
    <2>1. \A t \in tokens' : t \in tokens \/ t.sub = Local
      BY <1>3 DEF CreateToken, create_jwt_with_claims
    <2>2. UNCHANGED <<made, auth, challenges>>
      BY <1>3 DEF CreateToken
    <2> QED
      BY <2>1, <2>2 DEF User, Local
  <1>4. CASE GetChallenge
    <2>1. Pending \subseteq DOMAIN challenges
      BY DEF Pending
    <2>2. CASE RoomLeft
      <3>1. DOMAIN challenges' = Pending \cup {made + 1} /\ made' = made + 1
        BY <1>4, <2>2 DEF GetChallenge
      <3>2. UNCHANGED <<auth, tokens>>
        BY <1>4 DEF GetChallenge
      <3> QED
        BY <2>1, <3>1, <3>2 DEF SessionTypes
    <2>3. CASE ~RoomLeft
      <3>1. DOMAIN challenges' = Pending /\ made' = made
        BY <1>4, <2>3, KeepDomain DEF GetChallenge
      <3>2. UNCHANGED <<auth, tokens>>
        BY <1>4 DEF GetChallenge
      <3> QED
        BY <2>1, <3>1, <3>2
    <2> QED
      BY <2>2, <2>3
  <1>5. CASE CleanupExpiredChallenges
    <2>1. DOMAIN challenges' = Pending /\ UNCHANGED <<made, auth, tokens>>
      BY <1>5, KeepDomain DEF CleanupExpiredChallenges
    <2>2. Pending \subseteq DOMAIN challenges
      BY DEF Pending
    <2> QED
      BY <2>1, <2>2
  <1>6. ASSUME NEW a \in Auths, KeyAuthOpen(a) PROVE Places'
    <2>1. PICK c \in DOMAIN challenges, r \in Repos :
             /\ challenges' = IF Allowed(CurrentBucket) THEN Consumed(c) ELSE challenges
             /\ auth' = IF Allowed(CurrentBucket) /\ now <= challenges[c] /\ acl[r] # "none"
                          THEN [auth EXCEPT ![a] = [pc |-> "opened",
                                   role |-> TokenRole(acl[r]), repo |-> r, chal |-> c]]
                          ELSE auth
      BY <1>6 DEF KeyAuthOpen
    <2>2. UNCHANGED <<made, tokens>>
      BY <1>6 DEF KeyAuthOpen
    <2>3. CASE auth' = auth
      <3>1. DOMAIN challenges' \subseteq DOMAIN challenges
        BY <2>1, KeepDomain DEF Consumed
      <3> QED
        BY <2>2, <2>3, <3>1
    <2>4. CASE /\ Allowed(CurrentBucket) /\ acl[r] # "none"
               /\ auth' = [auth EXCEPT ![a] = [pc |-> "opened",
                               role |-> TokenRole(acl[r]), repo |-> r, chal |-> c]]
      <3>1. DOMAIN challenges' = DOMAIN challenges \ {c}
        BY <2>1, <2>4, KeepDomain DEF Consumed
      <3>2. TokenRole(acl[r]) \in Roles
        BY <2>4, TokenRoleIsRole DEF SessionTypes
      <3>3. /\ auth'[a] = [pc |-> "opened", role |-> TokenRole(acl[r]), repo |-> r, chal |-> c]
            /\ \A b \in Auths \ {a} : auth'[b] = auth[b]
        BY <2>4 DEF SessionTypes
      <3> QED
        BY <2>2, <3>1, <3>2, <3>3
    <2> QED
      BY <2>1, <2>3, <2>4
  <1>7. ASSUME NEW a \in Auths, KeyAuthIssue(a) PROVE Places'
    <2> DEFINE u == create_jwt_with_claims(User, auth[a].role, auth[a].repo, auth[a].chal,
                       Covered(auth[a].role, auth[a].repo))
    <2>1. tokens' = tokens \cup {u}
      BY <1>7, Zenon DEF KeyAuthIssue
    <2>4. u.sub = User /\ u.repo = auth[a].repo /\ u.chal = auth[a].chal
      BY Zenon DEF create_jwt_with_claims
    <2>2. UNCHANGED <<made, challenges>> /\ auth[a].pc = "opened"
      BY <1>7 DEF KeyAuthIssue
    <2>3. auth'[a].pc = "idle" /\ \A b \in Auths \ {a} : auth'[b] = auth[b]
      BY <1>7 DEF KeyAuthIssue, SessionTypes, Idle
    <2> HIDE DEF u
    <2> QED
      BY <2>1, <2>2, <2>3, <2>4
  <1>8. ASSUME NEW h, AdminStep(h) PROVE Places'
    BY <1>8, AdminFrame
  <1>9. ASSUME NEW r, NEW s, Tick \/ CommandLine(r, s) PROVE Places'
    BY <1>9 DEF Tick, CommandLine
  <1> QED
    BY <1>1, <1>2, <1>3, <1>4, <1>5, <1>6, <1>7, <1>8, <1>9 DEF SessionsNext, AdminStep

(* A challenge is added only while fewer than the limit are pending, and   *)
(* the others are thrown away then.                                        *)
LEMMA BoundedStep ==
    ASSUME ChallengesBounded, SessionsNext
    PROVE  ChallengesBounded'
  <1> USE DEF ChallengesBounded, server, history
  <1>1. ASSUME DOMAIN challenges' \subseteq DOMAIN challenges PROVE ChallengesBounded'
    <2>1. /\ IsFiniteSet(DOMAIN challenges')
          /\ Cardinality(DOMAIN challenges') <= Cardinality(DOMAIN challenges)
      BY <1>1, FS_Subset
    <2>2. Cardinality(DOMAIN challenges') \in Nat /\ Cardinality(DOMAIN challenges) \in Nat
      BY <2>1, FS_CardinalityType
    <2> QED
      BY <2>1, <2>2, SessionsAssumptions
  <1>2. Pending \subseteq DOMAIN challenges
    BY DEF Pending
  <1>3. CASE GetChallenge
    <2>1. CASE RoomLeft
      <3>1. DOMAIN challenges' = Pending \cup {made + 1}
        BY <1>3, <2>1 DEF GetChallenge
      <3>2. IsFiniteSet(Pending) /\ Cardinality(Pending) \in Nat
        BY <1>2, FS_Subset, FS_CardinalityType
      <3>3. /\ IsFiniteSet(Pending \cup {made + 1})
            /\ \/ Cardinality(Pending \cup {made + 1}) = Cardinality(Pending)
               \/ Cardinality(Pending \cup {made + 1}) = Cardinality(Pending) + 1
        BY <3>2, FS_AddElement, Zenon
      <3>4. Cardinality(Pending \cup {made + 1}) \in Nat
        BY <3>3, FS_CardinalityType
      <3> QED
        BY <2>1, <3>1, <3>2, <3>3, <3>4, SessionsAssumptions DEF RoomLeft
    <2>2. CASE ~RoomLeft
      <3>1. DOMAIN challenges' = Pending
        BY <1>3, <2>2, KeepDomain DEF GetChallenge
      <3> QED
        BY <1>1, <1>2, <3>1
    <2> QED
      BY <2>1, <2>2
  <1>4. CASE CleanupExpiredChallenges
    <2>1. DOMAIN challenges' = Pending
      BY <1>4, KeepDomain DEF CleanupExpiredChallenges
    <2> QED
      BY <1>1, <1>2, <2>1
  <1>5. ASSUME NEW a \in Auths, KeyAuthOpen(a) PROVE ChallengesBounded'
    <2>1. DOMAIN challenges' \subseteq DOMAIN challenges
      BY <1>5, KeepDomain DEF KeyAuthOpen, Consumed
    <2> QED
      BY <1>1, <2>1
  <1>6. CASE Start
    <2>1. DOMAIN challenges' = {}
      BY <1>6 DEF Start
    <2> QED
      BY <1>1, <2>1
  <1>7. CASE UNCHANGED challenges
    BY <1>1, <1>7
  <1>8. ASSUME NEW h, AdminStep(h) PROVE ChallengesBounded'
    BY <1>7, <1>8, AdminFrame
  <1>9. ASSUME NEW r, NEW s, \/ Stop \/ Tick \/ CommandLine(r, s)
                             \/ CreateToken(r) \/ KeyAuthIssue(r)
        PROVE  ChallengesBounded'
    BY <1>7, <1>9 DEF Stop, Tick, CommandLine, CreateToken, KeyAuthIssue
  <1> QED
    BY <1>3, <1>4, <1>5, <1>6, <1>8, <1>9 DEF SessionsNext, AdminStep

(* An attempt goes into the present window while it has room; a new window *)
(* begins no sooner than a window's length after the last one began.       *)
LEMMA AttemptWindows ==
    ASSUME SessionTypes, Windows, up, check_auth_rate_limit, UNCHANGED <<now, up, changes>>
    PROVE  Windows'
  <1> SUFFICES ASSUME changes = 0 PROVE Windows'
    BY DEF Windows
  <1> DEFINE n == Len(admitted)
             L == AuthRateLimit
             W == AuthRateWindow
  <1>1. /\ now \in Nat /\ n \in Nat /\ L \in Nat \ {0} /\ W \in Nat \ {0}
        /\ bucket.count \in Nat /\ bucket.start \in Nat
        /\ admitted \in Seq(Nat) /\ \A i \in 1..n : admitted[i] \in Nat
    BY SessionsAssumptions DEF SessionTypes
  <1>2. /\ bucket.start <= now /\ bucket.count <= L /\ bucket.count <= n
        /\ \A i \in 1..n :
              /\ admitted[i] < bucket.start + W
              /\ i <= n - bucket.count => admitted[i] < bucket.start
              /\ i <= n - bucket.count - L => admitted[i] + W < bucket.start
    BY DEF Windows
  <1>3. CASE admitted' = admitted /\ bucket' = bucket
    BY <1>3 DEF Windows
  <1>4. CASE now - bucket.start >= W
    <2>1. CurrentBucket = [count |-> 0, start |-> now]
      BY <1>4 DEF CurrentBucket, FreshBucket
    <2>2. bucket'.count = 1 /\ bucket'.start = now /\ admitted' = Append(admitted, now)
      BY <1>1, <2>1 DEF check_auth_rate_limit, Allowed
    <2>3. /\ Len(admitted') = n + 1 /\ admitted'[n + 1] = now
          /\ \A i \in 1..n : admitted'[i] = admitted[i]
      BY <1>1, <2>2
    <2>4. ASSUME NEW i \in 1..(n + 1)
          PROVE  /\ admitted'[i] < now + W
                 /\ i <= n => admitted'[i] < now
                 /\ i <= n - L => admitted'[i] + W < now
      <3>1. CASE i = n + 1
        BY <1>1, <2>3, <3>1
      <3>2. CASE i \in 1..n
        <4>1. admitted'[i] = admitted[i] /\ admitted[i] \in Nat
          BY <1>1, <2>3, <3>2
        <4>2. admitted[i] < bucket.start + W
          BY <1>2, <3>2
        <4>3. i <= n - L => admitted[i] < bucket.start
          BY <1>1, <1>2, <3>2
        <4> QED
          BY <1>1, <1>4, <4>1, <4>2, <4>3
      <3> QED
        BY <1>1, <3>1, <3>2
    <2>5. up' /\ now' = now
      OBVIOUS
    <2> HIDE DEF n
    <2> QED
      BY <1>1, <2>2, <2>3, <2>4, <2>5 DEF Windows
  <1>5. CASE ~(now - bucket.start >= W) /\ Allowed(bucket)
    <2>1. CurrentBucket = bucket
      BY <1>5 DEF CurrentBucket
    <2>2. /\ bucket'.count = bucket.count + 1 /\ bucket'.start = bucket.start
          /\ admitted' = Append(admitted, now)
      BY <1>1, <1>5, <2>1 DEF check_auth_rate_limit, SessionTypes
    <2>3. /\ Len(admitted') = n + 1 /\ admitted'[n + 1] = now
          /\ \A i \in 1..n : admitted'[i] = admitted[i]
      BY <1>1, <2>2
    <2>4. bucket.count < L
      BY <1>5 DEF Allowed
    <2>5. ASSUME NEW i \in 1..(n + 1)
          PROVE  /\ admitted'[i] < bucket.start + W
                 /\ i <= n - bucket.count => admitted'[i] < bucket.start
                 /\ i <= n - bucket.count - L => admitted'[i] + W < bucket.start
      <3>1. CASE i = n + 1
        BY <1>1, <1>5, <2>3, <3>1
      <3>2. CASE i \in 1..n
        BY <1>2, <2>3, <3>2
      <3> QED
        BY <1>1, <3>1, <3>2
    <2>6. up' /\ now' = now /\ bucket'.start <= now' /\ bucket'.count <= L
          /\ bucket'.count <= Len(admitted')
      BY <1>1, <1>2, <2>2, <2>3, <2>4
    <2>7. ASSUME NEW i \in 1..Len(admitted')
          PROVE  /\ admitted'[i] < bucket'.start + W
                 /\ i <= Len(admitted') - bucket'.count => admitted'[i] < bucket'.start
                 /\ i <= Len(admitted') - bucket'.count - L =>
                        admitted'[i] + W < bucket'.start
      <3>1. i \in 1..(n + 1)
        BY <2>3
      <3>2. Len(admitted') - bucket'.count = n - bucket.count
        BY <1>1, <2>2, <2>3
      <3> HIDE DEF n
      <3> QED
        BY <2>2, <2>5, <3>1, <3>2
    <2> HIDE DEF n
    <2> QED
      BY <2>6, <2>7 DEF Windows
  <1>6. CASE ~(now - bucket.start >= W) /\ ~Allowed(bucket)
    <2>1. CurrentBucket = bucket
      BY <1>6 DEF CurrentBucket
    <2> QED
      BY <1>3, <1>6, <2>1 DEF check_auth_rate_limit
  <1> QED
    BY <1>4, <1>5, <1>6

LEMMA WindowsStep ==
    ASSUME SessionTypes, Windows, SessionsNext
    PROVE  Windows'
  <1> USE DEF server, history
  <1>1. ASSUME NEW b \in BOOLEAN, CreateToken(b) PROVE Windows'
    BY <1>1, AttemptWindows DEF CreateToken
  <1>2. ASSUME NEW a \in Auths, KeyAuthOpen(a) PROVE Windows'
    BY <1>2, AttemptWindows DEF KeyAuthOpen
  <1>3. CASE Start
    <2>1. /\ ~up /\ UNCHANGED <<now, admitted, changes>>
          /\ bucket' = [count |-> 0, start |-> now]
      BY <1>3 DEF Start, FreshBucket
    <2>2. changes = 0 => Len(admitted) = 0 /\ admitted = <<>>
      BY <2>1 DEF Windows
    <2> QED
      BY <2>1, <2>2, SessionsAssumptions DEF Windows, SessionTypes
  <1>4. CASE Stop
    <2>1. changes' # 0
      BY <1>4 DEF Stop, SessionTypes
    <2> QED
      BY <2>1 DEF Windows
  <1>5. CASE Tick
    <2>1. now' = now + 1 /\ UNCHANGED <<up, bucket, admitted, changes>>
      BY <1>5 DEF Tick
    <2> QED
      BY <2>1, SessionsAssumptions DEF Windows, SessionTypes
  <1>6. ASSUME UNCHANGED <<now, up, bucket, admitted>>, changes' = 0 => changes = 0
        PROVE  Windows'
    BY <1>6 DEF Windows
  <1>7. CASE GetChallenge \/ CleanupExpiredChallenges
    BY <1>6, <1>7 DEF GetChallenge, CleanupExpiredChallenges
  <1>8. ASSUME NEW a \in Auths, KeyAuthIssue(a) PROVE Windows'
    BY <1>6, <1>8 DEF KeyAuthIssue
  <1>9. ASSUME NEW h, AdminStep(h) PROVE Windows'
    <2>1. changes' = changes \/ changes' = changes + 1
      BY <1>9 DEF AdminStep, RevokeAccess, RevokeAllTokens, AdminDropped, AdminEnter,
                  GrantAccess, SetRole, Saved
    <2> QED
      BY <1>6, <1>9, <2>1, AdminFrame DEF SessionTypes
  <1>10. ASSUME NEW r, NEW s, CommandLine(r, s) PROVE Windows'
    BY <1>6, <1>10 DEF CommandLine, SessionTypes
  <1> QED
    BY <1>1, <1>2, <1>3, <1>4, <1>5, <1>7, <1>8, <1>9, <1>10 DEF SessionsNext, AdminStep

(* Those of a window's length are the present window's and a limit's worth *)
(* of the ones before.                                                     *)
LEMMA WindowsBound ==
    ASSUME SessionTypes, Windows
    PROVE  AttemptsBounded
  <1> SUFFICES ASSUME changes = 0
               PROVE  Cardinality({i \in DOMAIN admitted : admitted[i] > now - AuthRateWindow})
                          <= 2 * AuthRateLimit
    BY DEF AttemptsBounded
  <1> DEFINE n == Len(admitted)
             k == n - bucket.count - AuthRateLimit
             S == {i \in DOMAIN admitted : admitted[i] > now - AuthRateWindow}
  <1>1. /\ now \in Nat /\ n \in Nat /\ k \in Int
        /\ AuthRateLimit \in Nat /\ AuthRateWindow \in Nat
        /\ bucket.count \in Nat /\ bucket.start \in Nat
        /\ DOMAIN admitted = 1..n /\ \A i \in 1..n : admitted[i] \in Nat
    BY SessionsAssumptions DEF SessionTypes
  <1>2. bucket.start <= now /\ bucket.count <= AuthRateLimit
    BY DEF Windows
  <1>3. S \subseteq (k + 1)..n
    <2> SUFFICES ASSUME NEW i \in 1..n, admitted[i] > now - AuthRateWindow
                 PROVE  i >= k + 1
      BY <1>1
    <2>1. i <= k => admitted[i] + AuthRateWindow < bucket.start
      BY DEF Windows
    <2> HIDE DEF n, k
    <2> QED
      BY <1>1, <1>2, <2>1
  <1>4. /\ IsFiniteSet((k + 1)..n)
        /\ Cardinality((k + 1)..n) = bucket.count + AuthRateLimit
    <2> HIDE DEF n, k
    <2>1. /\ IsFiniteSet((k + 1)..n)
          /\ Cardinality((k + 1)..n) = IF k + 1 > n THEN 0 ELSE n - (k + 1) + 1
      <3>1. k + 1 \in Int /\ n \in Int
        BY <1>1
      <3> QED
        BY <3>1, FS_Interval, Zenon
    <2>2. n - (k + 1) + 1 = bucket.count + AuthRateLimit
      BY <1>1 DEF k
    <2>3. k + 1 <= n
      BY <1>1, SessionsAssumptions DEF k
    <2> QED
      BY <1>1, <2>1, <2>2, <2>3
  <1>5. IsFiniteSet(S) /\ Cardinality(S) <= Cardinality((k + 1)..n)
    BY <1>3, <1>4, FS_Subset
  <1>6. Cardinality(S) \in Nat
    BY <1>5, FS_CardinalityType
  <1> HIDE DEF S, k, n
  <1>7. Cardinality(S) <= 2 * AuthRateLimit
    BY <1>1, <1>2, <1>4, <1>5, <1>6
  <1> QED
    BY <1>7 DEF S

---------------------------------------------------------------------------

(* The invariant holds in every state. *)
THEOREM SessionsInvariant == SessionsSpec => []SessionsInv
  <1>1. SessionsInv /\ [SessionsNext]_sessionsVars => SessionsInv'
    <2> SUFFICES ASSUME SessionsInv, [SessionsNext]_sessionsVars PROVE SessionsInv'
      OBVIOUS
    <2>1. CASE SessionsNext
      <3>1. SessionTypes'
        BY <2>1, SignInTypes, OtherSessionTypes DEF SessionsInv, SessionsNext, AdminStep
      <3>2. Secrets' /\ Raised' /\ Revoked'
        BY <2>1, SecretsStep, RaisedStep, RevokedStep DEF SessionsInv
      <3>3. Places' /\ ChallengesBounded' /\ Windows'
        BY <2>1, PlacesStep, BoundedStep, WindowsStep DEF SessionsInv
      <3> QED
        BY <3>1, <3>2, <3>3 DEF SessionsInv
    <2>2. CASE UNCHANGED sessionsVars
      BY <2>2 DEF SessionsInv, SessionTypes, Secrets, Raised, Revoked, Places, ChallengeOnce,
                  ChallengesBounded, Windows, sessionsVars, Covered
    <2> QED
      BY <2>1, <2>2
  <1> QED
    BY InitSessionsInv, <1>1, PTL DEF SessionsSpec

(* Signing in is safe in every state: a token gives no more than the       *)
(* access list outside the five windows, a challenge is good for one       *)
(* token, no interval of a window's length admits more than twice the      *)
(* limit, and the challenges stay within theirs.                           *)
THEOREM SessionsSafe == SessionsSpec => []SignInSafe
  <1>1. SessionsInv => SignInSafe
    <2> SUFFICES ASSUME SessionsInv PROVE SignInSafe
      OBVIOUS
    <2>1. SessionsTypeOK
      BY DEF SessionsInv, SessionTypes, Secrets, ChallengesBounded, Token, SessionsTypeOK
    <2>2. RevocationHolds
      BY DEF SessionsInv, Revoked, RevocationHolds, validate_jwt
    <2>3. ChallengeOnce
      BY DEF SessionsInv, Places
    <2>4. AttemptsBounded
      BY WindowsBound DEF SessionsInv
    <2> QED
      BY <2>1, <2>2, <2>3, <2>4 DEF SignInSafe
  <1> QED
    BY SessionsInvariant, <1>1, PTL

(* A restart keeps the sessions: the start that takes requests again has   *)
(* the secret of the tokens that are out, and the version is the lowest.   *)
THEOREM RestartsKeepSessions == SessionsSpec => SessionsSurvive
  <1> DEFINE A == up' /\ ~up => \A t \in tokens : now <= t.exp => validate_jwt(t)'
  <1>1. SessionsInv /\ [SessionsNext]_sessionsVars => [A]_sessionsVars
    <2> SUFFICES ASSUME SessionsInv, SessionsNext, up', ~up,
                        NEW t \in tokens, now <= t.exp
                 PROVE  validate_jwt(t)'
      BY DEF sessionsVars
    <2>1. Start
      BY DEF SessionsNext, CreateToken, GetChallenge, CleanupExpiredChallenges, KeyAuthOpen,
             KeyAuthIssue, AdminEnter, GrantAccess, SetRole, RevokeAccess, RevokeAllTokens,
             AdminDropped, Saved, CommandLine, Stop, Tick
    <2>2. secret' = LoadSecret /\ version' = 1 /\ now' = now
      BY <2>1 DEF Start
    <2>3. t.key \in Nat /\ t.tkv \in Nat /\ t.key = secretFile /\ secretFile # 0 /\ t.tkv # 0
      BY DEF SessionsInv, SessionTypes, Secrets, Token
    <2>4. t.key = LoadSecret /\ t.tkv >= 1
      BY <2>3 DEF LoadSecret
    <2> QED
      BY <2>2, <2>4 DEF validate_jwt
  <1> QED
    BY SessionsInvariant, <1>1, PTL DEF SessionsSpec, SessionsSurvive

(***************************************************************************)
(* Dependency updates                                                      *)
(***************************************************************************)

Manifest == [vers : [Deps -> {0, 1}], note : Nat]
Branch   == [tree : Manifest, base : Manifest, made : BOOLEAN, clean : BOOLEAN]

Job      == [pc : {"idle", "next", "write", "restore"}, todo : SUBSET Deps,
             dep : Deps \cup {0}, text : Manifest \cup {0}, tip : Manifest \cup {0},
             copy : [Deps -> Branch] \cup {0}, clean : BOOLEAN]

(* What a branch holds, if nothing but its own update was in the manifest. *)
OwnUpdate(f) ==
    \A d \in Deps : f[d].made /\ f[d].clean =>
        f[d].tree = f[d].base \/ f[d].tree = WithUpdate(f[d].base, d)

DepTypes ==
    /\ main \in Manifest /\ manifest \in Manifest
    /\ branches \in [Deps -> Branch]
    /\ edits \in Nat /\ merged \subseteq Deps
    /\ job \in Job
    /\ job.pc # "idle" => job.tip \in Manifest /\ job.copy \in [Deps -> Branch]
    /\ job.pc = "write" => job.dep \in Deps /\ job.text \in Manifest

(* The manifest that the next update starts from is the tip's, and the     *)
(* text that is to be written is the tip's with one update.                *)
DepWork ==
    /\ OwnUpdate(branches)
    /\ job.pc # "idle" => OwnUpdate(job.copy)
    /\ job.pc = "next" /\ job.clean => manifest = job.tip
    /\ job.pc = "write" /\ job.clean => job.text = WithUpdate(job.tip, job.dep)

DepInv == DepTypes /\ DepWork /\ MergedStays

LEMMA OldManifestType == OldManifest \in Manifest /\ NoBranch \in Branch
  BY DEF OldManifest, NoBranch, Manifest, Branch

LEMMA WithUpdateType ==
    ASSUME NEW m \in Manifest, NEW d \in Deps
    PROVE  /\ WithUpdate(m, d) \in Manifest
           /\ \A e \in Deps : WithUpdate(m, d).vers[e] = IF e = d THEN 1 ELSE m.vers[e]
  BY DEF WithUpdate, Manifest

LEMMA MergeTreesType ==
    ASSUME NEW b \in Manifest, NEW o \in Manifest, NEW t \in Manifest
    PROVE  merge_trees(b, o, t) \in Manifest
  BY DEF merge_trees, Pick, Manifest

(* Merging a proposal keeps what is at 1, and raises its own dependency.   *)
LEMMA MergeKeepsUpdates ==
    ASSUME NEW b \in Manifest, NEW o \in Manifest, NEW e \in Deps, NEW d \in Deps,
           NEW t, t = b \/ t = WithUpdate(b, e),
           o.vers[d] = 1 \/ (d = e /\ t # b)
    PROVE  merge_trees(b, o, t).vers[d] = 1
  <1>1. merge_trees(b, o, t).vers[d] = Pick(b.vers[d], o.vers[d], t.vers[d])
    BY DEF merge_trees
  <1>2. b.vers[d] \in {0, 1} /\ o.vers[d] \in {0, 1}
    BY DEF Manifest
  <1>3. CASE t = b /\ o.vers[d] = 1
    BY <1>1, <1>2, <1>3 DEF Pick
  <1>4. CASE t = WithUpdate(b, e) /\ o.vers[d] = 1
    <2>1. t.vers[d] = 1 \/ t.vers[d] = b.vers[d]
      BY <1>4, WithUpdateType
    <2> QED
      BY <1>1, <1>2, <1>4, <2>1 DEF Pick
  <1>5. CASE t = WithUpdate(b, e) /\ d = e /\ t # b
    <2>1. b.vers[e] = 1 => WithUpdate(b, e) = b
      BY DEF WithUpdate, Manifest
    <2>2. t.vers[d] = 1
      BY <1>5, WithUpdateType
    <2> QED
      BY <1>1, <1>2, <1>5, <2>1, <2>2 DEF Pick
  <1> QED
    BY <1>3, <1>4, <1>5

LEMMA InitDepInv == DepInit => DepInv
  <1> SUFFICES ASSUME DepInit PROVE DepInv
    OBVIOUS
  <1> USE DEF DepInit
  <1>1. DepTypes
    BY OldManifestType DEF DepTypes, NoJob, Job
  <1>2. DepWork
    BY DEF DepWork, OwnUpdate, NoJob, NoBranch
  <1>3. MergedStays
    BY DEF MergedStays
  <1> QED
    BY <1>1, <1>2, <1>3 DEF DepInv

(* The steps of update_dependencies. *)
LEMMA DepUpdateStep ==
    ASSUME DepInv,
           UpdateOpens \/ ReadManifest \/ WriteManifest \/ RestoreManifest
           \/ UpdateSaves \/ UpdateDies
    PROVE  DepInv'
  <1> USE DEF mergeMarks
  <1>0. /\ main \in Manifest /\ manifest \in Manifest /\ branches \in [Deps -> Branch]
        /\ edits \in Nat /\ merged \subseteq Deps /\ job \in Job
        /\ OwnUpdate(branches)
    BY DEF DepInv, DepTypes, DepWork
  <1>1. CASE UpdateOpens
    <2>1. PICK U \in SUBSET Deps :
             job' = [NoJob EXCEPT !.pc = "next", !.todo = U, !.tip = main, !.copy = branches,
                                  !.clean = (manifest = main)]
      <3>1. \A U \in {Outdated} \cup {{d} : d \in Deps} : U \in SUBSET Deps
        BY DEF Outdated
      <3> QED
        BY <1>1, <3>1, Zenon DEF UpdateOpens
    <2>2. (manifest = main) \in BOOLEAN
      OBVIOUS
    <2>3. /\ job'.pc = "next" /\ job'.todo = U /\ job'.tip = main /\ job'.copy = branches
          /\ job'.clean = (manifest = main)
      BY <2>1 DEF NoJob
    <2>4. job' \in Job
      BY <1>0, <2>1, <2>2 DEF NoJob, Job
    <2>5. UNCHANGED <<main, branches, manifest, edits, merged, leaked>>
      BY <1>1 DEF UpdateOpens
    <2>6. job'.clean => manifest = main
      BY <2>3
    <2> QED
      BY <1>0, <2>3, <2>4, <2>5, <2>6 DEF DepInv, DepTypes, DepWork, OwnUpdate, MergedStays
  <1>2. CASE ReadManifest
    <2>1. PICK d \in job.todo :
             job' = [job EXCEPT !.todo = @ \ {d}, !.dep = d, !.text = WithUpdate(manifest, d),
                                !.pc = IF Made(job.copy, d) \/ WithUpdate(manifest, d) = manifest
                                         THEN "restore" ELSE "write"]
      BY <1>2 DEF ReadManifest
    <2>2. d \in Deps /\ WithUpdate(manifest, d) \in Manifest
      BY <1>0, WithUpdateType DEF Job
    <2>3. /\ job'.pc \in {"restore", "write"} /\ job'.dep = d /\ job'.tip = job.tip
          /\ job'.copy = job.copy /\ job'.text = WithUpdate(manifest, d)
          /\ job'.clean = job.clean
      BY <1>0, <2>1 DEF Job
    <2>4. job' \in Job
      BY <1>0, <2>1, <2>2 DEF Job
    <2>5. UNCHANGED <<main, branches, manifest, edits, merged, leaked>> /\ job.pc = "next"
      BY <1>2 DEF ReadManifest
    <2> QED
      BY <2>2, <2>3, <2>4, <2>5 DEF DepInv, DepTypes, DepWork, OwnUpdate, MergedStays
  <1>3. CASE WriteManifest
    <2>1. /\ job.pc = "write" /\ job.dep \in Deps /\ job.text \in Manifest
          /\ job.tip \in Manifest /\ job.copy \in [Deps -> Branch] /\ job.clean \in BOOLEAN
      BY <1>3 DEF WriteManifest, DepInv, DepTypes, Job
    <2>2. PICK tree \in {job.text, job.tip} :
             /\ job' = [job EXCEPT !.copy[job.dep] = Proposal(tree), !.pc = "restore"]
             /\ manifest' \in {manifest, job.text}
      BY <1>3 DEF WriteManifest
    <2>3. Proposal(tree) \in Branch
      BY <2>1 DEF Proposal, Branch
    <2>4. job'.copy = [job.copy EXCEPT ![job.dep] = Proposal(tree)]
      BY <1>0, <2>2 DEF Job
    <2>5. job'.pc = "restore" /\ job'.tip = job.tip /\ job' \in Job /\ job'.copy \in [Deps -> Branch]
      BY <1>0, <2>1, <2>2, <2>3, <2>4 DEF Job
    <2>6. OwnUpdate(job'.copy)
      <3> SUFFICES ASSUME NEW d \in Deps, job'.copy[d].made, job'.copy[d].clean
                   PROVE  \/ job'.copy[d].tree = job'.copy[d].base
                          \/ job'.copy[d].tree = WithUpdate(job'.copy[d].base, d)
        BY DEF OwnUpdate
      <3>1. CASE d # job.dep
        <4>1. job'.copy[d] = job.copy[d]
          BY <2>1, <2>4, <3>1
        <4> QED
          BY <2>1, <4>1 DEF DepInv, DepWork, OwnUpdate
      <3>2. CASE d = job.dep
        <4>1. job'.copy[d] = Proposal(tree)
          BY <2>1, <2>4, <3>2
        <4>2. job.clean => job.text = WithUpdate(job.tip, d)
          BY <2>1, <3>2 DEF DepInv, DepWork
        <4> QED
          BY <2>2, <4>1, <4>2 DEF Proposal
      <3> QED
        BY <3>1, <3>2
    <2>7. UNCHANGED <<main, branches, edits, merged, leaked>>
      BY <1>3 DEF WriteManifest
    <2> QED
      BY <1>0, <2>1, <2>2, <2>5, <2>6, <2>7 DEF DepInv, DepTypes, DepWork, OwnUpdate, MergedStays
  <1>4. CASE RestoreManifest
    <2>1. /\ job.pc = "restore" /\ manifest' = job.tip /\ job' = [job EXCEPT !.pc = "next"]
          /\ UNCHANGED <<main, branches, edits, merged, leaked>>
      BY <1>4 DEF RestoreManifest, Restored
    <2>2. /\ job' \in Job /\ job'.pc = "next" /\ job'.tip = job.tip /\ job'.copy = job.copy
      BY <1>0, <2>1 DEF Job
    <2> QED
      BY <2>1, <2>2 DEF DepInv, DepTypes, DepWork, OwnUpdate, MergedStays
  <1>5. CASE UpdateSaves
    <2>1. /\ job.pc = "next" /\ job' = NoJob
          /\ branches' \in {job.copy, branches}
          /\ UNCHANGED <<main, manifest, edits, merged, leaked>>
      BY <1>5 DEF UpdateSaves
    <2>2. NoJob \in Job /\ NoJob.pc = "idle"
      BY DEF NoJob, Job
    <2>3. OwnUpdate(branches') /\ branches' \in [Deps -> Branch]
      BY <1>0, <2>1 DEF DepInv, DepTypes, DepWork
    <2> QED
      BY <1>0, <2>1, <2>2, <2>3 DEF DepInv, DepTypes, DepWork, MergedStays
  <1>6. CASE UpdateDies
    <2>1. job' = NoJob /\ UNCHANGED <<main, branches, manifest, edits, merged, leaked>>
      BY <1>6 DEF UpdateDies
    <2>2. NoJob \in Job /\ NoJob.pc = "idle"
      BY DEF NoJob, Job
    <2> QED
      BY <1>0, <2>1, <2>2 DEF DepInv, DepTypes, DepWork, OwnUpdate, MergedStays
  <1> QED
    BY <1>1, <1>2, <1>3, <1>4, <1>5, <1>6

(* The steps of the proposals and of the user. *)
LEMMA ProposalStep ==
    ASSUME DepInv,
           \/ \E d \in Deps : MergeProposal(d) \/ DeleteProposal(d)
           \/ EditManifest \/ CheckOut \/ CommitManifest
    PROVE  DepInv'
  <1> USE DEF mergeMarks
  <1>0. /\ main \in Manifest /\ manifest \in Manifest /\ branches \in [Deps -> Branch]
        /\ edits \in Nat /\ merged \subseteq Deps /\ job \in Job
        /\ OwnUpdate(branches)
    BY DEF DepInv, DepTypes, DepWork
  <1>1. ASSUME NEW d \in Deps, MergeProposal(d) PROVE DepInv'
    <2> DEFINE p == branches[d]
    <2>1. /\ p.made /\ main' = merge_trees(p.base, main, p.tree)
          /\ merged' = IF p.tree = p.base THEN merged ELSE merged \cup {d}
          /\ UNCHANGED <<branches, manifest, job, edits>>
      BY <1>1 DEF MergeProposal, Made
    <2>2. leaked' <=> leaked \/ ~p.clean
      BY <1>1 DEF MergeProposal
    <2>3. p \in Branch /\ p.base \in Manifest /\ p.tree \in Manifest
      BY <1>0 DEF Branch
    <2>4. main' \in Manifest /\ merged' \subseteq Deps
      BY <1>0, <2>1, <2>3, MergeTreesType
    <2>5. ASSUME NEW e \in merged' PROVE main'.vers[e] = 1 \/ leaked'
      <3>1. CASE leaked \/ ~p.clean
        BY <2>2, <3>1
      <3>2. CASE ~leaked /\ p.clean
        <4>1. p.tree = p.base \/ p.tree = WithUpdate(p.base, d)
          BY <1>0, <2>1, <3>2 DEF OwnUpdate
        <4>2. main.vers[e] = 1 \/ (e = d /\ p.tree # p.base)
          BY <2>1, <3>2 DEF DepInv, MergedStays
        <4>3. e \in Deps
          BY <2>4
        <4> HIDE DEF p
        <4> QED
          BY <1>0, <2>1, <2>3, <4>1, <4>2, <4>3, MergeKeepsUpdates
      <3> QED
        BY <3>1, <3>2
    <2> QED
      BY <2>1, <2>4, <2>5 DEF DepInv, DepTypes, DepWork, OwnUpdate, MergedStays
  <1>2. ASSUME NEW d \in Deps, DeleteProposal(d) PROVE DepInv'
    <2>1. /\ branches' = [branches EXCEPT ![d] = NoBranch]
          /\ UNCHANGED <<main, manifest, job, edits, merged, leaked>>
      BY <1>2 DEF DeleteProposal
    <2>2. branches' \in [Deps -> Branch] /\ OwnUpdate(branches')
      BY <1>0, <2>1, OldManifestType DEF OwnUpdate, NoBranch
    <2> QED
      BY <2>1, <2>2 DEF DepInv, DepTypes, DepWork, OwnUpdate, MergedStays
  <1>3. ASSUME manifest' \in Manifest, edits' \in Nat,
               job' = [job EXCEPT !.clean = (job.pc = "idle")],
               UNCHANGED <<main, branches, merged, leaked>>
        PROVE  DepInv'
    <2>1. (job.pc = "idle") \in BOOLEAN
      OBVIOUS
    <2>2. /\ job' \in Job
          /\ job'.pc = job.pc /\ job'.tip = job.tip /\ job'.copy = job.copy
          /\ job'.dep = job.dep /\ job'.text = job.text
          /\ job'.clean = (job.pc = "idle")
      BY <1>0, <1>3, <2>1 DEF Job
    <2>3. job'.clean => job.pc = "idle"
      BY <2>2
    <2> QED
      BY <1>3, <2>2, <2>3 DEF DepInv, DepTypes, DepWork, OwnUpdate, MergedStays
  <1>4. CASE EditManifest
    <2>1. manifest' \in Manifest /\ edits' \in Nat
      BY <1>0, <1>4 DEF EditManifest, Manifest
    <2> QED
      BY <1>3, <1>4, <2>1 DEF EditManifest
  <1>5. CASE CheckOut
    BY <1>0, <1>3, <1>5 DEF CheckOut
  <1>6. CASE CommitManifest
    <2>1. /\ main' = manifest /\ edits' \in Nat
          /\ merged' = {d \in merged : manifest.vers[d] = 1}
          /\ UNCHANGED <<branches, manifest, job, leaked>>
      BY <1>0, <1>6 DEF CommitManifest
    <2> QED
      BY <1>0, <2>1 DEF DepInv, DepTypes, DepWork, OwnUpdate, MergedStays
  <1> QED
    BY <1>1, <1>2, <1>4, <1>5, <1>6

(* Proposals hold their own update and merged ones stay, in every state:   *)
(* the manifest an update starts from is the tip's, whichever updates were *)
(* made before, and merging a clean proposal lowers no version.            *)
THEOREM DepUpdatesSafe == DepSpec => []ProposalsSafe
  <1>1. DepInv /\ [DepNext]_depVars => DepInv'
    <2>1. ASSUME DepInv, DepNext PROVE DepInv'
      BY <2>1, DepUpdateStep, ProposalStep DEF DepNext
    <2>2. ASSUME DepInv, UNCHANGED depVars PROVE DepInv'
      BY <2>2 DEF DepInv, DepTypes, DepWork, OwnUpdate, MergedStays, depVars, mergeMarks
    <2> QED
      BY <2>1, <2>2
  <1>2. DepInv => ProposalsSafe
    BY DEF DepInv, DepWork, OwnUpdate, ProposalsSafe, OneUpdateEach, Made
  <1> QED
    BY InitDepInv, <1>1, <1>2, PTL DEF DepSpec

(***************************************************************************)
(* The schedule                                                            *)
(***************************************************************************)

(* How minutes go with instants. *)
LEMMA Product ==
    ASSUME NEW n \in Nat, NEW a \in Nat, NEW b \in Nat, a <= b
    PROVE  n * a <= n * b
  <1>1. PICK c \in Nat : b = a + c
    BY b - a \in Nat, b = a + (b - a)
  <1>2. n * b = n * a + n * c
    BY <1>1
  <1>3. n * c \in Nat /\ n * a \in Nat
    OBVIOUS
  <1> QED
    BY <1>2, <1>3

LEMMA MinuteBounds ==
    ASSUME NEW t \in Nat
    PROVE  /\ MinuteOf(t) \in Nat
           /\ MinuteLen * MinuteOf(t) <= t
           /\ t < MinuteLen * (MinuteOf(t) + 1)
  BY SchedulerAssumptions DEF MinuteOf

LEMMA MinuteMonotone ==
    ASSUME NEW t \in Nat, NEW u \in Nat, t <= u
    PROVE  MinuteOf(t) <= MinuteOf(u)
  <1> DEFINE a == MinuteOf(t)
             b == MinuteOf(u)
  <1>1. a \in Nat /\ b \in Nat /\ MinuteLen * a <= t /\ u < MinuteLen * (b + 1)
    BY MinuteBounds
  <1> HIDE DEF a, b
  <1>2. b + 1 <= a => MinuteLen * (b + 1) <= MinuteLen * a
    BY <1>1, Product, SchedulerAssumptions
  <1>3. MinuteLen * a \in Nat /\ MinuteLen * (b + 1) \in Nat
    BY <1>1, SchedulerAssumptions
  <1> QED
    BY <1>1, <1>2, <1>3 DEF a, b

LEMMA NextMinute ==
    ASSUME NEW t \in Nat
    PROVE  MinuteOf(t + MinuteLen) = MinuteOf(t) + 1
  BY SchedulerAssumptions DEF MinuteOf

LEMMA FirstMinute ==
    ASSUME NEW t \in 0..(MinuteLen - 1)
    PROVE  MinuteOf(t) = 0
  BY SchedulerAssumptions DEF MinuteOf

(* Whatever ran did so in a minute that has come and that the next tick is *)
(* not for, and the ticks go through the minutes one by one.               *)
SchedulerTypes ==
    /\ instant \in Nat /\ MinuteOf(instant) \in Minutes
    /\ starts \in Nat \ {0} /\ due \in Nat
    /\ ran \in [Scheduled -> [Minutes -> Nat]]

RanOnce ==
    \A a \in Scheduled, m \in Minutes :
        /\ ran[a][m] > 1 => m \in crowded
        /\ ran[a][m] > 0 => /\ ShouldRun(m) /\ m <= MinuteOf(instant)
                            /\ m < MinuteOf(due) \/ m \in crowded

NoneMissed ==
    starts = 1 =>
        \A a \in Scheduled, m \in Minutes :
            ShouldRun(m) /\ 0 < m /\ m < MinuteOf(due) =>
                ran[a][m] > 0 \/ m \in slipped

SchedulerInv == SchedulerTypes /\ RanOnce /\ NoneMissed

LEMMA InitSchedulerInv == SchedulerInit => SchedulerInv
  <1> SUFFICES ASSUME SchedulerInit PROVE SchedulerInv
    OBVIOUS
  <1>1. instant \in 0..(MinuteLen - 1) /\ instant \in Nat /\ due = instant + MinuteLen
    BY SchedulerAssumptions DEF SchedulerInit, FirstDue
  <1>2. MinuteOf(instant) = 0 /\ MinuteOf(due) = 1
    BY <1>1, FirstMinute, NextMinute
  <1>3. MinuteOf(MaxInstant) \in Nat
    BY MinuteBounds, SchedulerAssumptions
  <1>4. SchedulerTypes
    <2>1. due \in Nat
      BY <1>1, SchedulerAssumptions
    <2>2. MinuteOf(instant) \in Minutes
      BY <1>2, <1>3 DEF Minutes
    <2>3. ran \in [Scheduled -> [Minutes -> Nat]]
      BY DEF SchedulerInit
    <2> QED
      BY <1>1, <2>1, <2>2, <2>3 DEF SchedulerTypes, SchedulerInit
  <1>5. \A a \in Scheduled, m \in Minutes : ran[a][m] = 0
    BY DEF SchedulerInit
  <1>6. RanOnce
    BY <1>5 DEF RanOnce
  <1>7. NoneMissed
    BY <1>2 DEF NoneMissed, Minutes
  <1> QED
    BY <1>4, <1>6, <1>7 DEF SchedulerInv

(* A tick is served in its own minute or a later one. *)
LEMMA ServeTickStep ==
    ASSUME SchedulerInv, ServeTick
    PROVE  SchedulerInv'
  <1> DEFINE m == MinuteOf(instant)
             k == MinuteOf(due)
  <1>1. /\ instant \in Nat /\ due \in Nat /\ instant >= due /\ starts \in Nat \ {0}
        /\ ran \in [Scheduled -> [Minutes -> Nat]]
        /\ UNCHANGED <<instant, starts>> /\ due' = due + MinuteLen
    BY DEF SchedulerInv, SchedulerTypes, ServeTick
  <1>2. /\ m \in Nat /\ m \in Minutes /\ k \in Nat /\ k <= m
        /\ MinuteOf(due') = k + 1 /\ MinuteOf(instant') = m
    BY <1>1, MinuteBounds, MinuteMonotone, NextMinute DEF SchedulerInv, SchedulerTypes
  <1>3. /\ ran' = IF ShouldRun(m) THEN [a \in Scheduled |-> [ran[a] EXCEPT ![m] = @ + 1]]
                                  ELSE ran
        /\ slipped' = IF k < m THEN slipped \cup {k} ELSE slipped
        /\ crowded' = IF k < m THEN crowded \cup {m} ELSE crowded
    BY DEF ServeTick
  <1> HIDE DEF m, k
  <1>4. \A a \in Scheduled, l \in Minutes :
            /\ ran[a][l] \in Nat
            /\ ran'[a][l] = IF ShouldRun(m) /\ l = m THEN ran[a][l] + 1 ELSE ran[a][l]
    BY <1>1, <1>3
  <1>5. SchedulerTypes'
    <2>1. ran' \in [Scheduled -> [Minutes -> Nat]]
      BY <1>1, <1>2, <1>3
    <2>2. due' \in Nat /\ MinuteOf(instant') \in Minutes /\ instant' \in Nat
      BY <1>1, <1>2, SchedulerAssumptions
    <2> QED
      BY <1>1, <2>1, <2>2 DEF SchedulerTypes, Minutes
  <1>6. RanOnce'
    <2> SUFFICES ASSUME NEW a \in Scheduled, NEW l \in Minutes
                 PROVE  /\ ran'[a][l] > 1 => l \in crowded'
                        /\ ran'[a][l] > 0 => /\ ShouldRun(l) /\ l <= m
                                             /\ l < k + 1 \/ l \in crowded'
      BY <1>2 DEF RanOnce, ShouldRun, schedule_matches, Minutes
    <2>1. /\ l \in Nat
          /\ ran[a][l] > 1 => l \in crowded
          /\ ran[a][l] > 0 => ShouldRun(l) /\ l <= m /\ (l < k \/ l \in crowded)
      BY DEF SchedulerInv, RanOnce, Minutes, m, k
    <2>2. CASE ShouldRun(m) /\ l = m
      BY <1>2, <1>3, <1>4, <2>1, <2>2
    <2>3. CASE ~(ShouldRun(m) /\ l = m)
      <3>1. ran'[a][l] = ran[a][l] /\ ran[a][l] \in Nat
        BY <1>4, <2>3
      <3>2. \A x : x \in crowded => x \in crowded'
        BY <1>3
      <3> QED
        BY <1>2, <2>1, <3>1, <3>2
    <2> QED
      BY <2>2, <2>3
  <1>7. NoneMissed'
    <2> SUFFICES ASSUME starts = 1, NEW a \in Scheduled, NEW l \in Minutes,
                        ShouldRun(l), 0 < l, l < k + 1
                 PROVE  ran'[a][l] > 0 \/ l \in slipped'
      BY <1>1, <1>2 DEF NoneMissed, ShouldRun, schedule_matches, Minutes
    <2>1. CASE l < k
      <3>1. ran[a][l] > 0 \/ l \in slipped
        BY <2>1 DEF SchedulerInv, NoneMissed, k
      <3> QED
        BY <1>3, <1>4, <3>1
    <2>2. CASE l = k /\ k < m
      BY <1>3, <2>2
    <2>3. CASE l = k /\ k = m
      BY <1>4, <2>3
    <2> QED
      BY <1>2, <2>1, <2>2, <2>3 DEF Minutes
  <1> QED
    BY <1>5, <1>6, <1>7 DEF SchedulerInv

(* After a restart the first tick is for the next minute; time only        *)
(* brings minutes.                                                         *)
LEMMA OtherSchedulerStep ==
    ASSUME SchedulerInv, RunEnded \/ Restart \/ TimePasses
    PROVE  SchedulerInv'
  <1>1. /\ instant \in Nat /\ due \in Nat /\ starts \in Nat \ {0}
        /\ MinuteOf(instant) \in Minutes /\ MinuteOf(instant) \in Nat
        /\ \A a \in Scheduled, m \in Minutes : ran[a][m] \in Nat
    BY MinuteBounds DEF SchedulerInv, SchedulerTypes
  <1>2. Minutes' = Minutes /\ Minutes \subseteq Nat /\ \A m : ShouldRun(m)' = ShouldRun(m)
    BY DEF Minutes, ShouldRun, schedule_matches
  <1>3. CASE RunEnded
    BY <1>3 DEF RunEnded, SchedulerInv, SchedulerTypes, RanOnce, NoneMissed, MinuteOf, Minutes,
                ShouldRun, schedule_matches
  <1>4. CASE Restart
    <2>1. /\ starts' = starts + 1 /\ due' = instant + MinuteLen
          /\ UNCHANGED <<instant, ran, slipped, crowded>>
      BY <1>4 DEF Restart, FirstDue
    <2>2. MinuteOf(due') = MinuteOf(instant) + 1 /\ MinuteOf(instant') = MinuteOf(instant)
      BY <1>1, <2>1, NextMinute
    <2>3. due' \in Nat /\ starts' # 1
      BY <1>1, <2>1, SchedulerAssumptions
    <2>4. SchedulerTypes'
      BY <1>1, <1>2, <2>1, <2>2, <2>3 DEF SchedulerInv, SchedulerTypes
    <2>5. RanOnce'
      BY <1>1, <1>2, <2>1, <2>2 DEF SchedulerInv, RanOnce
    <2>6. NoneMissed'
      BY <2>3 DEF NoneMissed
    <2> QED
      BY <2>4, <2>5, <2>6 DEF SchedulerInv
  <1>5. CASE TimePasses
    <2>1. /\ instant < MaxInstant /\ instant' = instant + 1
          /\ UNCHANGED <<starts, due, ran, slipped, crowded>>
      BY <1>5 DEF TimePasses
    <2>2. instant' \in Nat /\ instant' <= MaxInstant /\ MaxInstant \in Nat
      BY <1>1, <2>1, SchedulerAssumptions
    <2>3. MinuteOf(instant') \in Minutes /\ MinuteOf(instant) <= MinuteOf(instant')
          /\ MinuteOf(instant') \in Nat
      BY <1>1, <2>1, <2>2, MinuteMonotone, MinuteBounds DEF Minutes
    <2>4. MinuteOf(due') = MinuteOf(due)
      BY <2>1
    <2>5. SchedulerTypes'
      BY <1>1, <1>2, <2>1, <2>2, <2>3 DEF SchedulerInv, SchedulerTypes
    <2>6. RanOnce'
      BY <1>1, <1>2, <2>1, <2>3, <2>4 DEF SchedulerInv, RanOnce
    <2>7. NoneMissed'
      BY <1>2, <2>1, <2>4 DEF SchedulerInv, NoneMissed
    <2> QED
      BY <2>5, <2>6, <2>7 DEF SchedulerInv
  <1> QED
    BY <1>3, <1>4, <1>5

(* The schedule is kept in every state: no minute is served twice or left  *)
(* out unless a tick came late, and restarts repeat none.                  *)
THEOREM SchedulerSafe == SchedulerSpec => []ScheduleKept
  <1>1. SchedulerInv /\ [SchedulerNext]_schedulerVars => SchedulerInv'
    <2>1. ASSUME SchedulerInv, SchedulerNext PROVE SchedulerInv'
      BY <2>1, ServeTickStep, OtherSchedulerStep DEF SchedulerNext
    <2>2. ASSUME SchedulerInv, UNCHANGED schedulerVars PROVE SchedulerInv'
      BY <2>2 DEF SchedulerInv, SchedulerTypes, RanOnce, NoneMissed, MinuteOf, Minutes,
                  ShouldRun, schedule_matches, schedulerVars
    <2> QED
      BY <2>1, <2>2
  <1>2. SchedulerInv => ScheduleKept
    <2> SUFFICES ASSUME SchedulerInv, NEW a \in Scheduled, NEW m \in Minutes
                 PROVE  /\ ran[a][m] > 1 => m \in crowded
                        /\ ran[a][m] > 0 => ShouldRun(m)
                        /\ schedule_matches(Sched[a], m) /\ m > 0 /\ starts = 1
                             => ran[a][m] > 0 \/ m \in slipped \/ MinuteOf(due) <= m
      BY DEF ScheduleKept
    <2>1. MinuteOf(due) \in Nat /\ m \in Nat
      <3>1. due \in Nat
        BY DEF SchedulerInv, SchedulerTypes
      <3> QED
        BY <3>1, MinuteBounds DEF Minutes
    <2>2. schedule_matches(Sched[a], m) => ShouldRun(m)
      BY DEF ShouldRun
    <2> QED
      BY <2>1, <2>2 DEF SchedulerInv, RanOnce, NoneMissed
  <1> QED
    BY InitSchedulerInv, <1>1, <1>2, PTL DEF SchedulerSpec

(***************************************************************************)
(* The files under .ovc                                                    *)
(***************************************************************************)

File == [st : {"none", "whole", "torn", "cut"}, enc : Nat, items : SUBSET Items]
Run  == [id : Nat \ {0}, whole : BOOLEAN]
Writer ==
    [pc : {"idle", "loaded", "torn", "ended"}, file : Files,
     op : {"list", "put", "remove", "replace", "init"}, item : Items \cup {0},
     new : File, stale : BOOLEAN, cut : BOOLEAN]

Updating(w) == writer[w].op \in {"put", "remove"}

(* With what a writer is going to write, or has begun to, the file will    *)
(* have what it should.                                                    *)
Fits(w) ==
    LET f == writer[w].file IN
        /\ writer[w].op = "put" => acked[f] \cup {writer[w].item} \subseteq writer[w].new.items
        /\ writer[w].op = "remove" => acked[f] \ {writer[w].item} \subseteq writer[w].new.items

FilesTypes ==
    /\ disk \in [Files -> File] /\ writer \in [Writers -> Writer]
    /\ acked \in [Files -> SUBSET Items] /\ mixed \in [Files -> BOOLEAN]
    /\ \A w \in Writers : writer[w].pc \in {"loaded", "torn"} =>
          writer[w].new.st = "whole" /\ writer[w].item \in Items
    /\ runs \in Seq(Run) /\ record \in Nat

(* Only a configuration can be read that is not whole. *)
CutIsConfig ==
    /\ cutBack \in BOOLEAN
    /\ \A f \in Files : disk[f].st = "cut" => f = "config"
    /\ \A w \in Writers : writer[w].cut => writer[w].file = "config"

(* Unless two writers have mixed, or a configuration that was cut short    *)
(* was written back, a file that is being written is not whole, and        *)
(* whoever loaded it before knows nothing of it.                           *)
Written(f) ==
    mixed[f] \/ (f = "config" /\ cutBack) \/
        /\ disk[f].st = "none" => acked[f] = {}
        /\ disk[f].st = "whole" => acked[f] \subseteq disk[f].items
        /\ \A v \in Writers : writer[v].pc = "torn" /\ writer[v].file = f =>
              /\ disk[f].st \in {"torn", "cut"} /\ Fits(v)
              /\ \A w \in Writers : writer[w].file = f =>
                    /\ writer[w].pc = "torn" => w = v
                    /\ writer[w].pc = "loaded" /\ Updating(w) => writer[w].stale \/ writer[w].cut
        /\ \A w \in Writers :
              writer[w].pc = "loaded" /\ writer[w].file = f => writer[w].stale \/ writer[w].cut
                                                                 \/ Fits(w)

(* A record that is not whole is being written, is going to be removed, or *)
(* its writer died; and no two have the same name.                         *)
Recorded ==
    /\ \A j, k \in 1..Len(runs) : runs[j].id = runs[k].id => j = k
    /\ \A k \in 1..Len(runs) :
          ~runs[k].whole => runs[k].id = record \/ died \/ runs[k].id \in sweep

FilesInv == FilesTypes /\ CutIsConfig /\ (\A f \in Files : Written(f)) /\ Recorded

(* Removing an element of a sequence moves the later ones up. *)
LEMMA RemovedElement ==
    ASSUME NEW S, NEW s \in Seq(S), NEW k \in 1..Len(s)
    PROVE  /\ Without(s, k) \in Seq(S) /\ Len(Without(s, k)) = Len(s) - 1
           /\ \A i \in 1..(Len(s) - 1) :
                  Without(s, k)[i] = IF i < k THEN s[i] ELSE s[i + 1]
  <1> DEFINE a == SubSeq(s, 1, k - 1)
             b == SubSeq(s, k + 1, Len(s))
             t == Without(s, k)
  <1>1. Len(s) \in Nat /\ k \in Nat /\ \A i \in 1..Len(s) : s[i] \in S
    OBVIOUS
  <1>2. /\ a \in Seq(S) /\ Len(a) = k - 1
        /\ \A i \in 1..(k - 1) : a[i] = s[i]
    <2>1. \A i \in 1..(k - 1) : s[i] \in S
      BY <1>1
    <2>2. /\ a \in Seq(S)
          /\ Len(a) = IF 1 <= k - 1 THEN k - 1 - 1 + 1 ELSE 0
          /\ \A i \in 1..(k - 1 - 1 + 1) : a[i] = s[1 + i - 1]
      BY <1>1, <2>1, SubSeqProperties
    <2> QED
      BY <1>1, <2>2
  <1>3. /\ b \in Seq(S) /\ Len(b) = Len(s) - k
        /\ \A i \in 1..(Len(s) - k) : b[i] = s[k + i]
    <2>1. \A i \in (k + 1)..Len(s) : s[i] \in S
      BY <1>1
    <2>2. /\ b \in Seq(S)
          /\ Len(b) = IF k + 1 <= Len(s) THEN Len(s) - (k + 1) + 1 ELSE 0
          /\ \A i \in 1..(Len(s) - (k + 1) + 1) : b[i] = s[k + 1 + i - 1]
      BY <1>1, <2>1, SubSeqProperties
    <2> QED
      BY <1>1, <2>2
  <1>4. /\ t \in Seq(S) /\ Len(t) = Len(a) + Len(b)
        /\ \A i \in 1..(Len(a) + Len(b)) : t[i] = IF i <= Len(a) THEN a[i] ELSE b[i - Len(a)]
    BY <1>2, <1>3, ConcatProperties DEF Without
  <1> DEFINE n == Len(s)
  <1>5. /\ n \in Nat /\ k \in Nat /\ 1 <= k /\ k <= n
        /\ Len(a) = k - 1 /\ Len(b) = n - k /\ Len(t) = Len(a) + Len(b)
    BY <1>1, <1>2, <1>3, <1>4
  <1> HIDE DEF a, b, n, t
  <1>6. Len(t) = n - 1
    BY <1>5
  <1>7. ASSUME NEW i \in 1..Len(t) PROVE t[i] = IF i < k THEN s[i] ELSE s[i + 1]
    <2>1. i \in Nat /\ 1 <= i /\ i <= n - 1
      BY <1>5, <1>6
    <2>2. CASE i < k
      <3>1. i <= Len(a) /\ i \in 1..(k - 1) /\ i \in 1..(Len(a) + Len(b))
        BY <1>5, <2>1, <2>2
      <3> QED
        BY <1>2, <1>4, <2>2, <3>1
    <2>3. CASE ~(i < k)
      <3> DEFINE j == i - Len(a)
      <3>1. /\ ~(i <= Len(a)) /\ i \in 1..(Len(a) + Len(b))
            /\ j \in 1..(n - k) /\ k + j = i + 1
        BY <1>5, <2>1, <2>3
      <3>2. t[i] = b[j]
        BY <1>4, <3>1
      <3> HIDE DEF j
      <3>3. b[j] = s[k + j]
        BY <1>3, <3>1 DEF n
      <3> QED
        BY <2>3, <3>1, <3>2, <3>3
    <2> QED
      BY <2>2, <2>3
  <1> QED
    BY <1>4, <1>6, <1>7 DEF n, t

LEMMA ChangedType ==
    ASSUME FilesTypes, NEW w \in Writers, NEW f \in Files, NEW op \in Ops(f), NEW i \in Items
    PROVE  /\ Changed(w, f, op, i) \in File
           /\ Changed(w, f, op, i).st = "whole"
           /\ op \in {"put", "remove", "replace", "init"}
  <1>1. Loaded(w, f) \in SUBSET Items
    BY DEF Loaded, FilesTypes, File
  <1>2. SavedWith(w, f) \in Nat
    BY ActionFilesAssumptions DEF SavedWith
  <1>3. op \in {"put", "remove", "replace", "init"}
    BY DEF Ops
  <1> QED
    BY <1>1, <1>2, <1>3 DEF Changed, File

LEMMA InitFilesInv == FilesInit => FilesInv
  <1> SUFFICES ASSUME FilesInit PROVE FilesInv
    OBVIOUS
  <1>1. disk \in [Files -> File] /\ \A f \in Files : disk[f].items \in SUBSET Items
    BY DEF FilesInit, Missing, File
  <1>2. FilesTypes
    <2>1. writer \in [Writers -> Writer]
      BY DEF FilesInit, Quiet, Missing, File, Writer, Files
    <2>2. acked \in [Files -> SUBSET Items] /\ mixed \in [Files -> BOOLEAN]
      BY <1>1 DEF FilesInit
    <2>3. runs \in Seq(Run) /\ record \in Nat
      BY DEF FilesInit
    <2>4. \A w \in Writers : writer[w].pc = "idle"
      BY DEF FilesInit, Quiet
    <2> QED
      BY <1>1, <2>1, <2>2, <2>3, <2>4 DEF FilesTypes
  <1>3. ASSUME NEW f \in Files PROVE Written(f)
    <2>1. acked[f] = disk[f].items /\ \A w \in Writers : writer[w].pc = "idle"
      BY DEF FilesInit, Quiet
    <2>2. disk[f].st = "none" => disk[f].items = {}
      BY DEF FilesInit, Missing
    <2> QED
      BY <2>1, <2>2 DEF Written
  <1>4. Recorded
    BY DEF FilesInit, Recorded
  <1>5. CutIsConfig
    <2>1. \A f \in Files : disk[f].st # "cut"
      BY DEF FilesInit, Missing
    <2>2. cutBack = FALSE /\ \A w \in Writers : writer[w].cut = FALSE
      BY DEF FilesInit, Quiet
    <2> QED
      BY <2>1, <2>2 DEF CutIsConfig
  <1> QED
    BY <1>2, <1>3, <1>4, <1>5 DEF FilesInv

(* What a command that goes on to write loaded is all that the file should *)
(* have, and nobody is writing.                                            *)
LEMMA LoadStep ==
    ASSUME FilesTypes, CutIsConfig, \A f \in Files : Written(f), NEW w \in Writers, Load(w)
    PROVE  FilesTypes' /\ CutIsConfig' /\ \A f \in Files : Written(f)'
  <1>1. /\ disk \in [Files -> File] /\ writer \in [Writers -> Writer]
        /\ acked \in [Files -> SUBSET Items] /\ mixed \in [Files -> BOOLEAN]
        /\ UNCHANGED <<disk, acked, mixed, cutBack, runs, record>> /\ writer[w].pc = "idle"
    BY DEF FilesTypes, Load, historyVars
  <1>2. PICK f \in Files, i \in Items, force \in BOOLEAN : \E op \in Ops(f) :
           writer' = [writer EXCEPT ![w] =
              IF MayChange(w, f, op, i, force)
                THEN [pc |-> "loaded", file |-> f, op |-> op, item |-> i,
                      new |-> Changed(w, f, op, i), stale |-> FALSE,
                      cut |-> disk[f].st = "cut" /\ op \in {"put", "remove"}]
                ELSE [@ EXCEPT !.pc = "ended"]]
    BY DEF Load
  <1>3. PICK op \in Ops(f) :
           writer' = [writer EXCEPT ![w] =
              IF MayChange(w, f, op, i, force)
                THEN [pc |-> "loaded", file |-> f, op |-> op, item |-> i,
                      new |-> Changed(w, f, op, i), stale |-> FALSE,
                      cut |-> disk[f].st = "cut" /\ op \in {"put", "remove"}]
                ELSE [@ EXCEPT !.pc = "ended"]]
    BY <1>2
  <1>4. CASE ~MayChange(w, f, op, i, force)
    <2>1. writer' = [writer EXCEPT ![w] = [writer[w] EXCEPT !.pc = "ended"]]
      BY <1>3, <1>4
    <2>2. writer' \in [Writers -> Writer]
      BY <1>1, <2>1 DEF Writer
    <2>3. writer'[w].pc = "ended" /\ \A v \in Writers \ {w} : writer'[v] = writer[v]
      BY <1>1, <2>1 DEF Writer
    <2>4. FilesTypes'
      BY <1>1, <2>2, <2>3 DEF FilesTypes
    <2>5. ASSUME NEW g \in Files PROVE Written(g)'
      BY <1>1, <2>3 DEF Written, Fits, Updating
    <2>6. CutIsConfig'
      BY <1>1, <2>1, <2>3 DEF CutIsConfig, Writer
    <2> QED
      BY <2>4, <2>5, <2>6
  <1>5. CASE MayChange(w, f, op, i, force)
    <2> DEFINE new == Changed(w, f, op, i)
               cut == disk[f].st = "cut" /\ op \in {"put", "remove"}
               r == [pc |-> "loaded", file |-> f, op |-> op, item |-> i, new |-> new,
                     stale |-> FALSE, cut |-> cut]
    <2>1. new \in File /\ new.st = "whole" /\ op \in {"put", "remove", "replace", "init"}
      BY ChangedType
    <2>2. writer' = [writer EXCEPT ![w] = r]
      BY <1>3, <1>5
    <2>3. op \in {"put", "remove"} => Readable(w, f)
      BY <1>5 DEF MayChange
    <2>4. Readable(w, f) => /\ disk[f].st \in {"none", "whole", "cut"}
                            /\ op = "put" => new.items = disk[f].items \cup {i}
                            /\ op = "remove" => new.items = disk[f].items \ {i}
      BY DEF Readable, Changed, Loaded
    <2> HIDE DEF new
    <2>10. cut \in BOOLEAN /\ (cut => f = "config")
      BY DEF CutIsConfig
    <2>5. r \in Writer
      BY <2>1 DEF Writer
    <2>6. /\ writer' \in [Writers -> Writer] /\ writer'[w] = r
          /\ \A v \in Writers \ {w} : writer'[v] = writer[v]
      BY <1>1, <2>2, <2>5
    <2>7. FilesTypes' /\ CutIsConfig'
      <3>1. FilesTypes'
        BY <1>1, <2>1, <2>6 DEF FilesTypes
      <3>2. CutIsConfig'
        <4>1. writer'[w].cut = cut /\ writer'[w].file = f
          BY <2>6
        <4> HIDE DEF cut, r
        <4> QED
          BY <1>1, <2>6, <2>10, <4>1 DEF CutIsConfig
      <3> QED
        BY <3>1, <3>2
    <2>8. ASSUME NEW g \in Files, g # f PROVE Written(g)'
      BY <1>1, <2>6, <2>8 DEF Written, Fits, Updating
    <2>9. Written(f)'
      <3> SUFFICES ASSUME ~mixed[f], ~(f = "config" /\ cutBack) PROVE Written(f)'
        BY <1>1 DEF Written
      <3>1. op \in {"put", "remove"} /\ ~cut =>
               /\ acked[f] \subseteq disk[f].items
               /\ \A v \in Writers : ~(writer[v].pc = "torn" /\ writer[v].file = f)
        BY <2>3, <2>4 DEF Written
      <3>2. ~cut => Fits(w)'
        BY <1>1, <2>3, <2>4, <2>6, <3>1 DEF Fits
      <3>3. Updating(w)' => op \in {"put", "remove"}
        BY <2>6 DEF Updating
      <3>4. ASSUME NEW v \in Writers \ {w}
            PROVE  (Fits(v)' <=> Fits(v)) /\ (Updating(v)' <=> Updating(v))
        BY <1>1, <2>6 DEF Fits, Updating
      <3> HIDE DEF cut
      <3>5. writer'[w].cut = cut /\ writer'[w].pc = "loaded" /\ writer'[w].file = f
        BY <2>6
      <3> QED
        BY <1>1, <2>6, <3>1, <3>2, <3>3, <3>4, <3>5 DEF Written
    <2> QED
      BY <2>7, <2>8, <2>9
  <1> QED
    BY <1>4, <1>5

(* The writer that tears the file is the only one, and tells the others.   *)
LEMMA TruncateStep ==
    ASSUME FilesTypes, CutIsConfig, \A f \in Files : Written(f), NEW w \in Writers, Truncate(w)
    PROVE  FilesTypes' /\ CutIsConfig' /\ \A f \in Files : Written(f)'
  <1> DEFINE f == writer[w].file
  <1>1. /\ disk \in [Files -> File] /\ writer \in [Writers -> Writer]
        /\ acked \in [Files -> SUBSET Items] /\ mixed \in [Files -> BOOLEAN]
        /\ UNCHANGED <<acked, runs, record>> /\ writer[w].pc = "loaded"
        /\ f \in Files
    BY DEF FilesTypes, Truncate, historyVars, Writer
  <1>16. PICK begun \in Begun(f, writer[w].new) : disk' = [disk EXCEPT ![f] = begun]
    BY DEF Truncate
  <1>13. begun \in File /\ begun.st \in {"torn", "cut"} /\ (begun.st = "cut" => f = "config")
    BY <1>1 DEF Begun, File, Writer
  <1>2. writer' = [v \in Writers |->
              IF v = w THEN [writer[w] EXCEPT !.pc = "torn"]
              ELSE IF writer[v].file = f THEN [writer[v] EXCEPT !.stale = TRUE]
              ELSE writer[v]]
    BY DEF Truncate
  <1>17. cutBack' = (cutBack \/ writer[w].cut)
    BY DEF Truncate
  <1>3. mixed' = [mixed EXCEPT ![f] =
            @ \/ writer[w].stale \/ \E v \in Writers \ {w} :
                      writer[v].pc = "torn" /\ writer[v].file = f]
    BY DEF Truncate
  <1>4. /\ writer' \in [Writers -> Writer]
        /\ \A v \in Writers : /\ writer'[v].file = writer[v].file /\ writer'[v].op = writer[v].op
                              /\ writer'[v].item = writer[v].item /\ writer'[v].new = writer[v].new
                              /\ writer'[v].cut = writer[v].cut
                              /\ v # w => writer'[v].pc = writer[v].pc
                              /\ v # w /\ writer[v].file = f => writer'[v].stale
                              /\ writer[v].file # f => writer'[v] = writer[v]
        /\ writer'[w].pc = "torn"
    <2>1. ASSUME NEW v \in Writers
          PROVE  /\ writer'[v] \in Writer
                 /\ writer'[v].file = writer[v].file /\ writer'[v].op = writer[v].op
                 /\ writer'[v].item = writer[v].item /\ writer'[v].new = writer[v].new
                 /\ writer'[v].cut = writer[v].cut
                 /\ IF v = w THEN writer'[v].pc = "torn" ELSE writer'[v].pc = writer[v].pc
                 /\ v # w /\ writer[v].file = f => writer'[v].stale
                 /\ writer[v].file # f => writer'[v] = writer[v]
      <3>1. CASE v = w
        <4>1. writer'[v] = [writer[v] EXCEPT !.pc = "torn"]
          BY <1>2, <3>1
        <4> QED
          BY <1>1, <3>1, <4>1 DEF Writer
      <3>2. CASE v # w /\ writer[v].file = f
        <4>1. writer'[v] = [writer[v] EXCEPT !.stale = TRUE]
          BY <1>2, <3>2
        <4>2. writer[v] \in Writer
          BY <1>1
        <4>3. /\ writer'[v] \in Writer /\ writer'[v].stale
              /\ writer'[v].file = writer[v].file /\ writer'[v].op = writer[v].op
              /\ writer'[v].item = writer[v].item /\ writer'[v].new = writer[v].new
              /\ writer'[v].cut = writer[v].cut /\ writer'[v].pc = writer[v].pc
          BY <4>1, <4>2 DEF Writer
        <4> QED
          BY <3>2, <4>3
      <3>3. CASE v # w /\ writer[v].file # f
        <4>1. writer'[v] = writer[v]
          BY <1>2, <3>3
        <4> QED
          BY <1>1, <3>3, <4>1
      <3> QED
        BY <3>1, <3>2, <3>3
    <2>2. writer' = [v \in Writers |-> writer'[v]]
      BY <1>2
    <2> QED
      BY <2>1, <2>2
  <1>5. /\ disk' \in [Files -> File] /\ disk'[f].st \in {"torn", "cut"}
        /\ \A g \in Files \ {f} : disk'[g] = disk[g]
    BY <1>1, <1>13, <1>16
  <1>6. mixed' \in [Files -> BOOLEAN] /\ \A g \in Files \ {f} : mixed'[g] = mixed[g]
    BY <1>1, <1>3, Zenon
  <1>7. mixed'[f] <=> mixed[f] \/ writer[w].stale \/ \E v \in Writers \ {w} :
                         writer[v].pc = "torn" /\ writer[v].file = f
    BY <1>1, <1>3, Zenon
  <1>14. (cutBack' <=> cutBack \/ writer[w].cut) /\ cutBack' \in BOOLEAN
        /\ (writer[w].cut => f = "config")
    BY <1>17, Zenon DEF CutIsConfig
  <1>8. FilesTypes'
    BY <1>1, <1>4, <1>5, <1>6 DEF FilesTypes
  <1>15. CutIsConfig'
    <2>1. disk'[f] = begun
      BY <1>1, <1>16
    <2> QED
      BY <1>4, <1>5, <1>13, <1>14, <2>1 DEF CutIsConfig
  <1>9. ASSUME NEW v \in Writers
        PROVE  (Fits(v)' <=> Fits(v)) /\ (Updating(v)' <=> Updating(v))
    BY <1>1, <1>4 DEF Fits, Updating
  <1> HIDE DEF f
  <1>10. ASSUME NEW g \in Files, g # f PROVE Written(g)'
    BY <1>1, <1>4, <1>5, <1>6, <1>9, <1>10, <1>14 DEF Written, f
  <1>11. ASSUME NEW g \in Files, g = f PROVE Written(g)'
    <2> SUFFICES ASSUME ~mixed'[g], ~(g = "config" /\ cutBack') PROVE Written(g)'
      BY DEF Written
    <2>1. ~mixed[g] /\ ~(g = "config" /\ cutBack) /\ ~writer[w].stale /\ ~writer[w].cut
          /\ \A v \in Writers \ {w} : ~(writer[v].pc = "torn" /\ writer[v].file = g)
      BY <1>7, <1>11, <1>14
    <2>2. Fits(w)
      BY <1>1, <1>11, <2>1 DEF Written, f
    <2> QED
      BY <1>1, <1>4, <1>5, <1>9, <1>11, <2>1, <2>2 DEF Written, f
  <1> QED
    BY <1>8, <1>10, <1>11, <1>15

(* Whoever fills the file leaves what it should have. *)
LEMMA FillStep ==
    ASSUME FilesTypes, CutIsConfig, \A f \in Files : Written(f), NEW w \in Writers, Fill(w)
    PROVE  FilesTypes' /\ CutIsConfig' /\ \A f \in Files : Written(f)'
  <1> DEFINE f == writer[w].file
             new == writer[w].new
             kept == CASE writer[w].op = "put"    -> acked[f] \cup {writer[w].item}
                       [] writer[w].op = "remove" -> acked[f] \ {writer[w].item}
                       [] OTHER                   -> new.items
  <1>1. /\ disk \in [Files -> File] /\ writer \in [Writers -> Writer]
        /\ acked \in [Files -> SUBSET Items] /\ mixed \in [Files -> BOOLEAN]
        /\ UNCHANGED <<mixed, cutBack, runs, record>> /\ writer[w].pc = "torn"
        /\ f \in Files /\ new \in File /\ new.st = "whole"
    BY DEF FilesTypes, Fill, historyVars, Writer
  <1>2. /\ disk' = [disk EXCEPT ![f] = new] /\ acked' = [acked EXCEPT ![f] = kept]
        /\ writer' = [writer EXCEPT ![w].pc = "ended"]
    BY DEF Fill
  <1>3. Fits(w) => kept \subseteq new.items
    BY DEF Fits
  <1>4. /\ writer' \in [Writers -> Writer] /\ writer'[w].pc = "ended"
        /\ writer'[w].cut = writer[w].cut /\ writer'[w].file = f
        /\ \A v \in Writers \ {w} : writer'[v] = writer[v]
    BY <1>1, <1>2 DEF Writer
  <1>5. /\ disk' \in [Files -> File] /\ disk'[f] = new
        /\ \A g \in Files \ {f} : disk'[g] = disk[g] /\ acked'[g] = acked[g]
    BY <1>1, <1>2
  <1>6. kept \in SUBSET Items /\ acked'[f] = kept /\ acked' \in [Files -> SUBSET Items]
    <2>1. writer[w].item \in Items /\ new.items \in SUBSET Items /\ acked[f] \in SUBSET Items
      BY <1>1 DEF FilesTypes, File
    <2>2. kept \in SUBSET Items
      BY <2>1
    <2> HIDE DEF kept
    <2> QED
      BY <1>1, <1>2, <2>2
  <1>7. FilesTypes'
    BY <1>1, <1>4, <1>5, <1>6 DEF FilesTypes
  <1>10. CutIsConfig'
    BY <1>1, <1>4, <1>5 DEF CutIsConfig
  <1> HIDE DEF f, new, kept
  <1>8. ASSUME NEW g \in Files, g # f PROVE Written(g)'
    BY <1>1, <1>4, <1>5, <1>8 DEF Written, Fits, Updating, f
  <1>9. ASSUME NEW g \in Files, g = f PROVE Written(g)'
    <2> SUFFICES ASSUME ~mixed[g], ~(g = "config" /\ cutBack) PROVE Written(g)'
      BY <1>1 DEF Written
    <2>1. Fits(w) /\ \A v \in Writers \ {w} :
             writer[v].file = g =>
                 /\ writer[v].pc # "torn"
                 /\ writer[v].pc = "loaded" /\ Updating(v) => writer[v].stale \/ writer[v].cut
      BY <1>1, <1>9 DEF Written, f
    <2>2. ASSUME NEW v \in Writers \ {w}
          PROVE  ~Updating(v) => Fits(v)'
      BY <1>4 DEF Fits, Updating
    <2>3. acked'[g] \subseteq disk'[g].items /\ disk'[g].st = "whole"
      BY <1>1, <1>3, <1>5, <1>6, <1>9, <2>1
    <2> QED
      BY <1>1, <1>4, <2>1, <2>2, <2>3 DEF Written
  <1> QED
    BY <1>7, <1>8, <1>9, <1>10

LEMMA WriterDiesStep ==
    ASSUME FilesTypes, CutIsConfig, \A f \in Files : Written(f), NEW w \in Writers,
           WriterDies(w)
    PROVE  FilesTypes' /\ CutIsConfig' /\ \A f \in Files : Written(f)'
  <1>1. /\ writer \in [Writers -> Writer] /\ writer' = [writer EXCEPT ![w].pc = "ended"]
        /\ UNCHANGED <<disk, acked, mixed, cutBack, runs, record>>
    BY DEF FilesTypes, WriterDies, historyVars
  <1>2. /\ writer' \in [Writers -> Writer] /\ writer'[w].pc = "ended"
        /\ writer'[w].cut = writer[w].cut /\ writer'[w].file = writer[w].file
        /\ \A v \in Writers \ {w} : writer'[v] = writer[v]
    BY <1>1 DEF Writer
  <1>3. FilesTypes'
    BY <1>1, <1>2 DEF FilesTypes
  <1>4. ASSUME NEW f \in Files PROVE Written(f)'
    BY <1>1, <1>2 DEF Written, Fits, Updating
  <1>5. CutIsConfig'
    BY <1>1, <1>2 DEF CutIsConfig
  <1> QED
    BY <1>3, <1>4, <1>5

(* A record is filled or loses its writer; a clearing takes all there are. *)
LEMMA RecordedStep ==
    ASSUME FilesTypes, Recorded,
           RecordCreates \/ RecordFills \/ RecorderDies \/ ClearLists \/ ClearRemoves
    PROVE  runs' \in Seq(Run) /\ record' \in Nat /\ Recorded'
  <1>1. /\ runs \in Seq(Run) /\ record \in Nat /\ Len(runs) \in Nat
        /\ DOMAIN runs = 1..Len(runs) /\ \A k \in 1..Len(runs) : runs[k] \in Run
    BY DEF FilesTypes
  <1>2. CASE RecordCreates
    <2>1. PICK id \in 1..MaxRuns :
             /\ \A k \in DOMAIN runs : runs[k].id # id
             /\ runs' = <<[id |-> id, whole |-> FALSE]>> \o runs
             /\ record' = id
      BY <1>2 DEF RecordCreates
    <2> DEFINE r == [id |-> id, whole |-> FALSE]
               one == <<r>>
    <2>2. id \in Nat \ {0} /\ r \in Run
      BY ActionFilesAssumptions DEF Run
    <2>3. one \in Seq(Run) /\ Len(one) = 1 /\ one[1] = r
      BY <2>2
    <2> HIDE DEF one, r
    <2>4. /\ runs' \in Seq(Run) /\ Len(runs') = 1 + Len(runs)
          /\ \A i \in 1..(1 + Len(runs)) : runs'[i] = IF i <= 1 THEN one[i] ELSE runs[i - 1]
      BY <1>1, <2>1, <2>3, ConcatProperties DEF one, r
    <2>5. /\ runs'[1] = r
          /\ \A i \in 1..Len(runs') : i # 1 => runs'[i] = runs[i - 1] /\ i - 1 \in 1..Len(runs)
      BY <1>1, <2>3, <2>4
    <2>6. record = 0 /\ UNCHANGED <<sweep, died>>
      BY <1>2 DEF RecordCreates
    <2>7. r.id = id /\ record' = id
      BY <2>1 DEF r
    <2>8. \A k \in 1..Len(runs) : runs[k].id # id /\ runs[k].id # 0
      BY <1>1, <2>1 DEF Run
    <2>9. ASSUME NEW j \in 1..Len(runs'), NEW k \in 1..Len(runs'), runs'[j].id = runs'[k].id
          PROVE  j = k
      <3>1. CASE j = 1 \/ k = 1
        BY <2>5, <2>7, <2>8, <2>9, <3>1
      <3>2. CASE j # 1 /\ k # 1
        <4>1. j - 1 = k - 1
          BY <2>5, <2>9, <3>2 DEF Recorded
        <4> QED
          BY <1>1, <2>4, <4>1
      <3> QED
        BY <3>1, <3>2
    <2>10. ASSUME NEW k \in 1..Len(runs'), ~runs'[k].whole
           PROVE  runs'[k].id = record' \/ died' \/ runs'[k].id \in sweep'
      BY <2>5, <2>6, <2>7, <2>8, <2>10 DEF Recorded
    <2> QED
      BY <2>2, <2>4, <2>7, <2>9, <2>10 DEF Recorded
  <1>3. CASE RecordFills
    <2>1. /\ runs' = [k \in 1..Len(runs) |->
                         IF runs[k].id = record THEN [runs[k] EXCEPT !.whole = TRUE] ELSE runs[k]]
          /\ record' = 0 /\ UNCHANGED <<sweep, died>>
      BY <1>1, <1>3 DEF RecordFills
    <2>2. \A k \in 1..Len(runs) :
             /\ runs'[k] \in Run /\ runs'[k].id = runs[k].id
             /\ ~runs'[k].whole => ~runs[k].whole /\ runs[k].id # record
      BY <1>1, <2>1 DEF Run
    <2>3. runs' \in Seq(Run) /\ Len(runs') = Len(runs)
      BY <1>1, <2>1, <2>2
    <2> QED
      BY <2>1, <2>2, <2>3 DEF Recorded
  <1>4. CASE RecorderDies
    <2>1. record' = 0 /\ died' /\ UNCHANGED runs
      BY <1>4 DEF RecorderDies
    <2> QED
      BY <1>1, <2>1 DEF Recorded
  <1>5. CASE ClearLists
    <2>1. UNCHANGED <<runs, record>> /\ \A k \in 1..Len(runs) : runs[k].id \in sweep'
      BY <1>1, <1>5 DEF ClearLists, Swept
    <2> QED
      BY <1>1, <2>1 DEF Recorded
  <1>6. CASE ClearRemoves
    <2>1. PICK id \in sweep :
             /\ \/ \E k \in DOMAIN runs :
                       runs[k].id = id /\ runs' = Without(runs, k)
                \/ (\A k \in DOMAIN runs : runs[k].id # id) /\ UNCHANGED runs
             /\ sweep' = sweep \ {id}
      BY <1>6 DEF ClearRemoves
    <2>2. UNCHANGED <<record, died>>
      BY <1>6 DEF ClearRemoves
    <2>3. CASE (\A k \in DOMAIN runs : runs[k].id # id) /\ UNCHANGED runs
      BY <1>1, <2>1, <2>2, <2>3 DEF Recorded
    <2>4. ASSUME NEW k \in 1..Len(runs), runs[k].id = id,
                 runs' = Without(runs, k)
          PROVE  runs' \in Seq(Run) /\ Recorded'
      <3>1. /\ runs' \in Seq(Run) /\ Len(runs') = Len(runs) - 1
            /\ \A i \in 1..Len(runs') : runs'[i] = IF i < k THEN runs[i] ELSE runs[i + 1]
        BY <1>1, <2>4, RemovedElement
      <3> DEFINE was(i) == IF i < k THEN i ELSE i + 1
      <3>2. \A i \in 1..Len(runs') :
               was(i) \in 1..Len(runs) /\ was(i) # k /\ runs'[i] = runs[was(i)]
        <4> SUFFICES ASSUME NEW i \in 1..Len(runs')
                     PROVE  was(i) \in 1..Len(runs) /\ was(i) # k /\ runs'[i] = runs[was(i)]
          OBVIOUS
        <4>1. CASE i < k
          BY <1>1, <3>1, <4>1
        <4>2. CASE ~(i < k)
          BY <1>1, <3>1, <4>2
        <4> QED
          BY <4>1, <4>2
      <3>3. \A i, j \in 1..Len(runs') : was(i) = was(j) => i = j
        BY <1>1, <3>1
      <3> HIDE DEF was
      <3>4. \A i \in 1..Len(runs') : runs'[i].id # id
        BY <2>4, <3>2 DEF Recorded
      <3>5. ASSUME NEW i \in 1..Len(runs'), NEW j \in 1..Len(runs'), runs'[i].id = runs'[j].id
            PROVE  i = j
        BY <3>2, <3>3, <3>5 DEF Recorded
      <3>6. ASSUME NEW i \in 1..Len(runs'), ~runs'[i].whole
            PROVE  runs'[i].id = record' \/ died' \/ runs'[i].id \in sweep'
        BY <2>1, <2>2, <3>2, <3>4, <3>6 DEF Recorded
      <3> QED
        BY <3>1, <3>5, <3>6 DEF Recorded
    <2> QED
      BY <1>1, <2>1, <2>2, <2>3, <2>4
  <1> QED
    BY <1>2, <1>3, <1>4, <1>5, <1>6

(* The files keep what was put into them, in every state: a vault that was *)
(* left torn or cannot be decrypted is not the start of a new one, and     *)
(* only a second writer between a load and its write can lose a secret; an *)
(* action can also be lost when a configuration that was cut short is      *)
(* loaded and written back; the list of runs fails only for a record that  *)
(* is being written, that will be removed or whose writer died.            *)
THEOREM ActionFilesSafe == FilesSpec => []FilesKept
  <1>1. FilesInv /\ [FilesNext]_filesVars => FilesInv'
    <2>1. ASSUME FilesInv, NEW w \in Writers, Load(w) \/ Truncate(w) \/ Fill(w) \/ WriterDies(w)
          PROVE  FilesInv'
      <3>1. FilesTypes' /\ CutIsConfig' /\ \A f \in Files : Written(f)'
        BY <2>1, LoadStep, TruncateStep, FillStep, WriterDiesStep DEF FilesInv
      <3>2. UNCHANGED <<runs, record, sweep>> /\ (died => died')
        BY <2>1 DEF Load, Truncate, Fill, WriterDies, historyVars
      <3>3. Recorded'
        BY <2>1, <3>2 DEF FilesInv, Recorded
      <3> QED
        BY <3>1, <3>3 DEF FilesInv
    <2>2. ASSUME FilesInv,
                 RecordCreates \/ RecordFills \/ RecorderDies \/ ClearLists \/ ClearRemoves
          PROVE  FilesInv'
      <3>1. runs' \in Seq(Run) /\ record' \in Nat /\ Recorded'
        BY <2>2, RecordedStep DEF FilesInv
      <3>2. UNCHANGED <<disk, writer, acked, mixed, cutBack>>
        BY <2>2 DEF RecordCreates, RecordFills, RecorderDies, ClearLists, ClearRemoves
      <3>3. FilesTypes'
        BY <2>2, <3>1, <3>2 DEF FilesInv, FilesTypes
      <3>4. ASSUME NEW f \in Files PROVE Written(f)'
        BY <2>2, <3>2 DEF FilesInv, Written, Fits, Updating
      <3>5. CutIsConfig'
        BY <2>2, <3>2 DEF FilesInv, CutIsConfig
      <3> QED
        BY <3>1, <3>3, <3>4, <3>5 DEF FilesInv
    <2>3. ASSUME FilesInv, UNCHANGED filesVars PROVE FilesInv'
      BY <2>3 DEF FilesInv, FilesTypes, CutIsConfig, Written, Fits, Updating, Recorded, filesVars,
                  historyVars
    <2> QED
      BY <2>1, <2>2, <2>3 DEF FilesNext, UpdateStep, HistoryStep
  <1>2. FilesInv => FilesKept
    <2> SUFFICES ASSUME FilesInv PROVE FilesKept
      OBVIOUS
    <2>1. UpdatesKept
      BY DEF FilesInv, Written, UpdatesKept
    <2>2. HistoryReadable
      <3>1. DOMAIN runs = 1..Len(runs) /\ \A k \in DOMAIN runs : runs[k] \in Run
        BY DEF FilesInv, FilesTypes
      <3> QED
        BY <3>1 DEF FilesInv, Recorded, HistoryReadable, list_runs, Run
    <2> QED
      BY <2>1, <2>2 DEF FilesKept
  <1> QED
    BY InitFilesInv, <1>1, <1>2, PTL DEF FilesSpec

(***************************************************************************)
(* The runs of actions                                                     *)
(*                                                                         *)
(* Kahn's algorithm and expand_matrix are recursive functions, so what     *)
(* they compute is shown by induction; the induction is over a set of      *)
(* numbers, by its least counterexample.                                   *)
(***************************************************************************)

LEMMA SetInduction ==
    ASSUME NEW P, 0 \in P, \A n \in P \cap Nat : n + 1 \in P
    PROVE  Nat \subseteq P
<1> DEFINE B == {n \in Nat : n \notin P}
<1>1. SUFFICES ASSUME B # {} PROVE FALSE
  OBVIOUS
<1>2. PICK x \in B : \A y \in B : ~ (<<y, x>> \in OpToRel(<, Nat))
  BY <1>1, WFMin, NatLessThanWellFounded, B \subseteq Nat, Zenon
<1>3. \A y \in B : ~ (y < x)
  BY <1>2 DEF OpToRel
<1>4. x # 0 /\ x - 1 \in Nat /\ x - 1 < x
  OBVIOUS
<1>5. x - 1 \in P \cap Nat
  BY <1>3, <1>4
<1> QED
  BY <1>5, <1>4, (x - 1) + 1 = x

(* The head of a list and the rest of it. *)
LEMMA HeadAndTail ==
    ASSUME NEW S, NEW s \in Seq(S), s # <<>>
    PROVE  /\ Head(s) \in S /\ Tail(s) \in Seq(S)
           /\ ToSet(s) = {Head(s)} \cup ToSet(Tail(s))
<1>1. /\ DOMAIN s = 1..Len(s) /\ Len(s) \in Nat \ {0} /\ Head(s) = s[1]
      /\ DOMAIN Tail(s) = 1 .. Len(s) - 1
      /\ \A i \in 1 .. Len(s) - 1 : Tail(s)[i] = s[i + 1]
      /\ Tail(s) \in Seq(S)
  OBVIOUS
<1>2. \A i \in 1..Len(s) : i = 1 \/ (i - 1 \in 1 .. Len(s) - 1 /\ (i - 1) + 1 = i)
  BY <1>1
<1>3. ASSUME NEW x \in ToSet(s) PROVE x \in {Head(s)} \cup ToSet(Tail(s))
  <2>1. PICK i \in 1..Len(s) : s[i] = x
    BY <1>1, <1>3 DEF ToSet
  <2>2. CASE i = 1
    BY <1>1, <2>1, <2>2
  <2>3. CASE i # 1
    <3>1. Tail(s)[i - 1] = x /\ i - 1 \in DOMAIN Tail(s)
      BY <1>1, <1>2, <2>1, <2>3
    <3> QED
      BY <3>1 DEF ToSet
  <2> QED
    BY <2>2, <2>3
<1>4. ASSUME NEW x \in {Head(s)} \cup ToSet(Tail(s)) PROVE x \in ToSet(s)
  BY <1>1, <1>4 DEF ToSet
<1>5. Head(s) \in S
  BY <1>1
<1> QED
  BY <1>1, <1>3, <1>4, <1>5

-----------------------------------------------------------------------------
(* The names of an action's depends_on that are in S, by position. *)
Named(c, a, S) == {i \in DOMAIN c[a].deps : c[a].deps[i] \in S}

(* An action is ready when, of the actions of M, it depends on processed   *)
(* ones only, however often its list names them.                           *)
LEMMA ReadyIs ==
    ASSUME NEW c \in Configs, NEW a \in DOMAIN c, NEW M, NEW done \in SUBSET M
    PROVE  Ready(InDegree(c, M, done, a)) <=> ToSet(c[a].deps) \cap M \subseteq done
<1>1. c[a].deps \in Seq(Nat)
  BY RunnerAssumptions
<1> DEFINE d == c[a].deps
<1>2. DOMAIN d = 1 .. Len(d) /\ Len(d) \in Nat
  BY <1>1
<1>3. IsFiniteSet(DOMAIN d)
  BY <1>2, FS_Interval
<1>4. /\ Named(c, a, M) \subseteq DOMAIN d /\ Named(c, a, done) \subseteq DOMAIN d
      /\ Named(c, a, done) \subseteq Named(c, a, M)
  BY DEF Named
<1>5. /\ IsFiniteSet(Named(c, a, M)) /\ IsFiniteSet(Named(c, a, done))
  BY <1>3, <1>4, FS_Subset
<1>6. /\ Cardinality(Named(c, a, M)) \in Nat /\ Cardinality(Named(c, a, done)) \in Nat
  BY <1>5, FS_CardinalityType
<1>7. Cardinality(Named(c, a, M)) = Cardinality(Named(c, a, done))
        <=> Named(c, a, M) = Named(c, a, done)
  BY <1>4, <1>5, FS_Subset
<1>8. InDegree(c, M, done, a) = Cardinality(Named(c, a, M)) - Cardinality(Named(c, a, done))
  BY Zenon DEF InDegree, Named
<1>9. ToSet(d) = {d[i] : i \in DOMAIN d}
  BY DEF ToSet
<1>10. Named(c, a, M) = Named(c, a, done) <=> ToSet(d) \cap M \subseteq done
  BY <1>9 DEF Named
<1> QED
  BY <1>6, <1>7, <1>8, <1>10 DEF Ready

-----------------------------------------------------------------------------
(* Kahn is a function with this recursion. *)
KahnSteps(c, M, n, k) ==
    k = [i \in 0..n |->
            IF i = 0 THEN {}
            ELSE k[i - 1] \cup {a \in M : Ready(InDegree(c, M, k[i - 1], a))}]

LEMMA KahnExists ==
    ASSUME NEW c, NEW M, NEW n \in Nat
    PROVE  \E k : KahnSteps(c, M, n, k)
<1> DEFINE P == {m \in Nat : \E k : KahnSteps(c, M, m, k)}
<1>1. 0 \in P
  <2> DEFINE k == [i \in 0..0 |-> {}]
  <2>1. KahnSteps(c, M, 0, k)
    BY DEF KahnSteps
  <2> QED
    BY <2>1, Zenon
<1>2. ASSUME NEW m \in P \cap Nat PROVE m + 1 \in P
  <2> SUFFICES \E k : KahnSteps(c, M, m + 1, k)
    OBVIOUS
  <2>1. PICK g : KahnSteps(c, M, m, g)
    OBVIOUS
  <2> DEFINE F(x) == x \cup {a \in M : Ready(InDegree(c, M, x, a))}
             k == [i \in 0 .. m + 1 |-> IF i = m + 1 THEN F(g[m]) ELSE g[i]]
  <2>2. \A i \in 0..m : g[i] = IF i = 0 THEN {} ELSE F(g[i - 1])
    BY <2>1 DEF KahnSteps
  <2> HIDE DEF F
  <2>3. ASSUME NEW i \in 0 .. m + 1
        PROVE  k[i] = IF i = 0 THEN {} ELSE F(k[i - 1])
    <3>1. CASE i = m + 1
      <4>1. k[i] = F(g[m]) /\ k[i - 1] = g[m] /\ i # 0
        BY <3>1
      <4> HIDE DEF k
      <4> QED BY <4>1, <3>1
    <3>2. CASE i \in 0..m
      <4>1. k[i] = g[i] /\ (i # 0 => k[i - 1] = g[i - 1])
        BY <3>2
      <4> HIDE DEF k
      <4> QED BY <4>1, <3>2, <2>2
    <3> QED
      BY <3>1, <3>2
  <2>4. k = [i \in 0 .. m + 1 |-> k[i]]
    OBVIOUS
  <2>5. KahnSteps(c, M, m + 1, k)
    <3> HIDE DEF k
    <3> QED BY <2>3, <2>4 DEF KahnSteps, F
  <2> QED
    BY <2>5, Zenon
<1>3. Nat \subseteq P
  <2> HIDE DEF P
  <2> QED BY <1>1, <1>2, SetInduction, Zenon
<1> QED
  BY <1>3

(* The recursion of Kahn, for use; K(i) are the actions processed after i  *)
(* levels.                                                                 *)
LEMMA KahnIs ==
    ASSUME NEW c, NEW M, IsFiniteSet(M)
    PROVE  /\ Kahn(c, M)[0] = {}
           /\ \A i \in 1..Cardinality(M) :
                 Kahn(c, M)[i] = Kahn(c, M)[i - 1]
                     \cup {a \in M : Ready(InDegree(c, M, Kahn(c, M)[i - 1], a))}
<1> DEFINE k == CHOOSE g : KahnSteps(c, M, Cardinality(M), g)
<1>1. Cardinality(M) \in Nat
  BY FS_CardinalityType
<1>2. KahnSteps(c, M, Cardinality(M), k)
  BY <1>1, KahnExists, Zenon
<1>3. Kahn(c, M) = k
  BY Zenon DEF Kahn, KahnSteps
<1> HIDE DEF k
<1>4. \A i \in 0..Cardinality(M) :
          k[i] = IF i = 0 THEN {}
                 ELSE k[i - 1] \cup {a \in M : Ready(InDegree(c, M, k[i - 1], a))}
  BY <1>2 DEF KahnSteps
<1>5. k[0] = {}
  <2>1. 0 \in 0..Cardinality(M)
    BY <1>1
  <2> QED
    BY <1>4, <2>1, Zenon
<1>6. ASSUME NEW i \in 1..Cardinality(M)
      PROVE  k[i] = k[i - 1] \cup {a \in M : Ready(InDegree(c, M, k[i - 1], a))}
  <2>1. i \in 0..Cardinality(M) /\ i # 0
    BY <1>1
  <2> QED
    BY <1>4, <2>1, Zenon
<1> QED
  BY <1>3, <1>5, <1>6, Zenon

LEMMA KahnWithin ==
    ASSUME NEW c, NEW M, IsFiniteSet(M)
    PROVE  \A i \in 0..Cardinality(M) : Kahn(c, M)[i] \subseteq M
<1> DEFINE P == {i \in Nat : i <= Cardinality(M) => Kahn(c, M)[i] \subseteq M}
<1>0. Cardinality(M) \in Nat
  BY FS_CardinalityType
<1>1. 0 \in P
  BY KahnIs
<1>2. ASSUME NEW i \in P \cap Nat PROVE i + 1 \in P
  BY <1>0, KahnIs
<1>3. Nat \subseteq P
  <2> HIDE DEF P
  <2> QED BY <1>1, <1>2, SetInduction, Zenon
<1> QED
  BY <1>3

(* Every action of a level depends on actions of earlier levels only. *)
LEMMA LevelsLayered ==
    ASSUME NEW c \in Configs, NEW M \in SUBSET DOMAIN c,
           NEW i \in 1..Cardinality(M), NEW a \in Kahn(c, M)[i] \ Kahn(c, M)[i - 1]
    PROVE  a \in M /\ ToSet(c[a].deps) \cap M \subseteq Kahn(c, M)[i - 1]
<1>1. IsFiniteSet(M)
  BY RunnerAssumptions, FS_Subset
<1>2. Cardinality(M) \in Nat
  BY <1>1, FS_CardinalityType
<1>3. Kahn(c, M)[i - 1] \subseteq M
  BY <1>1, <1>2, KahnWithin
<1>4. a \in M /\ Ready(InDegree(c, M, Kahn(c, M)[i - 1], a))
  BY <1>1, KahnIs
<1> QED
  BY <1>3, <1>4, ReadyIs

(* If Kahn's algorithm does not reach every action, what is left contains  *)
(* a circle: it took an action in each of as many rounds as there are      *)
(* actions, or it was stuck before.                                        *)
LEMMA StuckIsCircular ==
    ASSUME NEW c \in Configs, NEW M \in SUBSET DOMAIN c,
           Kahn(c, M)[Cardinality(M)] # M
    PROVE  \E S \in (SUBSET M) \ {{}} : \A a \in S : ToSet(c[a].deps) \cap S # {}
<1> DEFINE k == Kahn(c, M)
           n == Cardinality(M)
           R(x) == {a \in M : Ready(InDegree(c, M, x, a))}
           P == {i \in Nat : i <= n => Cardinality(k[i]) >= i \/ R(k[i]) \subseteq k[i]}
<1>1. IsFiniteSet(M)
  BY RunnerAssumptions, FS_Subset
<1>2. n \in Nat
  BY <1>1, FS_CardinalityType
<1>3. \A i \in 0..n : /\ k[i] \subseteq M /\ IsFiniteSet(k[i])
                      /\ Cardinality(k[i]) \in Nat
  BY <1>1, KahnWithin, FS_Subset, FS_CardinalityType
<1>4. k[0] = {} /\ \A i \in 1..n : k[i] = k[i - 1] \cup R(k[i - 1])
  BY <1>1, KahnIs
<1> HIDE DEF k, n, R
<1>5. 0 \in P
  BY <1>2, <1>3
<1>6. ASSUME NEW i \in P \cap Nat PROVE i + 1 \in P
  <2> SUFFICES ASSUME i + 1 <= n
               PROVE  Cardinality(k[i + 1]) >= i + 1 \/ R(k[i + 1]) \subseteq k[i + 1]
    OBVIOUS
  <2>1. k[i + 1] = k[i] \cup R(k[i])
    BY <1>2, <1>4
  <2>2. CASE R(k[i]) \subseteq k[i]
    <3>1. k[i + 1] = k[i]
      BY <2>1, <2>2
    <3> QED
      BY <2>2, <3>1
  <2>3. CASE ~(R(k[i]) \subseteq k[i])
    <3>1. k[i] # k[i + 1] /\ k[i] \subseteq k[i + 1]
      BY <2>1, <2>3
    <3>2. i \in 0..n /\ i + 1 \in 0..n
      BY <1>2
    <3>3. /\ IsFiniteSet(k[i + 1])
          /\ Cardinality(k[i]) \in Nat /\ Cardinality(k[i + 1]) \in Nat
      BY <1>3, <3>2
    <3>4. /\ Cardinality(k[i]) <= Cardinality(k[i + 1])
          /\ Cardinality(k[i]) # Cardinality(k[i + 1])
      BY <3>1, <3>3, FS_Subset
    <3>5. Cardinality(k[i]) >= i
      BY <1>2, <2>3
    <3> QED
      BY <3>3, <3>4, <3>5
  <2> QED
    BY <2>2, <2>3
<1>7. Nat \subseteq P
  <2> HIDE DEF P
  <2> QED BY <1>5, <1>6, SetInduction, Zenon
<1>8. Cardinality(k[n]) >= n \/ R(k[n]) \subseteq k[n]
  BY <1>2, <1>7
<1>9. k[n] \subseteq M /\ Cardinality(k[n]) \in Nat /\ Cardinality(k[n]) <= n
  BY <1>1, <1>2, <1>3, FS_Subset DEF n
<1>10. Cardinality(k[n]) = n => k[n] = M
  BY <1>1, <1>9, FS_Subset DEF n
<1>11. R(k[n]) \subseteq k[n] /\ k[n] # M
  BY <1>2, <1>8, <1>9, <1>10 DEF k, n
<1> DEFINE S == M \ k[n]
<1>12. S \in (SUBSET M) \ {{}}
  <2>1. PICK a \in M : a \notin k[n]
    BY <1>9, <1>11
  <2>2. S \subseteq M /\ a \in S
    BY <2>1
  <2> HIDE DEF S
  <2> QED
    BY <2>2
<1>13. ASSUME NEW a \in S PROVE ToSet(c[a].deps) \cap S # {}
  <2>1. ~Ready(InDegree(c, M, k[n], a))
    BY <1>11, <1>13 DEF R
  <2>2. ~(ToSet(c[a].deps) \cap M \subseteq k[n])
    BY <1>9, <2>1, ReadyIs
  <2> QED
    BY <2>2
<1> HIDE DEF S
<1> QED
  BY <1>12, <1>13

-----------------------------------------------------------------------------
(* A finite set of numbers can be put in order. *)
Ordered(S, s) == ToSet(s) = S /\ \A i, j \in DOMAIN s : i < j => s[i] < s[j]

LEMMA OrderExists ==
    ASSUME NEW S \in SUBSET Nat, IsFiniteSet(S)
    PROVE  \E s \in [1..Cardinality(S) -> S] : Ordered(S, s)
<1> DEFINE P == {n \in Nat : \A T \in SUBSET Nat : IsFiniteSet(T) /\ Cardinality(T) = n =>
                                \E s \in [1..n -> T] : Ordered(T, s)}
<1>1. 0 \in P
  <2> SUFFICES ASSUME NEW T \in SUBSET Nat, IsFiniteSet(T), Cardinality(T) = 0
               PROVE  \E s \in [1..0 -> T] : Ordered(T, s)
    OBVIOUS
  <2>1. T = {}
    BY FS_EmptySet
  <2> DEFINE s == [i \in 1..0 |-> 0]
  <2>2. s \in [1..0 -> T] /\ DOMAIN s = {}
    OBVIOUS
  <2>3. Ordered(T, s)
    <3> HIDE DEF s
    <3> QED BY <2>1, <2>2 DEF Ordered, ToSet
  <2> QED
    BY <2>2, <2>3, Zenon
<1>2. ASSUME NEW n \in P \cap Nat PROVE n + 1 \in P
  <2> SUFFICES ASSUME NEW T \in SUBSET Nat, IsFiniteSet(T), Cardinality(T) = n + 1
               PROVE  \E s \in [1 .. n + 1 -> T] : Ordered(T, s)
    OBVIOUS
  <2>1. T # {}
    BY FS_EmptySet
  <2>2. PICK m \in T : \A y \in T : ~ (<<y, m>> \in OpToRel(<, Nat))
    BY <2>1, WFMin, NatLessThanWellFounded, Zenon
  <2>3. m \in Nat /\ \A y \in T \ {m} : m < y
    <3>1. \A y \in T : ~ (y < m)
      BY <2>2 DEF OpToRel
    <3> QED
      BY <3>1
  <2> DEFINE U == T \ {m}
  <2>4. U \in SUBSET Nat /\ IsFiniteSet(U) /\ Cardinality(U) = n
    BY FS_RemoveElement
  <2>5. PICK t \in [1..n -> U] : Ordered(U, t)
    BY <2>4
  <2> DEFINE s == [i \in 1 .. n + 1 |-> IF i = 1 THEN m ELSE t[i - 1]]
  <2>6. s[1] = m /\ \A i \in 2 .. n + 1 : i - 1 \in 1..n /\ s[i] = t[i - 1] /\ s[i] \in U
    OBVIOUS
  <2>7. s \in [1 .. n + 1 -> T] /\ DOMAIN s = 1 .. n + 1
    OBVIOUS
  <2> HIDE DEF s
  <2>8. ToSet(s) = T
    <3>1. ASSUME NEW y \in T PROVE \E i \in DOMAIN s : s[i] = y
      <4>1. CASE y = m
        BY <2>6, <2>7, <4>1
      <4>2. CASE y # m
        <5>1. PICK i \in 1..n : t[i] = y
          BY <2>5, <4>2 DEF Ordered, ToSet
        <5>2. i + 1 \in 2 .. n + 1 /\ (i + 1) - 1 = i
          OBVIOUS
        <5>3. s[i + 1] = y
          BY <2>6, <5>1, <5>2
        <5> QED
          BY <2>7, <5>2, <5>3
      <4> QED
        BY <4>1, <4>2
    <3> QED
      BY <2>7, <3>1 DEF ToSet
  <2>9. ASSUME NEW i \in DOMAIN s, NEW j \in DOMAIN s, i < j
        PROVE  s[i] < s[j]
    <3>1. j \in 2 .. n + 1
      BY <2>7, <2>9
    <3>2. CASE i = 1
      BY <2>3, <2>6, <3>1, <3>2
    <3>3. CASE i # 1
      <4>1. i \in 2 .. n + 1 /\ i - 1 < j - 1
        BY <2>7, <2>9, <3>3
      <4>2. t[i - 1] < t[j - 1]
        BY <2>5, <2>6, <3>1, <4>1 DEF Ordered
      <4> QED
        BY <2>6, <3>1, <4>1, <4>2
    <3> QED
      BY <3>2, <3>3
  <2> QED
    BY <2>7, <2>8, <2>9 DEF Ordered
<1>3. Nat \subseteq P
  <2> HIDE DEF P
  <2> QED BY <1>1, <1>2, SetInduction, Zenon
<1>4. Cardinality(S) \in Nat
  BY FS_CardinalityType
<1> QED
  BY <1>3, <1>4

LEMMA SortedIs ==
    ASSUME NEW S \in SUBSET Nat, IsFiniteSet(S)
    PROVE  Sorted(S) \in Seq(S) /\ ToSet(Sorted(S)) = S
<1>1. Cardinality(S) \in Nat
  BY FS_CardinalityType
<1>2. Sorted(S) \in [1..Cardinality(S) -> S] /\ Ordered(S, Sorted(S))
  BY OrderExists, Zenon DEF Sorted, Ordered
<1> QED
  BY <1>1, <1>2 DEF Ordered

-----------------------------------------------------------------------------
(* The actions of the levels before the j-th. *)
Before(ls, j) == UNION {ls[i] : i \in 1 .. j - 1}

Layered(c, M, ls, done) ==
    \A j \in DOMAIN ls : \A a \in ls[j] : ToSet(c[a].deps) \cap M \subseteq done \cup Before(ls, j)

IsCircular(c, M) == \E S \in (SUBSET M) \ {{}} : \A a \in S : ToSet(c[a].deps) \cap S # {}

(* What topological_levels gives: sets of actions asked for, in layers     *)
(* unless the dependencies have a circle.                                  *)
LEMMA TopologicalLevels ==
    ASSUME NEW c \in Configs, NEW M \in SUBSET DOMAIN c
    PROVE  /\ topological_levels(c, M) \in Seq(SUBSET M)
           /\ IsCircular(c, M) \/ Layered(c, M, topological_levels(c, M), {})
<1> DEFINE k == Kahn(c, M)
           n == Cardinality(M)
           ls == [i \in 1..Depth(M, k) |-> k[i] \ k[i - 1]]
<1>1. IsFiniteSet(M) /\ M \in SUBSET Nat
  BY RunnerAssumptions, FS_Subset
<1>2. n \in Nat
  BY <1>1, FS_CardinalityType
<1>3. CASE k[n] # M
  <2>1. topological_levels(c, M) = Fallback(M)
    BY <1>3, Zenon DEF topological_levels
  <2>2. Sorted(M) \in Seq(M)
    BY <1>1, SortedIs
  <2>3. Fallback(M) \in Seq(SUBSET M)
    BY <2>2 DEF Fallback
  <2>4. IsCircular(c, M)
    <3> HIDE DEF k, n
    <3> QED BY <1>3, StuckIsCircular DEF IsCircular, k, n
  <2> QED
    BY <2>1, <2>3, <2>4
<1>4. CASE k[n] = M
  <2>1. topological_levels(c, M) = ls
    BY <1>4, Zenon DEF topological_levels
  <2>2. IsFiniteSet(1..n) /\ Cardinality(1..n) = n
    BY <1>2, FS_Interval
  <2>3. {i \in 1..n : k[i] # k[i - 1]} \in SUBSET (1..n)
    OBVIOUS
  <2>4. Depth(M, k) \in Nat /\ Depth(M, k) <= n
    BY <2>2, <2>3, FS_Subset, FS_CardinalityType DEF Depth
  <2>5. \A i \in 0..n : k[i] \subseteq M
    BY <1>1, KahnWithin
  <2>6. /\ DOMAIN ls = 1..Depth(M, k) /\ ls \in Seq(SUBSET M)
        /\ \A i \in 1..Depth(M, k) : ls[i] = k[i] \ k[i - 1]
    BY <1>2, <2>4, <2>5
  <2> HIDE DEF ls
  <2> DEFINE P == {i \in Nat : i <= Depth(M, k) => k[i] \subseteq Before(ls, i + 1)}
  <2>7. 0 \in P
    <3>1. k[0] = {}
      BY <1>1, KahnIs
    <3> QED
      BY <3>1
  <2>8. ASSUME NEW i \in P \cap Nat PROVE i + 1 \in P
    <3> SUFFICES ASSUME i + 1 <= Depth(M, k), NEW a \in k[i + 1]
                 PROVE  a \in Before(ls, (i + 1) + 1)
      OBVIOUS
    <3>1. i + 1 \in 1..Depth(M, k) /\ i <= Depth(M, k) /\ (i + 1) - 1 = i
      BY <2>4
    <3>2. CASE a \in k[i]
      <4>1. a \in Before(ls, i + 1)
        BY <3>1, <3>2
      <4>2. PICK j \in 1 .. (i + 1) - 1 : a \in ls[j]
        BY <4>1 DEF Before
      <4>3. j \in 1 .. ((i + 1) + 1) - 1
        OBVIOUS
      <4> QED
        BY <4>2, <4>3 DEF Before
    <3>3. CASE a \notin k[i]
      <4>1. a \in ls[i + 1]
        BY <2>6, <3>1, <3>3
      <4>2. i + 1 \in 1 .. ((i + 1) + 1) - 1
        OBVIOUS
      <4> QED
        BY <4>1, <4>2 DEF Before
    <3> QED
      BY <3>2, <3>3
  <2>9. Nat \subseteq P
    <3> HIDE DEF P
    <3> QED BY <2>7, <2>8, SetInduction, Zenon
  <2>10. Layered(c, M, ls, {})
    <3> SUFFICES ASSUME NEW j \in DOMAIN ls, NEW a \in ls[j]
                 PROVE  ToSet(c[a].deps) \cap M \subseteq Before(ls, j)
      BY Zenon DEF Layered
    <3>1. j \in 1..n /\ j - 1 \in Nat /\ j - 1 <= Depth(M, k) /\ (j - 1) + 1 = j
      BY <1>2, <2>4, <2>6
    <3>2. a \in k[j] \ k[j - 1]
      BY <2>6
    <3>3. ToSet(c[a].deps) \cap M \subseteq k[j - 1]
      BY <3>1, <3>2, LevelsLayered
    <3>4. k[j - 1] \subseteq Before(ls, j)
      BY <2>9, <3>1
    <3> QED
      BY <3>3, <3>4
  <2> QED
    BY <2>1, <2>6, <2>10
<1> QED
  BY <1>3, <1>4

-----------------------------------------------------------------------------
(* Levels that move on. *)
LEMMA LayeredTail ==
    ASSUME NEW c, NEW M, NEW S, NEW ls \in Seq(S), ls # <<>>, NEW done,
           Layered(c, M, ls, done)
    PROVE  Layered(c, M, Tail(ls), done \cup Head(ls))
<1>1. /\ DOMAIN Tail(ls) = 1 .. Len(ls) - 1 /\ Len(ls) \in Nat
      /\ \A j \in 1 .. Len(ls) - 1 : Tail(ls)[j] = ls[j + 1]
      /\ Head(ls) = ls[1] /\ DOMAIN ls = 1..Len(ls)
  OBVIOUS
<1> SUFFICES ASSUME NEW j \in DOMAIN Tail(ls), NEW a \in Tail(ls)[j]
             PROVE  ToSet(c[a].deps) \cap M \subseteq (done \cup Head(ls)) \cup Before(Tail(ls), j)
  BY Zenon DEF Layered
<1>2. j + 1 \in DOMAIN ls /\ a \in ls[j + 1]
  BY <1>1
<1>3. ToSet(c[a].deps) \cap M \subseteq done \cup Before(ls, j + 1)
  BY <1>2 DEF Layered
<1>4. ASSUME NEW b \in Before(ls, j + 1) PROVE b \in Head(ls) \cup Before(Tail(ls), j)
  <2>1. PICK i \in 1..(j + 1) - 1 : b \in ls[i]
    BY DEF Before
  <2>2. CASE i = 1
    BY <1>1, <2>1, <2>2
  <2>3. CASE i # 1
    <3>1. i - 1 \in 1 .. j - 1 /\ Tail(ls)[i - 1] = ls[i]
      BY <1>1, <2>3
    <3> QED
      BY <2>1, <3>1 DEF Before
  <2> QED
    BY <2>2, <2>3
<1> QED
  BY <1>3, <1>4

-----------------------------------------------------------------------------
(* Where a run is: a list of names has no levels, and nothing has run      *)
(* before the levels are made.                                             *)
Phases ==
    /\ cfg \in Configs /\ caller \in Callers
    /\ caller \in ByName =>
          pc \in {"begin", "names", "conclude", "done"} /\ DOMAIN saw = {}
    /\ pc = "begin" =>
          ended = {} /\ DOMAIN saw = {} /\ DOMAIN results = {} /\ DOMAIN live = {}

(* The levels still to run depend on actions of earlier ones. *)
LevelsLeft ==
    /\ levels \in Seq(SUBSET AskedFor)
    /\ pc = "running" => levels # <<>>
    /\ \/ IsCircular(cfg, AskedFor)
       \/ /\ Layered(cfg, AskedFor, levels, ended)
          /\ \A u \in DOMAIN saw : ToSet(cfg[u[1]].deps) \cap AskedFor \subseteq saw[u]

OrderInv == Phases /\ LevelsLeft

LEMMA AskedActions ==
    ASSUME Phases
    PROVE  AskedFor \in SUBSET DOMAIN cfg /\ AskedFor \in SUBSET Nat /\ IsFiniteSet(AskedFor)
<1>1. AskedFor \in SUBSET DOMAIN cfg
  BY DEF AskedFor, Actions, actions_for_trigger
<1>2. cfg \in Configs
  BY DEF Phases
<1> QED
  BY <1>1, <1>2, RunnerAssumptions, FS_Subset

LEMMA OrderInit == Init => OrderInv
<1> SUFFICES ASSUME Init PROVE OrderInv
  OBVIOUS
<1>1. DOMAIN Empty = {}
  BY DEF Empty
<1>2. Phases
  BY <1>1 DEF Init, Phases
<1>3. Layered(cfg, AskedFor, <<>>, {})
  BY DEF Layered
<1>4. <<>> \in Seq(SUBSET AskedFor)
  OBVIOUS
<1>5. LevelsLeft
  BY <1>1, <1>3, <1>4 DEF Init, LevelsLeft
<1> QED
  BY <1>2, <1>5 DEF OrderInv

(* A step that leaves the levels and the history alone. *)
LEMMA OrderKept ==
    ASSUME OrderInv, UNCHANGED <<asked, levels, ended, saw>>, pc # "running" => pc' # "running",
           Phases'
    PROVE  OrderInv'
<1>1. AskedFor' = AskedFor /\ cfg' = cfg
  BY DEF asked, AskedFor, Actions
<1> QED
  BY <1>1 DEF OrderInv, LevelsLeft

LEMMA OrderStep == OrderInv /\ [Next]_vars => OrderInv'
<1> SUFFICES ASSUME OrderInv, [Next]_vars PROVE OrderInv'
  OBVIOUS
<1> USE DEF OrderInv, asked
<1>1. CASE UNCHANGED vars
  BY <1>1 DEF vars, Phases, LevelsLeft, AskedFor, Actions
<1>2. CASE BrokenConfig
  <2>1. Phases'
    BY <1>2 DEF BrokenConfig, Phases, ByName
  <2> QED
    BY <1>2, <2>1, OrderKept DEF BrokenConfig
<1>3. CASE RunTrigger
  <2>1. AskedFor' = AskedFor
    BY <1>3 DEF RunTrigger, AskedFor, Actions
  <2>2. Phases'
    BY <1>3 DEF RunTrigger, Phases
  <2>3. /\ topological_levels(cfg, AskedFor) \in Seq(SUBSET AskedFor)
        /\ IsCircular(cfg, AskedFor) \/ Layered(cfg, AskedFor, topological_levels(cfg, AskedFor), {})
    BY AskedActions, TopologicalLevels DEF Phases
  <2>4. LevelsLeft'
    BY <1>3, <2>1, <2>3 DEF RunTrigger, Phases, LevelsLeft
  <2> QED
    BY <2>2, <2>4
<1>4. CASE StartLevel
  <2> DEFINE skipped == {a \in Head(levels) : ~matches_condition(cfg[a])}
             started == UNION {Units(a) : a \in Head(levels) \ skipped}
  <2>1. AskedFor' = AskedFor
    BY <1>4 DEF StartLevel, AskedFor, Actions
  <2>2. saw' = Put(saw, started, ended)
    BY <1>4 DEF StartLevel
  <2>3. Phases'
    BY <1>4 DEF StartLevel, Phases
  <2>4. ASSUME Layered(cfg, AskedFor, levels, ended), NEW u \in started
        PROVE  ToSet(cfg[u[1]].deps) \cap AskedFor \subseteq ended
    <3>1. PICK a \in Head(levels) : u \in Units(a)
      OBVIOUS
    <3>2. u[1] = a
      BY <3>1 DEF Units
    <3>3. 1 \in DOMAIN levels /\ Head(levels) = levels[1]
      BY <1>4 DEF StartLevel, LevelsLeft
    <3>4. Before(levels, 1) = {}
      BY DEF Before
    <3> QED
      BY <2>4, <3>2, <3>3, <3>4 DEF Layered
  <2> HIDE DEF started
  <2>5. LevelsLeft'
    <3>1. CASE IsCircular(cfg, AskedFor)
      BY <1>4, <2>1, <3>1 DEF StartLevel, LevelsLeft
    <3>2. CASE ~IsCircular(cfg, AskedFor)
      <4>1. /\ DOMAIN Put(saw, started, ended) = DOMAIN saw \cup started
            /\ \A u \in DOMAIN saw \cup started :
                  Put(saw, started, ended)[u] = IF u \in started THEN ended ELSE saw[u]
        BY DEF Put
      <4>2. \A u \in DOMAIN Put(saw, started, ended) :
                ToSet(cfg[u[1]].deps) \cap AskedFor \subseteq Put(saw, started, ended)[u]
        BY <2>4, <3>2, <4>1 DEF LevelsLeft
      <4> QED
        BY <1>4, <2>1, <2>2, <3>2, <4>2 DEF StartLevel, LevelsLeft
    <3> QED
      BY <3>1, <3>2
  <2> QED
    BY <2>3, <2>5
<1>5. CASE \E u \in DOMAIN live : EndAttempt(u)
  <2>1. PICK u \in DOMAIN live : EndAttempt(u)
    BY <1>5
  <2>2. Phases' /\ UNCHANGED <<asked, levels, ended, saw, pc>>
    BY <2>1 DEF EndAttempt, Phases
  <2> QED
    BY <2>2, OrderKept
<1>6. CASE EndLevel
  <2>1. AskedFor' = AskedFor
    BY <1>6 DEF EndLevel, AskedFor, Actions
  <2>2. Phases'
    BY <1>6 DEF EndLevel, Phases
  <2>3. levels # <<>> /\ Tail(levels) \in Seq(SUBSET AskedFor)
    BY <1>6 DEF EndLevel, LevelsLeft
  <2>4. Layered(cfg, AskedFor, levels, ended) =>
            Layered(cfg, AskedFor, Tail(levels), ended \cup Head(levels))
    BY <2>3, LayeredTail DEF LevelsLeft
  <2>5. LevelsLeft'
    BY <1>6, <2>1, <2>3, <2>4 DEF EndLevel, LevelsLeft
  <2> QED
    BY <2>2, <2>5
<1>7. CASE AfterLevels
  <2>1. Phases'
    BY <1>7 DEF AfterLevels, Phases, ByName
  <2> QED
    BY <1>7, <2>1, OrderKept DEF AfterLevels
<1>8. CASE RunOnFail
  <2>1. Phases'
    BY <1>8 DEF RunOnFail, Phases
  <2> QED
    BY <1>8, <2>1, OrderKept DEF RunOnFail
<1>9. CASE EndTrigger
  <2>1. Phases'
    BY <1>9 DEF EndTrigger, Phases
  <2> QED
    BY <1>9, <2>1, OrderKept DEF EndTrigger
<1>10. CASE AutoFix
  <2>1. Phases'
    BY <1>10 DEF AutoFix, Phases
  <2> QED
    BY <1>10, <2>1, OrderKept DEF AutoFix
<1>11. CASE Conclude
  <2>1. Phases'
    BY <1>11 DEF Conclude, Phases
  <2> QED
    BY <1>11, <2>1, OrderKept DEF Conclude
<1>12. CASE RunNames
  <2>1. Phases'
    BY <1>12 DEF RunNames, Phases
  <2> QED
    BY <1>12, <2>1, OrderKept DEF RunNames
<1>13. CASE RunName
  <2>1. UNCHANGED <<asked, levels, ended, saw>> /\ pc' \in {pc, "done"} /\ pc = "names"
    BY <1>13 DEF RunName
  <2>2. Phases'
    BY <2>1 DEF Phases
  <2> QED
    BY <2>1, <2>2, OrderKept
<1>14. CASE EndNames
  <2>1. Phases'
    BY <1>14 DEF EndNames, Phases
  <2> QED
    BY <1>14, <2>1, OrderKept DEF EndNames
<1> QED
  BY <1>1, <1>2, <1>3, <1>4, <1>5, <1>6, <1>7, <1>8, <1>9, <1>10, <1>11, <1>12,
     <1>13, <1>14 DEF Next

(* For every configuration and every caller: a unit begins only when every *)
(* action of the run that it depends on has ended, in whatever order the   *)
(* units of a level end, unless the dependencies have a circle.            *)
THEOREM DependenciesInOrder == Spec => []DependenciesFirst
<1>1. OrderInv => DependenciesFirst
  BY DEF OrderInv, LevelsLeft, DependenciesFirst, IsCircular, Circular
<1> QED
  BY <1>1, OrderInit, OrderStep, PTL DEF Spec

-----------------------------------------------------------------------------
(* However an action is run, an attempt ends with a status, and only a     *)
(* condition skips an action.                                              *)
LEMMA OutcomesAre ==
    ASSUME NEW def
    PROVE  Outcomes(def) \subseteq Statuses \ {"skipped"}
<1> USE DEF Statuses, Failures
<1>1. await_child_with_timeout \subseteq Statuses \ {"skipped"}
  BY DEF await_child_with_timeout
<1>2. execute_command_docker(def.run) \subseteq Statuses \ {"skipped"}
  BY <1>1, Zenon DEF execute_command_docker
<1>3. execute_command(def.run) \subseteq Statuses \ {"skipped"}
  BY <1>1, <1>2 DEF execute_command, execute_command_native
<1>4. run_builtin \subseteq Statuses \ {"skipped"}
  BY DEF run_builtin
<1> QED
  BY <1>3, <1>4 DEF Outcomes

LEMMA RecheckIs ==
    ASSUME NEW def
    PROVE  Recheck(def) \subseteq Statuses
BY OutcomesAre DEF Recheck, Statuses, Failures

LEMMA PutIs ==
    ASSUME NEW f, NEW S, NEW entry
    PROVE  /\ DOMAIN Put(f, S, entry) = DOMAIN f \cup S
           /\ \A u \in DOMAIN f \cup S :
                 Put(f, S, entry)[u] = IF u \in S THEN entry ELSE f[u]
BY DEF Put

LEMMA PutStatuses ==
    ASSUME NEW f, NEW S, NEW o \in Statuses, \A u \in DOMAIN f : f[u] \in Statuses
    PROVE  \A u \in DOMAIN Put(f, S, o) : Put(f, S, o)[u] \in Statuses
BY DEF Put

-----------------------------------------------------------------------------
OnFailActions == actions_for_trigger(cfg, "on-fail")

AskedFailed ==
    \E u \in DOMAIN results : cfg[u[1]].trigger = "asked" /\ results[u] \in Failures

(* Every result is a status, and while the levels run every unit is one of *)
(* the actions asked for.                                                  *)
UnitsAsked ==
    /\ \A u \in DOMAIN results : results[u] \in Statuses
    /\ pc \in {"level", "running"} =>
          \A u \in DOMAIN results \cup DOMAIN live : u[1] \in AskedFor

(* While the on-fail actions run, those that have run and those in the     *)
(* queue are all of them if an action asked for has failed, and none       *)
(* otherwise.                                                              *)
Answering ==
    pc = "on-fail" =>
        /\ queue \in Seq(OnFailActions)
        /\ \A a \in OnFailActions :
              (<<a, <<>> >> \in DOMAIN results \/ a \in ToSet(queue)) <=> AskedFailed

(* The verdict is given last, on the results as they then are. *)
VerdictGiven ==
    /\ pc # "done" => verdict = "none"
    /\ verdict = "passed" /\ ~broken => \A u \in DOMAIN results : ~Stops(u)

FailInv == OrderInv /\ UnitsAsked /\ Answering /\ VerdictGiven

LEMMA FailInit == Init => FailInv
<1> SUFFICES ASSUME Init PROVE FailInv
  OBVIOUS
<1>1. OrderInv
  BY OrderInit
<1>2. DOMAIN results = {} /\ pc = "begin" /\ verdict = "none"
  BY DEF Init, Empty
<1> QED
  BY <1>1, <1>2 DEF FailInv, UnitsAsked, Answering, VerdictGiven

(* A step that gives no verdict. *)
LEMMA NoVerdict ==
    ASSUME VerdictGiven, pc # "done", verdict' = verdict
    PROVE  VerdictGiven'
BY DEF VerdictGiven

LEMMA FailStep == FailInv /\ [Next]_vars => FailInv'
<1> SUFFICES ASSUME FailInv, [Next]_vars PROVE FailInv'
  OBVIOUS
<1> USE DEF FailInv, asked
<1>0. OrderInv'
  BY OrderStep
<1>1. CASE UNCHANGED vars
  <2>1. UnitsAsked' /\ Answering'
    BY <1>1 DEF vars, UnitsAsked, Answering, AskedFailed, OnFailActions, AskedFor, Actions
  <2>2. VerdictGiven'
    BY <1>1 DEF vars, VerdictGiven, Stops, Blocking
  <2> QED
    BY <1>0, <2>1, <2>2
<1>2. CASE BrokenConfig
  <2>1. UnitsAsked' /\ Answering'
    BY <1>2 DEF BrokenConfig, UnitsAsked, Answering
  <2>2. VerdictGiven'
    BY <1>2 DEF BrokenConfig, VerdictGiven
  <2> QED
    BY <1>0, <2>1, <2>2
<1>3. CASE RunTrigger
  <2>1. UnitsAsked' /\ Answering'
    BY <1>3 DEF RunTrigger, UnitsAsked, Answering, OrderInv, Phases
  <2>2. VerdictGiven'
    BY <1>3, NoVerdict DEF RunTrigger
  <2> QED
    BY <1>0, <2>1, <2>2
<1>4. CASE StartLevel
  <2> DEFINE skipped == {a \in Head(levels) : ~matches_condition(cfg[a])}
             units   == {<<a, <<>> >> : a \in skipped}
             started == UNION {Units(a) : a \in Head(levels) \ skipped}
  <2>1. /\ results' = Put(results, units, "skipped") /\ DOMAIN live' = started
        /\ pc = "level" /\ pc' = "running" /\ levels # <<>> /\ AskedFor' = AskedFor
    BY <1>4 DEF StartLevel, AskedFor, Actions
  <2>2. Head(levels) \subseteq AskedFor
    BY <2>1 DEF OrderInv, LevelsLeft
  <2>3. ASSUME NEW u \in units \cup started PROVE u[1] \in AskedFor
    <3>1. PICK a \in Head(levels) : u \in units \cup Units(a) /\ (u \in units => u = <<a, <<>> >>)
      OBVIOUS
    <3>2. u[1] = a
      BY <3>1 DEF Units
    <3> QED
      BY <2>2, <3>2
  <2> HIDE DEF units, started
  <2>4. UnitsAsked'
    <3>1. DOMAIN results' = DOMAIN results \cup units
      BY <2>1, PutIs, Zenon
    <3>2. \A u \in DOMAIN results' : results'[u] \in Statuses
      <4>1. "skipped" \in Statuses
        BY DEF Statuses
      <4> QED
        BY <2>1, <4>1, PutStatuses, Zenon DEF UnitsAsked
    <3> QED
      BY <2>1, <2>3, <3>1, <3>2 DEF UnitsAsked
  <2>5. Answering' /\ VerdictGiven'
    BY <1>4, NoVerdict DEF StartLevel, Answering
  <2> QED
    BY <1>0, <2>4, <2>5
<1>5. CASE \E u \in DOMAIN live : EndAttempt(u)
  <2>1. PICK u \in DOMAIN live : EndAttempt(u)
    BY <1>5
  <2>2. PICK o \in Outcomes(cfg[u[1]]) :
            \/ /\ results' = Put(results, {u}, o)
               /\ live' = [v \in DOMAIN live \ {u} |-> live[v]]
            \/ /\ live' = [live EXCEPT ![u] = @ + 1]
               /\ UNCHANGED results
    BY <2>1 DEF EndAttempt
  <2>3. o \in Statuses /\ AskedFor' = AskedFor /\ pc = "running" /\ pc' = "running"
    BY <2>1, OutcomesAre DEF EndAttempt, AskedFor, Actions
  <2>4. UnitsAsked'
    <3>1. CASE results' = Put(results, {u}, o) /\ live' = [v \in DOMAIN live \ {u} |-> live[v]]
      <4>1. DOMAIN results' = DOMAIN results \cup {u}
        BY <3>1, PutIs, Zenon
      <4>2. \A v \in DOMAIN results' : results'[v] \in Statuses
        BY <2>3, <3>1, PutStatuses, Zenon DEF UnitsAsked
      <4> QED
        BY <2>3, <3>1, <4>1, <4>2 DEF UnitsAsked
    <3>2. CASE live' = [live EXCEPT ![u] = @ + 1] /\ UNCHANGED results
      BY <2>3, <3>2 DEF UnitsAsked
    <3> QED
      BY <2>2, <3>1, <3>2
  <2>5. Answering' /\ VerdictGiven'
    BY <2>1, NoVerdict DEF EndAttempt, Answering
  <2> QED
    BY <1>0, <2>4, <2>5
<1>6. CASE EndLevel
  <2>1. UnitsAsked' /\ Answering'
    BY <1>6 DEF EndLevel, UnitsAsked, Answering, AskedFor, Actions
  <2>2. VerdictGiven'
    BY <1>6, NoVerdict DEF EndLevel
  <2> QED
    BY <1>0, <2>1, <2>2
<1>7. CASE AfterLevels
  <2>1. UnitsAsked' /\ VerdictGiven'
    BY <1>7, NoVerdict DEF AfterLevels, UnitsAsked
  <2>2. /\ OnFailActions' = OnFailActions
        /\ AskedFailed' = AskedFailed
    BY <1>7 DEF AfterLevels, OnFailActions, AskedFailed
  <2>3. \A u \in DOMAIN results : u[1] \in DOMAIN cfg /\ cfg[u[1]].trigger = "asked"
    BY <1>7 DEF AfterLevels, UnitsAsked, OrderInv, Phases, AskedFor, actions_for_trigger, ByName
  <2>4. HasFailures <=> AskedFailed
    BY <2>3 DEF HasFailures, AskedFailed
  <2>5. \A a \in OnFailActions : <<a, <<>> >> \notin DOMAIN results
    <3> SUFFICES ASSUME NEW a \in OnFailActions, <<a, <<>> >> \in DOMAIN results PROVE FALSE
      OBVIOUS
    <3>1. cfg[a].trigger = "asked"
      BY <2>3
    <3> QED
      BY <3>1 DEF OnFailActions, actions_for_trigger
  <2>6. Sorted(OnFailActions) \in Seq(OnFailActions) /\ ToSet(Sorted(OnFailActions)) = OnFailActions
    <3>1. cfg \in Configs /\ OnFailActions \subseteq DOMAIN cfg
      BY DEF OrderInv, Phases, OnFailActions, actions_for_trigger
    <3> QED
      BY <3>1, RunnerAssumptions, SortedIs, FS_Subset
  <2>7. ToSet(<<>>) = {} /\ <<>> \in Seq(OnFailActions)
    BY DEF ToSet
  <2>8. queue' = IF HasFailures THEN Sorted(OnFailActions) ELSE <<>>
    BY <1>7 DEF AfterLevels, OnFailActions
  <2>9. Answering'
    BY <1>7, <2>2, <2>4, <2>5, <2>6, <2>7, <2>8 DEF AfterLevels, Answering
  <2> QED
    BY <1>0, <2>1, <2>9
<1>8. CASE RunOnFail
  <2> DEFINE u == <<Head(queue), <<>> >>
  <2>1. PICK o \in Outcomes(cfg[Head(queue)]) : results' = Put(results, {u}, o)
    BY <1>8 DEF RunOnFail
  <2>2. o \in Statuses
    BY OutcomesAre
  <2>3. /\ queue \in Seq(OnFailActions) /\ queue # <<>> /\ queue' = Tail(queue)
        /\ pc = "on-fail" /\ pc' = "on-fail" /\ OnFailActions' = OnFailActions
    BY <1>8 DEF RunOnFail, Answering, OnFailActions
  <2>4. ToSet(queue) = {Head(queue)} \cup ToSet(Tail(queue)) /\ Tail(queue) \in Seq(OnFailActions)
    BY <2>3, HeadAndTail
  <2>5. u[1] \in OnFailActions /\ cfg[u[1]].trigger = "on-fail"
    BY <2>3 DEF OnFailActions, actions_for_trigger
  <2>6. AskedFailed' <=> AskedFailed
    <3>1. cfg' = cfg
      BY <1>8 DEF RunOnFail
    <3> HIDE DEF u
    <3>2. /\ DOMAIN results' = DOMAIN results \cup {u}
          /\ \A v \in DOMAIN results : v # u => results'[v] = results[v]
      BY <2>1 DEF Put
    <3> QED
      BY <2>5, <3>1, <3>2 DEF AskedFailed
  <2>7. ASSUME NEW a \in OnFailActions
        PROVE  (<<a, <<>> >> \in DOMAIN results' \/ a \in ToSet(queue')) <=> AskedFailed'
    <3>1. (<<a, <<>> >> \in DOMAIN results \/ a \in ToSet(queue)) <=> AskedFailed
      BY <2>3 DEF Answering
    <3>2. DOMAIN results' = DOMAIN results \cup {u}
      BY <2>1, PutIs, Zenon
    <3>3. <<a, <<>> >> = u <=> a = Head(queue)
      OBVIOUS
    <3> QED
      BY <2>3, <2>4, <2>6, <3>1, <3>2, <3>3
  <2>8. Answering'
    BY <2>3, <2>4, <2>7 DEF Answering
  <2>9. UnitsAsked'
    <3>1. \A v \in DOMAIN results' : results'[v] \in Statuses
      BY <2>1, <2>2, PutStatuses, Zenon DEF UnitsAsked
    <3> QED
      BY <2>3, <3>1 DEF UnitsAsked
  <2>10. VerdictGiven'
    BY <1>8, NoVerdict DEF RunOnFail
  <2> QED
    BY <1>0, <2>8, <2>9, <2>10
<1>9. CASE EndTrigger
  <2>1. UnitsAsked' /\ Answering' /\ VerdictGiven'
    BY <1>9, NoVerdict DEF EndTrigger, UnitsAsked, Answering
  <2> QED
    BY <1>0, <2>1
<1>10. CASE AutoFix
  <2>1. \A u \in DOMAIN results' : results'[u] \in Statuses
    BY <1>10, RecheckIs DEF AutoFix, UnitsAsked
  <2>2. UnitsAsked' /\ Answering' /\ VerdictGiven'
    BY <1>10, <2>1, NoVerdict DEF AutoFix, UnitsAsked, Answering
  <2> QED
    BY <1>0, <2>2
<1>11. CASE Conclude
  <2>1. UnitsAsked' /\ Answering'
    BY <1>11 DEF Conclude, UnitsAsked, Answering
  <2>2. VerdictGiven'
    BY <1>11 DEF Conclude, VerdictGiven, Stops, Blocking
  <2> QED
    BY <1>0, <2>1, <2>2
<1>12. CASE RunNames
  <2>1. UnitsAsked' /\ Answering' /\ VerdictGiven'
    BY <1>12, NoVerdict DEF RunNames, UnitsAsked, Answering
  <2> QED
    BY <1>0, <2>1
<1>13. CASE RunName
  <2>1. PICK o \in Outcomes(cfg[Head(queue)]) :
            results' \in {results, Put(results, {<<Head(queue), <<>> >>}, o)}
    BY <1>13 DEF RunName
  <2>2. UnitsAsked' /\ Answering'
    <3>1. o \in Statuses
      BY OutcomesAre
    <3>2. \A v \in DOMAIN results' : results'[v] \in Statuses
      <4>1. CASE results' = results
        BY <4>1 DEF UnitsAsked
      <4>2. CASE results' = Put(results, {<<Head(queue), <<>> >>}, o)
        BY <3>1, <4>2, PutStatuses, Zenon DEF UnitsAsked
      <4> QED
        BY <2>1, <4>1, <4>2
    <3> QED
      BY <1>13, <3>2 DEF RunName, UnitsAsked, Answering
  <2>3. VerdictGiven'
    BY <1>13 DEF RunName, VerdictGiven
  <2> QED
    BY <1>0, <2>2, <2>3
<1>14. CASE EndNames
  <2>1. UnitsAsked' /\ Answering' /\ VerdictGiven'
    BY <1>14, NoVerdict DEF EndNames, UnitsAsked, Answering
  <2> QED
    BY <1>0, <2>1
<1> QED
  BY <1>1, <1>2, <1>3, <1>4, <1>5, <1>6, <1>7, <1>8, <1>9, <1>10, <1>11, <1>12,
     <1>13, <1>14 DEF Next

(* No failure is lost between an attempt and the failure hooks or the      *)
(* caller, for every configuration: all the on-fail actions run exactly    *)
(* when an action asked for ended in any other way than by passing or      *)
(* being skipped, and a run is reported as passed, or let through by a     *)
(* gate, only on results that allow it.                                    *)
THEOREM FailuresAnswered == Spec => []FailuresHeeded
<1>1. FailInv => OnFailAnswers
  <2>1. ToSet(<<>>) = {}
    BY DEF ToSet
  <2> QED
    BY <2>1 DEF FailInv, Answering, OnFailAnswers, OnFailActions, AskedFailed
<1>2. FailInv => VerdictSound
  <2> SUFFICES ASSUME FailInv, verdict = "passed", ~broken, caller # "post",
                      NEW a \in AskedFor,
                      ~(caller \in Gates /\ cfg[a].cont),
                      NEW u \in DOMAIN results, u[1] = a
               PROVE  results[u] \in {"passed", "skipped"}
    BY DEF VerdictSound
  <2>1. ~Stops(u) /\ results[u] \in Statuses
    BY DEF FailInv, VerdictGiven, UnitsAsked
  <2> QED
    BY <2>1 DEF Stops, Blocking, Statuses
<1>3. FailInv => FailuresHeeded
  BY <1>1, <1>2 DEF FailuresHeeded
<1> QED
  BY <1>3, FailInit, FailStep, PTL DEF Spec

-----------------------------------------------------------------------------
(* The combinations of the first i variables of a matrix. *)
Combos(m, i) == {c \in Seq(Nat) : Len(c) = i /\ \A j \in 1..i : c[j] \in 1..m[j]}

NoRepeats(s) == \A i, j \in DOMAIN s : s[i] = s[j] => i = j

(* What expand_matrix does with a variable of n values. *)
Extended(combos, n) ==
    FlattenSeq([i \in DOMAIN combos |-> [v \in 1..n |-> Append(combos[i], v)]])

StepOf(p, n) ==
    LET new == Extended(p.combos, n)
    IN  IF p.over THEN p
        ELSE IF OverLimit(Len(new))
          THEN [combos |-> SubSeq(new, 1, MaxCombos), over |-> TRUE]
          ELSE [combos |-> new, over |-> FALSE]

LEMMA CountOf ==
    ASSUME NEW S, NEW s \in Seq(S), NoRepeats(s)
    PROVE  IsFiniteSet(ToSet(s)) /\ Cardinality(ToSet(s)) = Len(s)
<1>1. Len(s) \in Nat /\ DOMAIN s = 1..Len(s) /\ ToSet(s) = {s[i] : i \in 1..Len(s)}
  BY DEF ToSet
<1>2. IsFiniteSet(1..Len(s)) /\ Cardinality(1..Len(s)) = Len(s)
  BY <1>1, FS_Interval
<1>3. s \in [1..Len(s) -> ToSet(s)]
  BY <1>1
<1>4. s \in Surjection(1..Len(s), ToSet(s))
  BY <1>1, <1>3 DEF Surjection
<1>5. s \in Injection(1..Len(s), ToSet(s))
  BY <1>1, <1>3 DEF Injection, IsInjective, NoRepeats
<1> QED
  BY <1>1, <1>2, <1>4, <1>5, FS_Surjection

(* Two sequences with no element in common, one after the other. *)
LEMMA Joined ==
    ASSUME NEW S, NEW s \in Seq(S), NEW t \in Seq(S)
    PROVE  /\ s \o t \in Seq(S) /\ ToSet(s \o t) = ToSet(s) \cup ToSet(t)
           /\ NoRepeats(s) /\ NoRepeats(t) /\ ToSet(s) \cap ToSet(t) = {} => NoRepeats(s \o t)
<1>1. /\ s \o t \in Seq(S) /\ Len(s) \in Nat /\ Len(t) \in Nat
      /\ DOMAIN s = 1..Len(s) /\ DOMAIN t = 1..Len(t)
      /\ DOMAIN (s \o t) = 1 .. Len(s) + Len(t)
      /\ \A i \in 1 .. Len(s) + Len(t) :
            (s \o t)[i] = IF i <= Len(s) THEN s[i] ELSE t[i - Len(s)]
  BY ConcatProperties
<1>2. PICK q : q = s \o t
  OBVIOUS
<1>3. ASSUME NEW x \in ToSet(s) \cup ToSet(t) PROVE x \in ToSet(q)
  <2>1. CASE x \in ToSet(s)
    BY <1>1, <1>2, <2>1 DEF ToSet
  <2>2. CASE x \in ToSet(t)
    <3>1. PICK j \in 1..Len(t) : x = t[j]
      BY <1>1, <2>2 DEF ToSet
    <3>2. Len(s) + j \in 1 .. Len(s) + Len(t) /\ ~(Len(s) + j <= Len(s)) /\ (Len(s) + j) - Len(s) = j
      BY <1>1
    <3>3. q[Len(s) + j] = x /\ Len(s) + j \in DOMAIN q
      BY <1>1, <1>2, <3>1, <3>2
    <3> QED
      BY <3>3 DEF ToSet
  <2> QED
    BY <2>1, <2>2
<1>4. ASSUME NEW i \in DOMAIN q
      PROVE  \/ i \in 1..Len(s) /\ q[i] = s[i] /\ q[i] \in ToSet(s)
             \/ i - Len(s) \in 1..Len(t) /\ q[i] = t[i - Len(s)] /\ q[i] \in ToSet(t)
  BY <1>1, <1>2 DEF ToSet
<1>5. ToSet(q) = ToSet(s) \cup ToSet(t)
  BY <1>3, <1>4 DEF ToSet
<1>6. ASSUME NoRepeats(s), NoRepeats(t), ToSet(s) \cap ToSet(t) = {},
             NEW i \in DOMAIN q, NEW j \in DOMAIN q, q[i] = q[j]
      PROVE  i = j
  <2>1. CASE i \in 1..Len(s) /\ q[i] = s[i] /\ q[i] \in ToSet(s)
    <3>1. j \in 1..Len(s) /\ q[j] = s[j]
      BY <1>4, <1>6, <2>1
    <3> QED
      BY <1>1, <1>6, <2>1, <3>1 DEF NoRepeats
  <2>2. CASE i - Len(s) \in 1..Len(t) /\ q[i] = t[i - Len(s)] /\ q[i] \in ToSet(t)
    <3>1. j - Len(s) \in 1..Len(t) /\ q[j] = t[j - Len(s)]
      BY <1>4, <1>6, <2>2
    <3>2. i - Len(s) = j - Len(s)
      BY <1>1, <1>6, <2>2, <3>1 DEF NoRepeats
    <3> QED
      BY <1>1, <1>2, <3>2
  <2> QED
    BY <1>4, <2>1, <2>2
<1> QED
  BY <1>1, <1>2, <1>5, <1>6 DEF NoRepeats

-----------------------------------------------------------------------------
(* FlattenSeq joins the sequences one after the other. *)
Flattening(ss, n, f) == f = [i \in 1..n |-> IF i = 1 THEN ss[i] ELSE f[i - 1] \o ss[i]]

LEMMA FlatteningExists ==
    ASSUME NEW ss, NEW n \in Nat
    PROVE  \E f : Flattening(ss, n, f)
<1> DEFINE P == {k \in Nat : \E f : Flattening(ss, k, f)}
<1>1. 0 \in P
  <2> DEFINE f == [i \in 1..0 |-> <<>>]
  <2>1. Flattening(ss, 0, f)
    BY DEF Flattening
  <2> QED
    BY <2>1, Zenon
<1>2. ASSUME NEW k \in P \cap Nat PROVE k + 1 \in P
  <2> SUFFICES \E f : Flattening(ss, k + 1, f)
    OBVIOUS
  <2>1. PICK g : Flattening(ss, k, g)
    OBVIOUS
  <2> DEFINE new == IF k = 0 THEN ss[k + 1] ELSE g[k] \o ss[k + 1]
             f == [i \in 1 .. k + 1 |-> IF i = k + 1 THEN new ELSE g[i]]
  <2>2. \A i \in 1..k : g[i] = IF i = 1 THEN ss[i] ELSE g[i - 1] \o ss[i]
    BY <2>1 DEF Flattening
  <2>3. ASSUME NEW i \in 1 .. k + 1
        PROVE  f[i] = IF i = 1 THEN ss[i] ELSE f[i - 1] \o ss[i]
    <3>1. CASE i = k + 1
      <4>1. f[i] = new /\ (k # 0 => f[i - 1] = g[k])
        BY <3>1
      <4> HIDE DEF f
      <4> QED BY <4>1, <3>1
    <3>2. CASE i \in 1..k
      <4>1. f[i] = g[i] /\ (i # 1 => f[i - 1] = g[i - 1])
        BY <3>2
      <4> HIDE DEF f
      <4> QED BY <4>1, <3>2, <2>2
    <3> QED
      BY <3>1, <3>2
  <2>4. f = [i \in 1 .. k + 1 |-> f[i]]
    OBVIOUS
  <2>5. Flattening(ss, k + 1, f)
    <3> HIDE DEF f
    <3> QED BY <2>3, <2>4 DEF Flattening
  <2> QED
    BY <2>5, Zenon
<1>3. Nat \subseteq P
  <2> HIDE DEF P
  <2> QED BY <1>1, <1>2, SetInduction, Zenon
<1> QED
  BY <1>3

LEMMA FlattenIs ==
    ASSUME NEW ss, Len(ss) \in Nat \ {0}
    PROVE  \E f : /\ FlattenSeq(ss) = f[Len(ss)]
                  /\ f[1] = ss[1]
                  /\ \A i \in 2..Len(ss) : f[i] = f[i - 1] \o ss[i]
<1> DEFINE f == CHOOSE g : Flattening(ss, Len(ss), g)
<1>1. Flattening(ss, Len(ss), f)
  BY FlatteningExists, Zenon
<1>2. FlattenSeq(ss) = f[Len(ss)]
  <2>1. Len(ss) # 0
    OBVIOUS
  <2> QED
    BY <2>1, Zenon DEF FlattenSeq, Flattening
<1> HIDE DEF f
<1>3. \A i \in 1..Len(ss) : f[i] = IF i = 1 THEN ss[i] ELSE f[i - 1] \o ss[i]
  BY <1>1 DEF Flattening
<1>4. f[1] = ss[1]
  BY <1>3, 1 \in 1..Len(ss)
<1>5. ASSUME NEW i \in 2..Len(ss) PROVE f[i] = f[i - 1] \o ss[i]
  BY <1>3, i \in 1..Len(ss), i # 1
<1> QED
  BY <1>2, <1>4, <1>5

(* A combination with each of the n values of the next variable. *)
Row(c, n) == [v \in 1..n |-> Append(c, v)]
Behind(c, n) == {Append(c, v) : v \in 1..n}
BehindAll(combos, k, n) == UNION {Behind(combos[q], n) : q \in 1..k}

(* x is a combination of C with one of the n values of the next variable. *)
Lengthens(x, C, n) == \E c \in C, v \in 1..n : x = Append(c, v)

LEMMA RowIs ==
    ASSUME NEW c \in Seq(Nat), NEW n \in Nat
    PROVE  /\ Row(c, n) \in Seq(Seq(Nat)) /\ NoRepeats(Row(c, n))
           /\ ToSet(Row(c, n)) = Behind(c, n)
<1>1. \A v \in 1..n : Append(c, v) \in Seq(Nat)
  OBVIOUS
<1>2. Row(c, n) \in Seq(Seq(Nat)) /\ DOMAIN Row(c, n) = 1..n
  <2>1. Row(c, n) \in [1..n -> Seq(Nat)]
    BY <1>1 DEF Row
  <2> QED
    BY <2>1
<1>3. \A v \in 1..n : Row(c, n)[v] = Append(c, v)
  BY DEF Row
<1>4. \A v, w \in 1..n : Append(c, v) = Append(c, w) => v = w
  BY AppendInjective, 1..n \subseteq Nat
<1>5. NoRepeats(Row(c, n))
  BY <1>2, <1>3, <1>4, Zenon DEF NoRepeats
<1>6. ToSet(Row(c, n)) = Behind(c, n)
  BY <1>2, <1>3, Zenon DEF ToSet, Behind
<1> QED
  BY <1>2, <1>5, <1>6

LEMMA BehindApart ==
    ASSUME NEW c \in Seq(Nat), NEW d \in Seq(Nat), NEW n \in Nat, c # d
    PROVE  Behind(c, n) \cap Behind(d, n) = {}
<1> SUFFICES ASSUME NEW v \in 1..n, NEW w \in 1..n, Append(c, v) = Append(d, w)
             PROVE  FALSE
  BY DEF Behind
<1>1. v \in Nat /\ w \in Nat
  OBVIOUS
<1> QED
  BY <1>1, AppendInjective

(* The rows of different combinations, one after the other. *)
LEMMA RowsJoined ==
    ASSUME NEW combos \in Seq(Seq(Nat)), NoRepeats(combos), NEW n \in Nat,
           NEW f, f[1] = Row(combos[1], n),
           \A i \in 2..Len(combos) : f[i] = f[i - 1] \o Row(combos[i], n),
           NEW k \in 1..Len(combos)
    PROVE  /\ f[k] \in Seq(Seq(Nat)) /\ NoRepeats(f[k])
           /\ ToSet(f[k]) = BehindAll(combos, k, n)
<1> DEFINE L == Len(combos)
           Good(j) == /\ f[j] \in Seq(Seq(Nat)) /\ NoRepeats(f[j])
                      /\ ToSet(f[j]) = BehindAll(combos, j, n)
           P == {j \in Nat : j \in 1..L => Good(j)}
<1>1. L \in Nat /\ DOMAIN combos = 1..L /\ \A i \in 1..L : combos[i] \in Seq(Nat)
  OBVIOUS
<1>2. 0 \in P
  OBVIOUS
<1>3. ASSUME NEW j \in P \cap Nat PROVE j + 1 \in P
  <2> SUFFICES ASSUME j + 1 \in 1..L PROVE Good(j + 1)
    OBVIOUS
  <2>0. PICK i \in 1..L : i = j + 1
    OBVIOUS
  <2>1. combos[i] \in Seq(Nat)
    BY <1>1
  <2>2. Row(combos[i], n) \in Seq(Seq(Nat)) /\ NoRepeats(Row(combos[i], n))
        /\ ToSet(Row(combos[i], n)) = Behind(combos[i], n)
    BY <2>1, RowIs
  <2>3. BehindAll(combos, i, n) = BehindAll(combos, j, n) \cup Behind(combos[i], n)
    <3>1. 1..i = (1..j) \cup {i}
      BY <2>0
    <3> QED
      BY <3>1 DEF BehindAll
  <2>4. CASE j = 0
    <3>1. BehindAll(combos, j, n) = {} /\ i = 1
      BY <2>0, <2>4 DEF BehindAll
    <3>2. f[i] = Row(combos[i], n)
      BY <3>1
    <3>3. Good(i)
      BY <2>2, <2>3, <3>1, <3>2, Zenon
    <3> QED
      BY <2>0, <3>3, Zenon
  <2>5. CASE j # 0
    <3>1. j \in 1..L /\ i \in 2..L /\ i - 1 = j
      BY <1>1, <2>0, <2>5
    <3>2. Good(j)
      BY <3>1
    <3>3. f[i] = f[j] \o Row(combos[i], n)
      BY <3>1
    <3>4. BehindAll(combos, j, n) \cap Behind(combos[i], n) = {}
      <4>1. ASSUME NEW q \in 1..j PROVE Behind(combos[q], n) \cap Behind(combos[i], n) = {}
        <5>1. q \in 1..L /\ q # i
          BY <1>1, <2>0
        <5>2. combos[q] # combos[i]
          BY <1>1, <5>1 DEF NoRepeats
        <5> QED
          BY <1>1, <5>1, <5>2, BehindApart
      <4> QED
        BY <4>1 DEF BehindAll
    <3>5. Good(i)
      <4>1. PICK g, r : g = f[j] /\ r = Row(combos[i], n)
        OBVIOUS
      <4>2. /\ g \in Seq(Seq(Nat)) /\ NoRepeats(g) /\ r \in Seq(Seq(Nat)) /\ NoRepeats(r)
            /\ ToSet(g) \cap ToSet(r) = {}
        BY <2>2, <3>2, <3>4, <4>1
      <4>3. g \o r \in Seq(Seq(Nat)) /\ NoRepeats(g \o r) /\ ToSet(g \o r) = ToSet(g) \cup ToSet(r)
        BY <4>2, Joined
      <4>4. ToSet(g) = BehindAll(combos, j, n) /\ ToSet(r) = Behind(combos[i], n)
        BY <2>2, <3>2, <4>1
      <4> QED
        BY <2>3, <3>3, <4>1, <4>3, <4>4, Zenon
    <3> QED
      BY <2>0, <3>5, Zenon
  <2> QED
    BY <2>4, <2>5
<1>4. Nat \subseteq P
  <2> HIDE DEF P
  <2> QED BY <1>2, <1>3, SetInduction, Zenon
<1>5. k \in P /\ k \in 1..L
  BY <1>1, <1>4
<1> QED
  BY <1>5

(* A variable's values are put behind each of the combinations made so far. *)
LEMMA ExtendedIs ==
    ASSUME NEW combos \in Seq(Seq(Nat)), NoRepeats(combos), NEW n \in Nat
    PROVE  /\ Extended(combos, n) \in Seq(Seq(Nat)) /\ NoRepeats(Extended(combos, n))
           /\ \A x : x \in ToSet(Extended(combos, n)) <=> Lengthens(x, ToSet(combos), n)
<1> DEFINE L == Len(combos)
<1>1. L \in Nat /\ DOMAIN combos = 1..L /\ \A i \in 1..L : combos[i] \in Seq(Nat)
  OBVIOUS
<1>2. PICK ss : ss = [i \in DOMAIN combos |-> Row(combos[i], n)]
  OBVIOUS
<1>3. Extended(combos, n) = FlattenSeq(ss)
  BY <1>2, Zenon DEF Extended, Row
<1>4. /\ ss \in Seq(Seq(Seq(Nat))) /\ Len(ss) = L
      /\ \A i \in 1..L : ss[i] = Row(combos[i], n)
  <2>1. \A i \in 1..L : Row(combos[i], n) \in Seq(Seq(Nat))
    BY <1>1, RowIs
  <2> QED
    BY <1>1, <1>2, <2>1
<1>5. ToSet(combos) = {combos[q] : q \in 1..L}
  BY <1>1 DEF ToSet
<1>6. ASSUME NEW x
      PROVE  x \in BehindAll(combos, L, n) <=> Lengthens(x, ToSet(combos), n)
  <2> HIDE DEF L
  <2>1. x \in BehindAll(combos, L, n) <=> \E q \in 1..L : x \in Behind(combos[q], n)
    BY DEF BehindAll
  <2>2. \A q \in 1..L : x \in Behind(combos[q], n) <=> \E v \in 1..n : x = Append(combos[q], v)
    BY DEF Behind
  <2>3. Lengthens(x, ToSet(combos), n) <=> \E q \in 1..L, v \in 1..n : x = Append(combos[q], v)
    BY <1>5, Zenon DEF Lengthens
  <2> QED
    BY <2>1, <2>2, <2>3, Zenon
<1>7. CASE L = 0
  <2>1. FlattenSeq(ss) = ss /\ ss = <<>>
    BY <1>4, <1>7, EmptySeq, Zenon DEF FlattenSeq
  <2>2. ToSet(combos) = {}
    BY <1>1, <1>5, <1>7
  <2> QED
    <3>1. \A x : ~Lengthens(x, ToSet(combos), n)
      BY <2>2 DEF Lengthens
    <3>2. ToSet(ss) = {} /\ NoRepeats(ss) /\ ss \in Seq(Seq(Nat))
      BY <2>1 DEF NoRepeats, ToSet
    <3> QED
      BY <1>3, <2>1, <3>1, <3>2
<1>8. CASE L # 0
  <2>0. PICK f : /\ FlattenSeq(ss) = f[Len(ss)]
                 /\ f[1] = ss[1]
                 /\ \A i \in 2..Len(ss) : f[i] = f[i - 1] \o ss[i]
    <3>1. Len(ss) \in Nat \ {0}
      BY <1>1, <1>4, <1>8
    <3> QED
      BY <3>1, FlattenIs, Zenon
  <2>1. FlattenSeq(ss) = f[L] /\ f[1] = ss[1] /\ \A i \in 2..L : f[i] = f[i - 1] \o ss[i]
    <3>1. Len(ss) = L
      BY <1>4
    <3> QED
      BY ONLY <2>0, <3>1
  <2>2. L \in 1..L /\ f[1] = Row(combos[1], n)
    <3>1. L \in Nat \ {0}
      BY <1>1, <1>8
    <3>2. 1 \in 1..L /\ L \in 1..L
      BY ONLY <3>1
    <3>3. ss[1] = Row(combos[1], n)
      BY <1>4, <3>2
    <3> QED
      BY <2>1, <3>2, <3>3
  <2>3. \A i \in 2..L : f[i] = f[i - 1] \o Row(combos[i], n)
    <3> SUFFICES ASSUME NEW i \in 2..L PROVE f[i] = f[i - 1] \o Row(combos[i], n)
      OBVIOUS
    <3>1. i \in 1..L
      BY <1>1
    <3>2. ss[i] = Row(combos[i], n)
      BY <1>4, <3>1, Zenon
    <3> QED
      BY <2>1, <3>2, Zenon
  <2>4. /\ f[L] \in Seq(Seq(Nat)) /\ NoRepeats(f[L])
        /\ ToSet(f[L]) = BehindAll(combos, L, n)
    BY <2>2, <2>3, RowsJoined
  <2> QED
    BY <1>3, <1>6, <2>1, <2>4
<1> QED
  BY <1>7, <1>8, Zenon

-----------------------------------------------------------------------------
LEMMA NoCombos ==
    ASSUME NEW m
    PROVE  Combos(m, 0) = { <<>> }
<1>1. \A c \in Seq(Nat) : Len(c) = 0 <=> c = <<>>
  BY EmptySeq
<1>2. <<>> \in Seq(Nat) /\ 1..0 = {}
  OBVIOUS
<1> QED
  BY <1>1, <1>2, Zenon DEF Combos

(* The combinations of one variable more. *)
LEMMA CombosNext ==
    ASSUME NEW m \in Seq(Nat), NEW i \in Nat, i + 1 <= Len(m)
    PROVE  /\ Combos(m, 0) = { <<>> }
           /\ \A x : x \in Combos(m, i + 1) <=> Lengthens(x, Combos(m, i), m[i + 1])
<1>1. Combos(m, 0) = { <<>> }
  BY NoCombos
<1>2. m[i + 1] \in Nat
  OBVIOUS
<1>3. ASSUME NEW c \in Combos(m, i), NEW v \in 1..m[i + 1]
      PROVE  Append(c, v) \in Combos(m, i + 1)
  <2>1. c \in Seq(Nat) /\ v \in Nat /\ Len(c) = i /\ \A j \in 1..i : c[j] \in 1..m[j]
    BY <1>2 DEF Combos
  <2>2. PICK d : d = Append(c, v)
    OBVIOUS
  <2>3. /\ d \in Seq(Nat) /\ Len(d) = i + 1 /\ d[i + 1] = v
        /\ \A j \in 1..i : d[j] = c[j]
    BY <2>1, <2>2, AppendProperties
  <2>4. \A j \in 1 .. i + 1 : d[j] \in 1..m[j]
    BY <2>1, <2>3
  <2> QED
    BY <2>2, <2>3, <2>4 DEF Combos
<1>4. ASSUME NEW d \in Combos(m, i + 1)
      PROVE  \E c \in Combos(m, i), v \in 1..m[i + 1] : d = Append(c, v)
  <2>1. d \in Seq(Nat) /\ Len(d) = i + 1 /\ \A j \in 1 .. i + 1 : d[j] \in 1..m[j]
    BY DEF Combos
  <2>2. PICK c \in Seq(Nat), v \in Nat : d = Append(c, v)
    <3>1. d # <<>>
      BY <2>1, EmptySeq
    <3> QED
      BY <2>1, <3>1, SequenceEmptyOrAppend
  <2>3. /\ Len(d) = Len(c) + 1 /\ Len(c) \in Nat /\ d[Len(c) + 1] = v
        /\ \A j \in 1..Len(c) : d[j] = c[j]
    BY <2>2, AppendProperties
  <2>4. Len(c) = i
    BY <2>1, <2>3
  <2>5. v \in 1..m[i + 1] /\ \A j \in 1..i : c[j] \in 1..m[j]
    BY <2>1, <2>3, <2>4
  <2>6. c \in Combos(m, i)
    BY <2>4, <2>5 DEF Combos
  <2> QED
    BY <2>2, <2>5, <2>6
<1>5. ASSUME NEW x
      PROVE  x \in Combos(m, i + 1) <=> Lengthens(x, Combos(m, i), m[i + 1])
  BY <1>3, <1>4, Zenon DEF Lengthens
<1> QED
  BY <1>1, <1>5, Zenon

LEMMA CombosFinite ==
    ASSUME NEW m \in Seq(Nat), NEW i \in 0..Len(m)
    PROVE  IsFiniteSet(Combos(m, i))
<1> DEFINE P == {k \in Nat : k <= Len(m) => IsFiniteSet(Combos(m, k))}
<1>1. 0 \in P
  <2>1. Combos(m, 0) = { <<>> }
    BY NoCombos
  <2> QED
    BY <2>1, FS_Singleton
<1>2. ASSUME NEW k \in P \cap Nat PROVE k + 1 \in P
  <2> SUFFICES ASSUME k + 1 <= Len(m) PROVE IsFiniteSet(Combos(m, k + 1))
    OBVIOUS
  <2> DEFINE S == Combos(m, k) \X (1..m[k + 1])
             f == [x \in S |-> Append(x[1], x[2])]
  <2>1. IsFiniteSet(S)
    <3>1. IsFiniteSet(Combos(m, k)) /\ m[k + 1] \in Int
      OBVIOUS
    <3>2. IsFiniteSet(1..m[k + 1])
      <4>1. PICK x \in Int : x = m[k + 1]
        BY <3>1
      <4>2. IsFiniteSet(1..x)
        BY FS_Interval
      <4> QED
        BY <4>1, <4>2, Zenon
    <3> QED
      BY <3>1, <3>2, FS_Product
  <2>2. \A x : x \in Combos(m, k + 1) <=> Lengthens(x, Combos(m, k), m[k + 1])
    BY CombosNext, Zenon
  <2>3. f \in Surjection(S, Combos(m, k + 1))
    <3>1. \A x \in S : f[x] = Append(x[1], x[2]) /\ x[1] \in Combos(m, k) /\ x[2] \in 1..m[k + 1]
      OBVIOUS
    <3>2. f \in [S -> Combos(m, k + 1)]
      <4>1. \A c \in Combos(m, k), v \in 1..m[k + 1] : Append(c, v) \in Combos(m, k + 1)
        BY <2>2, Zenon DEF Lengthens
      <4>2. \A x \in S : f[x] \in Combos(m, k + 1)
        BY <3>1, <4>1, Zenon
      <4>3. DOMAIN f = S /\ f = [x \in DOMAIN f |-> f[x]]
        OBVIOUS
      <4> HIDE DEF f, S
      <4> QED
        BY <4>2, <4>3, Zenon
    <3>3. ASSUME NEW d \in Combos(m, k + 1) PROVE \E x \in S : f[x] = d
      <4>1. PICK c \in Combos(m, k), v \in 1..m[k + 1] : d = Append(c, v)
        BY <2>2 DEF Lengthens
      <4>2. <<c, v>> \in S /\ f[<<c, v>>] = d
        BY <4>1
      <4> QED
        BY <4>2
    <3> HIDE DEF f, S
    <3> QED
      BY <3>2, <3>3 DEF Surjection
  <2> HIDE DEF f, S
  <2> QED
    BY <2>1, <2>3, FS_Surjection
<1>3. Nat \subseteq P
  <2> HIDE DEF P
  <2> QED BY <1>1, <1>2, SetInduction, Zenon
<1> QED
  BY <1>3

(* Without an empty variable a longer prefix has no fewer combinations. *)
LEMMA CombosGrow ==
    ASSUME NEW m \in Seq(Nat), NEW i \in Nat, i + 1 <= Len(m), m[i + 1] # 0
    PROVE  Cardinality(Combos(m, i)) <= Cardinality(Combos(m, i + 1))
<1> DEFINE f == [c \in Combos(m, i) |-> Append(c, 1)]
<1>1. 1 \in 1..m[i + 1]
  <2>1. m[i + 1] \in Nat
    OBVIOUS
  <2> QED
    BY <2>1
<1>2. f \in [Combos(m, i) -> Combos(m, i + 1)]
  <2>1. \A x : x \in Combos(m, i + 1) <=> Lengthens(x, Combos(m, i), m[i + 1])
    BY CombosNext, Zenon
  <2>2. \A c \in Combos(m, i) : Append(c, 1) \in Combos(m, i + 1)
    BY <1>1, <2>1, Zenon DEF Lengthens
  <2> QED
    BY <2>2
<1>3. ASSUME NEW c \in Combos(m, i), NEW d \in Combos(m, i), f[c] = f[d]
      PROVE  c = d
  <2>1. c \in Seq(Nat) /\ d \in Seq(Nat)
    BY DEF Combos
  <2> QED
    BY <1>3, <2>1, AppendInjective
<1>4. f \in Injection(Combos(m, i), Combos(m, i + 1))
  BY <1>2, <1>3 DEF Injection, IsInjective
<1>5. IsFiniteSet(Combos(m, i + 1))
  BY CombosFinite
<1> HIDE DEF f
<1> QED
  BY <1>4, <1>5, FS_Injection

-----------------------------------------------------------------------------
(* p is what expand_matrix has after i variables: all their combinations,  *)
(* or as many as the limit allows once there were more.                    *)
Expanded(m, i, p) ==
    /\ p.combos \in Seq(Seq(Nat)) /\ NoRepeats(p.combos) /\ p.over \in BOOLEAN
    /\ ~p.over => ToSet(p.combos) = Combos(m, i) /\ Len(p.combos) <= MaxCombos
    /\ p.over => /\ Len(p.combos) = MaxCombos
                 /\ 0 \in ToSet(m) \/ Cardinality(Combos(m, i)) > MaxCombos

LEMMA ExpandedNext ==
    ASSUME NEW m \in Seq(Nat), NEW i \in Nat, i + 1 <= Len(m), NEW p, Expanded(m, i, p)
    PROVE  Expanded(m, i + 1, StepOf(p, m[i + 1]))
<1> DEFINE n == m[i + 1]
           new == Extended(p.combos, n)
<1>0. n \in Nat /\ i + 1 \in DOMAIN m /\ MaxCombos \in Nat \ {0}
  BY RunnerAssumptions
<1> HIDE DEF n
<1>1. CASE p.over
  <2>1. StepOf(p, n) = p
    BY <1>1 DEF StepOf
  <2>2. 0 \in ToSet(m) \/ Cardinality(Combos(m, i + 1)) > MaxCombos
    <3>1. CASE n = 0
      BY <1>0, <3>1 DEF ToSet, n
    <3>2. CASE n # 0 /\ Cardinality(Combos(m, i)) > MaxCombos
      <4>1. Cardinality(Combos(m, i)) <= Cardinality(Combos(m, i + 1))
        BY <3>2, CombosGrow DEF n
      <4>2. Cardinality(Combos(m, i)) \in Nat /\ Cardinality(Combos(m, i + 1)) \in Nat
        BY CombosFinite, FS_CardinalityType
      <4> QED
        BY <1>0, <3>2, <4>1, <4>2
    <3> QED
      BY <1>1, <3>1, <3>2 DEF Expanded
  <2> QED
    BY <1>1, <2>1, <2>2 DEF Expanded, n
<1>2. CASE ~p.over
  <2>1. ToSet(p.combos) = Combos(m, i)
    BY <1>2 DEF Expanded
  <2>2. /\ new \in Seq(Seq(Nat)) /\ NoRepeats(new)
        /\ \A x : x \in ToSet(new) <=> Lengthens(x, Combos(m, i), n)
    BY <1>0, <2>1, ExtendedIs, Zenon DEF Expanded
  <2>3. \A x : x \in Combos(m, i + 1) <=> Lengthens(x, Combos(m, i), n)
    BY CombosNext, Zenon DEF n
  <2>4. ToSet(new) = Combos(m, i + 1)
    <3> HIDE DEF new
    <3> QED BY <2>2, <2>3
  <2>5. Len(new) \in Nat /\ Cardinality(Combos(m, i + 1)) = Len(new)
    <3> HIDE DEF new
    <3> QED BY <2>2, <2>4, CountOf
  <2>6. CASE OverLimit(Len(new))
    <3> DEFINE s == SubSeq(new, 1, MaxCombos)
    <3>1. StepOf(p, n) = [combos |-> s, over |-> TRUE]
      BY <1>2, <2>6, Zenon DEF StepOf
    <3>2. Len(new) > MaxCombos
      BY <2>6 DEF OverLimit
    <3> HIDE DEF new
    <3>3. DOMAIN new = 1..Len(new) /\ \A j \in 1..MaxCombos : new[j] \in Seq(Nat)
      BY <1>0, <2>2, <2>5, <3>2
    <3>4. /\ s \in Seq(Seq(Nat)) /\ Len(s) = MaxCombos
          /\ \A j \in 1..MaxCombos : s[j] = new[j]
      BY <1>0, <3>3, SubSeqProperties
    <3> HIDE DEF s
    <3>5. NoRepeats(s)
      <4>1. DOMAIN s = 1..MaxCombos /\ 1..MaxCombos \subseteq DOMAIN new
        BY <1>0, <2>5, <3>2, <3>3, <3>4
      <4> QED
        BY <2>2, <3>4, <4>1 DEF NoRepeats
    <3> QED
      BY <2>5, <3>1, <3>2, <3>4, <3>5 DEF Expanded, n
  <2>7. CASE ~OverLimit(Len(new))
    <3>1. StepOf(p, n) = [combos |-> new, over |-> FALSE]
      BY <1>2, <2>7, Zenon DEF StepOf
    <3>2. Len(new) <= MaxCombos
      BY <1>0, <2>5, <2>7 DEF OverLimit
    <3> HIDE DEF new
    <3> QED
      BY <2>2, <2>4, <3>1, <3>2 DEF Expanded, n
  <2> QED
    BY <2>6, <2>7
<1>3. p.over \in BOOLEAN
  BY DEF Expanded
<1> QED
  BY <1>1, <1>2 DEF n

(* expand_matrix is a function with this recursion. *)
Expansion(m, n, e) ==
    e = [i \in 0..n |-> IF i = 0 THEN [combos |-> << <<>> >>, over |-> FALSE]
                        ELSE StepOf(e[i - 1], m[i])]

LEMMA ExpansionExists ==
    ASSUME NEW m, NEW n \in Nat
    PROVE  \E e : Expansion(m, n, e)
<1> DEFINE first == [combos |-> << <<>> >>, over |-> FALSE]
           P == {k \in Nat : \E e : Expansion(m, k, e)}
<1>1. 0 \in P
  <2> DEFINE e == [i \in 0..0 |-> first]
  <2>1. Expansion(m, 0, e)
    BY DEF Expansion
  <2> QED
    BY <2>1, Zenon
<1>2. ASSUME NEW k \in P \cap Nat PROVE k + 1 \in P
  <2> SUFFICES \E e : Expansion(m, k + 1, e)
    OBVIOUS
  <2>1. PICK g : Expansion(m, k, g)
    OBVIOUS
  <2> DEFINE e == [i \in 0 .. k + 1 |-> IF i = k + 1 THEN StepOf(g[k], m[k + 1]) ELSE g[i]]
  <2>2. \A i \in 0..k : g[i] = IF i = 0 THEN first ELSE StepOf(g[i - 1], m[i])
    BY <2>1 DEF Expansion
  <2> HIDE DEF first
  <2>3. ASSUME NEW i \in 0 .. k + 1
        PROVE  e[i] = IF i = 0 THEN first ELSE StepOf(e[i - 1], m[i])
    <3>1. CASE i = k + 1
      <4>1. e[i] = StepOf(g[k], m[k + 1]) /\ e[i - 1] = g[k] /\ i # 0
        BY <3>1
      <4> HIDE DEF e
      <4> QED BY <4>1, <3>1
    <3>2. CASE i \in 0..k
      <4>1. e[i] = g[i] /\ (i # 0 => e[i - 1] = g[i - 1])
        BY <3>2
      <4> HIDE DEF e
      <4> QED BY <4>1, <3>2, <2>2
    <3> QED
      BY <3>1, <3>2
  <2>4. e = [i \in 0 .. k + 1 |-> e[i]]
    OBVIOUS
  <2>5. Expansion(m, k + 1, e)
    <3> HIDE DEF e
    <3> QED BY <2>3, <2>4 DEF Expansion, first
  <2> QED
    BY <2>5, Zenon
<1>3. Nat \subseteq P
  <2> HIDE DEF P
  <2> QED BY <1>1, <1>2, SetInduction, Zenon
<1> QED
  BY <1>3

LEMMA ExpandedExists ==
    ASSUME NEW m \in Seq(Nat)
    PROVE  \E p : Expanded(m, Len(m), p) /\ expand_matrix(m) = p.combos
<1> DEFINE e == CHOOSE g : Expansion(m, Len(m), g)
<1>1. Len(m) \in Nat
  OBVIOUS
<1>2. Expansion(m, Len(m), e)
  BY <1>1, ExpansionExists, Zenon
<1>3. expand_matrix(m) = e[Len(m)].combos
  BY Zenon DEF expand_matrix, Expansion, StepOf, Extended
<1> HIDE DEF e
<1>4. \A i \in 0..Len(m) : e[i] = IF i = 0 THEN [combos |-> << <<>> >>, over |-> FALSE]
                                ELSE StepOf(e[i - 1], m[i])
  BY <1>2 DEF Expansion
<1> DEFINE P == {i \in Nat : i <= Len(m) => Expanded(m, i, e[i])}
<1>5. 0 \in P
  <2>1. e[0] = [combos |-> << <<>> >>, over |-> FALSE]
    BY <1>1, <1>4, 0 \in 0..Len(m)
  <2>2. /\ << <<>> >> \in Seq(Seq(Nat)) /\ Len(<< <<>> >>) = 1
        /\ DOMAIN << <<>> >> = {1} /\ ToSet(<< <<>> >>) = { <<>> }
    <3>1. <<>> \in Seq(Nat)
      OBVIOUS
    <3> QED
      BY <3>1 DEF ToSet
  <2>3. NoRepeats(<< <<>> >>)
    BY <2>2 DEF NoRepeats
  <2>4. Combos(m, 0) = { <<>> } /\ 1 <= MaxCombos
    BY NoCombos, RunnerAssumptions
  <2>5. PICK p : p = e[0]
    OBVIOUS
  <2>6. p.combos = << <<>> >> /\ p.over = FALSE
    BY <2>1, <2>5
  <2>7. ToSet(p.combos) = Combos(m, 0) /\ Len(p.combos) <= MaxCombos
    BY <2>2, <2>4, <2>6
  <2>8. Expanded(m, 0, p)
    BY <2>2, <2>3, <2>6, <2>7 DEF Expanded
  <2> QED
    BY <2>5, <2>8
<1>6. ASSUME NEW i \in P \cap Nat PROVE i + 1 \in P
  <2> SUFFICES ASSUME i + 1 <= Len(m) PROVE Expanded(m, i + 1, e[i + 1])
    OBVIOUS
  <2>1. i + 1 \in 0..Len(m) /\ i + 1 # 0 /\ (i + 1) - 1 = i
    BY <1>1
  <2>2. e[i + 1] = StepOf(e[i], m[i + 1])
    BY <1>4, <2>1
  <2>3. Expanded(m, i, e[i])
    BY <1>1
  <2> QED
    BY <2>2, <2>3, ExpandedNext
<1>7. Nat \subseteq P
  <2> HIDE DEF P
  <2> QED BY <1>5, <1>6, SetInduction, Zenon
<1>8. Expanded(m, Len(m), e[Len(m)])
  BY <1>1, <1>7
<1> QED
  BY <1>3, <1>8, Zenon

(* What expand_matrix gives for a whole matrix. *)
LEMMA ExpandMatrixIs ==
    ASSUME NEW m \in Seq(Nat)
    PROVE  LET all == Combos(m, Len(m))
               chosen == ToSet(expand_matrix(m))
           IN  \/ Cardinality(all) <= MaxCombos /\ chosen = all
               \/ /\ Cardinality(all) > MaxCombos \/ 0 \in ToSet(m)
                  /\ Cardinality(chosen) = MaxCombos
<1>1. PICK p : Expanded(m, Len(m), p) /\ expand_matrix(m) = p.combos
  BY ExpandedExists
<1>2. /\ p.combos \in Seq(Seq(Nat)) /\ NoRepeats(p.combos)
      /\ Cardinality(ToSet(p.combos)) = Len(p.combos)
  BY <1>1, CountOf DEF Expanded
<1> QED
  BY <1>1, <1>2 DEF Expanded

(* Without an empty variable there is a combination. *)
LEMMA SomeCombo ==
    ASSUME NEW m \in Seq(Nat), 0 \notin ToSet(m)
    PROVE  ToSet(expand_matrix(m)) # {}
<1>1. PICK c : c = [j \in 1..Len(m) |-> 1]
  OBVIOUS
<1>2. c \in Seq(Nat) /\ Len(c) = Len(m) /\ \A j \in 1..Len(m) : c[j] = 1
  BY <1>1
<1>3. \A j \in 1..Len(m) : m[j] \in Nat /\ m[j] # 0
  BY DEF ToSet
<1>4. c \in Combos(m, Len(m))
  BY <1>2, <1>3 DEF Combos
<1>5. Cardinality({}) = 0 /\ MaxCombos # 0
  BY FS_EmptySet, RunnerAssumptions
<1> QED
  BY <1>4, <1>5, ExpandMatrixIs

(* The same combinations, as functions. *)
LEMMA AllCombos ==
    ASSUME NEW m \in Seq(Nat)
    PROVE  {c \in [DOMAIN m -> 1..Max(ToSet(m) \cup {0})] : \A i \in DOMAIN m : c[i] <= m[i]}
             = Combos(m, Len(m))
<1> DEFINE S(k) == {m[j] : j \in 1..k} \cup {0}
           P == {k \in Nat : k <= Len(m) => \E x \in S(k) : \A y \in S(k) : x >= y}
<1>1. Len(m) \in Nat /\ DOMAIN m = 1..Len(m) /\ \A j \in 1..Len(m) : m[j] \in Nat
  OBVIOUS
<1>2. 0 \in P
  BY S(0) = {0}
<1>3. ASSUME NEW k \in P \cap Nat PROVE k + 1 \in P
  <2> SUFFICES ASSUME k + 1 <= Len(m)
               PROVE  \E x \in S(k + 1) : \A y \in S(k + 1) : x >= y
    OBVIOUS
  <2>0. k \in Nat /\ k <= Len(m)
    BY <1>1
  <2>1. PICK x \in S(k) : \A y \in S(k) : x >= y
    <3> HIDE DEF S
    <3> QED BY <2>0
  <2>2. S(k + 1) = S(k) \cup {m[k + 1]}
    <3>1. 1 .. k + 1 = (1..k) \cup {k + 1}
      OBVIOUS
    <3> QED
      BY <3>1
  <2>3. S(k) \subseteq Nat /\ m[k + 1] \in Nat
    BY <1>1
  <2> HIDE DEF S
  <2>4. CASE x >= m[k + 1]
    BY <2>1, <2>2, <2>4
  <2>5. CASE ~(x >= m[k + 1])
    <3>1. \A y \in S(k + 1) : m[k + 1] >= y
      BY <2>1, <2>2, <2>3, <2>5
    <3> QED
      BY <2>2, <3>1
  <2> QED
    BY <2>4, <2>5
<1>4. Nat \subseteq P
  <2> HIDE DEF P
  <2> QED BY <1>2, <1>3, SetInduction, Zenon
<1> DEFINE T == ToSet(m) \cup {0}
<1>5. T = S(Len(m)) /\ T \subseteq Nat
  BY <1>1 DEF ToSet
<1>6. \E x \in T : \A y \in T : x >= y
  <2>1. Len(m) \in P
    <3> HIDE DEF P
    <3> QED BY <1>1, <1>4
  <2> HIDE DEF S, T
  <2> QED BY <1>1, <1>5, <2>1
<1> HIDE DEF T, S
<1>7. PICK top \in Nat : top = Max(T) /\ \A y \in T : top >= y
  BY <1>5, <1>6 DEF Max
<1>8. \A j \in 1..Len(m) : m[j] <= top
  BY <1>1, <1>7 DEF T, ToSet
<1>9. ASSUME NEW c \in [1..Len(m) -> 1..top], \A i \in 1..Len(m) : c[i] <= m[i]
      PROVE  c \in Combos(m, Len(m))
  <2>1. c \in Seq(Nat) /\ Len(c) = Len(m)
    BY <1>1
  <2>2. \A j \in 1..Len(m) : c[j] \in 1..m[j]
    BY <1>1, <1>9
  <2> QED
    BY <2>1, <2>2 DEF Combos
<1>10. ASSUME NEW c \in Combos(m, Len(m))
       PROVE  c \in [1..Len(m) -> 1..top] /\ \A i \in 1..Len(m) : c[i] <= m[i]
  <2>1. c \in Seq(Nat) /\ Len(c) = Len(m) /\ \A j \in 1..Len(m) : c[j] \in 1..m[j]
    BY DEF Combos
  <2>2. \A j \in 1..Len(m) : c[j] \in 1..top /\ c[j] <= m[j]
    BY <1>1, <1>8, <2>1
  <2>3. c \in [1..Len(m) -> Nat]
    BY <2>1
  <2> QED
    BY <2>2, <2>3
<1> QED
  BY <1>1, <1>7, <1>9, <1>10 DEF T

-----------------------------------------------------------------------------
(* The levels contain every action asked for, with a circle or without.    *)
LEMMA LevelsComplete ==
    ASSUME NEW c \in Configs, NEW M \in SUBSET DOMAIN c
    PROVE  UNION ToSet(topological_levels(c, M)) = M
<1> DEFINE k == Kahn(c, M)
           n == Cardinality(M)
           R(x) == {a \in M : Ready(InDegree(c, M, x, a))}
           B(i) == {j \in 1..i : k[j] # k[j - 1]}
<1>1. IsFiniteSet(M) /\ M \in SUBSET Nat
  BY RunnerAssumptions, FS_Subset
<1>2. n \in Nat
  BY <1>1, FS_CardinalityType
<1>3. CASE k[n] # M
  <2>1. topological_levels(c, M) = Fallback(M)
    BY <1>3, Zenon DEF topological_levels
  <2>2. Sorted(M) \in Seq(M) /\ ToSet(Sorted(M)) = M
    BY <1>1, SortedIs
  <2>3. ToSet(Fallback(M)) = { {Sorted(M)[i]} : i \in DOMAIN Sorted(M) }
    BY DEF Fallback, ToSet
  <2>4. UNION ToSet(Fallback(M)) = {Sorted(M)[i] : i \in DOMAIN Sorted(M)}
    BY <2>3
  <2> QED
    BY <2>1, <2>2, <2>4 DEF ToSet
<1>4. CASE k[n] = M
  <2> DEFINE D == Depth(M, k)
             ls == [i \in 1..D |-> k[i] \ k[i - 1]]
  <2>1. topological_levels(c, M) = ls
    BY <1>4, Zenon DEF topological_levels
  <2>2. k[0] = {} /\ \A i \in 1..n : k[i] = k[i - 1] \cup R(k[i - 1])
    BY <1>1, KahnIs
  <2>3. \A i \in 0..n : k[i] \subseteq M
    BY <1>1, KahnWithin
  <2>4. PICK d \in 0..n : B(n) = 1..d /\ k[n] = k[d]
    <3> HIDE DEF k, n, R
    <3> DEFINE P == {i \in Nat : i <= n =>
                        \/ B(i) = 1..i
                        \/ i # 0 /\ k[i] = k[i - 1] /\ \E d \in 0..i : B(i) = 1..d /\ k[i] = k[d]}
    <3>1. 0 \in P
      BY B(0) = {}
    <3>2. ASSUME NEW i \in P \cap Nat PROVE i + 1 \in P
      <4> SUFFICES ASSUME i + 1 <= n
                   PROVE  \/ B(i + 1) = 1 .. i + 1
                          \/ /\ k[i + 1] = k[i]
                             /\ \E d \in 0 .. i + 1 : B(i + 1) = 1..d /\ k[i + 1] = k[d]
        OBVIOUS
      <4>1. i + 1 \in 1..n /\ (i + 1) - 1 = i /\ i \in 0..n
        BY <1>2
      <4>2. B(i + 1) = B(i) \cup {j \in {i + 1} : k[j] # k[j - 1]}
        BY 1 .. i + 1 = (1..i) \cup {i + 1}
      <4>3. k[i + 1] = k[i] \cup R(k[i])
        BY <2>2, <4>1
      <4>4. CASE B(i) = 1..i
        <5>1. CASE k[i + 1] = k[i]
          <6>1. B(i + 1) = B(i)
            BY <4>1, <4>2, <5>1
          <6> HIDE DEF B
          <6> QED
            BY <4>1, <4>4, <5>1, <6>1
        <5>2. CASE k[i + 1] # k[i]
          <6>1. B(i + 1) = B(i) \cup {i + 1}
            BY <4>1, <4>2, <5>2
          <6> HIDE DEF B
          <6> QED
            BY <4>1, <4>4, <6>1, 1 .. i + 1 = (1..i) \cup {i + 1}
        <5> QED
          BY <5>1, <5>2
      <4>5. CASE i # 0 /\ k[i] = k[i - 1] /\ \E d \in 0..i : B(i) = 1..d /\ k[i] = k[d]
        <5>1. k[i] = k[i - 1] \cup R(k[i - 1])
          BY <2>2, <4>1, <4>5
        <5>2. k[i + 1] = k[i]
          BY <4>3, <4>5, <5>1
        <5>3. B(i + 1) = B(i)
          BY <4>1, <4>2, <5>2
        <5> HIDE DEF B
        <5>4. PICK d \in 0..i : B(i) = 1..d /\ k[i] = k[d]
          BY <4>5
        <5>5. d \in 0 .. i + 1
          OBVIOUS
        <5> QED
          BY <5>2, <5>3, <5>4, <5>5
      <4> QED
        BY <1>2, <4>4, <4>5
    <3>3. Nat \subseteq P
      <4> HIDE DEF P
      <4> QED BY <3>1, <3>2, SetInduction, Zenon
    <3>4. n \in P
      <4> HIDE DEF P
      <4> QED BY <1>2, <3>3
    <3> HIDE DEF B
    <3> QED
      BY <1>2, <3>4
  <2>5. D = d
    <3>1. Cardinality(1..d) = d
      BY <1>2, <2>4, FS_Interval
    <3>2. Depth(M, k) = Cardinality(B(n))
      BY Zenon DEF Depth
    <3> QED
      BY <2>4, <3>1, <3>2
  <2>6. \A i \in 1..d : ls[i] = k[i] \ k[i - 1]
    BY <2>5
  <2>7. DOMAIN ls = 1..d
    BY <2>5
  <2> HIDE DEF k, n, ls, B, R, D
  <2> DEFINE Q == {i \in Nat : i <= d => k[i] \subseteq UNION ToSet(ls)}
  <2>8. 0 \in Q
    BY <2>2
  <2>9. ASSUME NEW i \in Q \cap Nat PROVE i + 1 \in Q
    <3> SUFFICES ASSUME i + 1 <= d PROVE k[i + 1] \subseteq UNION ToSet(ls)
      OBVIOUS
    <3>1. i + 1 \in 1..d /\ (i + 1) - 1 = i /\ k[i] \subseteq UNION ToSet(ls)
      BY <2>4, <1>2
    <3>2. ls[i + 1] = k[i + 1] \ k[i] /\ ls[i + 1] \in ToSet(ls)
      BY <2>6, <2>7, <3>1 DEF ToSet
    <3> QED
      BY <3>1, <3>2
  <2>10. Nat \subseteq Q
    <3> HIDE DEF Q
    <3> QED BY <2>8, <2>9, SetInduction, Zenon
  <2>11. M \subseteq UNION ToSet(ls)
    <3>1. d \in Q
      <4> HIDE DEF Q
      <4> QED BY <1>2, <2>10
    <3> QED
      BY <1>2, <1>4, <2>4, <3>1
  <2>12. UNION ToSet(ls) \subseteq M
    <3> SUFFICES ASSUME NEW i \in 1..d PROVE ls[i] \subseteq M
      BY <2>7 DEF ToSet
    <3>1. i \in 0..n
      BY <1>2
    <3> QED
      BY <2>3, <2>6, <3>1
  <2> QED
    BY <2>1, <2>11, <2>12
<1> QED
  BY <1>3, <1>4

-----------------------------------------------------------------------------
(* The units of an action: its combinations, or one that is skipped. *)
Expected(a) == IF matches_condition(cfg[a]) THEN Units(a) ELSE {<<a, <<>> >>}

ExpectedOf(S) == UNION {Expected(a) : a \in S}

UnitsTyped == TypeOK /\ (pc = "names" => caller \in ByName /\ queue \in Seq(Actions))

(* Every action asked for has ended or is in a level still to run. *)
LevelsCover == pc \in {"level", "running"} => AskedFor = ended \cup UNION ToSet(levels)

(* The units of the levels so far have ended, or are live in this level;   *)
(* afterwards the results of the actions asked for stay.                   *)
UnitsFinished ==
    /\ pc = "level" => DOMAIN live = {} /\ DOMAIN results = ExpectedOf(ended)
    /\ pc = "running" =>
          DOMAIN results \cup DOMAIN live = ExpectedOf(ended \cup Head(levels))
    /\ pc \in {"on-fail", "conclude"} /\ caller \notin ByName =>
          {u \in DOMAIN results : u[1] \in AskedFor} = ExpectedOf(AskedFor)

UnitsInv == FailInv /\ UnitsTyped /\ LevelsCover /\ UnitsFinished

LEMMA ExpectedIs ==
    ASSUME NEW a, NEW u \in Expected(a)
    PROVE  u[1] = a
BY DEF Expected, Units

LEMMA ExpectedKept ==
    ASSUME UNCHANGED asked
    PROVE  AskedFor' = AskedFor /\ Actions' = Actions /\ \A S : ExpectedOf(S)' = ExpectedOf(S)
<1>1. cfg' = cfg /\ caller' = caller /\ changed' = changed
  BY DEF asked
<1>2. AskedFor' = AskedFor /\ Actions' = Actions
  BY <1>1 DEF AskedFor, Actions
<1>3. \A a : Expected(a)' = Expected(a)
  BY <1>1 DEF Expected, matches_condition, Units
<1> QED
  BY <1>2, <1>3 DEF ExpectedOf

(* At least one attempt. *)
LEMMA AttemptsIs ==
    ASSUME cfg \in Configs, NEW a \in Actions
    PROVE  Attempts(cfg[a]) \in Nat \ {0}
BY RunnerAssumptions DEF Attempts, Actions

LEMMA UnitsInit == Init => UnitsInv
<1> SUFFICES ASSUME Init PROVE UnitsInv
  OBVIOUS
<1>1. FailInv
  BY FailInit
<1>2. /\ DOMAIN results = {} /\ DOMAIN live = {} /\ ended = {}
      /\ pc = "begin" /\ verdict = "none"
  BY DEF Init, Empty
<1>3. UnitsTyped
  BY <1>2 DEF UnitsTyped, TypeOK
<1> QED
  BY <1>1, <1>2, <1>3 DEF UnitsInv, LevelsCover, UnitsFinished

(* A step outside the levels that keeps the results and the actions that   *)
(* have ended.                                                             *)
LEMMA UnitsKept ==
    ASSUME UnitsInv, FailInv', UNCHANGED <<asked, live, ended>>,
           pc' \in {"names", "on-fail", "conclude", "done"},
           verdict' \in {"none", "passed", "failed", "refused"},
           pc' = "names" => caller \in ByName /\ queue' \in Seq(Actions),
           pc' \in {"on-fail", "conclude"} /\ caller \notin ByName => pc \in {"on-fail", "conclude"},
           DOMAIN results' = DOMAIN results
    PROVE  UnitsInv'
<1>1. AskedFor' = AskedFor /\ Actions' = Actions /\ \A S : ExpectedOf(S)' = ExpectedOf(S)
  BY ExpectedKept
<1>2. cfg' = cfg /\ caller' = caller
  BY DEF asked
<1>3. \A u \in DOMAIN results' : results'[u] \in Statuses
  BY DEF FailInv, UnitsAsked
<1>4. UnitsTyped'
  BY <1>1, <1>2, <1>3 DEF UnitsInv, UnitsTyped, TypeOK
<1>5. LevelsCover' /\ UnitsFinished'
  BY <1>1, <1>2 DEF UnitsInv, LevelsCover, UnitsFinished
<1> QED
  BY <1>4, <1>5 DEF UnitsInv

LEMMA UnitsStartLevel ==
    ASSUME UnitsInv, FailInv', StartLevel
    PROVE  UnitsInv'
<1> DEFINE skipped == {a \in Head(levels) : ~matches_condition(cfg[a])}
           units   == {<<a, <<>> >> : a \in skipped}
           started == UNION {Units(a) : a \in Head(levels) \ skipped}
<1>1. /\ pc = "level" /\ pc' = "running" /\ levels # <<>> /\ UNCHANGED <<asked, levels, ended, verdict>>
      /\ results' = Put(results, units, "skipped") /\ live' = [u \in started |-> 1]
  BY DEF StartLevel
<1>2. AskedFor' = AskedFor /\ Actions' = Actions /\ \A S : ExpectedOf(S)' = ExpectedOf(S)
  BY <1>1, ExpectedKept
<1>3. cfg' = cfg /\ cfg \in Configs
  BY <1>1 DEF asked, UnitsInv, FailInv, OrderInv, Phases
<1>4. \A u \in DOMAIN results' \cup DOMAIN live' : u[1] \in Actions
  <2>1. \A u \in DOMAIN results' \cup DOMAIN live' : u[1] \in AskedFor
    BY <1>1, <1>2 DEF FailInv, UnitsAsked
  <2> QED
    BY <2>1 DEF AskedFor, actions_for_trigger, Actions
<1>5. DOMAIN results' = DOMAIN results \cup units /\ DOMAIN live' = started
  BY <1>1, PutIs, Zenon
<1>6. units \cup started = ExpectedOf(Head(levels))
  <2>1. ASSUME NEW u \in ExpectedOf(Head(levels)) PROVE u \in units \cup started
    <3>1. PICK a \in Head(levels) : u \in Expected(a)
      BY DEF ExpectedOf
    <3> QED
      BY <3>1 DEF Expected
  <2>2. ASSUME NEW u \in units PROVE u \in ExpectedOf(Head(levels))
    <3>1. PICK a \in Head(levels) : ~matches_condition(cfg[a]) /\ u = <<a, <<>> >>
      OBVIOUS
    <3>2. u \in Expected(a)
      BY <3>1 DEF Expected
    <3> QED
      BY <3>2 DEF ExpectedOf
  <2>3. ASSUME NEW u \in started PROVE u \in ExpectedOf(Head(levels))
    <3>1. PICK a \in Head(levels) : matches_condition(cfg[a]) /\ u \in Units(a)
      OBVIOUS
    <3>2. u \in Expected(a)
      BY <3>1 DEF Expected
    <3> QED
      BY <3>2 DEF ExpectedOf
  <2> HIDE DEF units, started
  <2> QED
    BY <2>1, <2>2, <2>3
<1>7. \A u \in DOMAIN live' : live'[u] = 1 /\ live'[u] \in 1..Attempts(cfg[u[1]])
  <2>1. \A u \in DOMAIN live' : live'[u] = 1
    BY <1>1
  <2> QED
    BY <1>3, <1>4, <2>1, AttemptsIs
<1> HIDE DEF units, started
<1>8. UnitsTyped'
  BY <1>1, <1>2, <1>3, <1>4, <1>7 DEF UnitsInv, UnitsTyped, TypeOK, FailInv, UnitsAsked
<1>9. LevelsCover'
  BY <1>1, <1>2 DEF UnitsInv, LevelsCover
<1>10. UnitsFinished'
  <2>1. DOMAIN results = ExpectedOf(ended)
    BY <1>1 DEF UnitsInv, UnitsFinished
  <2>2. ExpectedOf(ended \cup Head(levels)) = ExpectedOf(ended) \cup ExpectedOf(Head(levels))
    BY DEF ExpectedOf
  <2>3. DOMAIN results' \cup DOMAIN live' = ExpectedOf(ended \cup Head(levels))
    BY <1>5, <1>6, <2>1, <2>2
  <2>4. ExpectedOf(ended \cup Head(levels))' = ExpectedOf(ended \cup Head(levels))
    BY <1>1, <1>2
  <2> QED
    BY <1>1, <2>3, <2>4 DEF UnitsFinished
<1> QED
  BY <1>8, <1>9, <1>10 DEF UnitsInv

LEMMA UnitsEndAttempt ==
    ASSUME UnitsInv, FailInv', NEW u \in DOMAIN live, EndAttempt(u)
    PROVE  UnitsInv'
<1>1. /\ pc = "running" /\ pc' = "running"
      /\ UNCHANGED <<asked, levels, ended, verdict>>
  BY DEF EndAttempt
<1>2. AskedFor' = AskedFor /\ Actions' = Actions /\ \A S : ExpectedOf(S)' = ExpectedOf(S)
  BY <1>1, ExpectedKept
<1>3. cfg' = cfg /\ cfg \in Configs
  BY <1>1 DEF asked, UnitsInv, FailInv, OrderInv, Phases
<1>4. \A v \in DOMAIN results' : v[1] \in Actions
  <2>1. \A v \in DOMAIN results' : v[1] \in AskedFor
    BY <1>1, <1>2 DEF FailInv, UnitsAsked
  <2> QED
    BY <2>1 DEF AskedFor, actions_for_trigger, Actions
<1>5. u[1] \in Actions
  BY <1>1 DEF UnitsInv, FailInv, UnitsAsked, AskedFor, actions_for_trigger, Actions
<1>6. Attempts(cfg[u[1]]) \in Nat \ {0} /\ live[u] \in 1..Attempts(cfg[u[1]])
  BY <1>3, <1>5, AttemptsIs DEF UnitsInv, UnitsTyped, TypeOK
<1>7. PICK o \in Outcomes(cfg[u[1]]) :
          \/ /\ results' = Put(results, {u}, o)
             /\ live' = [v \in DOMAIN live \ {u} |-> live[v]]
          \/ /\ ~LastAttempt(cfg[u[1]], live[u], o)
             /\ live' = [live EXCEPT ![u] = @ + 1]
             /\ UNCHANGED results
  BY DEF EndAttempt
<1>8. /\ \A v \in DOMAIN live' : live'[v] \in 1..Attempts(cfg[v[1]])
      /\ DOMAIN results' \cup DOMAIN live' = DOMAIN results \cup DOMAIN live
  <2>1. CASE results' = Put(results, {u}, o) /\ live' = [v \in DOMAIN live \ {u} |-> live[v]]
    <3>1. DOMAIN results' = DOMAIN results \cup {u}
      BY <2>1, PutIs, Zenon
    <3>2. DOMAIN live' = DOMAIN live \ {u} /\ \A v \in DOMAIN live' : live'[v] = live[v]
      BY <2>1
    <3> QED
      BY <3>1, <3>2 DEF UnitsInv, UnitsTyped, TypeOK
  <2>2. CASE /\ ~LastAttempt(cfg[u[1]], live[u], o)
             /\ live' = [live EXCEPT ![u] = @ + 1]
             /\ UNCHANGED results
    <3>1. live[u] # Attempts(cfg[u[1]])
      BY <2>2 DEF LastAttempt
    <3>2. live[u] + 1 \in 1..Attempts(cfg[u[1]])
      BY <1>6, <3>1
    <3>3. /\ DOMAIN live' = DOMAIN live /\ live'[u] = live[u] + 1
          /\ \A v \in DOMAIN live : v # u => live'[v] = live[v]
      BY <2>2
    <3> QED
      BY <2>2, <3>2, <3>3 DEF UnitsInv, UnitsTyped, TypeOK
  <2> QED
    BY <1>7, <2>1, <2>2
<1>9. UnitsTyped'
  BY <1>1, <1>2, <1>3, <1>4, <1>8 DEF UnitsInv, UnitsTyped, TypeOK, FailInv, UnitsAsked
<1>10. LevelsCover'
  BY <1>1, <1>2 DEF UnitsInv, LevelsCover
<1>11. UnitsFinished'
  <2>1. ExpectedOf(ended \cup Head(levels))' = ExpectedOf(ended \cup Head(levels))
    BY <1>1, <1>2
  <2> QED
    BY <1>1, <1>8, <2>1 DEF UnitsInv, UnitsFinished
<1> QED
  BY <1>9, <1>10, <1>11 DEF UnitsInv

LEMMA UnitsStep == UnitsInv /\ [Next]_vars => UnitsInv'
<1> SUFFICES ASSUME UnitsInv, [Next]_vars PROVE UnitsInv'
  OBVIOUS
<1> USE DEF asked
<1>0. FailInv'
  BY FailStep DEF UnitsInv
<1>1. CASE UNCHANGED vars
  <2>1. UNCHANGED asked
    BY <1>1 DEF vars
  <2>2. AskedFor' = AskedFor /\ Actions' = Actions /\ \A S : ExpectedOf(S)' = ExpectedOf(S)
    BY <2>1, ExpectedKept
  <2>3. UnitsTyped' /\ LevelsCover'
    BY <1>1, <2>2 DEF vars, UnitsInv, UnitsTyped, TypeOK, LevelsCover
  <2>4. UnitsFinished'
    BY <1>1, <2>2 DEF vars, UnitsInv, UnitsFinished
  <2> QED
    BY <1>0, <2>3, <2>4 DEF UnitsInv
<1>2. CASE BrokenConfig
  BY <1>0, <1>2, UnitsKept DEF BrokenConfig
<1>3. CASE RunTrigger
  <2>1. /\ pc = "begin" /\ pc' = "level" /\ UNCHANGED <<asked, live, results, ended, verdict>>
        /\ levels' = topological_levels(cfg, AskedFor)
    BY <1>3 DEF RunTrigger
  <2>2. AskedFor' = AskedFor /\ Actions' = Actions /\ \A S : ExpectedOf(S)' = ExpectedOf(S)
    BY <2>1, ExpectedKept
  <2>3. ended = {} /\ DOMAIN results = {} /\ DOMAIN live = {} /\ Phases
    BY <2>1 DEF UnitsInv, FailInv, OrderInv, Phases
  <2>4. UNION ToSet(levels') = AskedFor
    BY <2>1, <2>3, AskedActions, LevelsComplete DEF Phases
  <2>5. ExpectedOf({}) = {}
    BY DEF ExpectedOf
  <2>6. UnitsTyped'
    BY <2>1, <2>2, <2>3 DEF UnitsInv, UnitsTyped, TypeOK
  <2>7. LevelsCover' /\ UnitsFinished'
    BY <2>1, <2>2, <2>3, <2>4, <2>5 DEF LevelsCover, UnitsFinished
  <2> QED
    BY <1>0, <2>6, <2>7 DEF UnitsInv
<1>4. CASE StartLevel
  BY <1>0, <1>4, UnitsStartLevel
<1>5. CASE \E u \in DOMAIN live : EndAttempt(u)
  BY <1>0, <1>5, UnitsEndAttempt
<1>6. CASE EndLevel
  <2>1. /\ pc = "running" /\ DOMAIN live = {} /\ pc' = "level"
        /\ ended' = ended \cup Head(levels) /\ levels' = Tail(levels)
        /\ UNCHANGED <<asked, live, results, verdict>>
    BY <1>6 DEF EndLevel, LevelEnded
  <2>2. AskedFor' = AskedFor /\ Actions' = Actions /\ \A S : ExpectedOf(S)' = ExpectedOf(S)
    BY <2>1, ExpectedKept
  <2>3. levels \in Seq(SUBSET AskedFor) /\ levels # <<>>
    BY <2>1 DEF UnitsInv, FailInv, OrderInv, LevelsLeft
  <2>4. ToSet(levels) = {Head(levels)} \cup ToSet(Tail(levels)) /\ Head(levels) \in SUBSET AskedFor
    BY <2>3, HeadAndTail
  <2>5. LevelsCover'
    <3>1. AskedFor = ended \cup UNION ToSet(levels)
      BY <2>1 DEF UnitsInv, LevelsCover
    <3>2. AskedFor = (ended \cup Head(levels)) \cup UNION ToSet(Tail(levels))
      BY <2>4, <3>1
    <3> QED
      BY <2>1, <2>2, <3>2 DEF LevelsCover
  <2>6. UnitsFinished'
    <3>1. DOMAIN results = ExpectedOf(ended \cup Head(levels))
      BY <2>1 DEF UnitsInv, UnitsFinished
    <3>2. ExpectedOf(ended)' = ExpectedOf(ended \cup Head(levels))
      BY <2>1, <2>2
    <3> QED
      BY <2>1, <3>1, <3>2 DEF UnitsFinished
  <2>7. UnitsTyped'
    <3>1. AskedFor \subseteq Actions
      BY DEF AskedFor, actions_for_trigger, Actions
    <3> QED
      BY <2>1, <2>2, <2>4, <3>1 DEF UnitsInv, UnitsTyped, TypeOK
  <2> QED
    BY <1>0, <2>5, <2>6, <2>7 DEF UnitsInv
<1>7. CASE AfterLevels
  <2>1. /\ pc = "level" /\ levels = <<>> /\ pc' = "on-fail"
        /\ UNCHANGED <<asked, live, results, ended, verdict>>
    BY <1>7 DEF AfterLevels
  <2>2. AskedFor' = AskedFor /\ Actions' = Actions /\ \A S : ExpectedOf(S)' = ExpectedOf(S)
    BY <2>1, ExpectedKept
  <2>3. AskedFor = ended
    <3>1. UNION ToSet(<<>>) = {}
      BY DEF ToSet
    <3> QED
      BY <2>1, <3>1 DEF UnitsInv, LevelsCover
  <2>4. DOMAIN results = ExpectedOf(AskedFor)
    BY <2>1, <2>3 DEF UnitsInv, UnitsFinished
  <2>5. {u \in DOMAIN results : u[1] \in AskedFor} = DOMAIN results
    BY <2>1 DEF UnitsInv, FailInv, UnitsAsked
  <2>6. UnitsFinished' /\ LevelsCover'
    BY <2>1, <2>2, <2>4, <2>5 DEF UnitsFinished, LevelsCover
  <2>7. UnitsTyped'
    BY <2>1, <2>2 DEF UnitsInv, UnitsTyped, TypeOK
  <2> QED
    BY <1>0, <2>6, <2>7 DEF UnitsInv
<1>8. CASE RunOnFail
  <2> DEFINE u == <<Head(queue), <<>> >>
  <2>1. PICK o : results' = Put(results, {u}, o)
    BY <1>8 DEF RunOnFail
  <2>2. /\ pc = "on-fail" /\ pc' = "on-fail" /\ queue # <<>>
        /\ UNCHANGED <<asked, live, ended, verdict>>
    BY <1>8 DEF RunOnFail
  <2>3. AskedFor' = AskedFor /\ Actions' = Actions /\ \A S : ExpectedOf(S)' = ExpectedOf(S)
    BY <2>2, ExpectedKept
  <2>4. queue \in Seq(OnFailActions) /\ caller \notin ByName /\ caller' = caller
    BY <2>2 DEF UnitsInv, FailInv, Answering, OrderInv, Phases
  <2>5. u[1] \in Actions /\ u[1] \notin AskedFor
    <3>1. Head(queue) \in OnFailActions
      BY <2>2, <2>4, HeadAndTail
    <3> QED
      BY <2>4, <3>1 DEF OnFailActions, actions_for_trigger, Actions, AskedFor
  <2>6. DOMAIN results' = DOMAIN results \cup {u}
    BY <2>1, PutIs, Zenon
  <2> HIDE DEF u
  <2>7. UnitsTyped'
    BY <1>0, <2>2, <2>3, <2>5, <2>6 DEF UnitsInv, UnitsTyped, TypeOK, FailInv, UnitsAsked
  <2>8. UnitsFinished' /\ LevelsCover'
    BY <2>2, <2>3, <2>4, <2>5, <2>6 DEF UnitsInv, UnitsFinished, LevelsCover
  <2> QED
    BY <1>0, <2>7, <2>8 DEF UnitsInv
<1>9. CASE EndTrigger
  BY <1>0, <1>9, UnitsKept DEF EndTrigger, UnitsInv, UnitsTyped, TypeOK
<1>10. CASE AutoFix
  <2>1. DOMAIN results' = DOMAIN results
    BY <1>10 DEF AutoFix
  <2> QED
    BY <1>0, <1>10, <2>1, UnitsKept DEF AutoFix, UnitsInv, UnitsTyped, TypeOK
<1>11. CASE Conclude
  BY <1>0, <1>11, UnitsKept DEF Conclude
<1>12. CASE RunNames
  <2>1. Sorted(Actions) \in Seq(Actions)
    <3>1. cfg \in Configs
      BY DEF UnitsInv, FailInv, OrderInv, Phases
    <3> QED
      BY <3>1, RunnerAssumptions, SortedIs DEF Actions
  <2> QED
    BY <1>0, <1>12, <2>1, UnitsKept DEF RunNames, UnitsInv, UnitsTyped, TypeOK
<1>13. CASE RunName
  <2> DEFINE u == <<Head(queue), <<>> >>
  <2>1. PICK o : results' \in {results, Put(results, {u}, o)}
    BY <1>13 DEF RunName
  <2>2. /\ pc = "names" /\ queue # <<>> /\ queue' = Tail(queue)
        /\ pc' \in {"names", "done"} /\ verdict' \in {verdict, "refused"}
        /\ UNCHANGED <<asked, live, ended>>
    BY <1>13 DEF RunName
  <2>3. AskedFor' = AskedFor /\ Actions' = Actions
    BY <2>2, ExpectedKept
  <2>4. u[1] \in Actions /\ Tail(queue) \in Seq(Actions)
    BY <2>2, HeadAndTail DEF UnitsInv, UnitsTyped
  <2>5. DOMAIN results' \in {DOMAIN results, DOMAIN results \cup {u}}
    BY <2>1, PutIs, Zenon
  <2> HIDE DEF u
  <2>6. UnitsTyped'
    BY <1>0, <2>2, <2>3, <2>4, <2>5 DEF UnitsInv, UnitsTyped, TypeOK, FailInv, UnitsAsked
  <2>7. UnitsFinished' /\ LevelsCover'
    BY <2>2 DEF UnitsFinished, LevelsCover
  <2> QED
    BY <1>0, <2>6, <2>7 DEF UnitsInv
<1>14. CASE EndNames
  <2>1. caller \in ByName
    BY <1>14 DEF EndNames, UnitsInv, UnitsTyped
  <2> QED
    BY <1>0, <1>14, <2>1, UnitsKept DEF EndNames, UnitsInv, UnitsTyped, TypeOK
<1> QED
  BY <1>1, <1>2, <1>3, <1>4, <1>5, <1>6, <1>7, <1>8, <1>9, <1>10, <1>11, <1>12,
     <1>13, <1>14 DEF Next

(* For every configuration: every action asked for is run or skipped,      *)
(* whatever its dependencies, and an action that is run, is run for        *)
(* exactly the combinations of its matrix, or for as many as the limit     *)
(* allows; no unit has more attempts than its definition allows.           *)
THEOREM EveryUnitRuns == Spec => []UnitsCovered
<1>1. UnitsInv => NoActionForgotten
  <2> SUFFICES ASSUME UnitsInv, pc \in {"on-fail", "conclude"}, caller \notin ByName,
                      NEW a \in AskedFor, 0 \notin ToSet(cfg[a].matrix)
               PROVE  \E u \in DOMAIN results : u[1] = a
    BY DEF NoActionForgotten
  <2>1. cfg[a].matrix \in Seq(Nat)
    BY RunnerAssumptions DEF UnitsInv, FailInv, OrderInv, Phases, AskedFor, actions_for_trigger
  <2>2. PICK c : c \in ToSet(expand_matrix(cfg[a].matrix))
    BY <2>1, SomeCombo
  <2>3. \E u : u \in Expected(a)
    BY <2>2 DEF Expected, Units
  <2>4. Expected(a) \subseteq DOMAIN results
    BY DEF UnitsInv, UnitsFinished, ExpectedOf
  <2> QED
    BY <2>3, <2>4, ExpectedIs
<1>2. UnitsInv => MatrixCovered
  <2> SUFFICES ASSUME UnitsInv, pc = "on-fail", NEW a \in AskedFor, matches_condition(cfg[a])
               PROVE  LET m   == cfg[a].matrix
                          all == {c \in [DOMAIN m -> 1..Max(ToSet(m) \cup {0})] :
                                     \A i \in DOMAIN m : c[i] <= m[i]}
                          chosen == {u[2] : u \in {v \in DOMAIN results : v[1] = a}}
                      IN  \/ /\ Cardinality(all) <= MaxCombos
                             /\ chosen = all
                          \/ /\ Cardinality(all) > MaxCombos \/ 0 \in ToSet(m)
                             /\ Cardinality(chosen) = MaxCombos
    BY Zenon DEF MatrixCovered
  <2> DEFINE chosen == {u[2] : u \in {v \in DOMAIN results : v[1] = a}}
  <2>1. PICK m \in Seq(Nat) : m = cfg[a].matrix
    BY RunnerAssumptions DEF UnitsInv, FailInv, OrderInv, Phases, AskedFor, actions_for_trigger
  <2>2. {u \in DOMAIN results : u[1] \in AskedFor} = ExpectedOf(AskedFor)
    BY DEF UnitsInv, UnitsFinished, FailInv, OrderInv, Phases
  <2>3. {v \in DOMAIN results : v[1] = a} = Units(a)
    <3>1. ASSUME NEW v \in DOMAIN results, v[1] = a PROVE v \in Units(a)
      <4>1. v \in ExpectedOf(AskedFor)
        BY <2>2, <3>1
      <4>2. PICK b \in AskedFor : v \in Expected(b)
        BY <4>1 DEF ExpectedOf
      <4>3. b = a
        BY <3>1, <4>2, ExpectedIs
      <4> QED
        BY <4>2, <4>3 DEF Expected
    <3>2. ASSUME NEW v \in Units(a) PROVE v \in DOMAIN results /\ v[1] = a
      <4>1. v \in Expected(a)
        BY DEF Expected
      <4>2. v \in ExpectedOf(AskedFor)
        BY <4>1 DEF ExpectedOf
      <4> QED
        BY <2>2, <4>1, <4>2, ExpectedIs
    <3> QED
      BY <3>1, <3>2
  <2>4. chosen = ToSet(expand_matrix(m))
    <3>1. PICK C : C = ToSet(expand_matrix(m))
      OBVIOUS
    <3>2. Units(a) = {<<a, c>> : c \in C}
      BY <2>1, <3>1 DEF Units
    <3>3. chosen = {u[2] : u \in Units(a)}
      BY <2>3
    <3>4. ASSUME NEW x \in chosen PROVE x \in C
      <4>1. PICK u \in Units(a) : x = u[2]
        BY <3>3
      <4>2. PICK c \in C : u = <<a, c>>
        BY <3>2, <4>1
      <4> QED
        BY <4>1, <4>2
    <3>5. ASSUME NEW x \in C PROVE x \in chosen
      <4>1. <<a, x>> \in Units(a) /\ <<a, x>>[2] = x
        BY <3>2
      <4> QED
        BY <3>3, <4>1
    <3> HIDE DEF chosen
    <3> QED
      BY <3>1, <3>4, <3>5
  <2> HIDE DEF chosen
  <2>5. {c \in [DOMAIN m -> 1..Max(ToSet(m) \cup {0})] : \A i \in DOMAIN m : c[i] <= m[i]}
          = Combos(m, Len(m))
    BY AllCombos
  <2>6. \/ Cardinality(Combos(m, Len(m))) <= MaxCombos /\ chosen = Combos(m, Len(m))
        \/ /\ Cardinality(Combos(m, Len(m))) > MaxCombos \/ 0 \in ToSet(m)
           /\ Cardinality(chosen) = MaxCombos
    BY <2>4, ExpandMatrixIs
  <2> QED
    BY <2>1, <2>5, <2>6, Zenon DEF chosen
<1>3. UnitsInv => UnitsCovered
  BY <1>1, <1>2 DEF UnitsCovered, UnitsInv, UnitsTyped
<1> QED
  BY <1>3, UnitsInit, UnitsStep, PTL DEF Spec
=============================================================================
