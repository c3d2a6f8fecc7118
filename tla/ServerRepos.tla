---------------------------- MODULE ServerRepos -----------------------------
(***************************************************************************)
(* What the API server keeps in memory about one repository, and the life  *)
(* of the repository itself: the map of mutexes and its eviction           *)
(* (state.rs), the cached passwords and statistics (routes/repos.rs), and  *)
(* handlers that change the repository while it is deleted, created again  *)
(* and unlocked.                                                           *)
(*                                                                         *)
(* The file is [gen, seq, ver]: the creation it comes from, its            *)
(* file_sequence and a number that tells all versions apart.  A password   *)
(* is the creation it opens.  Two versions always differ in time or size;  *)
(* RepoSave has those that do not.                                         *)
(***************************************************************************)
EXTENDS Integers, FiniteSets

CONSTANTS
    Handlers,     \* requests that change the repository, under its mutex
    Invalidating, \* those that call invalidate_repo_stats at the end
    TTL,          \* REPO_STATS_TTL
    MaxGens,      \* bound: creations
    MaxTime       \* bound: the clock

ASSUME ServerReposAssumptions ==
    /\ Invalidating \subseteq Handlers
    /\ {TTL, MaxGens, MaxTime} \subseteq Nat

VARIABLES
    clock,      \* the clock
    file,     \* the .ovc file
    gens,     \* creations so far
    vers,     \* versions so far
    password, \* AppState.passwords: the creation it opens, or 0
    slot,     \* AppState.repo_locks: the repository's mutex, or 0
    mutexes,  \* mutexes made so far
    hand,     \* hand[h]: a handler
    keeper,   \* create_repo, delete_repo or unlock_repo, between two steps
    stats,    \* AppState.repo_stats_cache
    lister,   \* list_repos
    evicted,  \* history: a mutex left the map while a handler had it
    crossed,  \* history: a handler passed its check on another creation
    floor     \* history: the version that the statistics should show

reposVars == <<clock, file, gens, vers, password, slot, mutexes, hand, keeper, stats,
          lister, evicted, crossed, floor>>
world == <<clock, file, gens, vers>>
marks == <<evicted, crossed, floor>>

NoFile  == [gen |-> 0, seq |-> 0, ver |-> 0]
NoStats == [at |-> 0, ver |-> -1, late |-> FALSE]
Arrived == [pc |-> "idle", mutex |-> 0, snap |-> NoFile]
Ended   == [Arrived EXCEPT !.pc = "ended"]
Unread  == [pc |-> "idle", ver |-> 0, floor |-> 0]
Inside  == {"locked", "opened", "checked", "saved"}
Resting == [pc |-> "idle", gen |-> 0, ver |-> 0]

Exists == file # NoFile

---------------------------------------------------------------------------
(* The mutex of a repository *)

(* repo_lock: the entry of the map, made when it is missing. *)
Entry == IF slot # 0 THEN slot ELSE mutexes + 1

RepoLock(h) ==
    /\ hand[h].pc = "idle"
    /\ hand' = [hand EXCEPT ![h] = [Arrived EXCEPT !.pc = "waiting", !.mutex = Entry]]
    /\ slot' = Entry
    /\ mutexes' = IF slot = 0 THEN mutexes + 1 ELSE mutexes
    /\ UNCHANGED <<world, password, keeper, stats, lister, marks>>

(* Mutant: every mutex that is not locked is evicted. *)
MutUnused == \A h \in Handlers : hand[h].pc \in Inside => hand[h].mutex # slot

(* Only the map has the mutex: strong_count is 1. *)
Unused == \A h \in Handlers : hand[h].mutex # slot

(* A request for another repository finds the map full. *)
EvictUnused ==
    /\ slot # 0 /\ Unused
    /\ slot' = 0
    /\ UNCHANGED <<world, password, mutexes, hand, keeper, stats, lister, marks>>

Lock(h) ==
    /\ hand[h].pc = "waiting"
    /\ \A g \in Handlers : hand[g].pc \in Inside => hand[g].mutex # hand[h].mutex
    /\ hand' = [hand EXCEPT ![h].pc = "locked"]
    /\ UNCHANGED <<world, password, slot, mutexes, keeper, stats, lister, marks>>

---------------------------------------------------------------------------
(* A handler *)

(* open_repo_blocking with the cached password; without it, or with one of *)
(* another creation, the request fails.                                    *)
OpenRepo(h) ==
    /\ hand[h].pc = "locked"
    /\ hand' = [hand EXCEPT ![h] =
                   IF Exists /\ password = file.gen
                     THEN [@ EXCEPT !.pc = "opened", !.snap = file]
                     ELSE Ended]
    /\ UNCHANGED <<world, password, slot, mutexes, keeper, stats, lister, marks>>

(* Mutant: a file that has changed is overwritten. *)
MutConflict(h) == FALSE

(* check_for_conflict: other time or size, and another sequence. *)
Conflict(h) == file.ver # hand[h].snap.ver /\ file.seq # hand[h].snap.seq

(* The first half of save; a missing file is an error. *)
CheckForConflict(h) ==
    /\ hand[h].pc = "opened"
    /\ IF ~Exists \/ Conflict(h)
         THEN hand' = [hand EXCEPT ![h] = Ended] /\ UNCHANGED crossed
         ELSE /\ hand' = [hand EXCEPT ![h].pc = "checked"]
              /\ crossed' = (crossed \/ (file.gen # hand[h].snap.gen
                                         /\ file.seq = hand[h].snap.seq))
    /\ UNCHANGED <<world, password, slot, mutexes, keeper, stats, lister, evicted, floor>>

(* The second half: the rename puts a file there, deleted or not. *)
Save(h) ==
    /\ hand[h].pc = "checked"
    /\ file' = [gen |-> hand[h].snap.gen, seq |-> hand[h].snap.seq + 1, ver |-> vers + 1]
    /\ vers' = vers + 1
    /\ hand' = [hand EXCEPT ![h].pc = "saved", ![h].snap = file']
    /\ UNCHANGED <<clock, gens, password, slot, mutexes, keeper, stats, lister, marks>>

(* Mutant: the statistics are not evicted. *)
MutInvalidated == stats

Invalidated == NoStats

(* invalidate_repo_stats, and the guard is dropped.  Of a request that was *)
(* dropped nobody is left to do it.                                        *)
Finish(h) ==
    /\ hand[h].pc = "saved"
    /\ IF h \in Invalidating /\ hand[h].mutex # 0
         THEN stats' = Invalidated /\ floor' = hand[h].snap.ver
         ELSE UNCHANGED <<stats, floor>>
    /\ hand' = [hand EXCEPT ![h] = Ended]
    /\ UNCHANGED <<world, password, slot, mutexes, keeper, lister, evicted, crossed>>

(* The client goes away and the handler's future is dropped at an await,   *)
(* with its guard and its share of the mutex.  The blocking task that has  *)
(* the repository open goes on to the end.                                 *)
Dropped(h) ==
    /\ hand[h].pc \in {"waiting"} \cup Inside /\ hand[h].mutex # 0
    /\ hand' = [hand EXCEPT ![h] =
                   IF @.pc \in {"waiting", "locked"} THEN Ended ELSE [@ EXCEPT !.mutex = 0]]
    /\ UNCHANGED <<world, password, slot, mutexes, keeper, stats, lister, marks>>

---------------------------------------------------------------------------
(* The life of the repository; none of these takes the mutex *)

(* Repository::init looks for the file, and saves without a conflict check *)
(* and without the lock.                                                   *)
CreateLooks ==
    /\ keeper.pc = "idle" /\ ~Exists /\ gens < MaxGens
    /\ keeper' = [Resting EXCEPT !.pc = "creating"]
    /\ UNCHANGED <<world, password, slot, mutexes, hand, stats, lister, marks>>

(* When the request or the environment names an author there is a second   *)
(* save.                                                                   *)
CreateRepo ==
    /\ keeper.pc = "creating"
    /\ file' = [gen |-> gens + 1, seq |-> 1, ver |-> vers + 1]
    /\ gens' = gens + 1
    /\ vers' = vers + 1
    /\ \E pc \in {"naming", "unlocking"} :
          keeper' = [pc |-> pc, gen |-> gens + 1, ver |-> vers + 1]
    /\ UNCHANGED <<clock, password, slot, mutexes, hand, stats, lister, marks>>

(* The second save, with the lock and the conflict check; it may fail, and *)
(* the repository is there without a password in the map.                  *)
SaveAuthor ==
    /\ keeper.pc = "naming"
    /\ IF ~Exists \/ (file.ver # keeper.ver /\ file.seq # 1)
         THEN keeper' = Resting /\ UNCHANGED <<file, vers>>
         ELSE /\ file' = [gen |-> keeper.gen, seq |-> 2, ver |-> vers + 1]
              /\ vers' = vers + 1
              /\ keeper' = [keeper EXCEPT !.pc = "unlocking"]
    /\ UNCHANGED <<clock, gens, password, slot, mutexes, hand, stats, lister, marks>>

(* unlock_repo opens the file with the password of the request. *)
UnlockOpens ==
    /\ keeper.pc = "idle" /\ Exists
    /\ keeper' = [Resting EXCEPT !.pc = "unlocking", !.gen = file.gen]
    /\ UNCHANGED <<world, password, slot, mutexes, hand, stats, lister, marks>>

(* create_repo and unlock_repo insert the password. *)
RememberPassword ==
    /\ keeper.pc = "unlocking"
    /\ password' = keeper.gen
    /\ keeper' = Resting
    /\ UNCHANGED <<world, slot, mutexes, hand, stats, lister, marks>>

(* delete_repo removes the file, if it is there. *)
DeleteFile ==
    /\ keeper.pc = "idle"
    /\ file' = NoFile
    /\ keeper' = [Resting EXCEPT !.pc = "deleting"]
    /\ crossed' = (crossed \/ \E h \in Handlers : hand[h].pc = "checked")
    /\ UNCHANGED <<clock, gens, vers, password, slot, mutexes, hand, stats, lister,
                   evicted, floor>>

(* Then the password and the mutex leave the maps, deleted or not. *)
DeleteForgets ==
    /\ keeper.pc = "deleting"
    /\ password' = 0
    /\ slot' = 0
    /\ evicted' = (evicted \/ (slot # 0 /\ ~Unused))
    /\ keeper' = Resting
    /\ UNCHANGED <<world, mutexes, hand, stats, lister, crossed, floor>>

(* These handlers are dropped too: what their blocking task did stays, and *)
(* the maps are not touched.                                               *)
KeeperDropped ==
    /\ keeper.pc \in {"unlocking", "deleting"}
    /\ keeper' = Resting
    /\ UNCHANGED <<world, password, slot, mutexes, hand, stats, lister, marks>>

---------------------------------------------------------------------------
(* list_repos *)

get_cached_repo_stats == stats # NoStats /\ clock - stats.at <= TTL

(* A repository that cannot be opened counts as empty. *)
try_read_repo_stats == IF password = file.gen THEN file.ver ELSE 0

(* A miss: the passwords are copied and the file is read. *)
ListReads ==
    /\ lister.pc = "idle" /\ Exists /\ ~get_cached_repo_stats
    /\ lister' = [pc |-> "read", floor |-> floor, ver |-> try_read_repo_stats]
    /\ UNCHANGED <<world, password, slot, mutexes, hand, keeper, stats, marks>>

SetCachedRepoStats ==
    /\ lister.pc = "read"
    /\ stats' = [at |-> clock, ver |-> lister.ver, late |-> lister.floor # floor]
    /\ lister' = Unread
    /\ UNCHANGED <<world, password, slot, mutexes, hand, keeper, marks>>

ClockTick ==
    /\ clock < MaxTime
    /\ clock' = clock + 1
    /\ UNCHANGED <<file, gens, vers, password, slot, mutexes, hand, keeper, stats,
                   lister, marks>>

ReposInit ==
    /\ clock = 0
    /\ \E n \in {1, 2} : file = [gen |-> 1, seq |-> n, ver |-> 1]
    /\ gens = 1 /\ vers = 1
    /\ password \in {0, 1}
    /\ slot = 0 /\ mutexes = 0
    /\ hand = [h \in Handlers |-> Arrived]
    /\ keeper = Resting
    /\ stats = NoStats /\ lister = Unread
    /\ evicted = FALSE /\ crossed = FALSE /\ floor = 0

HandlerStep(h) ==
    \/ RepoLock(h) \/ Lock(h) \/ OpenRepo(h) \/ CheckForConflict(h)
    \/ Save(h) \/ Finish(h) \/ Dropped(h)

KeeperStep ==
    CreateLooks \/ CreateRepo \/ SaveAuthor \/ UnlockOpens \/ RememberPassword
    \/ DeleteFile \/ DeleteForgets \/ KeeperDropped

ReposNext ==
    \/ \E h \in Handlers : HandlerStep(h)
    \/ KeeperStep \/ EvictUnused \/ ListReads \/ SetCachedRepoStats \/ ClockTick

ReposSpec == ReposInit /\ [][ReposNext]_reposVars

---------------------------------------------------------------------------
(* Two requests work on the repository at once only if one of them is the  *)
(* blocking task of a handler that was dropped, or if the repository's     *)
(* deletion took the mutex out of the map while a handler had it: the      *)
(* eviction at the limit never does, whatever it meets half way.           *)
OneInside ==
    \A g, h \in Handlers :
        hand[g].pc \in Inside /\ hand[h].pc \in Inside =>
            g = h \/ evicted \/ hand[g].mutex = 0 \/ hand[h].mutex = 0

(* A repository that was created after a deletion is not replaced by what  *)
(* a request still had of the old one, unless the request had passed its   *)
(* conflict check when the file went, or the new file has just the         *)
(* sequence number that the old one had.                                   *)
RecreatedKept == Exists /\ file.gen # gens => crossed

(* The cached statistics show every commit and every branch that was made  *)
(* or deleted by a handler that lived to its end, unless they were read    *)
(* before the change was finished and stored after it, or read while the   *)
(* repository was locked.                                                  *)
StatsFresh == stats # NoStats => stats.ver >= floor \/ stats.late \/ stats.ver = 0

(* The maps of the server agree with the file but for these cases: one     *)
(* request at a time, no old content in a new repository, no old           *)
(* statistics.                                                             *)
ReposSafe == OneInside /\ RecreatedKept /\ StatsFresh
=============================================================================
