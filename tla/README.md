# A TLA+ model of OVC

OVC keeps a whole version-controlled repository in one encrypted `.ovc` file
that several commands, one API server and several machines open and save. This
directory models the parts of it whose correctness depends on the order in
which those parties act, the operations on the content of a repository, and
the algorithms the operations rest on. TLC checks the models on small
instances; TLAPS proves the safety properties of the protocols, and all but one of
those of the algorithms, for every value of the parameters.

## The system

| Part | State | Operations | What is hard about it |
|---|---|---|---|
| Repository file (`repository.rs`, `store.rs`, `conflict.rs`, `wal.rs`) | the `.ovc` file, a write-ahead log, temporary files; a handle per command | `open`, changes in memory, `save`, `save_with_merge` | commands of several processes interleave at every system call; a crash between any two; the check for conflicts reads the file before the lock is held |
| Lock file (`lock.rs`) | the file `<repo>.lock` with host and pid | `acquire` (retry, timeout, stale-lock removal), `drop` | deciding that a lock is stale and removing it are two steps; a new lock has no text yet |
| API server (`ovc-api`) | a mutex per repository, passwords, cached statistics | handlers that take the mutex, open, change, save; handlers that only read; create, delete, unlock | a dropped handler releases its mutex, its blocking task goes on; a deletion takes no mutex |
| Sessions (`auth.rs`, `state.rs`, `routes/access.rs`) | challenges, rate buckets, tokens, the token version, the persisted secret | sign in with a password or a key, revoke, restart | a change of access and the version that makes old tokens invalid are two steps, and the handler may be gone in between; so are reading the role and the version; one version serves all repositories |
| Access control (`access.rs`, `keys.rs`) | users with roles, key slots | grant, revoke, set role, add and remove key, merge of two lists | old copies are merged back after changes |
| Cloud sync (`ovc-cloud`) | remote manifest, generation and chunks; a sidecar per clone | `push`, `pull`, `status` | compare-and-swap and its retries; lost answers; files written in several steps |
| Content and working directory (`refs.rs`, `index.rs`, `gc.rs`, `stash.rs`, `rebase.rs`, `cherry_pick.rs`, the commands, the API routes) | objects, branches, tags, HEAD, reflog, index, stash, notes; the files on disk | everything from `add` to `gc`, from the command line and from the API | the two have different rules for the same operation; reachability over long sequences; a death between writing the directory and saving |
| Pull requests (`pulls.rs`, `routes/pulls.rs`) | numbered requests with reviews, comments, checks | create, update, review, comment, check, merge; merge of two stores | what a handler read is old when it writes; one handler waits for itself |
| Actions (`ovc-actions`) | a dependency graph of actions, their results; vault, configuration and history files | run a trigger, retry, matrix, failure hooks, gates; the scheduler | order and completeness for every graph; failures on their way to the verdict; files written without a lock |
| Dependency updates (`depcheck.rs`, `routes/actions.rs`) | manifests, proposal branches | check, propose, merge, delete | parsers and updaters with different patterns; updates made in the user's own directory |
| Diff, merge, bisect (`diff.rs`, `merge.rs`, `bisect.rs`) | none, a session file for bisect | pure functions of texts, trees and histories | boundaries |
| Git bridge (`ovc-git`) | object maps while it runs | import, export | objects that cannot be read |
| LLM, built-in checks, desktop, web frontend | none of their own | prompts, text scanners, user interface | – |

The interaction that matters most: a command or a request *opens* the file
(which may recover and delete files), changes its copy, and *saves* it: check
for a conflict, take the lock, write the log, write a temporary file, rename,
complete the log, take a new snapshot, release the lock. `ovc commit` and
`ovc sync` answer a conflict by merging. The API server puts a mutex around
open, change and save; the cloud engine reads and replaces the same file with
no lock at all.

## Modules

| Module | Models | Checked by | Proved in |
|---|---|---|---|
| `RepoSave` | open, save, merge, lock, log, sweep, for any number of processes | `repo_race`, `repo_live` | `RepoSaveProofs` |
| `SerialRepo` | what a repository promises: one operation at a time on one content | implemented by `ApiRequests` | `RepoSaveProofs` |
| `ApiRequests` | requests of one server, on top of `RepoSave` | `api_safe` | `RepoSaveProofs` |
| `AccessControl` | users, roles, key slots, stale copies | `access_safe` | `AccessControlProofs` |
| `CloudSync` | push, pull, status over both backends | `cloud_safe`, `cloud_live` | `CloudSyncProofs` |
| `CommitGraph` | ancestors, the three merge-base searches, commits to replay | through `WorkTree` | `WorkTreeProofs` |
| `WorkTree` | content of a repository and its working directory, commands and handlers | `worktree` | `WorkTreeProofs` |
| `PullRequests` | the store of pull requests, its handlers, one command line process | `pulls`, `pulls_deadlock` | `PullRequestsProofs` |
| `ActionRunner` | one run of actions and its caller's verdict | `actions` | `ServerProofs` |
| `Sessions`, `ServerRepos`, `Scheduler`, `ActionFiles`, `DepUpdates` | what the server keeps besides the file | `server` (`MCServer`) | `ServerProofs` |
| `Bisect`, `TreeMerge`, `Manifests` | the session of a bisection, the merge of trees, manifests of dependencies | `algorithms` (`MCAlgorithms`) | `AlgorithmProofs` |
| `TextMerge` | diff, hunks, merge of texts | `algorithms` | `TextProofs` |
| `GitBridge` | import and export | `algorithms` | `AlgorithmProofs` |
| `Selections` | what a filter over a list keeps, for the three above | `algorithms` | `AlgorithmProofs`, `TextProofs` |

Each specification has its constants as parameters; the `MC` modules give them
values. `MCServer` and `MCAlgorithms` put modules that share no variable side
by side: a variable `part` chooses which one moves, so the states add up
instead of multiplying.

### RepoSave

`disk` is the file: a version number that only the model sees, the sequence
number of the superblock, size and mtime of the inode, the objects and the
branches. `lockf`, `wal` and `tmps` are the other files. `mem[p]` is the
`Repository` handle of process `p`, with the live store and the stored objects
apart, because `merge_and_save` confuses them. `pc[p]` names the next system
call. A branch is the set of commits in its history. Sizes are chosen freely
when a file is written; the clock ticks in seconds, because
`FileSnapshot` compares whole seconds.

Every action is one call of the code: `LookForWal` and `ReadWal` are the two
halves of `needs_recovery`, `InspectLock`, `FindStaleLock`, `RemoveStaleLock`
and `CreateLock` those of `acquire`, `StampLock` the write of host and pid into
a lock file that exists already. Failures that the code handles are actions
(`EncodeFails`, `WriteFails`, `RenameFails`, `StampFails`, `LockTimeout`,
`CheckConflictError`); `Crash` ends a process anywhere and leaves its files.
`HostName` and `Probes` say what `hostname()` and `kill -0` report: one
machine, two machines, or a container that sees only its own pids.

`base`, `chk`, `broken`, `lost`, `acked` and `dropped` are history variables; no
guard reads them. `dropped` are the commits that a merging save left out of the
store it saved.

### ApiRequests and SerialRepo

The processes of `RepoSave` are requests. A writer waits for the mutex
(`TakeGuard`), runs its steps, and gives the mutex back when it returns. A
reader opens without it. `Disconnect` drops a handler's future: the mutex is
free at once while the blocking task runs on (`DroppedStep`, `OrphanStep`).
`ServerCrash` ends all requests that have begun; those that have not begun
stand for the ones that come after the restart. `ApiSerializable` is the
refinement: the file, read as a `SerialRepo`, changes by one operation at a
time.

### AccessControl

`acl[u]` is the list of entries of user `u` (there can be two, which the code
does not expect), `slots` the users with a key slot. Commands that change them
save without merging, so they are steps on the file; a copy that was opened
earlier is merged back by `SaveCopy`, which is what a late `ovc commit` does.

`revoked` and `direct` are history variables. `direct` records that a key was
added or removed with `ovc key` instead of through a grant or a revocation:
then a slot without a user, or a user without a slot, is what was asked for,
and two of the properties promise nothing.

### CloudSync

A file is its set of chunks. `save` encrypts the whole file anew, so two files
have no chunk in common; which of the files is where is all that push and pull
depend on. `backend` selects the backend that all clones share. With
`GcsBackend` an object is written and its generation compared in one request,
whose answer may be lost. With `LocalBackend` every `std::fs::write` is a
truncation and a fill, for the data file and for its `.gen` file, and a crash
may come between any two. `get` reads generation then data (GCS) or data then
generation (local). `job[c]` is the command that runs on clone `c`. `Edit` is
any other command that saves the local file, also while a pull is downloading.

### WorkTree and CommitGraph

`repo` is the content of the file and `disk` the working directory: both map
paths to contents where a tree is meant, since nested trees are read and
written as a whole. A command or request is one step, because `RepoSave` has
the interleavings of open and save; a command that dies, or whose save fails,
after it wrote the directory leaves a new directory beside the old file
(`DiesBeforeSave`, bounded by `MaxFaults`). Where the command line and the API treat an
operation differently there are two actions (`Reset` and `ApiReset`,
`MergeBranch` and `ApiMerge`, `Rebase` and `ApiRebase`, …).

`CommitGraph` has the searches that commands use for a merge base: the core's
breadth-first one for rebase, the command's and the API's own for merges, the
last of which follows first parents only.

`touched`, `moved`, `dropped`, `past` and `trimmed` are history variables:
paths somebody staged, HEAD moved without the index, staged contents that gc
removed, all old tips, a reflog at its limit.

### PullRequests

`prs`, `next`, `rule`, `hist` and `head` are the file; `mutex` and `job[r]` the
server; `cli` a command that opened the file and will save it with
`merge_and_save`. Handlers that only change the store are one action. Merging,
running checks and creating with checks have steps between which other requests
run, because the code reads before it waits. Time stamps are compared as the
strings they are: `now_iso8601` and `to_rfc3339` differ after the second.

### ActionRunner

One run: `levels` are the levels of Kahn's sort with the fallback on a cycle,
`live` the units (an action with a combination of its matrix) that run,
`results` what has ended, `caller` who asked. An attempt may end in any way.
`verdict` is what the hook, the API or the command makes of the results.

### Sessions, ServerRepos, Scheduler, ActionFiles, DepUpdates

`Sessions`: `KeyAuthOpen` takes the challenge and reads the role from the file
of a repository, `KeyAuthIssue` reads the version and issues the token, which
carries the repository. A request that changes access, `admin[h]`, comes in with
any token of an owner (`AdminEnter`: `require_role` does not ask for which
repository), saves the list (`GrantAccess`, `SetRole`, `RevokeAccess`) and
raises the version in another step (`RevokeAllTokens`). `AdminDropped` is the
client that goes away: before the save the task may go on alone (`"orphan"`),
and nobody raises the version after it. A user may be a reader, a key without
an entry, or nothing at all; `Covered` tells these apart, which `role_level`
does not. `Start` reads or writes the persisted secret.

`ServerRepos`: the map of mutexes with its eviction, passwords, cached
statistics, and a repository that is deleted and created again; a handler goes
through lock, open, check and save. `Dropped` ends its future where it waits:
the guard is gone (`mutex` is 0) and the blocking task goes on. Creating a
repository saves once or, with an author, twice (`SaveAuthor`). `Scheduler`: the
interval of one minute, late ticks, restarts. `ActionFiles`: load, truncate and
fill of the vault, the configuration and run records. A write that has begun
leaves a file that cannot be read or, of the configuration, its beginning, which
can (`"cut"`: every field of `ActionsConfig` has a default). `DepUpdates`: the loop of proposals that edits
the manifest of the working directory and puts it back.

### The algorithms

`TextMerge` has the Myers search with its diagonals, the hunks, and the merge
loop over change maps; `TreeMerge` the table of cases for an entry and the
recursion into directories, as a function on the levels of nesting that
`Levels` lists (level 1 holds files only, a directory of level n has a tree of
level n - 1 in it). They are compared with all common
subsequences, with patching, and with a merge defined line by line. `Bisect` is
the session between invocations. `Manifests` has parser and updater of twelve
formats, as entries with a form (one line, table, link, property, …) instead of
characters, and what the registries' clients make of an answer. An entry of a
pom.xml may have one `<exclusion>`: `parse_pom_xml` reads the dependency under
the excluded name, because that comes later in the block, and `update_pom_xml`
takes the first block with the name anywhere in it. Groups and artifacts are one
name, so a block with the group of one and the artifact of another is not told
apart.

`GitBridge` imports git directories whose objects may be in packs or damaged,
exports what it imported, and checks out HEAD. An object that is not there as a
loose file is passed over, one that is there and cannot be read ends the import
with an error (`ReadFails`, `told`), and the new repository stays empty. A branch
with too long a name is an error as well, a tag with one is left out without a
word. `ParseText` and `SerializeText` are what becomes of the headers and the
message of a commit or a tag, `git_mode_to_ovc` and `ovc_mode_to_git` of a mode;
only authors' names and dates are taken as git writes them, and a tag without a
tagger gets an empty one. Its loops are recursive functions over turns: the
walk from the refs takes one queued id per turn, Kahn's sort emits one object
per turn, the export makes one pass over what is not written per turn, the
checkout goes down one level. The code writes what is ready while a pass goes
on, the model at its end; the result is the same, as an object is written from
those it names, which are all there before. What an import should give is
stated apart from all that: `Meaning` says what an id stands for, in rounds that
understand an object once everything it names is understood, either in the form
that survives the round trip (`NormalForm`) or in OVC's terms (`Here`).

## Runs

| Run | Instance | Shows |
|---|---|---|
| `repo_race` | 2 processes, one of which merges, 2 hosts, 2 sizes, clock to 1 | type invariant; lost updates need one of two windows; exclusion unless a live lock was removed; branches resolve and acknowledged commits stay, but for those a merge left out; the sequence grows |
| `repo_live` | 2 processes that merge, one in a container | every command ends; locks and temporary files of the dead go away |
| `api_safe` | 2 writers (one client may disconnect), 1 reader, crash and restart | no lost update, no live lock removed, every change is a step of `SerialRepo`, unless a save ran on without its mutex |
| `access_safe` | 3 users, 1 stale copy | an Owner remains and users and key slots agree, unless keys are handled directly; only a revocation takes a user off the list |
| `cloud_safe` | 2 clones, 2 commands each, 3 files, 2 attempts, either backend | the manifest's chunks exist; a pull installs only complete, pushed files; with GCS sidecars are not ahead and `LocalAhead` is safe |
| `cloud_live` | 1 command each, 2 files (one of two chunks), 3 attempts, either backend | every command ends |
| `worktree` | 2 paths (one ignored), 2 branches, 1 tag, an empty or a forked repository, 4 steps, 1 death | what can be named is complete and kept (`NothingLost`); index and directory follow HEAD; merges are remembered |
| `pulls` | 2 requests, 2 users, 2 pull requests, 1 command line process, checks configured or not | merges are approved, single and on the target; answers are not taken back; every request ends |
| `pulls_deadlock` | 2 requests, checks configured | **violation**: a creation waits for the mutex it holds |
| `actions` | every graph over 3 actions with up to 2 dependencies each, and variants with matrix, retries, condition, fix, containers | order, completeness, failure hooks, verdicts, termination |
| `server` | six parts, see below | sign-in, sessions across restarts, the server's maps, the scheduler, the files of actions, proposals |
| `algorithms` | five parts, see below | diff and merge, tree merge, bisection, manifests, git bridge against references |

Each property has a mutant: a plausible bug in the mapped code under which TLC
finds the property violated. Properties that are a conjunction (`NothingLost`,
`MergesSound`, `SignInSafe`, `TextSound`, …) have a mutant for each part that
is about the code.

The parts of `server`:

| Part | Instance | Property |
|---|---|---|
| sessions | 2 repositories, 2 calls of `key_auth`, 1 request that changes access, 2 tokens, 2 challenges with room for 1, limit 1 in a window of 2, 2 changes | `SignInSafe`: an accepted token gives no more than the list of its repository does; a challenge is good for one token; at most twice the limit gets through. `SessionsSurvive`: a restart keeps valid tokens |
| repos | 2 handlers, 2 creations, a cache entry that expires at the next tick of the clock | `ReposSafe`: one request at a time, no old content in a new repository, no old statistics |
| scheduler | 3 schedules (daily, hourly, malformed), minutes of 2 instants, hours of 2 minutes, 2 starts | `ScheduleKept`: an action runs once in each full minute its schedule names |
| updates, history | 2 writers, one with a passphrase, 2 items; 2 runs | `FilesKept`: what was stored stays; the history can be read |
| deps | 2 dependencies, 1 edit by the user | `ProposalsSafe`: a proposal holds its own update, merged ones stay |

The parts of `algorithms`:

| Part | Inputs | Property |
|---|---|---|
| text | all triples of texts of up to 3 lines over 3 lines, and three texts of 6 to 8 lines, one over `MAX_DIFF_LINES` | `TextSound`: scripts are shortest, hunks apply, change maps hold the whole script, separate changes merge, lines both keep survive, and the merge takes both sides alike (`MergeSymmetric`). `CleanMergeExact`: a clean merge is the two changes and nothing else |
| tree | a file, and a file or a directory that may be empty, each may be missing; 5 texts (one binary, one with its NUL byte too late to be seen), 2 modes; all triples | `TreeMergeSound`: no text that a side changed is overwritten outside the conflicts, and conflicts are real |
| bisect | all first bad commits and ranges in histories of 6 commits | `BisectSound`: candidates are the unanswered range, the report is at most one commit early |
| manifests | 12 formats, manifests of up to 2 entries, 5 names, 3 versions, one artifact that may be excluded | `ManifestsSound`: offers are newer, updates take effect and touch nothing else but drawn entries |
| bridge | 3 nested trees (one with a submodule), 3 commits with every shape of parents, 2 tags (one may point to the other), refs with names that are too long or of another kind, one object in a pack or damaged | `BridgeSound`: readable histories survive import and export in normal form, and damage is told |

### What the conditions of the properties leave out

Some properties hold under a condition because the code does not give more, and
some were seen to fail while the models were made. What lies outside is worth a
reader's attention.

*Saving and merging.* `save` checks for a conflict before it takes the lock, so
a save that ends in between is overwritten; and two versions with the same size
and second of modification are taken for one. `LossNeedsWindow` says that these
are the only two ways. A lock file whose text is not written yet looks stale,
and a decision that a lock is stale is carried out later, on whatever lock is
there then; `ExclusionUnlessBroken` says that two processes write at once only
after such a removal. `open` deletes all temporary files, also that of a save
that is running; that save fails at its rename. `merge_and_save` replaces the
store with what was stored before and what the file has, so the commit that is
being saved, which is in the live store only, is not among the objects its
branch needs, although the comment (`repository.rs:537`) says that the store is
rebuilt "so the save serialization is complete" (`dropped`); `RefsResolve` says
that it is the only one that can be missing, and `AckedCommitsKept` excepts it as
well. For a branch both
sides moved the local tip wins; a stale copy brings back a user who was revoked
(`repository.rs:617`) and can leave more key slots than `add_key` allows.
Remote stashes, index and reflog are dropped. The write-ahead log's temporary
name is shared by all processes.

*The server.* The guard of the mutex belongs to the handler's future: when the
client disconnects, the mutex is free while the save runs (`branches.rs:60`);
`OneInside` excepts the task that goes on. Its statistics are not dropped then
either. Deleting a repository takes no mutex and removes it from the map, so that
a request that is saving works beside others or writes the deleted file again
(`RecreatedKept` and `OneInside` name this). A request that opened the deleted
file passes its check on the new one when both are at the same sequence number
(`crossed`). Cached statistics may be stored by
a listing that read before a change, and only some changes drop them.

*Sessions.* A token issued before a revocation is valid until the version is
raised, and stays so when the handler is dropped between the two, until some
other change raises it (`unraised`); one whose role was read before and whose
version was read after stays valid; the version restarts at 1 with the same
secret; changes by command raise no version. `RevocationHolds` says that there
is no sixth way. It compares a token with the repository whose list it was
issued from. A token names that repository, "scoped to" it (`auth.rs:37`), but no
handler compares it with the one of the request, so `AdminEnter` takes a token
of any repository; the property is not about that. The limiter's
windows are fixed, while `state.rs` calls them sliding; `AttemptsBounded` gives
twice the limit.

*Access.* A user whose key was removed and granted access again can have two
entries, of which `revoke_access` counts the second as an Owner while `role_for`
reads the first, so the last Owner can be revoked, although "Owners cannot be
revoked unless they are not the last Owner" (`repository.rs:1765`); `OwnerExists`
therefore speaks of histories without direct key changes. A merge of a stale copy restores a
revoked user as a whole, with entry and slot, which `UsersHaveKeys` permits.

*Cloud.* `LocalBackend` compares and writes in separate calls, so two pushes
can both succeed and the generation can be set back; its `get` can pair old
data with a new generation, and it truncates a chunk that the manifest lists
before it writes it again (`local.rs:119`). `SidecarNotAhead` and
`LocalAheadIsSafe` are stated for GCS. With either backend a push that meets a
conflict fetches the new generation and replaces the other push on its second
attempt, and `pull` replaces the local file without looking at what was saved
since.

*Content.* gc takes no roots from the index, so staged contents are removed
(`dropped`); the reflog's limit makes old tips collectable (`trimmed`);
`ApiRebase` and creating a branch under the name of the current one move HEAD
without the index (`moved`). When gc removed a content of the merged tree,
`ovc merge` stages the empty text in its place, which nobody chose; this third
exception of `IndexExplained` was found by the proof, not by the run. Outside the properties: the API's checkout and
hard reset delete untracked and ignored files; its cherry-pick, revert, stash
and merge leave the directory; its merge makes a commit of one parent from a
base it seeks among first parents; `checkout -b n start` overwrites changes;
`ovc stash` saves only the index but overwrites the rest; a conflicting
`ovc merge` saves nothing, and the commit that resolves it has one parent.

*Pull requests.* A run of the checks writes back the pull request it read
before them (`replaced`), two copies with stamps of one second cannot be told
apart (`tied`), and a merging command can set the target branch back
(`rolled`). A comment's number is the length of the list plus one, so a deletion
leads to duplicates; a merge of two stores resurrects deletions; the merge
strategies squash and rebase are ignored; hooks started inside the server's
runtime panic.

*Actions.* A circle of dependencies falls back to the order of names; a matrix
with an empty variable runs nothing, and one over the limit misses its later
variables; dependents of a failed action run; a configuration that cannot be
read lets every gate pass; `ovc actions run <names>` reports success for names
it could not run; gates that pass no changed paths skip every conditional
check. All scheduled actions run when one of them is due, although the comment
(`lib.rs:170-174`) speaks of the matching ones, and a late tick misses a minute
and doubles another. Two writers of the vault can lose each other's secret
(`mixed`), and can write it in plain when one loaded it before it was
encrypted; a configuration of which only the beginning was written, or that is
empty, loads without an error, and the next change writes it back without the
actions that are missing (`cutBack`); a torn run record makes the listing fail.

*Dependency updates.* The manifest in the directory is put back from the tip,
over uncommitted edits; it is not updated when a proposal is merged, so the
next proposal reverts the earlier one (`leaked`). `Unreached` in `Manifests`
lists what the parsers read and no updater finds. `Drawn` lists the entries of
another dependency that an update may hit: the `.csproj` package that has the
name as a part of its own, and the dependency of a `pom.xml` that excludes the
artifact, which is also read under that name, although the update is said to be
made "inside the correct `<dependency>` block" (`depcheck.rs:1767`).

*Merge, bisect, git.* A change that starts inside the lines the other side takes
away is dropped without markers, although the comment of `three_way_merge`
(`merge.rs:73`) promises them; `CleanMergeExact` excepts this case, and
`MergeSymmetric` and `KeptLinesSurvive` state what remains in it. `merge_trees`
compares contents only and loses a change of mode, and what a clean merge of a
text leaves out is left out there too. The last candidate of a bisection is
reported untested, so "the first bad commit" (`bisect.rs:31`) may be the one
before it. A git object that is only in a pack is
skipped, with the refs that lead to it dropped and parents left out; a tag with
too long a name is left out; tags of tags lose their target. What else a round
trip loses is what `NormalForm` gives up, while the repository's README claims
"full history fidelity": signatures, encodings and other headers, blank lines
before a message and a missing newline at its end, modes such as 100664, the
commits of submodules and the sign of `-0000`.

### The finding

A run that checks what the repository says of the code, and in which TLC finds a
behaviour that contradicts it.

- `pulls_deadlock`: `create_pull_request` holds the repository's mutex
  (`pulls.rs:443`) while it runs the checks, and `run_checks_for_pr` waits for
  the same mutex to save their results (`pulls.rs:1090`), which its comment
  promises. `EveryPullRequestEnds` names the state as its only exception.

### Bounds

The races need two parties; one change of each suffices for a lost update and
for a sequence that must grow past the first save. Two sizes and two instants
tell equal from unequal stat data. `MaxSlots` is 3 instead of 1024, the limits
of challenges, attempts, runs, matrices and reflog are 1 to 6, so that each is
reached. `cloud_safe` uses two attempts instead of three: the third repeats the
second; `cloud_live` uses three. Three files let each clone save one of its own.

`MaxSteps` is 4 in `worktree`: from a fork that is enough for two moves of HEAD,
an edit and a collection, and the start with a fork saves the steps that make
one. `MaxPulls` is 2, so a store that was opened with an older counter meets a
number that is taken. One key that opens two
repositories is the least with which a token of one can meet the list of another.
Three lines are the least in which a change can be before,
in and after another one; the longer texts are there for gaps between hunks and
for the limit. Six commits give bisection three rounds.

Symmetry is used only for safety and only among parties and chunks that the
configuration treats alike. What the proofs cover needs no bound.

### Fairness

`RepoSave!FairSpec` is weak fairness of each process's steps (the operating
system runs it) and strong fairness of `LockTimeout`: `acquire` measures
elapsed time at every attempt, so it cannot fail forever without timing out.
`Crash`, failures and other processes are not fair. `CloudSync` has weak
fairness of each command's steps; requests may fail every time. `PullRequests`
has weak fairness of the steps of a request that has begun: tokio polls a
handler that can go on. No request has to arrive and no command to run.
`ActionRunner` has weak fairness of its next step: an attempt ends because its
timeout kills it. The other modules state no liveness: their parts may rest for
ever.

## Proofs

All theorems hold for every value of the constants that the `ASSUME`s of the
modules allow: any number of processes, requests, clones, users, actions,
files, commits and steps. A run and a theorem about the same property use the
same definition. TLC checks each inductive invariant on the instance of the run too
(but for `DepTypes`, whose sets mix records and numbers); for that a module
extends the `MC` module and the module of the proofs.

What is assumed of the constants is what the code gives them: limits are
positive, names that play different roles differ, the sets that are counted are
finite. Three assumptions are about initial states. `WorkTree!StartAssumption`
says that a behaviour may start from any repository that is whole (the commits
of the store have their parents and files there), whose HEAD names a commit if
there is one, whose tips are in the reflog, and with nothing staged; every
command leaves such a repository, as the invariant shows, but for the last two
conditions, which the history variables then account for.
`PullRequests!StartAssumptions` says the same of a store of pull requests. Of a
git directory `GitBridge!BridgeAssumption` says what git itself sees to: every
name leads to an object of the right kind, and the branch of HEAD to a commit.

### Saving: `RepoSaveProofs`

- `TypeCorrect`: `TypeOK`, by induction on the actions.
- `LockExclusion`: two processes hold the lock only if it was broken. The
  inductive invariant `LockInv` says that, until the lock is broken, a process
  in the write section is the owner of the lock file, and that a lock a process
  decided to remove while it was dead stays dead.
- `LossWindows` and `SequenceGrows`: `VersionInv` relates each handle's
  snapshot, sequence number and unsaved state to the version it came from and
  to the version its check saw; without it neither the check nor the sequence
  number of a rename says anything about the file. Both hold for saves that
  merge as well as for those that do not.
- `NoDanglingRefs` and `AcknowledgedKept`: `ClosedInv` and `KeptInv` carry
  closure under history through the handle, the serialised temporary file, the
  merge and the disk, up to what a merge left out; `LeftOutInv` says that this
  can only be a commit of the merging process itself, because a handle differs
  from what it has stored by nothing else.

### Requests: `RepoSaveProofs`, second half

`ApiInv` holds until a save outlives its mutex. `Places` says where a handler
may be at each stage, so that whoever is between open and unlock has the mutex.
`Knows` says what that one request knows: up to its change its copy *is* the
file, from then to the rename it is the file with one operation applied
(`Applied`), afterwards the file again. `MutexGuards` follows at once: nothing
is lost and no live lock is removed. `MutexSerializes` is the refinement: under
the mapping of `ApiRequests` a rename is one operation of `SerialRepo` and
every other step is a stutter. Freshness of commits (`CommitsFresh`) is needed
so that the operation adds a commit that was not there.

### Access: `AccessControlProofs`

`AccessInv` says of the file *and of every stale copy* that each user has at
most one entry, that users and key slots agree, and that the copy has an Owner;
it is the copy's own Owner that a merge keeps, because `merge_from` never
replaces an Owner and never removes anybody. `OwnerRemains`,
`UsersAreKeyHolders` and the action property `OnlyRevocationRemoves` follow.
`merge_from` is a recursive function over the list; what it yields is shown by
induction over the position.

### The server: `ServerProofs`

- `ServerReposSafe`, by `ReposInv`: while no mutex was taken out of the map, a
  request under way has the very mutex that the map has, unless its handler was
  dropped and it has none (`Mutexes`), so two inside are one or one of them is
  such a task; a version belongs to one creation (`Versions`, `Generations`).
- `SessionsSafe` and `RestartsKeepSessions`, by `SessionsInv`: tokens are signed
  with the secret in the file (`Secrets`); a challenge is pending, or with one
  call, or in one token (`Places`); `Revoked` is `RevocationHolds` without expiry
  and signature, for the tokens of the present version and any number of
  repositories and requests: a list that changes puts its repository into one
  of the windows, and only a raise, which makes the tokens of before invalid,
  takes it out of the first two; `Windows` says where the
  admitted attempts lie relative to the window of the bucket, which gives the
  bound of twice the limit.
- `DepUpdatesSafe`, by `DepInv`: the manifest that the loop starts the next
  update from is the tip's, and the text under way is the tip's with one update.
- `SchedulerSafe`, by `SchedulerInv`: what ran did so in a minute that has come
  and that the next tick is not for. It needs that minutes are monotone in
  instants, which the module proves from division.
- `ActionFilesSafe`, by `FilesInv`: unless two writers mixed or a configuration
  that was cut short was written back, what a writer is going to write fits what
  was acknowledged, whoever loaded before it is stale or loaded what is cut short,
  and a record that is not whole is being written, about to be swept, or of a
  writer that died.

### Runs of actions: `ServerProofs`

`DependenciesInOrder`: Kahn's sort, a recursive function, is followed by
induction: its levels are layered, each depending on earlier ones only, unless
the graph has a circle. `OrderInv` carries this along the run; a unit sees in
`saw` all the levels before its own. `FailuresAnswered`: `FailInv` says that the
on-fail actions that have run and those in the queue are all of them exactly if
an action asked for has failed, and that a verdict of `passed` was given on
results none of which stops the caller.

`EveryUnitRuns` has two halves. `LevelsComplete` says that the levels contain
every action asked for: once a round of Kahn's algorithm takes nothing the
following ones do not either, so the rounds that count are the first ones.
`ExpandMatrixIs` follows `expand_matrix` variable by variable. Its combinations
so far never repeat and are all there are (`ExpandedNext`, with a flattened list
of rows and its length in `FlattenIs` and `RowsJoined`), or there are exactly
`MaxCombos` of them because the limit was passed. A variable that has a value
never makes the combinations fewer (`CombosGrow`), so once the limit is passed
a matrix has more than it allows, unless one of its variables is empty.
`UnitsInv` then says of a level that its units are those in `live` and those
with a result.

### Pull requests: `PullRequestsProofs`

`PullsInv` says of every older copy, whether a handler's snapshot or the command
line's file, that it is the file's pull request as it was: of the same creator
and with reviews that the file's still begin with (`Older`), unless a run of
the checks replaced it. A request past the gate holds a snapshot with the
approvals asked for (`JobsApproved`), so what it merges has them too; a merged
pull request of a copy is merged in that copy's history (`CopyMerged`), so that
merging the copy back keeps the pair. `MergesAreSound` and `AnswersStay`
follow. Reviews and comments are merged by number and sorted; since numbers are
positions (`InOrder`), the merge of two lists is the longer one.

### Content: `WorkTreeProofs`

`WorkInv` has four parts.

- `Fit`: the repository is well typed and *sound*: the commits of the store have
  their parents there and their files too, apart from contents that gc dropped,
  and branches, tags, stashes, the reflog and the index name only what is there.
  `HistoryComplete` speaks of ancestors, and is not inductive by itself: a new
  commit's ancestors are those of its parents, which need to be complete
  although no root may name them. Closure under parents is inductive, and
  `AncestorsWithin` gives the ancestors from it.
- `Headed`: HEAD names a commit when the store has any.
- Until the reflog has overflowed, every tip is in it and so is every earlier
  tip (`past`), so that gc keeps both.
- `IndexExplained` itself.

A command is followed from the repository it opened to the one it hands to
`Finish`: `Ready` says what the latter has to satisfy and what it may explain,
`SavedStep` and `FinishStep` show that saving it keeps `WorkInv`, and there is
a lemma for every building block (`SetBranchFits`, `AddCommitFits`,
`CommitOnFits`, `ReplayOk`, `StashFits`, ...). The theorems are
`NothingIsEverLost` and `IndexIsExplained` for the invariants,
`DirectoryIsSafe` for what a checkout overwrites and what the directory follows,
and `MergesAreRemembered`. The walks over the history that the code does with
queues and loops (ancestors, first parents, the commits to replay, the replay
itself) are recursive functions, and what they return is shown by induction.

### Cloud: `CloudSyncProofs`

One inductive invariant, `CloudInv`, carries all theorems.

- `StoreInv` says that the manifest's chunks exist, that a manifest that parses
  was published and that GCS leaves nothing half written.
- `JobInv` says of a push that what it no longer has to send exists, and of a
  pull that what it fetched was published; `ManifestChunksExist` and
  `PullSound` follow. Both hold for either backend.
- `KnownInv`, for GCS, says that whoever knows a file under the current
  generation knows the current manifest. It needs the order in which `get`
  reads generation and data; `SidecarsTrusted` follows.

`OneClone` reduces a step to the clone that takes it, so each action is left
with what it can disturb.

### Texts: `TextProofs`

`TextsAreSound` is `TextSound`, and `MergeIsSymmetric` is `MergeSymmetric`, for
texts of any length. The hunks are those with 1 or 3 lines of context (`HunksAre`
is for any positive number): the code shows hunks with 3, and cuts them with none
only to count lines, where the header of an insertion would be wrong. The argument
follows the code from the search to the merge.

- The search. `FarIs`: on each diagonal of its parity a round gets as far as its
  step and the equal lines behind it lead. The frontier may run past the end of
  a text there, as it does in the code; `ColsOver` and `RowsOver` show that then
  its neighbour has too, so that the first path at the end is exactly there
  (`EndExact`), and `EndsByThen` that there is one. `Furthest` is what makes the
  script shortest: take any list that both texts hold, and count how much of it
  lies behind a line of each; after d rounds the search is at least as far as a
  path that keeps the list and has d other steps can be.
- The walk back (`BackStep`, `BackLast`, `BacktrackIs`) retraces the choices of
  the search over the trace. What it has collected is, at every round, a script
  from the place it has come to, to the end of both texts, with as many edits as
  rounds are passed (`Rest`). `Script` says this of a sequence of steps by the
  *places* between them. No deletion follows an insertion without a kept line
  between them (`NotThenRight`): a deletion where the insertion began has got
  further in the same round, so the next round steps down again. `MergeIs` carries all of it over `merge_ops`,
  `MyersIs` over the common first and last lines, and `DiffIs` adds the texts
  that are too long. `DiffIsShortest` is `DiffShortest`.
- The hunks. Line by line the actions lead the same way as the script
  (`ActionsWalk`). `GroupsAre`: the groups are the changes, none left out, and more
  than two contexts lie between two of them; so with their contexts they do not
  overlap and between them every line is kept (`GroundsAre`, `GapSame`).
  `HunkIs` gives the header and both sides of one hunk, and by `TiledPatch`
  hunks that tile the actions in this way rewrite old into new. `HunksAre` is
  `HunksApply`.
- The change maps. `MapIs` follows a script into its map: what the map makes of
  the lines of base passed so far is the side's text up to there, and it has no
  region behind them. An insertion goes to the line that the script has come to
  (`AnchorIs`), and a deletion meets no region at its line, because no insertion
  comes right before it. `DiffWhole` is `ChangesWhole`.
- The merge. For maps that touch no line in common the walk over base has written,
  at every line it stops at, what `Combined` writes up to there
  (`StepApart`, `WalkApart`); `SeparateMerge` adds the cases that
  `three_way_merge` answers without a walk. For any two maps it has written
  the lines of base passed so far that no side takes away, in their order
  (`StepKeeps`, `WalkKeeps`), which gives `MergeKeeps`. And two walks with the
  sides exchanged are at the same line after every step, have the same number of
  conflicts, and the same result while there is none (`WalkTwins`); here
  the scripts enter only as two maps, so this holds whatever the diff finds.

### Other algorithms: `AlgorithmProofs`

The algorithms answer in one step, so apart from bisection the work is in their
operators: what they return for inputs of any size.

- `BisectFinds`: `BisectSound`, for a history and a session of any length.
  `BisectInv` says that the last good and the last bad answer are the closest
  ones, that the candidates are the commits between them (`Narrowed`), and that
  the regression is among them or right behind.
- `TreesMerge`: `TreeMergeSound`, for trees of any depth and width. One level
  is followed through the fold over the names (`MergeLevel`), where a merged
  directory is what the level below makes of it. By induction on the level, the
  entry at a path in the merged tree is one of the ways `NoSideOverwritten`
  allows, or the path is reported as a conflict, and every reported path is one
  that `ConflictsReal` allows. Two facts about paths carry the step: the entry
  at a path of a directory is the entry at the rest of the path in it, and a
  merge without a conflict below reports none above.
- `UpdatesAreSafe`: `ManifestsSound`, for manifests of any length and any
  names, versions and answers, for each of the twelve formats. `ManifestInv`
  says of an offer that it is for a dependency that the manifest lists with
  another version, and that the new manifest is what the updater of that format
  makes of the old one. Then each entry that an updater rewrites is one of the
  updated name or a drawn one (format by format: `Pattern`, `PatternNames`), which
  is `OthersUntouched`; for `ReadingsUntouched` it is read under that name before
  and after, and an entry that is not rewritten does not change what is read of
  the others. For `UpdateTakesEffect`, a name that occurs once
  is found once, unless `Unreached` says that the updater has no pattern for
  it. `OffersAreNewer` compares the label with the order of the versions.
  Parsers and updaters select entries with `Chosen`, a recursive function over
  positions, whose lemmas (what it selects, of a concatenation, of the same
  positions in two lists) all of this uses.
- `BridgeCarries`: `BridgeSound`, for git directories with any objects, refs and
  packs, any of the objects damaged and any texts and modes. `BridgeInv` says that what the import made is `Imported` of the map it
  builds, and the export the same of what it writes in some order of the tags;
  the rest is about those operators.
  - `WalkComplete`: the walk has turns enough, and queues every id behind a ref
    once, so what can be read behind one is found; and an import that tells
    success met no damaged object, because it comes to all of `Reachable`
    (`ReachedSeen`).
  - `KahnOrders`, `TopoOrders`, `OrderIs`: among objects whose names all have a
    meaning, the sort puts each behind those it names. It is here that a history
    without a circle matters, and `Meaning` gives it: an object is understood a
    round later than those it names. A circle, or an object behind one, is what
    the sort appends at the end and what has no meaning.
  - `MapMeans`: so when an id is converted, the map has what it names, and holds
    for it what it means; `ImportCarries` is `ImportFaithful`.
  - `PassesSuffice`, `ExportHas`: the objects of an import in the order of the
    map are each ready once those before are written, so there are passes
    enough for all; `ExportComplete` follows also for objects with gaps.
  - `ExportMeans`: what is written for an object is its content in normal form.
    `ZonesReturn`: minutes give the hours, minutes and sign they were read from,
    but for a zero one; `TextsReturn` says the same of a commit's text, and
    `ModesReturn` of a mode. `ExportCarries` is `RoundTrip`.

### Induction in these proofs

The library's induction theorems take an operator as a parameter, which the
installed provers cannot instantiate. `SetInduction`, which takes a set instead
and is proved from the least element of its complement, replaces them where a
recursive *function* over the numbers has to be followed (`AccessControlProofs`,
`ServerProofs`, `WorkTreeProofs`, `AlgorithmProofs`, `TextProofs`). Each such function comes
with a lemma that one with its recursion exists, from which the function that
the definition chooses has it too. It needs a set that can be written down, so it
does not reach `RECURSIVE` operators.

### Only model-checked

Everything under fairness (`repo_live`, `cloud_live`, `EveryPullRequestEnds`,
`RunEnds`): liveness and `ENABLED` are out of the prover's reach; and
`CleanMergeExact`. Every other invariant and every other action property of the
runs that pass is stated by a theorem.

## Not modelled

Encryption, compression and the byte format (a file is whole or absent:
`rename` is atomic and the trailer is authenticated); chunk boundaries;
signatures; glob matching and the walk over the file system; blame, grep,
configuration, submodules; the scanners of the built-in checks and the
templates; the formatting of diffs and reports; byte formats of git; prompts
and clients of language models; the user interfaces, and the routes and
commands that only read. `merge_and_save` is modelled for objects and branches
(`RepoSave`), access and keys (`AccessControl`) and pull requests
(`PullRequests`); its treatment of tags, notes, stashes, reflogs and the index
is not.

## Plan

Everything that was planned to be modelled is, and every safety property of a
run that passes but `CleanMergeExact` is proved. What could follow is more of the model:
`merge_and_save` for tags, notes, stashes, reflogs and the index, glob matching
of ignore rules, and the scanners of the built-in checks.
