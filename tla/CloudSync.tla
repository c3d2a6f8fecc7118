----------------------------- MODULE CloudSync ------------------------------
(***************************************************************************)
(* Pushing and pulling the `.ovc` file: SyncEngine (ovc-cloud sync.rs)     *)
(* over one of its storage backends, used by clones that each have a local *)
(* copy of the file and a sidecar with what they last synchronised.        *)
(*                                                                         *)
(* A file is the set of its chunks.  A save encrypts the whole file anew,  *)
(* so two files have no chunk in common.  The file itself stands for its   *)
(* hash.                                                                   *)
(*                                                                         *)
(* The backend "gcs" is GcsBackend: one request writes an object and       *)
(* checks its generation, the answer may be lost, and `get` asks for the   *)
(* generation first and for the data second.  The backend "local" is       *)
(* LocalBackend: every object is a data file and a `.gen` file, `put`      *)
(* writes them one after the other with std::fs::write (truncate, then     *)
(* fill), and `get` reads the data first and the generation second.        *)
(***************************************************************************)
EXTENDS Naturals

CONSTANTS
    Clones,       \* local copies, each with commands that run on it
    Cli,          \* clones that use `ovc pull` (the others use the API)
    Files,        \* the files that saves may make, each a set of chunks
    Base,         \* the file every clone starts with
    Backends,     \* the backends the clones may be configured with
    MaxAttempts,  \* MAX_PUSH_ATTEMPTS
    MaxCmds       \* bound: commands per clone

ASSUME CloudAssumption ==
    /\ Cli \subseteq Clones
    /\ Base \in Files
    /\ {} \notin Files
    /\ \A f, g \in Files : f \cap g # {} => f = g
    /\ Backends \subseteq {"gcs", "local"}
    /\ MaxAttempts \in Nat \ {0}
    /\ MaxCmds \in Nat

VARIABLES
    backend, \* the backend of the remote, which all clones share
    manSt,   \* the manifest's data file: absent, truncated, readable, mixed up
    man,     \* the file the manifest describes
    gen,     \* the manifest's generation
    genOk,   \* its `.gen` file is readable
    blobs,   \* chunks that exist in the store
    torn,    \* chunks whose data file is truncated
    badgen   \* chunks whose `.gen` file is truncated

VARIABLES
    local,   \* local[c]: the `.ovc` file of clone c
    side,    \* side[c]: its .sync-state sidecar, if known
    made,    \* files that have been made
    job,     \* job[c]: the push or pull that runs on clone c
    cmds     \* cmds[c]: commands started

(* History: enables no step. *)
VARIABLE
    published  \* files that a manifest has described

store == <<backend, manSt, man, gen, genOk, blobs, torn, badgen>>
clone == <<local, side, made>>
vars  == <<store, clone, job, cmds, published>>

Gcs == backend = "gcs"

Chunks == UNION Files

PCs == {"idle", "fetch", "fetch2", "chunks", "cfill", "cgen", "cgfill", "mput",
        "mtrunc", "mfill", "mgen", "mgfill", "cache", "get", "side", "checkout"}

(* A command: where it is, the local file when a push read it, the attempt *)
(* of a push, the manifest and the generation it fetched, the chunks still *)
(* to send or to get, the chunk being written (a set of at most one), and  *)
(* the chunks in a pull's temporary file.                                  *)
Job == [pc : PCs, cmd : {"push", "pull"}, snap : Files \cup {{}},
        attempt : 1 .. MaxAttempts, seenMan : Files \cup {{}}, seenGen : Nat,
        todo : SUBSET Chunks, cur : SUBSET Chunks, got : SUBSET Chunks]

NoJob == [pc |-> "idle", cmd |-> "push", snap |-> {}, attempt |-> 1, seenMan |-> {},
          seenGen |-> 0, todo |-> {}, cur |-> {}, got |-> {}]

(* A command handles only chunks of the file it pushes or pulls. *)
JobOK(j) ==
    /\ j \in Job
    /\ j.snap \in made \cup {{}}
    /\ j.seenMan \in made \cup {{}}
    /\ j.todo \cup j.got \subseteq IF j.cmd = "push" THEN j.snap ELSE j.seenMan
    /\ j.cur \subseteq j.todo

(* Type invariant: manifests, sidecars and commands hold files that some   *)
(* save has made, and a push makes at most MAX_PUSH_ATTEMPTS attempts.     *)
TypeOK ==
    /\ backend \in Backends
    /\ manSt \in {"none", "empty", "whole", "mixed"}
    /\ man \in made \cup {{}}
    /\ gen \in Nat
    /\ genOk \in BOOLEAN
    /\ blobs \subseteq Chunks
    /\ torn \subseteq blobs
    /\ badgen \subseteq blobs
    /\ made \subseteq Files
    /\ local \in [Clones -> SUBSET Chunks]
    /\ side \in [Clones -> [known : BOOLEAN, gen : Nat, hash : made \cup {{}}]]
    /\ job \in [Clones -> Job]
    /\ \A c \in Clones : JobOK(job[c])
    /\ cmds \in [Clones -> 0 .. MaxCmds]
    /\ published \subseteq made

Init ==
    /\ backend \in Backends
    /\ manSt = "none" /\ man = {} /\ gen = 0 /\ genOk = TRUE
    /\ blobs = {} /\ torn = {} /\ badgen = {}
    /\ local = [c \in Clones |-> Base]
    /\ side = [c \in Clones |-> [known |-> FALSE, gen |-> 0, hash |-> {}]]
    /\ made = {Base}
    /\ job = [c \in Clones |-> NoJob]
    /\ cmds = [c \in Clones |-> 0]
    /\ published = {}

At(c, pc) == job[c].pc = pc

Goto(c, from, to) ==
    /\ At(c, from)
    /\ job' = [job EXCEPT ![c].pc = to]

(* The command ends. *)
End(c) == job' = [job EXCEPT ![c] = NoJob]

(* It returns an error, and what it has written stays. *)
Fail(c, from) ==
    /\ At(c, from)
    /\ End(c)
    /\ UNCHANGED <<store, clone, cmds, published>>

(***************************************************************************)
(* Local changes and the start of commands                                 *)
(***************************************************************************)

(* A save of the repository: some command renames a new file into place,   *)
(* whether or not a push or a pull is running on the same path.            *)
Save(c) ==
    \E f \in Files \ made :
        /\ local' = [local EXCEPT ![c] = f]
        /\ made' = made \cup {f}

Edit(c) ==
    /\ Save(c)
    /\ UNCHANGED <<store, side, job, cmds, published>>

(* push reads the file once; pull's callers open the repository first. *)
Start(c, what) ==
    /\ At(c, "idle")
    /\ cmds[c] < MaxCmds
    /\ cmds' = [cmds EXCEPT ![c] = @ + 1]
    /\ job' = [job EXCEPT ![c] = [NoJob EXCEPT !.pc = "fetch", !.cmd = what,
                                               !.snap = local[c]]]
    /\ UNCHANGED <<store, clone, published>>

(***************************************************************************)
(* fetch_manifest: StorageBackend::get and SyncManifest::from_json         *)
(***************************************************************************)

(* What follows a fetch that saw file m and generation g. *)
Fetched(c, m, g) ==
    /\ job' = [job EXCEPT
          ![c].pc = IF job[c].cmd = "push" THEN "chunks" ELSE "cache",
          ![c].seenMan = m,
          ![c].seenGen = g,
          ![c].todo = IF job[c].cmd = "push" THEN job[c].snap ELSE {}]
    /\ UNCHANGED <<store, clone, cmds, published>>

(* NotFound: a push goes on with generation 0, a pull fails. *)
FetchNothing(c) ==
    /\ At(c, "fetch")
    /\ manSt = "none"
    /\ job[c].cmd = "push"
    /\ Fetched(c, {}, 0)

FetchFirst(c) ==
    /\ At(c, "fetch")
    /\ manSt = "whole"
    /\ job' = IF Gcs THEN [job EXCEPT ![c].pc = "fetch2", ![c].seenGen = gen]
                     ELSE [job EXCEPT ![c].pc = "fetch2", ![c].seenMan = man]
    /\ UNCHANGED <<store, clone, cmds, published>>

FetchSecond(c) ==
    /\ At(c, "fetch2")
    /\ genOk
    /\ Fetched(c, IF Gcs THEN man ELSE job[c].seenMan, IF Gcs THEN job[c].seenGen ELSE gen)

(* No manifest to pull, one that does not parse, or a bad `.gen` file. *)
FetchFails(c) ==
    \/ manSt = "none" /\ job[c].cmd = "pull" /\ Fail(c, "fetch")
    \/ manSt \in {"empty", "mixed"} /\ Fail(c, "fetch")
    \/ ~genOk /\ Fail(c, "fetch2")

(***************************************************************************)
(* SyncEngine::push, one attempt                                           *)
(***************************************************************************)

(* A chunk of the fetched manifest that the store still has is not sent. *)
Reused(c, k) == k \in job[c].seenMan /\ k \in blobs

ReuseChunk(c) ==
    /\ At(c, "chunks")
    /\ \E k \in job[c].todo :
          /\ Reused(c, k)
          /\ k \notin badgen
          /\ job' = [job EXCEPT ![c].todo = @ \ {k}]
    /\ UNCHANGED <<store, clone, cmds, published>>

(* GcsBackend::put of a chunk, without precondition. *)
UploadChunk(c) ==
    /\ Gcs
    /\ At(c, "chunks")
    /\ \E k \in job[c].todo :
          /\ ~Reused(c, k)
          /\ blobs' = blobs \cup {k}
          /\ job' = [job EXCEPT ![c].todo = @ \ {k}]
    /\ UNCHANGED <<backend, manSt, man, gen, genOk, torn, badgen, clone, cmds, published>>

(* LocalBackend::put of a chunk reads the generation, truncates and fills  *)
(* the data file, then truncates and fills the `.gen` file.                *)
TruncateChunk(c) ==
    /\ ~Gcs
    /\ At(c, "chunks")
    /\ \E k \in job[c].todo :
          /\ ~Reused(c, k)
          /\ k \notin badgen
          /\ blobs' = blobs \cup {k}
          /\ torn' = torn \cup {k}
          /\ job' = [job EXCEPT ![c].pc = "cfill", ![c].cur = {k}]
    /\ UNCHANGED <<backend, manSt, man, gen, genOk, badgen, clone, cmds, published>>

FillChunk(c) ==
    /\ Goto(c, "cfill", "cgen")
    /\ torn' = torn \ job[c].cur
    /\ UNCHANGED <<backend, manSt, man, gen, genOk, blobs, badgen, clone, cmds, published>>

TruncateChunkGen(c) ==
    /\ Goto(c, "cgen", "cgfill")
    /\ badgen' = badgen \cup job[c].cur
    /\ UNCHANGED <<backend, manSt, man, gen, genOk, blobs, torn, clone, cmds, published>>

FillChunkGen(c) ==
    /\ At(c, "cgfill")
    /\ badgen' = badgen \ job[c].cur
    /\ job' = [job EXCEPT ![c].pc = "chunks", ![c].todo = @ \ job[c].cur,
                          ![c].cur = {}]
    /\ UNCHANGED <<backend, manSt, man, gen, genOk, blobs, torn, clone, cmds, published>>

(* The `.gen` file of a chunk to write or to look up, or of the manifest   *)
(* to write, does not parse.                                               *)
PutFails(c) ==
    \/ job[c].todo \cap badgen # {} /\ Fail(c, "chunks")
    \/ ~genOk /\ Fail(c, "mput")

(* Mutant: the manifest goes out before the last chunk. *)
MutAllSent(c) == \A k, l \in job[c].todo : k = l
AllSent(c) == job[c].todo = {}

ChunksSent(c) ==
    /\ Goto(c, "chunks", "mput")
    /\ AllSent(c)
    /\ UNCHANGED <<store, clone, cmds, published>>

(* SyncConflict and Network are retried from the fetch.  The mutant counts *)
(* no attempts.                                                            *)
MutRetry(c) == job' = [job EXCEPT ![c].pc = "fetch"]
Retry(c) ==
    IF job[c].attempt < MaxAttempts
    THEN job' = [job EXCEPT ![c].pc = "fetch", ![c].attempt = @ + 1,
                            ![c].seenMan = {}, ![c].seenGen = 0]
    ELSE End(c)

(* The CAS finds another generation, or (Gcs) the request never arrives. *)
PutRefused(c) ==
    /\ At(c, "mput")
    /\ Gcs \/ (genOk /\ gen # job[c].seenGen)
    /\ Retry(c)
    /\ UNCHANGED <<store, clone, cmds, published>>

(* x-goog-if-generation-match: the stored generation is the one fetched. *)
Matches(c) == gen = job[c].seenGen /\ gen' = gen + 1

(* The manifest of c replaces the one in a Gcs store. *)
Stored(c) ==
    /\ Gcs
    /\ At(c, "mput")
    /\ Matches(c)
    /\ manSt' = "whole"
    /\ man' = job[c].snap
    /\ published' = published \cup {job[c].snap}
    /\ UNCHANGED <<backend, genOk, blobs, torn, badgen, clone, cmds>>

PutManifest(c) ==
    /\ Stored(c)
    /\ job' = [job EXCEPT ![c].pc = "side", ![c].seenGen = gen']

(* The manifest is stored and the answer is lost: the backend repeats the  *)
(* request and is refused, or gives up with Network; push retries both.    *)
PutReplyLost(c) ==
    /\ Stored(c)
    /\ Retry(c)

(* LocalBackend::put of the manifest: read and compare the generation ... *)
CheckGeneration(c) ==
    /\ ~Gcs
    /\ Goto(c, "mput", "mtrunc")
    /\ genOk
    /\ gen = job[c].seenGen
    /\ UNCHANGED <<store, clone, cmds, published>>

(* ... write the data file ... *)
TruncateManifest(c) ==
    /\ Goto(c, "mtrunc", "mfill")
    /\ manSt' = "empty"
    /\ UNCHANGED <<backend, man, gen, genOk, blobs, torn, badgen, clone, cmds, published>>

(* (a second writer may leave the end of a longer manifest behind its own) *)
FillManifest(c) ==
    /\ Goto(c, "mfill", "mgen")
    /\ manSt' \in IF manSt = "empty" THEN {"whole"} ELSE {"whole", "mixed"}
    /\ man' = job[c].snap
    /\ published' = published \cup {job[c].snap}
    /\ UNCHANGED <<backend, gen, genOk, blobs, torn, badgen, clone, cmds>>

(* ... and write the `.gen` file. *)
TruncateGen(c) ==
    /\ Goto(c, "mgen", "mgfill")
    /\ genOk' = FALSE
    /\ UNCHANGED <<backend, manSt, man, gen, blobs, torn, badgen, clone, cmds, published>>

FillGen(c) ==
    /\ At(c, "mgfill")
    /\ gen' = job[c].seenGen + 1
    /\ genOk' = TRUE
    /\ job' = [job EXCEPT ![c].pc = "side", ![c].seenGen = @ + 1]
    /\ UNCHANGED <<backend, manSt, man, blobs, torn, badgen, clone, cmds, published>>

(* Mutants: the sidecar gets the generation the store has by then, or the  *)
(* one after its own.                                                      *)
MutSyncedGen(c) == gen
MutSyncedGenNext(c) == job[c].seenGen + 1
SyncedGen(c) == job[c].seenGen

(* write_sync_state, after a push or a pull. *)
WriteSyncState(c) ==
    /\ At(c, "side")
    /\ side' = [side EXCEPT ![c] =
          [known |-> TRUE, gen |-> SyncedGen(c),
           hash |-> IF job[c].cmd = "push" THEN job[c].snap ELSE job[c].seenMan]]
    /\ IF job[c].cmd = "pull" /\ c \in Cli
       THEN job' = [job EXCEPT ![c] = [NoJob EXCEPT !.pc = "checkout"]]
       ELSE End(c)
    /\ UNCHANGED <<store, local, made, cmds, published>>

(***************************************************************************)
(* SyncEngine::pull after the fetch, and the rest of `ovc pull`            *)
(***************************************************************************)

(* Chunks that the local file has are not downloaded. *)
ReadLocalChunks(c) ==
    /\ At(c, "cache")
    /\ job' = [job EXCEPT ![c].pc = "get",
                          ![c].todo = job[c].seenMan \ local[c],
                          ![c].got = job[c].seenMan \cap local[c]]
    /\ UNCHANGED <<store, clone, cmds, published>>

Readable(k) == k \in blobs /\ k \notin torn /\ k \notin badgen

GetChunk(c) ==
    /\ At(c, "get")
    /\ \E k \in job[c].todo :
          /\ Readable(k)
          /\ job' = [job EXCEPT ![c].todo = @ \ {k}, ![c].got = @ \cup {k}]
    /\ UNCHANGED <<store, clone, cmds, published>>

(* A chunk is missing, fails its hash or has a bad `.gen` file. *)
GetFails(c) == (\E k \in job[c].todo : ~Readable(k)) /\ Fail(c, "get")

(* Mutant: the temporary file is renamed before it is complete. *)
MutAssembled(c) == job[c].got \subseteq job[c].seenMan
(* All chunks are written and the hash of the whole file is right. *)
Assembled(c) == job[c].todo = {} /\ job[c].got = job[c].seenMan

(* The rename over the local file, without RepoLock. *)
Install(c) ==
    /\ Goto(c, "get", "side")
    /\ Assembled(c)
    /\ local' = [local EXCEPT ![c] = job[c].got]
    /\ UNCHANGED <<store, side, made, cmds, published>>

(* `ovc pull` opens the new file, checks its HEAD out and saves it, which  *)
(* encrypts it anew; it does not save when HEAD does not resolve.          *)
Checkout(c) ==
    /\ At(c, "checkout")
    /\ End(c)
    /\ Save(c) \/ UNCHANGED <<local, made>>
    /\ UNCHANGED <<store, side, cmds, published>>

(* A crash, or an error that is not retried. *)
Abort(c) == \E from \in PCs \ {"idle"} : Fail(c, from)

Step(c) ==
    \/ FetchNothing(c) \/ FetchFirst(c) \/ FetchSecond(c) \/ FetchFails(c)
    \/ ReuseChunk(c) \/ UploadChunk(c)
    \/ TruncateChunk(c) \/ FillChunk(c) \/ TruncateChunkGen(c) \/ FillChunkGen(c)
    \/ PutFails(c) \/ ChunksSent(c)
    \/ PutRefused(c) \/ PutManifest(c) \/ PutReplyLost(c)
    \/ CheckGeneration(c) \/ TruncateManifest(c) \/ FillManifest(c)
    \/ TruncateGen(c) \/ FillGen(c) \/ WriteSyncState(c)
    \/ ReadLocalChunks(c) \/ GetChunk(c) \/ GetFails(c) \/ Install(c) \/ Checkout(c)

Next ==
    \E c \in Clones :
        \/ Edit(c) \/ Abort(c) \/ Step(c)
        \/ \E what \in {"push", "pull"} : Start(c, what)

Spec == Init /\ [][Next]_vars
FairSpec == Spec /\ \A c \in Clones : WF_vars(Step(c))

(***************************************************************************)
(* SyncEngine::status, for a store that nobody is writing                  *)
(***************************************************************************)
Status(c) ==
    CASE manSt = "none"                    -> "NoRemote"
      [] manSt # "none" /\ local[c] = man  -> "InSync"
      [] manSt # "none" /\ local[c] # man  ->
            IF side[c].known => side[c].gen = gen THEN "LocalAhead"
            ELSE IF side[c].gen < gen THEN "RemoteAhead" ELSE "Diverged"

-----------------------------------------------------------------------------
(* Chunks go out before the manifest that lists them and are never         *)
(* deleted: whatever crashes, retries and other pushes do, the chunks of   *)
(* the manifest exist, and with GcsBackend they can be read, so that a     *)
(* pull can finish.                                                        *)
ManifestWhole ==
    /\ man \subseteq blobs
    /\ Gcs => \A k \in man : Readable(k)

(* sync.rs:509, status: a generation above the manifest's "shouldn't       *)
(* normally happen (CAS prevents rollbacks)": no clone remembers a version *)
(* newer than the remote one.                                              *)
SidecarNotAhead == Gcs => \A c \in Clones : side[c].gen <= gen

(* sync.rs:505, status: when the generations are equal "the remote hasn't  *)
(* moved since our last sync, so local changed": a clone that is told      *)
(* LocalAhead, and pushes, replaces a file that it has had.                *)
LocalAheadIsSafe ==
    Gcs =>
        \A c \in Clones : side[c].known /\ Status(c) = "LocalAhead" => side[c].hash = man

(* SidecarTrusted: with GCS, what status concludes from a sidecar is so:   *)
(* no clone is ahead of the manifest, and LocalAhead is safe to push.      *)
SidecarTrusted == SidecarNotAhead /\ LocalAheadIsSafe

(* A pull puts only a complete file in place, and one that some clone      *)
(* pushed, although the store may be half written and commands die.        *)
PullInstallsPublished ==
    [][\A c \in Clones :
          At(c, "get") /\ At(c, "side")' => local'[c] \in published]_vars

(* Every push and pull ends: conflicts and network errors that never stop  *)
(* exhaust the attempts.                                                   *)
EveryCommandEnds == \A c \in Clones : ~At(c, "idle") ~> At(c, "idle")
=============================================================================
