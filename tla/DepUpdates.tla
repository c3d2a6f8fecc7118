----------------------------- MODULE DepUpdates -----------------------------
(***************************************************************************)
(* Dependency updates of the API server (routes/actions.rs): a branch with *)
(* one commit is proposed for each outdated dependency, and proposals are  *)
(* merged into the current branch or deleted.                              *)
(*                                                                         *)
(* The dependencies stand in one manifest: a function from dependencies to *)
(* versions, 0 for the old one and 1 for the new one, and what the user    *)
(* wrote next to them.  update_dependencies holds the mutex and works on a *)
(* copy of the repository, but edits the manifest of the working directory *)
(* in place.  The user edits the manifest and commits while it runs.       *)
(***************************************************************************)
EXTENDS Integers, FiniteSets

CONSTANTS
    Deps,     \* dependencies that have a newer version
    MaxEdits  \* bound: edits and commits of the user

ASSUME DepUpdatesAssumptions == IsFiniteSet(Deps) /\ MaxEdits \in Nat

VARIABLES
    main,      \* the manifest in the tip of the current branch
    branches,  \* the branches deps/...: branches[d]
    manifest,  \* the manifest in the working directory
    job,       \* update_dependencies
    edits,     \* edits and commits of the user so far
    merged,    \* history: the dependencies whose update is in main
    leaked     \* history: a proposal that carries more than its update was merged

depVars == <<main, branches, manifest, job, edits, merged, leaked>>
mergeMarks == <<merged, leaked>>

OldManifest == [vers |-> [d \in Deps |-> 0], note |-> 0]
NoBranch == [tree |-> OldManifest, base |-> OldManifest, made |-> FALSE, clean |-> TRUE]
NoJob    == [pc |-> "idle", todo |-> {}, dep |-> 0, text |-> 0, tip |-> 0, copy |-> 0,
             clean |-> TRUE]

Made(f, d) == f[d].made

---------------------------------------------------------------------------
(* update_dependencies *)

(* The report: what is outdated in the working directory, unless the       *)
(* request names the updates itself.                                       *)
Outdated == {d \in Deps : manifest.vers[d] = 0}

(* The mutex is taken and the repository opened. *)
UpdateOpens ==
    /\ job.pc = "idle"
    /\ \E updates \in {Outdated} \cup {{d} : d \in Deps} :
         /\ updates # {}
         /\ job' = [NoJob EXCEPT !.pc = "next", !.todo = updates, !.tip = main, !.copy = branches,
                              !.clean = (manifest = main)]
    /\ UNCHANGED <<main, branches, manifest, edits, mergeMarks>>

(* update_manifest_version on what is read. *)
WithUpdate(m, d) == [m EXCEPT !.vers[d] = 1]

(* apply_single_update reads the manifest; a branch that exists, or a      *)
(* dependency that is not old there, is an error, after which the tip is   *)
(* restored all the same.                                                  *)
ReadManifest ==
    /\ job.pc = "next" /\ job.todo # {}
    /\ \E d \in job.todo :
         job' = [job EXCEPT !.todo = @ \ {d}, !.dep = d, !.text = WithUpdate(manifest, d),
                            !.pc = IF Made(job.copy, d) \/ WithUpdate(manifest, d) = manifest
                                     THEN "restore" ELSE "write"]
    /\ UNCHANGED <<main, branches, manifest, edits, mergeMarks>>

Proposal(tree) == [tree |-> tree, base |-> job.tip, made |-> TRUE, clean |-> job.clean]

(* A branch at the tip, its commit, and the manifest of the working        *)
(* directory; when that cannot be written the branch stays at the tip.     *)
WriteManifest ==
    /\ job.pc = "write"
    /\ \/ /\ manifest' = job.text
          /\ job' = [job EXCEPT !.copy[job.dep] = Proposal(job.text), !.pc = "restore"]
       \/ /\ job' = [job EXCEPT !.copy[job.dep] = Proposal(job.tip), !.pc = "restore"]
          /\ UNCHANGED manifest
    /\ UNCHANGED <<main, branches, edits, mergeMarks>>

(* Mutant: the manifest is left as the last update made it. *)
MutRestored == manifest

(* The manifest of the tip is written back, edited or not. *)
Restored == job.tip

RestoreManifest ==
    /\ job.pc = "restore"
    /\ manifest' = Restored
    /\ job' = [job EXCEPT !.pc = "next"]
    /\ UNCHANGED <<main, branches, edits, mergeMarks>>

(* The save; a branch that the user moved meanwhile is a conflict. *)
UpdateSaves ==
    /\ job.pc = "next" /\ job.todo = {}
    /\ branches' = IF main = job.tip THEN job.copy ELSE branches
    /\ job' = NoJob
    /\ UNCHANGED <<main, manifest, edits, mergeMarks>>

(* The server is killed. *)
UpdateDies ==
    /\ job.pc # "idle"
    /\ job' = NoJob
    /\ UNCHANGED <<main, branches, manifest, edits, mergeMarks>>

---------------------------------------------------------------------------
(* merge_proposal and delete_proposal, under the mutex *)

(* One side of a three-way merge: the one that changed. *)
Pick(b, o, t) == IF o = b THEN t ELSE o

(* Mutant: the proposal's manifest replaces the branch's. *)
MutMergeTrees(b, o, t) == t

merge_trees(b, o, t) ==
    [vers |-> [d \in Deps |-> Pick(b.vers[d], o.vers[d], t.vers[d])],
     note |-> Pick(b.note, o.note, t.note)]

Clash(b, o, t) == o # b /\ t # b /\ o # t

conflicts(b, o, t) ==
    \/ \E d \in Deps : Clash(b.vers[d], o.vers[d], t.vers[d])
    \/ Clash(b.note, o.note, t.note)

(* The merge is a commit with one parent; the working directory stays. *)
MergeProposal(d) ==
    /\ job.pc = "idle" /\ Made(branches, d)
    /\ LET p == branches[d] IN
         /\ ~conflicts(p.base, main, p.tree)
         /\ main' = merge_trees(p.base, main, p.tree)
         /\ merged' = IF p.tree = p.base THEN merged ELSE merged \cup {d}
         /\ leaked' = (leaked \/ ~p.clean)
    /\ UNCHANGED <<branches, manifest, job, edits>>

DeleteProposal(d) ==
    /\ job.pc = "idle" /\ Made(branches, d)
    /\ branches' = [branches EXCEPT ![d] = NoBranch]
    /\ UNCHANGED <<main, manifest, job, edits, mergeMarks>>

---------------------------------------------------------------------------
(* The user *)

EditManifest ==
    /\ edits < MaxEdits
    /\ manifest' = [manifest EXCEPT !.note = edits + 1]
    /\ job' = [job EXCEPT !.clean = (job.pc = "idle")]
    /\ edits' = edits + 1
    /\ UNCHANGED <<main, branches, mergeMarks>>

(* A checkout of the tip, or a commit of the manifest. *)
CheckOut ==
    /\ manifest' = main
    /\ job' = [job EXCEPT !.clean = (job.pc = "idle")]
    /\ UNCHANGED <<main, branches, edits, mergeMarks>>

CommitManifest ==
    /\ edits < MaxEdits /\ manifest # main
    /\ main' = manifest
    /\ edits' = edits + 1
    /\ merged' = {d \in merged : manifest.vers[d] = 1}
    /\ UNCHANGED <<branches, manifest, job, leaked>>

DepInit ==
    /\ main = OldManifest
    /\ branches = [d \in Deps |-> NoBranch]
    /\ manifest = main
    /\ job = NoJob /\ edits = 0
    /\ merged = {} /\ leaked = FALSE

DepNext ==
    \/ UpdateOpens \/ ReadManifest \/ WriteManifest \/ RestoreManifest
    \/ UpdateSaves \/ UpdateDies
    \/ \E d \in Deps : MergeProposal(d) \/ DeleteProposal(d)
    \/ EditManifest \/ CheckOut \/ CommitManifest

DepSpec == DepInit /\ [][DepNext]_depVars

---------------------------------------------------------------------------
(* A proposal changes its own dependency and nothing else, though the      *)
(* updates are made one after the other in the same file, unless the       *)
(* manifest of the working directory was not that of the tip: older,       *)
(* because a proposal was merged before, or edited by the user.            *)
OneUpdateEach ==
    \A d \in Deps : Made(branches, d) /\ branches[d].clean =>
        branches[d].tree \in {branches[d].base, WithUpdate(branches[d].base, d)}

(* An update that was merged stays in the branch when others are merged,   *)
(* also when they were proposed before it, unless one of them was made     *)
(* from a manifest that was not the tip's.                                 *)
MergedStays == \A d \in merged : main.vers[d] = 1 \/ leaked

(* A proposal holds its own update, and a merged one stays.                *)
ProposalsSafe == OneUpdateEach /\ MergedStays
=============================================================================
