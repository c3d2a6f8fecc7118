------------------------------ MODULE GitBridge -----------------------------
(***************************************************************************)
(* The git bridge (crate ovc-git): import of a git directory into a new    *)
(* repository, and export of a repository into a new git directory.        *)
(*                                                                         *)
(* Git objects are named by ids and read one by one from loose files; an   *)
(* object that is only in a pack is not found, and one that is damaged (or *)
(* a commit or tag that is not UTF-8) stops the import.  On the other side *)
(* an object's id is the hash of its content, so there an object stands    *)
(* for its id, with the objects it names inside it; ZERO is the null id.   *)
(*                                                                         *)
(* The text of a commit or tag is what git has of it besides the objects   *)
(* it names: what it says (author, committer or tagger, message), whether  *)
(* it has other headers (a signature, an encoding), whether its message    *)
(* begins with blank lines, whether it ends with a newline, and its time   *)
(* zone.  Its identities are as git writes them.                           *)
(***************************************************************************)
EXTENDS Integers, FiniteSets, Sequences, SequencesExt, Selections

CONSTANTS
    BlobIds, TreeIds, CommitIds, TagIds,  \* the git objects there are
    EntriesOf,   \* the entries of each tree, by name
    TreeOf,      \* the tree of each commit
    TextOf,      \* the text of each commit and tag
    Branches, Tags,  \* the names of refs under refs/heads and refs/tags
    LongNames,   \* those longer than MAX_REF_NAME_LENGTH
    Directories  \* the git directories there may be

Ids == BlobIds \cup TreeIds \cup CommitIds \cup TagIds
Elsewhere == "submodule commit"   \* an id that is in no object store here
ZERO == [kind |-> "zero"]
GitModes == {"100644", "100664", "100755", "120000", "40000", "160000"}

ASSUME BridgeAssumption ==
    /\ IsFiniteSet(Ids) /\ Elsewhere \notin Ids
    /\ BlobIds \cap TreeIds = {} /\ (BlobIds \cup TreeIds) \cap CommitIds = {}
    /\ (BlobIds \cup TreeIds \cup CommitIds) \cap TagIds = {}
    /\ DOMAIN EntriesOf = TreeIds
    /\ \A t \in TreeIds : \A n \in DOMAIN EntriesOf[t] :
          EntriesOf[t][n] \in [mode : GitModes, id : BlobIds \cup TreeIds \cup {Elsewhere}]
    /\ TreeOf \in [CommitIds -> TreeIds]
    /\ DOMAIN TextOf = CommitIds \cup TagIds
    /\ \A id \in DOMAIN TextOf :
          TextOf[id] \in [says : {TextOf[id].says}, extra : BOOLEAN, blank : BOOLEAN, ends : BOOLEAN,
                         zone : [neg : BOOLEAN, h : Nat, m : 0..59]]
    /\ \A g \in Directories :
          /\ g.parentsOf \in [CommitIds -> Seq(CommitIds)] /\ g.targetOf \in [TagIds -> Ids]
          /\ g.packed \subseteq Ids /\ g.broken \subseteq Ids
          /\ \A refs \in {g.packedRefs, g.looseRefs} : \A r \in DOMAIN refs :
                r \notin Ids /\ refs[r] \in Ids /\ (r = g.head => refs[r] \in CommitIds)

VARIABLES
    git,   \* the git directory: its objects, which are packed or damaged, its refs
    told,  \* what the import has told: "nothing", "ok" or "error"
    ovc,   \* the repository the import made, or NotYet
    out    \* the git directory the export made, or NotYet

bridgeVars == <<git, told, ovc, out>>
NotYet == <<>>

-----------------------------------------------------------------------------
(* Reading git. *)

(* The ids an object names, in the order its parser yields them. *)
Named(id) ==
    CASE id \in BlobIds     -> <<>>
      [] id \in TreeIds   -> SetToSeq({EntriesOf[id][n].id : n \in DOMAIN EntriesOf[id]})
      [] id \in CommitIds -> <<TreeOf[id]>> \o git.parentsOf[id]
      [] id \in TagIds    -> <<git.targetOf[id]>>

(* read_git_object finds loose objects only, and parses those in order. *)
Readable(id) == id \in Ids /\ id \notin git.packed \cup git.broken

(* Packed refs are read first, loose ones override them. *)
read_git_refs ==
    [r \in DOMAIN git.packedRefs \cup DOMAIN git.looseRefs |->
        IF r \in DOMAIN git.looseRefs THEN git.looseRefs[r] ELSE git.packedRefs[r]]

RefTargets == {read_git_refs[r] : r \in DOMAIN read_git_refs}
              \cup (IF git.head \in CommitIds THEN {git.head} ELSE {})

(* The branch HEAD names; a detached HEAD names none, and main is assumed. *)
head_branch_from_refs == IF git.head \in Branches THEN git.head ELSE "main"

(* The names of an object that the walk has not come across, once each. *)
Unseen(id, seen) ==
    LET names == Named(id)
    IN  Chosen(names, {i \in 1..Len(names) : /\ names[i] \notin ToSet(seen)
                                             /\ \A j \in 1..(i - 1) : names[j] # names[i]})

(* The k-th id that was queued is taken off the queue; an object that is   *)
(* not found is passed over.                                               *)
Visit(seen, k) ==
    IF k <= Len(seen) /\ Readable(seen[k]) THEN seen \o Unseen(seen[k], seen) ELSE seen

(* The walk from the refs, with a turn for every id: what is queued, in    *)
(* this order.                                                             *)
Bfs(roots) ==
    LET seen[k \in 0..(Cardinality(Ids) + 1)] == IF k = 0 THEN roots ELSE Visit(seen[k - 1], k)
    IN  seen[Cardinality(Ids) + 1]

(* An object the walk comes to that is there and damaged ends the import. *)
MutReadFails == \E r \in DOMAIN read_git_refs : read_git_refs[r] \in git.broken
ReadFails == \E id \in ToSet(Bfs(SetToSeq(RefTargets))) : id \in git.broken \ git.packed

-----------------------------------------------------------------------------
(* topo_sort_commits and topo_sort_trees: Kahn's algorithm over the        *)
(* objects found.                                                          *)

Done(s, k) == {s[i] : i \in 1..k}

(* An object has no edge left when what it names is done, or not an item. *)
Free(id, items, done) == \A n \in ToSet(Named(id)) \cap ToSet(items) : n \in done

(* The k-th of the queue is emitted, and what has lost its last edge by    *)
(* that is queued.                                                         *)
Emit(items, sorted, k) ==
    IF k > Len(sorted) THEN sorted
    ELSE sorted \o Chosen(items, Matching(items, LAMBDA x :
                       ~Free(x, items, Done(sorted, k - 1)) /\ Free(x, items, Done(sorted, k))))

Kahn(items) ==
    LET sorted[k \in 0..Len(items)] ==
          IF k = 0 THEN Chosen(items, Matching(items, LAMBDA x : Free(x, items, {})))
          ELSE Emit(items, sorted[k - 1], k)
    IN  sorted[Len(items)]

MutTopoSort(items) == items
TopoSort(items) ==
    LET sorted == Kahn(items)
    IN  sorted \o Chosen(items, Matching(items, LAMBDA x : x \notin ToSet(sorted)))

(* Blobs, then trees, then commits, each after what it names; then tags in *)
(* the order they were found.                                              *)
bfs_objects ==
    LET seen  == Bfs(SetToSeq(RefTargets))
        Of(S) == Chosen(seen, Matching(seen, LAMBDA id : id \in S /\ Readable(id)))
    IN  Of(BlobIds) \o TopoSort(Of(TreeIds)) \o TopoSort(Of(CommitIds)) \o Of(TagIds)

-----------------------------------------------------------------------------
(* Converting to objects of the repository, through the map of ids. *)

Insert(map, id, o) == [x \in DOMAIN map \cup {id} |-> IF x = id THEN o ELSE map[x]]
MapOr0(map, id) == IF id \in DOMAIN map THEN map[id] ELSE ZERO

(* A time zone is read into minutes and written back from them. *)
parse_tz_offset(z) == (IF z.neg THEN -1 ELSE 1) * (z.h * 60 + z.m)
FormatZone(minutes) ==
    LET size == IF minutes < 0 THEN -minutes ELSE minutes
    IN  [neg |-> minutes < 0, h |-> size \div 60, m |-> size % 60]

(* parse_git_commit and parse_git_tag keep neither other headers nor blank *)
(* lines at the start of a message nor whether it ends with a newline; the *)
(* writer ends every one with a newline.                                   *)
ParseText(id) == [says |-> TextOf[id].says, tz |-> parse_tz_offset(TextOf[id].zone)]
SerializeText(text) ==
    [says |-> text.says, extra |-> FALSE, blank |-> FALSE, ends |-> TRUE, zone |-> FormatZone(text.tz)]

git_mode_to_ovc(mode) ==
    CASE mode = "100755" -> "executable" [] mode = "120000" -> "symlink" [] mode = "40000" -> "dir"
      [] mode = "160000" -> "subrepository" [] OTHER -> "regular"
ovc_mode_to_git(mode) ==
    CASE mode = "executable" -> "100755" [] mode = "symlink" -> "120000" [] mode = "dir" -> "40000"
      [] mode = "subrepository" -> "160000" [] OTHER -> "100644"

convert_tree(t, map) ==
    [kind |-> "tree",
     entries |-> [n \in DOMAIN EntriesOf[t] |->
        [mode |-> git_mode_to_ovc(EntriesOf[t][n].mode), oid |-> MapOr0(map, EntriesOf[t][n].id)]]]

(* Parents without an object here are dropped. *)
convert_commit(c, map) ==
    LET parents == Chosen(git.parentsOf[c], Matching(git.parentsOf[c], LAMBDA p : p \in DOMAIN map))
    IN  [kind |-> "commit", text |-> ParseText(c), tree |-> MapOr0(map, TreeOf[c]),
         parents |-> [i \in 1..Len(parents) |-> map[parents[i]]]]

convert_tag(a, map) == [kind |-> "tag", text |-> ParseText(a), target |-> MapOr0(map, git.targetOf[a])]

Convert(id, map) ==
    CASE id \in BlobIds     -> [kind |-> "blob", data |-> id]
      [] id \in TreeIds   -> convert_tree(id, map)
      [] id \in CommitIds -> convert_commit(id, map)
      [] id \in TagIds    -> convert_tag(id, map)

(* finish_import: the objects in order, then the branches and tags that    *)
(* have one, HEAD.  A branch whose name is too long is an error, a tag's   *)
(* error is ignored, and refs elsewhere are left out.                      *)
ImportMap(order) ==
    LET after[i \in 0..Len(order)] ==
          IF i = 0 THEN <<>> ELSE Insert(after[i - 1], order[i], Convert(order[i], after[i - 1]))
    IN  after[Len(order)]

Imported(map, refs) ==
    [objects |-> {map[id] : id \in DOMAIN map},
     refs |-> [r \in {x \in DOMAIN refs : /\ refs[x] \in DOMAIN map
                                          /\ x \in Branches \cup (Tags \ LongNames)} |-> map[refs[r]]],
     head |-> head_branch_from_refs]
Refused(map, refs) == \E r \in DOMAIN refs : r \in Branches \cap LongNames /\ refs[r] \in DOMAIN map

(* Repository::init saves an empty repository before anything is in it. *)
Empty == [objects |-> {}, refs |-> <<>>, head |-> "main"]

Import ==
    /\ told = "nothing"
    /\ \/ ReadFails /\ told' = "error" /\ ovc' = ovc
       \/ /\ ~ReadFails
          /\ LET map == ImportMap(bfs_objects)
             IN  \/ Refused(map, read_git_refs) /\ told' = "error" /\ ovc' = Empty
                 \/ /\ ~Refused(map, read_git_refs)
                    /\ told' = "ok" /\ ovc' = Imported(map, read_git_refs)
    /\ UNCHANGED <<git, out>>

-----------------------------------------------------------------------------
(* Writing git.  `written` gives each object of the repository the git     *)
(* object it became; a git object holds the ones it names.                 *)

MutCanName(written, o) == o \in DOMAIN written
CanName(written, o) == o \in DOMAIN written \/ o = ZERO

TreeReady(written, o) == \A n \in DOMAIN o.entries : CanName(written, o.entries[n].oid)
MutCommitReady(written, o) == CanName(written, o.tree)
CommitReady(written, o) ==
    CanName(written, o.tree) /\ \A i \in 1..Len(o.parents) : CanName(written, o.parents[i])

WriteTree(written, o) ==
    [o EXCEPT !.entries = [n \in DOMAIN o.entries |->
        [mode |-> ovc_mode_to_git(o.entries[n].mode), oid |-> MapOr0(written, o.entries[n].oid)]]]
WriteCommit(written, o) ==
    LET parents == Chosen(o.parents, Matching(o.parents, LAMBDA p : p \in DOMAIN written))
    IN  [kind |-> "commit", text |-> SerializeText(o.text), tree |-> MapOr0(written, o.tree),
         parents |-> [i \in 1..Len(parents) |-> written[parents[i]]]]
WriteTag(written, o) ==
    [kind |-> "tag", text |-> SerializeText(o.text), target |-> MapOr0(written, o.target)]

ObjectReady(written, o) == IF o.kind = "tree" THEN TreeReady(written, o) ELSE CommitReady(written, o)
WriteObject(written, o) == IF o.kind = "tree" THEN WriteTree(written, o) ELSE WriteCommit(written, o)

(* export_trees, export_commits: a pass over the objects that are not      *)
(* written.                                                                *)
Pass(objects, written) ==
    LET ready == {o \in objects \ DOMAIN written : ObjectReady(written, o)}
    IN  [o \in DOMAIN written \cup ready |-> IF o \in ready THEN WriteObject(written, o) ELSE written[o]]

(* Passes until one makes no progress; there are no more objects than ids. *)
Passes(objects, written) ==
    LET after[k \in 0..Cardinality(Ids)] == IF k = 0 THEN written ELSE Pass(objects, after[k - 1])
    IN  after[Cardinality(Ids)]

OfKind(kind) == {o \in ovc.objects : o.kind = kind}

(* export_tags: one pass, in the order the store happens to list them. *)
ExportTags(order, written) ==
    LET after[i \in 0..Len(order)] ==
          IF i = 0 THEN written ELSE Insert(after[i - 1], order[i], WriteTag(after[i - 1], order[i]))
    IN  after[Len(order)]

(* checkout_tree: the directories of a tree with their paths, one level    *)
(* after the other, and the files and symbolic links in them; submodules   *)
(* and objects that are missing are passed over.                           *)
Inside(dirs, mode) ==
    UNION {{[path |-> Append(d.path, n), oid |-> d.oid.entries[n].oid] :
            n \in {m \in DOMAIN d.oid.entries : d.oid.entries[m].mode = mode /\ d.oid.entries[m].oid # ZERO}}
           : d \in dirs}
checkout_tree(o) ==
    LET dirs[k \in 0..Cardinality(TreeIds)] ==
          IF k = 0 THEN {[path |-> <<>>, oid |-> o]} \ {[path |-> <<>>, oid |-> ZERO]}
          ELSE Inside(dirs[k - 1], "dir")
    IN  UNION {{[path |-> f.path, mode |-> mode, data |-> f.oid.data] : f \in Inside(dirs[k], mode)}
               : k \in 0..Cardinality(TreeIds), mode \in {"regular", "executable", "symlink"}}

(* The commit HEAD leads to, checked out beside the new git directory. *)
checkout_head ==
    IF ovc.head \in DOMAIN ovc.refs /\ ovc.refs[ovc.head].kind = "commit"
      THEN checkout_tree(ovc.refs[ovc.head].tree) ELSE {}

(* export_repo: all objects, the refs whose object was written, the files. *)
ExportMap(order) ==
    LET blobs   == [o \in OfKind("blob") |-> o]
        trees   == Passes(OfKind("tree"), blobs)
        commits == Passes(OfKind("commit"), trees)
    IN  ExportTags(order, commits)

Exported(written) ==
    [refs |-> [r \in {x \in DOMAIN ovc.refs : ovc.refs[x] \in DOMAIN written} |-> written[ovc.refs[r]]],
     head |-> ovc.head, files |-> checkout_head]

Export(order) ==
    /\ ovc # NotYet /\ out = NotYet
    /\ order \in SetToSeqs(OfKind("tag"))
    /\ out' = Exported(ExportMap(order))
    /\ UNCHANGED <<git, told, ovc>>

-----------------------------------------------------------------------------
BridgeInit ==
    /\ git \in Directories /\ told = "nothing"
    /\ ovc = NotYet /\ out = NotYet

BridgeNext ==
    \/ Import
    \/ \E order \in (IF ovc = NotYet THEN {} ELSE SetToSeqs(OfKind("tag"))) : Export(order)

BridgeSpec == BridgeInit /\ [][BridgeNext]_bridgeVars

-----------------------------------------------------------------------------
(* What an import and a round trip should give, object by object. *)

(* An object whose names stand for what means says, its modes or its text  *)
(* as form has them.                                                       *)
Content(id, means, form) ==
    CASE id \in BlobIds   -> [kind |-> "blob", data |-> id]
      [] id \in TreeIds   -> [kind |-> "tree", entries |-> [n \in DOMAIN EntriesOf[id] |->
                                [mode |-> form[id][n], oid |-> means[EntriesOf[id][n].id]]]]
      [] id \in CommitIds -> [kind |-> "commit", text |-> form[id], tree |-> means[TreeOf[id]],
                              parents |-> [i \in DOMAIN git.parentsOf[id] |-> means[git.parentsOf[id][i]]]]
      [] id \in TagIds    -> [kind |-> "tag", text |-> form[id], target |-> means[git.targetOf[id]]]

(* The ids that can be understood when those in known are: nothing behind  *)
(* them is in a pack or damaged, and they are no tag of a tag.             *)
Understood(known) ==
    {id \in Ids \ (git.packed \cup git.broken) :
        ToSet(Named(id)) \subseteq known /\ ~(id \in TagIds /\ git.targetOf[id] \in TagIds)}
Further(means, form) ==
    [id \in {Elsewhere} \cup Understood(DOMAIN means) |->
        IF id = Elsewhere THEN ZERO ELSE Content(id, means, form)]

(* What each id stands for whose objects can all be read; the commit of a  *)
(* submodule stands for nothing, its id is lost.                           *)
Meaning(form) ==
    LET means[k \in 0..Cardinality(Ids)] ==
          IF k = 0 THEN [id \in {Elsewhere} |-> ZERO] ELSE Further(means[k - 1], form)
    IN  means[Cardinality(Ids)]

(* Modes and texts as the repository has them, and in the normal form,     *)
(* which is all an export can give: of a commit the headers other than     *)
(* tree, parents, author and committer, blank lines before the message, a  *)
(* missing newline at its end and the sign of -0000 are gone, a mode like  *)
(* 100664 is 100644, and the commit of a submodule is the null id.         *)
Form(Mode(_), Text(_)) ==
    [id \in TreeIds \cup CommitIds \cup TagIds |->
        IF id \in TreeIds THEN [n \in DOMAIN EntriesOf[id] |-> Mode(EntriesOf[id][n].mode)] ELSE Text(id)]
SameZone(z) == IF z.h = 0 /\ z.m = 0 THEN [z EXCEPT !.neg = FALSE] ELSE z
NormalText(id) ==
    [says |-> TextOf[id].says, extra |-> FALSE, blank |-> FALSE, ends |-> TRUE, zone |-> SameZone(TextOf[id].zone)]
NormalMode(mode) == IF mode = "100664" THEN "100644" ELSE mode
Here == Form(git_mode_to_ovc, ParseText)
NormalForm == Form(NormalMode, NormalText)

TrueRef(r) == IF r \in DOMAIN git.looseRefs THEN git.looseRefs[r] ELSE git.packedRefs[r]
TrueRefs == DOMAIN git.looseRefs \cup DOMAIN git.packedRefs
KeptRefs == TrueRefs \cap (Branches \cup (Tags \ LongNames))

(* Everything the refs and a detached HEAD lead to through what is found. *)
Onward(ids) == ids \cup UNION {ToSet(Named(id)) : id \in (ids \cap Ids) \ git.packed}
Reachable ==
    LET from[k \in 0..Cardinality(Ids)] == IF k = 0 THEN RefTargets ELSE Onward(from[k - 1])
    IN  from[Cardinality(Ids)]

(* ImportFaithful: once an import has told success, a branch or tag whose  *)
(* objects can all be read is there with its whole history, every commit   *)
(* with its own tree and its parents in order, however the objects were    *)
(* found and whatever else is only in a pack; tags with too long a name    *)
(* are left out.                                                           *)
ImportFaithful ==
    told = "ok" =>
        LET meaning == Meaning(Here)
        IN  \A r \in KeptRefs : TrueRef(r) \in DOMAIN meaning =>
                r \in DOMAIN ovc.refs /\ ovc.refs[r] = meaning[TrueRef(r)]

(* RoundTrip: exporting what was imported gives such a ref the same        *)
(* history back in normal form: without signatures and other headers,      *)
(* messages without blank lines in front and with a newline at the end,    *)
(* the modes git still writes, no sign on a zero time zone, and null ids   *)
(* for the commits of submodules; a history that is in this form already   *)
(* comes back as it was.  The files of HEAD's branch on disk are those of  *)
(* its tree, and the order in which tags are written makes no difference.  *)
RoundTrip ==
    told = "ok" /\ out # NotYet =>
        LET meaning == Meaning(NormalForm)
        IN  /\ \A r \in KeptRefs : TrueRef(r) \in DOMAIN meaning =>
                  r \in DOMAIN out.refs /\ out.refs[r] = meaning[TrueRef(r)]
            /\ git.head \in KeptRefs \cap Branches /\ TrueRef(git.head) \in DOMAIN meaning =>
                  out.files = checkout_tree(Meaning(Here)[TreeOf[TrueRef(git.head)]])

(* ExportComplete: no ref is lost between import and export, not even one  *)
(* whose history had objects in packs and was imported with gaps: a null   *)
(* id counts as present, so its commits are still written.                 *)
ExportComplete == out # NotYet => DOMAIN out.refs = DOMAIN ovc.refs

(* ErrorsTold: an import that tells success has passed over no damaged     *)
(* object: nothing that the refs lead to was there and could not be read.  *)
ErrorsTold == told = "ok" => Reachable \cap (git.broken \ git.packed) = {}

(* BridgeSound: import and export carry every readable history, up to its  *)
(* normal form, lose no ref between them, and damage is told.              *)
BridgeSound == ImportFaithful /\ RoundTrip /\ ExportComplete /\ ErrorsTold

=============================================================================
