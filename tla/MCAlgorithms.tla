----------------------------- MODULE MCAlgorithms ---------------------------
(***************************************************************************)
(* The algorithms that work on what they are given and keep no shared      *)
(* state: text and tree merge, bisection, the manifests of dependencies    *)
(* and the git bridge.  Each is tried on inputs of its own while the       *)
(* others rest.                                                            *)
(***************************************************************************)
EXTENDS TreeMerge, Bisect, Manifests, GitBridge

VARIABLE part

Long == {<<"a", "b", "c", "a", "b", "c">>, <<"b", "b", "c", "a", "b", "b", "b">>,
         <<"c", "a", "b", "c", "a", "b", "c", "a">>}
FileTexts == {<<"a", "b", "c">>, <<"c", "b", "c">>, <<"a", "b", "a">>, <<"nul">>,
              <<"a", "b", "nul">>}

(* A file f, and a name d that is a file or a directory that is empty or   *)
(* holds a file g; each may be missing.                                    *)
Partial(names, Options(_)) ==
    UNION {{e \in [S -> UNION {Options(n) : n \in S}] : \A n \in S : e[n] \in Options(n)}
           : S \in SUBSET names}
Plain(t) == [mode |-> "regular", oid |-> [blob |-> t]]
SubTrees == {<<>>} \cup {"g" :> Plain(t) : t \in BlobTexts}
Runnable(t) == [mode |-> "executable", oid |-> [blob |-> t]]
Options(n) ==
    IF n = "f" THEN {Plain(t) : t \in BlobTexts} \cup {Runnable(<<"a", "b", "c">>)}
    ELSE {Plain(<<"a", "b", "c">>)} \cup {Dir(e) : e \in SubTrees}
TreeLevels == <<SubTrees, Partial({"f", "d"}, Options)>>

Spelling == [n \in Names |-> IF n = "my_lib" THEN "my-lib" ELSE IF n = "Lib" THEN "lib" ELSE n]
LowerCase == [n \in Names |-> IF n = "Lib" THEN "lib" ELSE n]
Parts == {<<"lib", "libx">>}
SomeVersions == {<<1, 0, 1>>, <<1, 1, 0>>, <<2, 0, 0>>}

(* Trees t1 in t2 in t3, each with the one file in a mode of its own; t2   *)
(* has a link to it and a submodule too.                                   *)
Holds(mode, id) == [mode |-> mode, id |-> id]
NestedTrees ==
    "t1" :> ("f" :> Holds("100664", "b1"))
    @@ "t2" :> ("f" :> Holds("100644", "b1") @@ "d" :> Holds("40000", "t1")
                @@ "l" :> Holds("120000", "b1") @@ "s" :> Holds("160000", Elsewhere))
    @@ "t3" :> ("f" :> Holds("100755", "b1") @@ "d" :> Holds("40000", "t2"))
CommitTrees == "c1" :> "t1" @@ "c2" :> "t3" @@ "c3" :> "t2"
Zone(neg, h, m) == [neg |-> neg, h |-> h, m |-> m]
Text(says, extra, blank, ends, zone) ==
    [says |-> says, extra |-> extra, blank |-> blank, ends |-> ends, zone |-> zone]

(* The two tags differ in nothing that the import keeps. *)
GitTexts ==
    "c1" :> Text("first", FALSE, FALSE, TRUE, Zone(TRUE, 3, 30))
    @@ "c2" :> Text("second", TRUE, FALSE, TRUE, Zone(TRUE, 0, 0))
    @@ "c3" :> Text("first", FALSE, TRUE, FALSE, Zone(FALSE, 5, 45))
    @@ "a1" :> Text("release", TRUE, FALSE, TRUE, Zone(FALSE, 0, 0))
    @@ "a2" :> Text("release", FALSE, FALSE, TRUE, Zone(TRUE, 0, 0))

(* Every way to give the commits parents without a cycle. *)
Histories ==
    {p \in [CommitIds -> {s \in BoundedSeq(CommitIds, 2) : Len(s) < 2 \/ s[1] # s[2]}] :
        \E rank \in Bijection(CommitIds, 1..Cardinality(CommitIds)) :
            \A c \in CommitIds : \A i \in 1..Len(p[c]) : rank[p[c][i]] < rank[c]}

(* Tags lead to c2, at most one of them through another; a branch is       *)
(* packed, loose or both; a tag or a branch may have too long a name, a    *)
(* ref may be of another kind; at most one object is in a pack or damaged. *)
TagTargets ==
    {f \in [TagIds -> TagIds \cup {"c2"}] :
        \A a \in TagIds : f[a] # a /\ (f[a] \in TagIds => f[f[a]] = "c2")}
GitDirectories ==
    UNION {LET newer == IF other = "c1" THEN "c3" ELSE "c1"
           IN  [parentsOf : Histories, targetOf : TagTargets,
                packed : packed, broken : broken,
                packedRefs : {("main" :> "c2")},
                looseRefs : {("dev" :> other) @@ ("v1" :> tag) @@ ("long tag" :> tag),
                             ("main" :> newer) @@ ("dev" :> other) @@ ("stash" :> newer),
                             ("main" :> newer) @@ ("long branch" :> other)},
                head : {"dev", other}]
           : other \in {"c1", "c3"}, tag \in TagIds,
             <<packed, broken>> \in {<<{P}, {{}}>> : P \in {{}} \cup {{id} : id \in {"b1", "t2", "c1", "c2", "a1"}}}
                                   \cup {<<{{}}, {{id}}>> : id \in {"t1", "c1", "a1"}}}

NoTexts == [base |-> <<>>, ours |-> <<>>, theirs |-> <<>>]

Init ==
    /\ part \in {"text", "tree", "bisect", "manifests", "bridge"}
    /\ IF part = "text" THEN TextInit ELSE texts = NoTexts /\ answer = <<>>
    /\ IF part = "tree" THEN TreeInit ELSE trees = <<>> /\ treeAnswer = <<>>
    /\ BisectInit /\ (part = "bisect" \/ first = 1)
    /\ IF part = "manifests" THEN ManifestInit ELSE kind = "go.mod" /\ manifest = <<>> /\ offer = <<>>
    /\ IF part = "bridge" THEN BridgeInit ELSE git = <<>> /\ told = "nothing" /\ ovc = NotYet /\ out = NotYet

Next ==
    /\ \/ /\ part = "text" /\ TextNext
          /\ UNCHANGED <<treeVars, bisectVars, manifestVars, bridgeVars>>
       \/ /\ part = "tree" /\ MergeTrees
          /\ UNCHANGED <<textVars, bisectVars, manifestVars, bridgeVars>>
       \/ /\ part = "bisect" /\ BisectNext
          /\ UNCHANGED <<textVars, treeVars, manifestVars, bridgeVars>>
       \/ /\ part = "manifests" /\ ManifestNext
          /\ UNCHANGED <<textVars, treeVars, bisectVars, bridgeVars>>
       \/ /\ part = "bridge" /\ BridgeNext
          /\ UNCHANGED <<textVars, treeVars, bisectVars, manifestVars>>
    /\ UNCHANGED part

Spec == Init /\ [][Next]_<<textVars, treeVars, bisectVars, manifestVars, bridgeVars, part>>
=============================================================================
