------------------------------ MODULE Manifests -----------------------------
(***************************************************************************)
(* The dependency checker (ovc-actions depcheck.rs): twelve kinds of       *)
(* manifest, each read by its own patterns and rewritten by others.        *)
(*                                                                         *)
(* A manifest is a sequence of entries.  An entry says in which section it *)
(* is ("deps", "dev", "other"), the name as written, the artifact it       *)
(* excludes (Maven), its form, the operator before the version and the     *)
(* version.  Forms, where the format has them:                             *)
(*   "bare"     name and version on one line                               *)
(*   "table"    a nested table or mapping that holds the version           *)
(*   "linked"   a path, a git source or the workspace instead of a version *)
(*   "loose"    a name without a version                                   *)
(*   "variable" a version given by a property                              *)
(*   "single"   go.mod's one-line require                                  *)
(*   "indented" a line with leading blanks, where blanks mean something    *)
(*   "reversed" the version attribute before the name                      *)
(*   "split"    name and version attributes on different lines             *)
(***************************************************************************)
EXTENDS Integers, Sequences, SequencesExt, Selections

CONSTANTS
    Names,       \* names as they can be written
    Normal,      \* the PyPI spelling of each (normalize_pypi_name)
    Lower,       \* each name in lower case
    Within,      \* pairs of names: the first is a part of the second
    MetaKeys,    \* names that are keys of Cargo's own (TOML_META_KEYS)
    Platform,    \* names Composer uses for the platform (php, ext-*)
    Versions,    \* versions, as <<major, minor, patch>>
    Excluded,    \* bound: artifacts that occur in an <exclusion> of a pom.xml
    NoName,      \* what an entry without an <exclusion> has in its place
    Ignored,     \* names the check is told to ignore
    CheckDev,    \* is the check about development dependencies too?
    MaxEntries   \* bound: entries of a manifest

ReadNames == Names \cup {Normal[n] : n \in Names}
Unversioned == <<>>

(* Versions are compared part by part, and a name in lower case that is    *)
(* the PyPI spelling of another is spelled like it.                        *)
ASSUME ManifestAssumption ==
    /\ Versions \subseteq Nat \X Nat \X Nat /\ MaxEntries \in Nat
    /\ Excluded \subseteq Names /\ NoName \notin ReadNames
    /\ \A x, y \in Names : Lower[x] = Normal[y] => Normal[x] = Normal[y]

Kinds == {"Cargo.toml", "package.json", "requirements.txt", "pyproject.toml", "go.mod",
          "Gemfile", "composer.json", "pom.xml", "pubspec.yaml", "mix.exs", "Podfile", "csproj"}

VARIABLES kind, manifest, offer

manifestVars == <<kind, manifest, offer>>

(* The forms an entry of each kind can have. *)
Forms(k) ==
    CASE k = "Cargo.toml"       -> {"bare", "table", "linked"}
      [] k = "package.json"     -> {"bare", "linked"}
      [] k = "requirements.txt" -> {"bare", "loose", "indented"}
      [] k = "pyproject.toml"   -> {"bare", "loose"}
      [] k = "go.mod"           -> {"bare", "single"}
      [] k \in {"Gemfile", "Podfile"} -> {"bare", "loose"}
      [] k = "pom.xml"          -> {"bare", "loose", "variable"}
      [] k = "pubspec.yaml"     -> {"bare", "table", "linked"}
      [] k = "csproj"           -> {"bare", "reversed", "split"}
      [] OTHER                  -> {"bare"}

(* The kinds whose entries are in sections, and those whose names are keys,*)
(* unique in their section.                                                *)
Sections(k) ==
    CASE k = "Cargo.toml" -> {"deps", "dev", "other"}
      [] k \in {"package.json", "composer.json", "pubspec.yaml"} -> {"deps", "dev"}
      [] k \in {"pyproject.toml", "pom.xml"} -> {"deps", "other"}
      [] OTHER -> {"deps"}
Keyed == {"Cargo.toml", "package.json", "composer.json", "pubspec.yaml"}

(* At most one <exclusion> for a dependency; a name of Maven's is the group *)
(* with the artifact, so that a block with the group of one and the artifact*)
(* of the other is not told apart.                                          *)
Exclusions(k) == IF k = "pom.xml" THEN Excluded \cup {NoName} ELSE {NoName}
Operators(k) == IF k \in {"go.mod", "pom.xml", "csproj"} THEN {""} ELSE {"", "~"}

Entries(k) ==
    {e \in [sec : Sections(k), name : Names, excl : Exclusions(k), form : Forms(k),
            op : Operators(k), ver : Versions] :
        e.form \in {"linked", "loose"} => e.op = "" /\ \A v \in Versions : e.ver[1] <= v[1]}

Manifest(k) ==
    {m \in BoundedSeq(Entries(k), MaxEntries) :
        k \in Keyed => \A i, j \in 1..Len(m) :
            i # j => <<m[i].sec, m[i].name>> # <<m[j].sec, m[j].name>>}

-----------------------------------------------------------------------------
(* Reading.  A dependency has a name, a current version and a dev mark. *)

Dep(e, name, ver) == [name |-> name, current |-> ver, dev |-> e.sec = "dev"]
Read(m, Takes(_), DepOf(_)) ==
    Chosen([i \in 1..Len(m) |-> DepOf(m[i])], Matching(m, Takes))
AsWritten(e) == Dep(e, e.name, e.ver)
AsPyPi(e) == Dep(e, Normal[e.name], e.ver)
(* The <exclusion> comes after the dependency's own name and overwrites it. *)
ReadAs(e) == IF e.excl = NoName THEN e.name ELSE e.excl
AsExcluded(e) == Dep(e, ReadAs(e), e.ver)
OrUnversioned(e) == Dep(e, e.name, IF e.form = "loose" THEN Unversioned ELSE e.ver)

parse_cargo_toml(m) ==
    Read(m, LAMBDA e : /\ e.sec \in {"deps", "dev"} /\ e.form # "linked"
                       /\ e.form = "bare" => e.name \notin MetaKeys, AsWritten)
parse_package_json(m) == Read(m, LAMBDA e : e.form # "linked", AsWritten)
parse_requirements_txt(m) == Read(m, LAMBDA e : e.form # "loose", AsPyPi)
parse_pyproject_toml(m) == Read(m, LAMBDA e : e.sec = "deps" /\ e.form # "loose", AsPyPi)
parse_go_mod(m) == Read(m, LAMBDA e : TRUE, AsWritten)
parse_gemfile(m) == Read(m, LAMBDA e : TRUE, OrUnversioned)
parse_composer_json(m) == Read(m, LAMBDA e : e.name \notin Platform, AsWritten)
parse_pom_xml(m) == Read(m, LAMBDA e : e.sec = "deps" /\ e.form = "bare", AsExcluded)
parse_pubspec_yaml(m) == Read(m, LAMBDA e : e.form # "linked", AsWritten)
parse_mix_exs(m) == Read(m, LAMBDA e : TRUE, AsWritten)
parse_podfile(m) == Read(m, LAMBDA e : TRUE, OrUnversioned)
parse_csproj(m) ==
    Read(m, LAMBDA e : e.form # "reversed", AsWritten)
    \o Read(m, LAMBDA e : e.form = "reversed", AsWritten)

parse_manifest(k, m) ==
    CASE k = "Cargo.toml"       -> parse_cargo_toml(m)
      [] k = "package.json"     -> parse_package_json(m)
      [] k = "requirements.txt" -> parse_requirements_txt(m)
      [] k = "pyproject.toml"   -> parse_pyproject_toml(m)
      [] k = "go.mod"           -> parse_go_mod(m)
      [] k = "Gemfile"          -> parse_gemfile(m)
      [] k = "composer.json"    -> parse_composer_json(m)
      [] k = "pom.xml"          -> parse_pom_xml(m)
      [] k = "pubspec.yaml"     -> parse_pubspec_yaml(m)
      [] k = "mix.exs"          -> parse_mix_exs(m)
      [] k = "Podfile"          -> parse_podfile(m)
      [] k = "csproj"           -> parse_csproj(m)

-----------------------------------------------------------------------------
(* Comparing.  A version that cannot be read has no order. *)

MutClassify(current, latest) ==
    IF current = Unversioned \/ latest = Unversioned THEN "unknown"
    ELSE IF latest[1] > current[1] THEN "major"
    ELSE IF latest[2] > current[2] THEN "minor"
    ELSE IF latest[3] > current[3] THEN "patch"
    ELSE "up-to-date"
classify_update(current, latest) ==
    IF current = Unversioned \/ latest = Unversioned THEN "unknown"
    ELSE IF latest[1] > current[1] THEN "major"
    ELSE IF latest[1] = current[1] /\ latest[2] > current[2] THEN "minor"
    ELSE IF latest[1] = current[1] /\ latest[2] = current[2] /\ latest[3] > current[3] THEN "patch"
    ELSE "up-to-date"

-----------------------------------------------------------------------------
(* The registries.  A known package has versions, listed in the order they *)
(* came, a pre-release marked as one, and the one that the registry calls  *)
(* its latest, which may be a pre-release too.                             *)

Listed(v, pre) == [ver |-> v, pre |-> pre]
Unknown == [list |-> <<>>]

(* The packages tried: a version, alone or next to a pre-release. *)
Lists ==
    {<<Listed(v, FALSE)>> : v \in Versions}
    \cup {<<Listed(v, FALSE), Listed(w, TRUE)>> : v, w \in Versions}
    \cup {<<Listed(w, TRUE), Listed(v, FALSE)>> : v, w \in Versions}
Packages == {Unknown} \cup UNION {{[list |-> l, latest |-> n] : n \in ToSet(l)} : l \in Lists}

NoAnswer == Listed(Unversioned, FALSE)
Stable(p) == Chosen(p.list, Matching(p.list, LAMBDA l : ~l.pre))

Declared(p) == p.latest
fetch_maven_central(p) == Declared(p)
fetch_pub_dev(p) == Declared(p)
fetch_packagist(p) == Head(p.list)
fetch_cocoapods(p) == Last(p.list)
fetch_nuget(p) == IF Stable(p) = <<>> THEN NoAnswer ELSE Last(Stable(p))
fetch_hex(p) == IF Stable(p) = <<>> THEN NoAnswer ELSE Last(Stable(p))

fetch_latest_version(k, p) ==
    CASE p = Unknown                        -> NoAnswer
      [] p # Unknown /\ k = "composer.json" -> fetch_packagist(p)
      [] p # Unknown /\ k = "pom.xml"       -> fetch_maven_central(p)
      [] p # Unknown /\ k = "pubspec.yaml"  -> fetch_pub_dev(p)
      [] p # Unknown /\ k = "Podfile"       -> fetch_cocoapods(p)
      [] p # Unknown /\ k = "csproj"        -> fetch_nuget(p)
      [] p # Unknown /\ k = "mix.exs"       -> fetch_hex(p)
      [] OTHER                              -> Declared(p)

(* The dependencies a check is about, and what it says of each when the    *)
(* registries answer latest; the same entry read twice is reported once.   *)
Checked(k, m) ==
    LET deps == parse_manifest(k, m)
    IN  Chosen(deps, Matching(deps, LAMBDA d : d.name \notin Ignored /\ (CheckDev \/ ~d.dev)))
resolve_versions(deps, latest) ==
    [i \in 1..Len(deps) |->
        [dep |-> deps[i], latest |-> latest[deps[i].name],
         update |-> classify_update(deps[i].current, latest[deps[i].name])]]
assemble_report(resolved) ==
    LET Same(a, b) == a.dep.name = b.dep.name /\ a.dep.current = b.dep.current
    IN  Chosen(resolved, {i \in 1..Len(resolved) :
                             \A j \in 1..(i - 1) : ~Same(resolved[j], resolved[i])})
Offered(report) == {r \in ToSet(report) : r.update \in {"major", "minor", "patch"}}

-----------------------------------------------------------------------------
(* Rewriting.  Each updater has its own idea of which entries it matches,  *)
(* whether it changes the first or all of them, and what becomes of the    *)
(* operator.  <<>> is its None.                                            *)

Some(m) == <<m>>
FirstOf(is) == IF is = {} THEN {} ELSE {Min(is)}
Write(m, is, ver) == [i \in 1..Len(m) |-> IF i \in is THEN [m[i] EXCEPT !.ver = ver] ELSE m[i]]
NoOperator(m, is) == [i \in 1..Len(m) |-> IF i \in is THEN [m[i] EXCEPT !.op = ""] ELSE m[i]]
(* None when nothing matched or nothing changed. *)
IfChanged(m, new) == IF new = m THEN <<>> ELSE Some(new)

update_cargo_toml(m, name, ver) ==
    LET tables == Matching(m, LAMBDA e : e.name = name /\ e.form = "table")
        bares  == Matching(m, LAMBDA e : e.name = name /\ e.form = "bare")
        hit    == FirstOf(IF tables # {} THEN tables ELSE bares)
    IN  IfChanged(m, NoOperator(Write(m, hit, ver), hit))

(* package.json and composer.json: every section, whatever the value was. *)
update_json_dep(m, name, ver) ==
    LET hits == Matching(m, LAMBDA e : e.name = name)
    IN  IF hits = {} THEN <<>>
        ELSE Some([i \in 1..Len(m) |->
                     IF i \in hits THEN [m[i] EXCEPT !.ver = ver, !.form = "bare"] ELSE m[i]])

update_requirements_txt(m, name, ver) ==
    IfChanged(m, Write(m, FirstOf(Matching(m, LAMBDA e : Lower[e.name] = name /\ e.form = "bare")), ver))

MutGoMod(m, name, ver) == IfChanged(m, Write(m, Matching(m, LAMBDA e : e.form = "bare"), ver))
update_go_mod(m, name, ver) ==
    IfChanged(m, Write(m, Matching(m, LAMBDA e : e.name = name /\ e.form = "bare"), ver))

update_gemfile(m, name, ver) ==
    IfChanged(m, Write(m, FirstOf(Matching(m, LAMBDA e : e.name = name /\ e.form = "bare")), ver))

MutPubspec(m, name, ver) ==
    LET hits == Matching(m, LAMBDA e : e.name = name /\ e.form = "bare")
    IN  IF hits = {} THEN <<>> ELSE Some(Write(m, hits, ver))
update_pubspec_yaml(m, name, ver) ==
    LET hits == Matching(m, LAMBDA e : e.name = name /\ e.form # "linked")
    IN  IF hits = {} THEN <<>> ELSE Some(Write(m, hits, ver))

(* The first dependency with that name anywhere in its block, be it the    *)
(* name of what it excludes, and with any <version> gets a literal.        *)
update_pom_xml(m, name, ver) ==
    LET hit == FirstOf(Matching(m, LAMBDA e : e.sec = "deps" /\ name \in {e.name, e.excl} /\ e.form # "loose"))
    IN  IF hit = {} THEN <<>>
        ELSE Some([i \in 1..Len(m) |->
                     IF i \in hit THEN [m[i] EXCEPT !.ver = ver, !.form = "bare"] ELSE m[i]])

update_mix_exs(m, name, ver) ==
    IfChanged(m, Write(m, FirstOf(Matching(m, LAMBDA e : e.name = name)), ver))

update_podfile(m, name, ver) ==
    IfChanged(m, Write(m, FirstOf(Matching(m, LAMBDA e : e.name = name /\ e.form = "bare")), ver))

(* Looks for the whole name, in the usual order of the attributes before   *)
(* the reversed one, and gives up when the version is already there.  Then *)
(* rewrites the first line that has the name anywhere in it and a version. *)
LineHas(e, name) == (e.name = name \/ <<name, e.name>> \in Within) /\ e.form # "split"
update_csproj(m, name, ver) ==
    LET usual == Matching(m, LAMBDA e : e.name = name /\ e.form # "reversed")
        found == FirstOf(IF usual # {} THEN usual ELSE Matching(m, LAMBDA e : e.name = name))
        line  == FirstOf(Matching(m, LAMBDA e : LineHas(e, name)))
    IN  IF (\A i \in found : m[i].ver = ver) \/ line = {} THEN <<>> ELSE Some(Write(m, line, ver))

update_manifest_version(k, m, name, ver) ==
    CASE k = "Cargo.toml"       -> update_cargo_toml(m, name, ver)
      [] k \in {"package.json", "composer.json"} -> update_json_dep(m, name, ver)
      [] k = "requirements.txt" -> update_requirements_txt(m, name, ver)
      [] k = "go.mod"           -> update_go_mod(m, name, ver)
      [] k = "Gemfile"          -> update_gemfile(m, name, ver)
      [] k = "pubspec.yaml"     -> update_pubspec_yaml(m, name, ver)
      [] k = "pom.xml"          -> update_pom_xml(m, name, ver)
      [] k = "mix.exs"          -> update_mix_exs(m, name, ver)
      [] k = "Podfile"          -> update_podfile(m, name, ver)
      [] k = "csproj"           -> update_csproj(m, name, ver)
      [] OTHER                  -> <<>>

-----------------------------------------------------------------------------
NoOffer == <<>>

ManifestInit ==
    /\ kind \in Kinds /\ manifest \in Manifest(kind)
    /\ offer = NoOffer

(* A check with the registries' answers, and the update of one dependency  *)
(* it offers.                                                              *)
CheckAndUpdate(answer) ==
    /\ offer = NoOffer
    /\ LET report == assemble_report(resolve_versions(Checked(kind, manifest),
                                                      [n \in ReadNames |-> answer.ver]))
       IN  \E r \in Offered(report) :
             offer' = [dep |-> r.dep, latest |-> answer.ver, pre |-> answer.pre, update |-> r.update,
                       new |-> update_manifest_version(kind, manifest, r.dep.name, answer.ver)]
    /\ UNCHANGED <<kind, manifest>>

ManifestNext ==
    \E answer \in {fetch_latest_version(kind, p) : p \in Packages} : CheckAndUpdate(answer)

ManifestSpec == ManifestInit /\ [][ManifestNext]_manifestVars

-----------------------------------------------------------------------------
(* Lexicographic order, the meaning of "newer". *)
Newer(a, b) ==
    \E i \in 1..3 : a[i] > b[i] /\ \A j \in 1..(i - 1) : a[j] = b[j]

(* OffersAreNewer: for whatever a registry answers, a dependency is        *)
(* offered an update exactly when the answer is later in the order of      *)
(* (major, minor, patch), and the label names the first part that grew.    *)
(* A pre-release is never offered where the client looks for stable        *)
(* versions, even when it is the last one listed.                          *)
OffersAreNewer ==
    /\ offer # NoOffer /\ offer.pre => kind \notin {"csproj", "mix.exs"}
    /\ offer = NoOffer =>
        \A d \in {d \in ToSet(parse_manifest(kind, manifest)) : d.current # Unversioned}, v \in Versions :
            LET update == classify_update(d.current, v)
            IN  IF Newer(v, d.current)
                  THEN update = <<"major", "minor", "patch">>[Min({i \in 1..3 : v[i] # d.current[i]})]
                  ELSE update = "up-to-date"

(* The entries of the manifest that one dependency name may stand for. *)
Spelled(name) ==
    {i \in 1..Len(manifest) :
        name \in {manifest[i].name, Normal[manifest[i].name], manifest[i].excl}}

(* Whose entry it is, and the entries of others that an update of name may *)
(* hit: the package of a .csproj that has the name as a part of its own,   *)
(* and the dependency of a pom.xml that excludes the artifact.             *)
OwnName(e) == IF kind \in {"requirements.txt", "pyproject.toml"} THEN Normal[e.name] ELSE e.name
Drawn(e, name) ==
    \/ kind = "csproj" /\ <<name, e.name>> \in Within
    \/ kind = "pom.xml" /\ e.excl = name

(* Entries whose updates the code does not support: its updaters have no   *)
(* pattern for what its parsers read.                                      *)
Unreached(e) ==
    \/ kind = "pyproject.toml"
    \/ kind = "requirements.txt" /\ (e.form = "indented" \/ Normal[e.name] # Lower[e.name])
    \/ kind = "go.mod" /\ e.form = "single"
    \/ kind = "csproj" /\ e.form = "split"

(* UpdateTakesEffect: for a dependency that a manifest names once (an      *)
(* <exclusion> counts), an offered update can be made and the next check   *)
(* reads the new version under that name, with every other entry read as   *)
(* before; the only exceptions are entries that a parser reads and its     *)
(* updater has no pattern for.                                             *)
UpdateTakesEffect ==
    offer # NoOffer /\ Cardinality(Spelled(offer.dep.name)) = 1
    /\ (\A i \in 1..Len(manifest) : <<offer.dep.name, manifest[i].name>> \notin Within) =>
        LET old == parse_manifest(kind, manifest)
            e   == manifest[CHOOSE i \in Spelled(offer.dep.name) : TRUE]
        IN  IF offer.new = <<>> THEN Unreached(e)
            ELSE parse_manifest(kind, offer.new[1])
                   = [i \in 1..Len(old) |-> IF old[i].name = offer.dep.name
                                              THEN [old[i] EXCEPT !.current = offer.latest] ELSE old[i]]

(* OthersUntouched: however often a name occurs, an update leaves every    *)
(* entry of another dependency as it was, except the drawn ones.           *)
OthersUntouched ==
    offer # NoOffer /\ offer.new # <<>> =>
        /\ Len(offer.new[1]) = Len(manifest)
        /\ \A i \in 1..Len(manifest) :
              OwnName(manifest[i]) # offer.dep.name /\ ~Drawn(manifest[i], offer.dep.name) =>
                  offer.new[1][i] = manifest[i]

(* ReadingsUntouched: nor does the next check read anything else of another*)
(* dependency, except where a .csproj has a drawn entry or the dependency  *)
(* of a pom.xml is itself read under the name of what it excludes.         *)
ReadingsUntouched ==
    offer # NoOffer /\ offer.new # <<>>
    /\ (\A e \in ToSet(manifest) :
          /\ kind = "csproj" => ~Drawn(e, offer.dep.name)
          /\ kind = "pom.xml" /\ e.name = offer.dep.name => ReadAs(e) = e.name) =>
        LET Others(deps) == Chosen(deps, Matching(deps, LAMBDA d : d.name # offer.dep.name))
        IN  Others(parse_manifest(kind, offer.new[1])) = Others(parse_manifest(kind, manifest))

(* ManifestsSound: what a check offers is newer, and making the update     *)
(* changes that dependency and no other, but for the drawn entries.        *)
ManifestsSound == OffersAreNewer /\ OthersUntouched /\ ReadingsUntouched /\ UpdateTakesEffect

=============================================================================
