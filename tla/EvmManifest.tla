----------------------------- MODULE EvmManifest -----------------------------
(* validate_manifest_at of scripts/evm_corpus_v1.py: the committed manifest *)
(* lists every file of the corpus, the sources the cases are pinned to and  *)
(* the runners, with size and hash.  The check reads the manifest, walks    *)
(* the corpus, decodes the cases, requires the list to be exactly what      *)
(* these give, and only then reads the listed files.  Other processes edit  *)
(* the tree meanwhile.                                                      *)
EXTENDS EvmCorpusTests

CONSTANTS
    Manifests,      \* the manifests a check may find
    Trees,          \* the trees it may find it in
    MaxEdits        \* how many edits others make during a check

VARIABLES
    tree,       \* path -> {} or {file}
    manifest,   \* the bytes of the manifest, with the document they hold
    linked,     \* the directories that are symbolic links
    at,         \* where the check is
    held,       \* {} or the file the check has open
    todo,       \* the paths still to read
    inventory,  \* the regular files the walk found
    sources,    \* the sources the cases are pinned to
    opened,     \* every path the check opened
    verdict,    \* "none", "ok" or the code raised
    edits,
    was         \* path -> the files it has held since the check began

mvars == <<tree, manifest, linked, at, held, todo, inventory, sources, opened,
           verdict, edits, was>>

----------------------------------------------------------------------------
(* The tree                                                                 *)

\* Paths in the order of sorted(): a hidden file of the repository, a source
\* under Examples/, a runner under scripts/, and the corpus.
Paths == <<"env", "example", "runner", "case1", "case2", "manifest", "program", "stray">>
RankOf(p) == CHOOSE i \in DOMAIN Paths : Paths[i] = p
InOrder(paths) == SelectSeq(Paths, LAMBDA p : p \in paths)
First(paths) == CHOOSE p \in paths : \A q \in paths : RankOf(p) <= RankOf(q)

Corpus == {"case1", "case2", "program", "stray"}
CasePaths == {"case1", "case2"}
RunnerPaths == {"runner"}

\* What the walk finds of the corpus.
Present == {p \in Corpus : tree[p] # {}}

\* ALLOWED_SOURCE_ROOTS and the .lean suffix.
AllowedSources == {"example", "program"}

\* The directory of a path, and the directories of the corpus.
DirOf(p) == CASE p \in {"example", "runner"} -> p
              [] p \in CasePaths -> "cases"
              [] p = "env" -> "root"
              [] OTHER -> "corpus"

\* _role_for_corpus_path; a path of no known role has none.
RoleFor(p) == IF p \in CasePaths THEN "case" ELSE IF p = "program" THEN "source" ELSE "none"

SizeOf(data) == IF data = 3 THEN 11 ELSE 10

File(data) == [kind |-> "file", data |-> data, nlink |-> 1, doc |-> {}]
CaseFile(c, stem, source) ==
    [File(1) EXCEPT !.doc = {[wire |-> Wire(c, 900), stem |-> stem, source |-> source]}]

\* A file holds at most one document.
IsFile(f) ==
    /\ DOMAIN f = {"kind", "data", "nlink", "doc"}
    /\ \A d, e \in f.doc : d = e /\ IsCase(d.wire.doc)

ASSUME TreesAssumption ==
    \A t \in Trees :
        /\ DOMAIN t.tree = Range(Paths)
        /\ \A p \in Range(Paths) : \A f, g \in t.tree[p] : f = g /\ IsFile(f)

ASSUME ManifestsAssumption == \A m \in Manifests : IsList(m.doc.files)

----------------------------------------------------------------------------
(* The manifest                                                             *)

MaxManifestFiles == 256
MaxManifestBytes == 256 * 1024

EntryChecks(e) ==
    << <<"SCHEMA", Well(e, "keys")>>,
       <<"PATH", Well(e, "path")>>,
       <<"SCHEMA", e.role \in {"case", "source", "schema-fixture", "runner"}>>,
       <<"SCHEMA", Well(e, "size")>>,
       <<"SCHEMA", Well(e, "sha256")>>,
       <<"INVARIANT", e.path # "manifest">> >>

\* validate_manifest_document.
ManifestChecks(m) ==
    << <<"SCHEMA", Well(m, "keys")>>,
       <<"INVARIANT", m.files # <<>> >>,
       <<"LIMIT", Len(m.files) <= MaxManifestFiles>> >>
    \o ForEach(EntryChecks, m.files)
    \o << <<"INVARIANT", Ascending([i \in DOMAIN m.files |-> RankOf(m.files[i].path)])>> >>

\* The bytes of the manifest and then its contents (validate_manifest_at).
ManifestFileChecks(w) == WireChecks(w, MaxManifestBytes) \o ManifestChecks(w.doc)
WellFormed(w) == FirstFailure(ManifestFileChecks(w)) = "ok"

Entries == Range(manifest.doc.files)
Listed == {e.path : e \in Entries}
Allowlist == inventory \cup sources \cup RunnerPaths

\* The roles, once the list is the allowlist.
RolesFit ==
    \A e \in Entries :
        /\ e.path \in sources => e.role = "source"
        /\ e.path \in RunnerPaths <=> e.role = "runner"
        /\ e.role = "case" => e.path \in CasePaths
        /\ e.path \in inventory => e.role = RoleFor(e.path)

----------------------------------------------------------------------------
(* Reading                                                                  *)

Raise(code) == verdict' = code /\ at' = "done" /\ held' = {} /\ UNCHANGED todo

\* The tests of a path before it is opened, and of what is opened: a link on
\* the way, no file ("gone" is the code raised then), a link, another kind of
\* file, a second name.
OpenChecks(p, gone) ==
    << <<"PATH", {DirOf(p)} \cap linked = {}>>,
       <<gone, tree[p] # {}>>,
       <<"PATH", \A f \in tree[p] : f.kind = "file">>,
       <<"PATH", \A f \in tree[p] : f.nlink = 1>> >>

\* _stable_read_regular up to the first fstat.
Open(p, gone) ==
    LET code == FirstFailure(OpenChecks(p, gone)) IN
    /\ opened' = opened \cup
          {q \in {p} : {DirOf(p)} \cap linked = {} /\ \E f \in tree[p] : f.kind # "link"}
    /\ IF code # "ok" THEN Raise(code)
       ELSE /\ held' = {[path |-> p, file |-> CHOOSE f \in tree[p] : TRUE, moved |-> FALSE]}
            /\ UNCHANGED <<at, todo, verdict>>

InitM ==
    /\ \E t \in Trees : tree = t.tree /\ linked = t.linked
    /\ manifest \in Manifests
    /\ at = "manifest" /\ held = {} /\ todo = {}
    /\ inventory = {} /\ sources = {} /\ opened = {}
    /\ verdict = "none" /\ edits = 0
    /\ was = tree

OpenManifest ==
    /\ at = "manifest" /\ held = {}
    /\ Open("manifest", "PATH")
    /\ UNCHANGED <<tree, manifest, linked, inventory, sources, edits, was>>

\* A read ends with the second fstat: the file has not been written to.  The
\* manifest is then decoded, which requires its canonical bytes, and validated.
ReadManifest ==
    /\ at = "manifest" /\ held # {}
    /\ LET code == FirstFailure(<< <<"INVARIANT", \A h \in held : ~h.moved>> >>
                                \o ManifestFileChecks(manifest))
       IN  IF code # "ok" THEN Raise(code)
           ELSE held' = {} /\ at' = "walk" /\ UNCHANGED <<todo, verdict>>
    /\ UNCHANGED <<tree, manifest, linked, inventory, sources, opened, edits, was>>

\* _walk_corpus_regular_files, and the join of its result with the list.
Walk ==
    /\ at = "walk"
    /\ LET code == FirstFailure(
               << <<"PATH", {"cases", "corpus"} \cap linked = {}>>,
                  <<"PATH", \A p \in Present : \A f \in tree[p] : f.kind = "file">>,
                  <<"INVARIANT", Present = Listed \cap Corpus>> >>)
       IN  IF code # "ok" THEN Raise(code) /\ UNCHANGED inventory
           ELSE /\ inventory' = Present
                /\ todo' = CasePaths \cap Present
                /\ at' = "cases"
                /\ UNCHANGED <<held, verdict>>
    /\ UNCHANGED <<tree, manifest, linked, sources, opened, edits, was>>

OpenCase ==
    /\ at = "cases" /\ held = {} /\ todo # {}
    /\ Open(First(todo), "PATH")
    /\ UNCHANGED <<tree, manifest, linked, inventory, sources, edits, was>>

\* _collect_case_source_paths, one case.
PinnedCaseChecks(d) ==
    WireChecks(d.wire, MaxCaseBytes) \o CaseChecks(d.wire.doc)
    \o << <<"INVARIANT", d.wire.doc.id = d.stem>>, <<"INVARIANT", d.source \in AllowedSources>> >>
CaseFileChecks(h) == << <<"INVARIANT", ~h.moved>> >> \o IfAny(PinnedCaseChecks, h.file.doc)

ReadCase ==
    /\ at = "cases" /\ held # {}
    /\ LET h == CHOOSE h \in held : TRUE
           code == FirstFailure(CaseFileChecks(h))
       IN  IF code # "ok" THEN Raise(code) /\ UNCHANGED sources
           ELSE /\ held' = {} /\ todo' = todo \ {h.path}
                /\ sources' = sources \cup {d.source : d \in h.file.doc}
                /\ UNCHANGED <<at, verdict>>
    /\ UNCHANGED <<tree, manifest, linked, inventory, opened, edits, was>>

\* A mutant: what is required must be listed, but more may be.
JoinLoose ==
    /\ at = "cases" /\ held = {} /\ todo = {}
    /\ IF ~(sources # {} /\ Allowlist \subseteq Listed /\ RolesFit) THEN Raise("INVARIANT")
       ELSE /\ todo' = Listed
            /\ at' = "files"
            /\ UNCHANGED <<held, verdict>>
    /\ UNCHANGED <<tree, manifest, linked, inventory, sources, opened, edits, was>>

\* The exact join: nothing listed is read before it.
Join ==
    /\ at = "cases" /\ held = {} /\ todo = {}
    /\ LET code == FirstFailure(
               << <<"INVARIANT", sources # {}>>, <<"INVARIANT", Listed = Allowlist>>,
                  <<"INVARIANT", RolesFit>> >>)
       IN  IF code # "ok" THEN Raise(code)
           ELSE /\ todo' = Listed
                /\ at' = "files"
                /\ UNCHANGED <<held, verdict>>
    /\ UNCHANGED <<tree, manifest, linked, inventory, sources, opened, edits, was>>

OpenListed ==
    /\ at = "files" /\ held = {} /\ todo # {}
    /\ Open(First(todo), "INVARIANT")
    /\ UNCHANGED <<tree, manifest, linked, inventory, sources, edits, was>>

\* A mutant: the hash is joined and the size is not.
ReadHashOnly ==
    /\ at = "files" /\ held # {}
    /\ LET h == CHOOSE h \in held : TRUE
           good == ~h.moved /\ \A e \in Entries : e.path = h.path => e.sha256 = h.file.data
       IN  IF ~good THEN Raise("INVARIANT")
           ELSE held' = {} /\ todo' = todo \ {h.path} /\ UNCHANGED <<at, verdict>>
    /\ UNCHANGED <<tree, manifest, linked, inventory, sources, opened, edits, was>>

\* The join of a listed file with the disk: its size and its hash.
ReadListed ==
    /\ at = "files" /\ held # {}
    /\ LET h == CHOOSE h \in held : TRUE
           good == ~h.moved /\ \A e \in Entries : e.path = h.path =>
                                   e.size = SizeOf(h.file.data) /\ e.sha256 = h.file.data
       IN  IF ~good THEN Raise("INVARIANT")
           ELSE held' = {} /\ todo' = todo \ {h.path} /\ UNCHANGED <<at, verdict>>
    /\ UNCHANGED <<tree, manifest, linked, inventory, sources, opened, edits, was>>

Accept ==
    /\ at = "files" /\ held = {} /\ todo = {}
    /\ at' = "done" /\ verdict' = "ok"
    /\ UNCHANGED <<tree, manifest, linked, held, todo, inventory, sources, opened, edits, was>>

\* Another process writes a file in place, puts another in its place, or
\* removes it.
Edit ==
    /\ at # "done" /\ edits < MaxEdits
    /\ edits' = edits + 1
    /\ \E p \in {"example", "case1", "program", "runner"} :
          \/ \E data \in {2, 3}, f \in tree[p] :
                /\ tree' = [tree EXCEPT ![p] = {[f EXCEPT !.data = data]}]
                /\ held' = {[h EXCEPT !.moved = @ \/ h.path = p] : h \in held}
          \/ /\ tree' = [tree EXCEPT ![p] = {[File(2) EXCEPT !.doc = f.doc] : f \in tree[p]}]
             /\ UNCHANGED held
          \/ tree' = [tree EXCEPT ![p] = {}] /\ UNCHANGED held
    /\ was' = [p \in DOMAIN was |-> was[p] \cup tree'[p]]
    /\ UNCHANGED <<manifest, linked, at, todo, inventory, sources, opened, verdict>>

NextM ==
    \/ OpenManifest \/ ReadManifest \/ Walk \/ OpenCase \/ ReadCase \/ Join
    \/ OpenListed \/ ReadListed \/ Accept \/ Edit

SpecM == InitM /\ [][NextM]_mvars

----------------------------------------------------------------------------
(* The probes of the script's own test                                      *)

\* _copy_minimal_repo: the committed tree, with one case pinned to a source
\* outside the corpus and, if asked for, a second pinned to a program in it.
CommittedTree(two) ==
    [p \in Range(Paths) |->
        CASE p = "stray" -> {}
          [] p = "case1" -> {CaseFile(PrimitiveCase, "statecell", "example")}
          [] p = "case2" -> IF two THEN {CaseFile(AdapterCase, "token", "program")} ELSE {}
          [] OTHER -> {File(1)}]

\* _entry, for a file of the committed tree.
Entry(p) ==
    [bad |-> {}, path |-> p, size |-> 10, sha256 |-> 1,
     role |-> IF p \in Corpus THEN RoleFor(p)
              ELSE IF p \in RunnerPaths THEN "runner" ELSE "source"]

Listing1(paths) == [bad |-> {}, files |-> [i \in DOMAIN InOrder(paths) |-> Entry(InOrder(paths)[i])]]

CommittedPaths(two) == {"example", "runner", "case1", "program"} \cup (IF two THEN {"case2"} ELSE {})

\* _rewrite_manifest: the mutations of the list the probes apply.
MutatedManifests ==
    LET m == Listing1(CommittedPaths(FALSE))
        Env(role) == [Listing1({"env"} \cup CommittedPaths(FALSE)) EXCEPT !.files[1].role = role]
        self == [Listing1({"manifest"} \cup CommittedPaths(FALSE)) EXCEPT !.files[4].role = "runner"]
    IN  {[m |-> [m EXCEPT !.files[1].sha256 = 4], want |-> "INVARIANT"],
         [m |-> [m EXCEPT !.files[1].size = 11], want |-> "INVARIANT"],
         [m |-> [m EXCEPT !.files = <<m.files[1]>> \o @], want |-> "INVARIANT"],
         [m |-> [m EXCEPT !.files[1].role = "oracle"], want |-> "SCHEMA"],
         [m |-> self, want |-> "INVARIANT"],
         [m |-> [m EXCEPT !.files = <<[m.files[1] EXCEPT !.bad = {"path"}]>>], want |-> "PATH"],
         [m |-> Env("source"), want |-> "INVARIANT"],
         [m |-> Env("runner"), want |-> "INVARIANT"],
         [m |-> m, want |-> "ok"]}

\* The trees of the probes: a file gone, one too many, a link, a linked
\* directory inside the corpus or above a source, a second name.
MutatedTrees ==
    LET t == CommittedTree(FALSE)
        Tree(f, links, want) == [tree |-> f, linked |-> links, want |-> want]
        Named(p, n) == [t EXCEPT ![p] = {[f EXCEPT !.nlink = n] : f \in @}]
    IN  {Tree([t EXCEPT !["example"] = {}], {}, "INVARIANT"),
         Tree(CommittedTree(TRUE), {}, "INVARIANT"),
         Tree([t EXCEPT !["case1"] = {CaseFile(PrimitiveCase, "statecell", "env")}], {}, "INVARIANT"),
         Tree([t EXCEPT !["case2"] = {[File(1) EXCEPT !.kind = "link"]}], {}, "PATH"),
         Tree(t, {"corpus"}, "PATH"), Tree(t, {"example"}, "PATH"),
         Tree(Named("example", 2), {}, "PATH"), Tree(Named("case1", 2), {}, "PATH"),
         Tree(t, {}, "ok")}

\* The probes: each mutated list over the committed tree, each mutated tree
\* under the committed list.
ManifestProbes ==
    {[tree |-> CommittedTree(FALSE), linked |-> {}, manifest |-> Wire(x.m, 4000), want |-> x.want]
        : x \in MutatedManifests}
    \cup {[tree |-> x.tree, linked |-> x.linked, want |-> x.want,
           manifest |-> Wire(Listing1(CommittedPaths(FALSE)), 4000)] : x \in MutatedTrees}

----------------------------------------------------------------------------
(* Properties                                                               *)

\* The cases of some paths.
DocsOf(paths) == UNION {f.doc : f \in UNION {tree[p] : p \in paths}}

\* A plain file with one name, and no link on the way to it.
Plain(p) ==
    /\ DirOf(p) \notin linked /\ tree[p] # {}
    /\ \A f \in tree[p] : f.kind = "file" /\ f.nlink = 1

\* A case loads under its own name and is pinned to an allowed source.
Pinned(d) == LoadCase(d.wire) = "ok" /\ d.wire.doc.id = d.stem /\ d.source \in AllowedSources

\* The manifest describes the tree: it is canonical, within its limit of bytes
\* and well formed, every case is pinned,
\* the list is the corpus, the sources of the cases and the runners in their
\* roles, no link leads to the corpus, and the manifest and every listed file
\* are plain files, these with the size and the hash they are listed with.
Describes ==
    /\ Plain("manifest") /\ WellFormed(manifest)
    /\ {"cases", "corpus"} \cap linked = {}
    /\ DocsOf(CasePaths) # {} /\ \A d \in DocsOf(CasePaths) : Pinned(d)
    /\ Listed = Present \cup {d.source : d \in DocsOf(CasePaths)} \cup RunnerPaths
    /\ \A e \in Entries :
          /\ e.role = CASE e.path \in Corpus -> RoleFor(e.path)
                        [] e.path \in RunnerPaths -> "runner"
                        [] OTHER -> "source"
          /\ Plain(e.path)
          /\ \A f \in tree[e.path] : f.data = e.sha256 /\ e.size = SizeOf(f.data)

\* Where nobody edits the tree, the check accepts exactly the manifests that
\* describe it, in both directions, whichever of its gates would have refused.
ManifestExact ==
    at = "done" /\ edits = 0 => (verdict = "ok" <=> Describes)

\* Edited meanwhile or not, what is accepted was there, and no file but the
\* manifest, the cases and what the cases and the runners call for was opened:
\* a path is not read because a manifest lists it.
AcceptedWasThere ==
    /\ verdict = "ok" =>
          \A e \in Entries : \E f \in was[e.path] :
              f.kind = "file" /\ f.data = e.sha256 /\ SizeOf(f.data) = e.size
    /\ opened \subseteq {"manifest"} \cup Corpus \cup AllowedSources \cup RunnerPaths

============================================================================
