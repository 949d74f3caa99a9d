-------------------------- MODULE OutputValidation --------------------------
(***************************************************************************)
(* scripts/validate_artifacts.py: main() validates the outputs of two      *)
(* programs for four targets.  It makes nine passes over the eight         *)
(* directories of a staging root: StateCell's are validated by their own   *)
(* manifests and then compared, Accumulator's and StateCell's Noir bundle  *)
(* against the files their contract fixes.  A pass walks its directory     *)
(* with a work list (exact_physical_closure), reads the manifest, and      *)
(* compares every leaf with what the manifest says of it.                  *)
(*                                                                         *)
(* Nothing writes to the staging root meanwhile.  A path is the sequence   *)
(* of its names and <<>> the directory itself.  SHA-256 stands for the     *)
(* bytes it is of.  A malformed leaf of a document (a key set, a digest,   *)
(* an empty name, an unsafe path) is a member of its "bad".  All ways to   *)
(* refuse are "differs", but for the limits on sizes and counts            *)
(* ("limit") and the bound on the walk itself ("runaway").                 *)
(***************************************************************************)
EXTENDS Naturals, FiniteSets, Sequences, FiniteSetsExt

CONSTANTS
  Outputs,           \* staging roots: for each directory its tree, a function
                     \* from paths to nodes, empty if it is missing
  MaxClosureFiles, MaxClosureFileBytes, MaxClosureTotalBytes,
  MaxDirEntrySlack,
  UTF8Before(_, _),  \* the order of paths
  Contract           \* for a pass, the contents it wants or tolerates of a path

VARIABLES
  root,    \* the staging root
  pass,    \* the pass that is made
  at,      \* its next step
  parsed,  \* the manifests read
  walk,    \* the walk of this pass
  ruling   \* "none" while main() runs

validateVars == <<root, pass, at, parsed, walk, ruling>>

ManifestJson == <<"manifest.json">>
EvidenceJson == <<"evidence.json">>
Beside == {ManifestJson, EvidenceJson}

-----------------------------------------------------------------------------
(* The passes *)

(* load_manifest and validate_evm_accumulator look for the manifest first,  *)
(* the others walk first.                                                   *)
Loads == <<"find", "parse", "walk", "leaves", "evidence">>
LoadsAndCompares == <<"find", "parse", "walk", "leaves", "evidence", "compare">>
Manifest1st == <<"find", "parse", "walk", "leaves", "evidence", "contract">>
Walk1st == <<"walk", "parse", "leaves", "evidence", "peers", "contract">>

LoadPass(dir, steps) ==
  [dir |-> dir, target |-> dir, program |-> "StateCell", named |-> FALSE, fixed |-> {},
   peers |-> {}, deployable |-> BOOLEAN, steps |-> steps]

(* The pass also wants the program's name, the profile and the list of files. *)
ContractPass(dir, target, program, deployable, files, peers, steps) ==
  [dir |-> dir, target |-> target, program |-> program, named |-> TRUE, fixed |-> files,
   peers |-> peers, deployable |-> {deployable}, steps |-> steps]

(* A Noir bundle: the interface and one package for each relation. *)
NoirBundle(interface, mutate, view) ==
  {interface}
  \cup {<<"relations", stem, "src", "main.nr">> : stem \in {"r0-init", mutate, view}}
  \cup {<<"relations", stem, "Nargo.toml">> : stem \in {"r0-init", mutate, view}}

Passes ==
  << LoadPass("evm", Loads), LoadPass("solana", Loads), LoadPass("near", Loads),
     LoadPass("noir", LoadsAndCompares),
     ContractPass("noir", "noir", "StateCell", FALSE,
       NoirBundle(<<"StateCell.noir-relations.json">>, "r1-increment", "r2-get"), {1, 2, 3}, Walk1st),
     ContractPass("evm-accumulator", "evm", "Accumulator", TRUE,
       {<<"Accumulator.yul">>, <<"Accumulator.abi.json">>, <<"Accumulator.bin">>},
       {}, Manifest1st),
     ContractPass("solana-accumulator", "solana", "Accumulator", FALSE,
       {<<"Accumulator.sbpf-plan">>, <<"Accumulator.idl.json">>}, {6}, Walk1st),
     ContractPass("near-accumulator", "near", "Accumulator", TRUE,
       {<<"Accumulator.wat">>, <<"Accumulator.near-abi.json">>, <<"Accumulator.wasm">>},
       {6, 7}, Walk1st),
     ContractPass("noir-accumulator", "noir", "Accumulator", FALSE,
       NoirBundle(<<"Accumulator.noir-relations.json">>, "r1-add", "r2-current"), {6, 7, 8}, Walk1st) >>

CodegenProfile ==
  [evm |-> "evm-yul-solc-0.8.34-v1", solana |-> "solana-sbpf-plan-v1",
   near |-> "near-wasm-raw-u64-v1", noir |-> "noir-source-u64-relations-v1"]

Directories == {Passes[n].dir : n \in DOMAIN Passes}

-----------------------------------------------------------------------------
(* Trees *)

Parent(p) == SubSeq(p, 1, Len(p) - 1)
ParentDirPrefixes(p) == {SubSeq(p, 1, i) : i \in 1 .. Len(p) - 1}
ExpectedDirs(files) == UNION {ParentDirPrefixes(p) : p \in files}

(* What a directory holds: os.scandir. *)
ChildrenIn(t, d) == {p \in DOMAIN t \ {<<>>} : Parent(p) = d}

IsRegular(t, p) == p \in DOMAIN t /\ t[p].kind = "file"
IsSingle(t, p) == IsRegular(t, p) /\ t[p].links = 1

(* What a file system can hold: finitely many paths, each in a directory.  *)
(* A manifest lists its files in an array, by strings.  What StateCell's   *)
(* Solana and Noir files say is between them and their manifests.          *)
IsTree(t) ==
  /\ IsFiniteSet(DOMAIN t)
  /\ \A p \in DOMAIN t :
        /\ p \in Seq(STRING)
        /\ p # <<>> => Parent(p) \in DOMAIN t /\ t[Parent(p)].kind = "dir"
        /\ LET c == t[p].content IN
            c.is = "manifest" =>
              /\ Len(c.files) \in Nat /\ DOMAIN c.files = 1 .. Len(c.files)
              /\ \A i \in DOMAIN c.files : c.files[i].path \in Seq(STRING)

ASSUME OutputsAssumption ==
  /\ \A r \in Outputs : \A d \in Directories : IsTree(r[d])
  /\ MaxDirEntrySlack \in Nat
  /\ DOMAIN Contract[2] = {} /\ DOMAIN Contract[4] = {}

Tree(n) == root[Passes[n].dir]

-----------------------------------------------------------------------------
(* Manifests *)

PathsOf(m) == {m.files[i].path : i \in DOMAIN m.files}
Roles == <<"materialized-base", "finalized-extra">>

(* descriptor_sort_key: rank of the role, then the path. *)
SortsBefore(a, b) ==
  \/ a.role = Roles[1] /\ b.role = Roles[2]
  \/ a.role = b.role /\ UTF8Before(a.path, b.path)

PrefixConflict(p, q) == p \in ParentDirPrefixes(q)

(* validate_file_descriptors *)
ValidDescriptors(files) ==
  /\ files # <<>>
  /\ \A i \in DOMAIN files :
        /\ files[i].bad = {}
        /\ files[i].role \in {Roles[1], Roles[2]}
        /\ files[i].path \notin Beside
  /\ \A i, j \in DOMAIN files :
        /\ i < j => SortsBefore(files[i], files[j])
        /\ i # j => files[i].path # files[j].path
        /\ ~PrefixConflict(files[i].path, files[j].path)

TotalSize(files) == MapThenSumSet(LAMBDA i : files[i].size, DOMAIN files)

TooMuchListed(files) ==
  \/ Len(files) > MaxClosureFiles
  \/ \E i \in DOMAIN files : files[i].size > MaxClosureFileBytes
  \/ TotalSize(files) > MaxClosureTotalBytes

(* load_manifest's target, or _require_engineering_output_manifest.        *)
Identified(n, m) ==
  LET P == Passes[n] IN
  /\ m.target = P.target
  /\ m.deployable \in P.deployable
  /\ P.named =>
       /\ m.profile = CodegenProfile[P.target]
       /\ m.program = P.program
       /\ PathsOf(m) = P.fixed /\ Len(m.files) = Cardinality(P.fixed)

(* validate_engineering_output_manifest and the identity.                  *)
ValidManifest(n, m) == m.bad = {} /\ ValidDescriptors(m.files) /\ Identified(n, m)

(* The manifest can be read and parses. *)
HasManifest(n) == IsRegular(Tree(n), ManifestJson) /\ Tree(n)[ManifestJson].content.is = "manifest"
ManifestIn(n) == Tree(n)[ManifestJson].content

-----------------------------------------------------------------------------
(* The comparisons of a pass with a manifest *)

(* verify_descriptor_contents, one leaf *)
LeafMatches(t, f) ==
  IsSingle(t, f.path) /\ t[f.path].size = f.size /\ t[f.path].content = f.contentSha256

(* verify_evidence_sha256 *)
EvidenceMatches(t, m) == IsSingle(t, EvidenceJson) /\ t[EvidenceJson].content = m.evidenceSha256

(* Each file the contract fixes is there and says what it should; those    *)
(* that name the hashes name the manifest's.                               *)
MeetsContract(n, m) ==
  \A p \in DOMAIN Contract[n] :
    /\ IsRegular(Tree(n), p)
    /\ Tree(n)[p].content.doc \in Contract[n][p].docs
    /\ Contract[n][p].hashed => Tree(n)[p].content.hashes = m.hashes

(* sourceHash and semanticHash of every peer. *)
PeersAgree(n, m) == \A q \in Passes[n].peers : parsed[q].hashes = m.hashes

(* main(), after the four manifests are loaded. *)
TargetsAgree ==
  /\ \A n, k \in 1 .. 4 : parsed[n].hashes = parsed[k].hashes
  /\ MeetsContract(1, parsed[1]) /\ MeetsContract(3, parsed[3])
  /\ parsed[1].deployable /\ parsed[3].deployable
  /\ ~parsed[2].deployable /\ ~parsed[4].deployable

-----------------------------------------------------------------------------
(* The walk: exact_physical_closure *)

NoWalk == [todo |-> {}, visits |-> 0, files |-> {}, dirs |-> {}, total |-> 0]

ExpectedFiles(n) == Beside \cup IF Passes[n].named THEN Passes[n].fixed ELSE PathsOf(parsed[n])

ExpectedDirectChildCount(d, files) ==
  Cardinality({p \in files : Parent(p) = d}) + Cardinality({p \in ExpectedDirs(files) : Parent(p) = d})

(* Mutant: a second name of a file goes unseen. *)
UnexpectedName(t, files, p) ==
  ~ \/ t[p].kind = "dir" /\ p \in ExpectedDirs(files)
    \/ t[p].kind = "file" /\ p \in files

(* An entry of the directory the walk has no place for. *)
Unexpected(t, files, p) ==
  ~ \/ t[p].kind = "dir" /\ p \in ExpectedDirs(files)
    \/ t[p].kind = "file" /\ t[p].links = 1 /\ p \in files

FilesIn(t, d) == {p \in ChildrenIn(t, d) : t[p].kind = "file"}
DirsIn(t, d) == {p \in ChildrenIn(t, d) : t[p].kind = "dir"}
TotalAfter(t, d) == walk.total + MapThenSumSet(LAMBDA p : t[p].size, FilesIn(t, d))

-----------------------------------------------------------------------------
(* The steps *)

Now(s) == ruling = "none" /\ at \in DOMAIN Passes[pass].steps /\ Passes[pass].steps[at] = s

Rule(r) == ruling' = r /\ UNCHANGED <<root, pass, at, parsed, walk>>

(* The next step of the pass, or the next pass, or the end of main(). *)
Proceed ==
  IF at < Len(Passes[pass].steps) THEN at' = at + 1 /\ UNCHANGED <<pass, ruling>>
  ELSE IF pass < Len(Passes) THEN pass' = pass + 1 /\ at' = 1 /\ UNCHANGED ruling
  ELSE ruling' = "ok" /\ UNCHANGED <<pass, at>>

(* A step that only compares. *)
Compares(s, holds) ==
  /\ Now(s)
  /\ IF holds THEN Proceed /\ UNCHANGED <<root, parsed, walk>> ELSE Rule("differs")

ValidateInit ==
  /\ root \in Outputs
  /\ pass = 1 /\ at = 1 /\ parsed = [n \in DOMAIN Passes |-> <<>>]
  /\ walk = NoWalk /\ ruling = "none"

FindManifest == Compares("find", IsRegular(Tree(pass), ManifestJson))

ParseManifest ==
  /\ Now("parse") /\ HasManifest(pass) /\ ValidManifest(pass, ManifestIn(pass))
  /\ ~TooMuchListed(ManifestIn(pass).files)
  /\ parsed' = [parsed EXCEPT ![pass] = ManifestIn(pass)]
  /\ Proceed /\ UNCHANGED <<root, walk>>
RefuseManifest ==
  /\ Now("parse")
  /\ HasManifest(pass) => ~ValidManifest(pass, ManifestIn(pass))
  /\ Rule("differs")
LimitManifest ==
  /\ Now("parse") /\ HasManifest(pass) /\ TooMuchListed(ManifestIn(pass).files)
  /\ Rule("limit")

BeginWalk ==
  /\ Now("walk") /\ walk = NoWalk
  /\ IF Cardinality(ExpectedFiles(pass)) > MaxClosureFiles THEN Rule("limit")
     ELSE IF <<>> \in DOMAIN Tree(pass) /\ Tree(pass)[<<>>].kind = "dir"
     THEN walk' = [NoWalk EXCEPT !.todo = {<<>>}] /\ UNCHANGED <<root, pass, at, parsed, ruling>>
     ELSE Rule("differs")

(* One turn of the loop, for the directory d: refused, too large, or done.  *)
(* Which of several unexpected entries is named is left open.              *)
Runaway ==
  walk.visits + 1 > Cardinality(ExpectedDirs(ExpectedFiles(pass))) + Cardinality(ExpectedFiles(pass)) + 8
Crowded(d) ==
  Cardinality(ChildrenIn(Tree(pass), d))
    > ExpectedDirectChildCount(d, ExpectedFiles(pass)) + MaxDirEntrySlack
HasUnexpected(d) ==
  \E p \in ChildrenIn(Tree(pass), d) : Unexpected(Tree(pass), ExpectedFiles(pass), p)
TooLarge(d) ==
  \/ \E p \in FilesIn(Tree(pass), d) : Tree(pass)[p].size > MaxClosureFileBytes
  \/ TotalAfter(Tree(pass), d) > MaxClosureTotalBytes

Visiting(d) == Now("walk") /\ d \in walk.todo

RefuseEntry ==
  \E d \in walk.todo :
    /\ Visiting(d)
    /\ Runaway \/ Crowded(d) \/ HasUnexpected(d)
    /\ Rule(IF Runaway THEN "runaway" ELSE "differs")

LimitEntry ==
  \E d \in walk.todo : Visiting(d) /\ ~Runaway /\ ~Crowded(d) /\ TooLarge(d) /\ Rule("limit")

VisitDirectory ==
  \E d \in walk.todo :
    /\ Visiting(d) /\ ~Runaway /\ ~Crowded(d) /\ ~HasUnexpected(d) /\ ~TooLarge(d)
    /\ walk' = [todo |-> (walk.todo \ {d}) \cup DirsIn(Tree(pass), d),
                visits |-> walk.visits + 1,
                files |-> walk.files \cup FilesIn(Tree(pass), d),
                dirs |-> walk.dirs \cup DirsIn(Tree(pass), d),
                total |-> TotalAfter(Tree(pass), d)]
    /\ UNCHANGED <<root, pass, at, parsed, ruling>>

(* The work list is empty: nothing expected may be missing. *)
NothingMissing ==
  /\ ExpectedFiles(pass) \subseteq walk.files
  /\ ExpectedDirs(ExpectedFiles(pass)) \subseteq walk.dirs

EndWalk ==
  /\ Now("walk") /\ walk # NoWalk /\ walk.todo = {}
  /\ IF NothingMissing THEN walk' = NoWalk /\ Proceed /\ UNCHANGED <<root, parsed>>
     ELSE Rule("differs")

CheckLeaves ==
  Compares("leaves", \A i \in DOMAIN parsed[pass].files :
                       LeafMatches(Tree(pass), parsed[pass].files[i]))
CheckEvidenceHash == Compares("evidence", EvidenceMatches(Tree(pass), parsed[pass]))
CheckPeers == Compares("peers", PeersAgree(pass, parsed[pass]))
CheckContract == Compares("contract", MeetsContract(pass, parsed[pass]))
CompareTargets == Compares("compare", TargetsAgree)

Walking == BeginWalk \/ RefuseEntry \/ LimitEntry \/ VisitDirectory \/ EndWalk

ValidateNext ==
  \/ FindManifest \/ ParseManifest \/ RefuseManifest \/ LimitManifest
  \/ Walking
  \/ CheckLeaves \/ CheckEvidenceHash \/ CheckPeers \/ CheckContract \/ CompareTargets

ValidateSpec == ValidateInit /\ [][ValidateNext]_validateVars

-----------------------------------------------------------------------------
(* Properties *)

(* A directory that holds the files, the directories they lie in, and no   *)
(* other name: nothing linked, special, additional or missing.             *)
Exact(t, files) ==
  /\ DOMAIN t = {<<>>} \cup files \cup ExpectedDirs(files)
  /\ \A p \in files : IsSingle(t, p)
  /\ \A p \in {<<>>} \cup ExpectedDirs(files) : t[p].kind = "dir"

(* What a valid staging root is, without regard to how main() finds out.   *)
ValidRoot ==
  /\ \A n \in DOMAIN Passes :
       /\ HasManifest(n) /\ ValidManifest(n, ManifestIn(n))
       /\ LET m == ManifestIn(n) IN
            /\ Exact(Tree(n), PathsOf(m) \cup Beside)
            /\ \A i \in DOMAIN m.files : LeafMatches(Tree(n), m.files[i])
            /\ EvidenceMatches(Tree(n), m)
            /\ MeetsContract(n, m)
  /\ \A n, k \in DOMAIN Passes :
       Passes[n].program = Passes[k].program => ManifestIn(n).hashes = ManifestIn(k).hashes
  /\ \A n \in 1 .. 4 : ManifestIn(n).deployable <=> n \in {1, 3}

(* main() says "ok" exactly of staging roots whose eight directories hold  *)
(* what their manifests list and nothing else, with contents as listed and *)
(* as the contracts fix them, and whose four outputs of a program name one *)
(* source and one semantic program.  The work list never runs away.        *)
RulingIsRight ==
  /\ ruling = "ok" => ValidRoot
  /\ ruling = "differs" => ~ValidRoot
  /\ ruling # "runaway"
=============================================================================
