------------------------------ MODULE ToolLock ------------------------------
(* The two locks of scripts/toolchain_assets.py and what makes one valid:    *)
(* the tool lock names the assets to fetch, the compiler, the files of the   *)
(* external tool root, the loads of each of these files and the tools; the   *)
(* host profile lock names the host tools the checks themselves are run with.*)
(*                                                                           *)
(* A path below the tool root is a number: p \div 10 is its directory, p % 10 *)
(* its leaf, and the order of numbers is the order the lock sorts by.  A      *)
(* nullable field is a set of at most one element.  A check that fails raises *)
(* either AssetError ("schema") or ToolLockClosureError ("closure").         *)
EXTENDS Checks, Integers, FiniteSets, TLC

MaxArchiveMembers == 100000
MaxUnpacked == 8         \* MAX_COMPILER_UNPACKED_BYTES, in GiB
DownloadFormats == {"file", "tar.gz", "zip"}

\* require_dict .. safe_relative: none of the leaves a record holds is malformed.
WellFormed(record) == record.bad = {}

Dir(p) == p \div 10
Leaf(p) == p % 10
Names(records, Key(_)) == [i \in DOMAIN records |-> Key(records[i])]
PathsIn(records) == {r.path : r \in ToSet(records)}

AssetIds(l) == {a.id : a \in ToSet(l.assets)}
Asset(l, id) == CHOOSE a \in ToSet(l.assets) : a.id = id
FormatIs(l, id, formats) == id \in AssetIds(l) => Asset(l, id).format \in formats
Bundle(l) == PathsIn(l.bundle)
BundleFile(l, p) == CHOOSE r \in ToSet(l.bundle) : r.path = p
PolicyOf(l, p) == CHOOSE r \in ToSet(l.policy.files) : r.path = p

----------------------------------------------------------------------------
(* The tool lock                                                            *)

\* tool_lock_policy_key, and the key the other platform would need.
PolicyKey(platform) == IF platform = "darwin" THEN "machoPolicy" ELSE "elfPolicy"

SchemaChecks(l) ==
    << <<"schema", l.schema = "v4">>,
       <<"schema", l.platform \in {"darwin", "linux"}>>,
       <<"schema", WellFormed(l) /\ l.policies = {PolicyKey(l.platform)}>> >>

AssetChecks(a) ==
    << <<"schema", a.format \in DownloadFormats \cup {"cargo-git"}>>,
       <<"schema", WellFormed(a)>> >>

\* isinstance(True, int) holds in Python: the kind is tested too.
IsInt(v, range) == v.kind = "int" /\ v.n \in range

ProbeChecks(c, p) ==
    << <<"closure", p.path \in PathsIn(c.executables)>>, <<"schema", WellFormed(p)>> >>

CompilerChecks(l) ==
    LET c == l.compiler IN
    << <<"schema", WellFormed(c)>>,
       <<"closure", c.platform = l.platform>>,
       <<"closure", c.asset \in AssetIds(l)>>,
       <<"closure", FormatIs(l, c.asset, {"zip"})>>,
       <<"schema", IsInt(c.strip, {1})>>,
       <<"schema", IsInt(c.entries, 2..MaxArchiveMembers)>>,
       <<"schema", IsInt(c.unpacked, 1..MaxUnpacked)>>,
       <<"schema", c.executables # <<>> /\ Ascending(Names(c.executables, LAMBDA r : r.path))>>,
       <<"schema", c.probes # <<>> /\ Ascending(Names(c.probes, LAMBDA r : r.path))>> >>
    \o ForEach(LAMBDA p : ProbeChecks(c, p), c.probes)
    \o << <<"closure", PathsIn(c.probes) = PathsIn(c.executables)>> >>

BundleChecks(l, r) ==
    << <<"schema", Well(r, "path")>>,
       <<"closure", r.asset \in AssetIds(l)>>,
       <<"closure", FormatIs(l, r.asset, DownloadFormats)>>,
       <<"closure", FormatIs(l, r.asset, {"file"}) => r.member = {}>>,
       <<"schema", FormatIs(l, r.asset, {"tar.gz", "zip"}) => r.member # {}>>,
       <<"schema", r.size > 0 /\ WellFormed(r)>>,
       <<"schema", r.mode \in {"0444", "0555"}>> >>

\* The targets of the edges before the i-th one.
TargetsBefore(edges, i) == UNION {edges[j].to : j \in 1..(i - 1)}

\* A load of the file f: a Mach-O load outside the system is in the bundle, an
\* ELF one may be left to the system.
EdgeChecks(l, f, i) ==
    LET e == f.edges[i] IN
    << <<"schema", WellFormed(e) /\ (l.platform = "darwin" => e.to # {})>>,
       <<"closure", e.to \subseteq Bundle(l)>>,
       <<"closure", e.to \cap TargetsBefore(f.edges, i) = {}>> >>

PolicyFileChecks(l, f) ==
    << <<"schema", Well(f, "path")>>,
       <<"closure", f.path \in Bundle(l)>>,
       <<"schema", WellFormed(f) /\ Ascending(Names(f.edges, LAMBDA e : e.name))>> >>
    \o FlattenSeq([i \in DOMAIN f.edges |-> EdgeChecks(l, f, i)])

LoadRootsOk(roots) == roots # <<>> /\ Ascending(roots)

\* validate_macho_policy and validate_elf_policy.
PolicyChecks(l) ==
    << <<"schema", WellFormed(l.policy) /\ LoadRootsOk(l.policy.roots)>>,
       <<"schema", Ascending(Names(l.policy.files, LAMBDA f : f.path))>> >>
    \o ForEach(LAMBDA f : PolicyFileChecks(l, f), l.policy.files)
    \o << <<"closure", PathsIn(l.policy.files) = Bundle(l)>> >>

\* The files of the bundle a file of the bundle loads, in the lock's order.
Adjacent(l, p) == FlattenSeq([i \in DOMAIN PolicyOf(l, p).edges |->
                                SetToSeq(PolicyOf(l, p).edges[i].to)])

\* The work list of validate_tool_lock: all the files an executable loads, and
\* the executable itself when the loads lead back to it, where the code fails.
DirectLoads(l, exe) == ToSet(Adjacent(l, exe))   \* wrong: no load of a load
Closure(l, exe) ==
    LET drain[pending \in Seq(Nat), closure \in SUBSET Nat] ==
            IF pending = <<>> THEN closure
            ELSE LET last == Last(pending) IN
                 IF last \in closure THEN drain[Front(pending), closure]
                 ELSE IF last = exe THEN closure \cup {exe}
                 ELSE drain[Front(pending) \o Adjacent(l, last), closure \cup {last}]
    IN  drain[Adjacent(l, exe), {}]

RuntimeFileChecks(l, r) ==
    << <<"schema", Well(r, "path")>>,
       <<"closure", r.path \in Bundle(l)>>,
       <<"schema", WellFormed(r)>>,
       <<"closure", r.path \in Bundle(l) => r.hash = BundleFile(l, r.path).hash>> >>

\* A tool taken from the bundle.
BundledToolChecks(l, t) ==
    LET known == t.executable \in Bundle(l)
        file == BundleFile(l, t.executable)
        closure == Closure(l, t.executable)
    IN  << <<"closure", FormatIs(l, t.asset, DownloadFormats)>>,
           <<"closure", known>>,
           <<"closure", known => file.asset = t.asset>>,
           <<"schema", t.hash # {}>>,
           <<"closure", known => t.hash = {file.hash}>>,
           <<"schema", Ascending(Names(t.runtime, LAMBDA r : r.path))>> >>
        \o ForEach(LAMBDA r : RuntimeFileChecks(l, r), t.runtime)
        \o << <<"closure", known => t.executable \notin closure>>,
              <<"closure", known => PathsIn(t.runtime) = closure>>,
              <<"closure", known => (closure = {} <=> t.subdir = {})>>,
              <<"closure", known => \A p \in closure : t.subdir = {Dir(p)}>> >>

\* A tool built from source: its bytes are not locked.
SourceToolChecks(l, t, before) ==
    << <<"schema", Well(t, "sourceBuild")>>,
       <<"closure", t.source = {t.asset}>>,
       <<"closure", FormatIs(l, t.asset, {"cargo-git"})>>,
       <<"schema", t.hash = {}>>,
       <<"closure", t.subdir = {}>>,
       <<"closure", t.runtime = <<>> >>,
       <<"closure", t.executable \notin Bundle(l)>>,
       <<"closure", \A s \in before : s.source # {} => s.executable # t.executable>>,
       <<"closure", FormatIs(l, t.asset, {"cargo-git"}) => Leaf(t.executable) = Asset(l, t.asset).bin>>,
       <<"closure", t.asset \in AssetIds(l) => Asset(l, t.asset).version = t.version>> >>

ToolChecks(l, i) ==
    LET t == l.tools[i] IN
    << <<"schema", Well(t, "head")>>,
       <<"closure", t.platform = l.platform>>,
       <<"closure", t.asset \in AssetIds(l)>>,
       <<"schema", Leaf(t.home) = Leaf(t.executable)>> >>
    \o (IF t.source = {} THEN BundledToolChecks(l, t)
        ELSE SourceToolChecks(l, t, {l.tools[j] : j \in 1..(i - 1)}))
    \o << <<"schema", WellFormed(t)>> >>

\* The policies are read, and the tools compared with them, only once every
\* earlier test has passed.
StructureChecks(l) ==
    SchemaChecks(l)
    \o << <<"schema", Ascending(Names(l.assets, LAMBDA a : a.id))>> >>
    \o ForEach(AssetChecks, l.assets)
    \o CompilerChecks(l)
    \o << <<"schema", l.bundle # <<>> /\ Ascending(Names(l.bundle, LAMBDA r : r.path))>> >>
    \o ForEach(LAMBDA r : BundleChecks(l, r), l.bundle)
    \o PolicyChecks(l)
ToolsChecks(l) ==
    << <<"schema", l.tools # <<>> /\ Ascending(Names(l.tools, LAMBDA t : t.id))>> >>
    \o FlattenSeq([i \in DOMAIN l.tools |-> ToolChecks(l, i)])
    \o << <<"schema", l.unresolved = "ok">> >>

\* validate_tool_lock: "ok", or the class of the error raised.
ValidateToolLock(l) ==
    LET structure == FirstFailure(StructureChecks(l)) IN
    IF structure # "ok" THEN structure ELSE FirstFailure(ToolsChecks(l))

----------------------------------------------------------------------------
(* The host profile lock                                                    *)

\* validate_darwin_developer: what an eligible host must be.
DarwinEligible(p) ==
    /\ p.platform.arch = "arm64" /\ ~p.platform.translated
    /\ p.platform.sip = "enabled" /\ p.platform.root = "enabled"
    /\ p.platform.seal = "sealed"
    /\ ~p.mutable

\* validate_linux_distro.
LinuxEligible(p) ==
    /\ p.platform.arch \in {"x86_64", "aarch64"}
    /\ p.platform.boot = "enabled"
    /\ ~p.mutable

\* host_profile_kind: the kind is read off the key set of "platform".
Kinds == {"darwin", "linux"}

\* The fields of a platform that admit only some values.
PlatformOk(p) ==
    IF p.kind = "darwin"
    THEN /\ {p.platform.sip, p.platform.root} \subseteq {"enabled", "disabled"}
         /\ p.platform.seal \in {"broken", "sealed", "unsealed"}
    ELSE p.platform.boot \in {"enabled", "disabled", "unavailable"}

SystemToolChecks(t) ==
    << <<"schema", WellFormed(t)>>,
       <<"schema", t.node \in {"regular", "symlink"}>>,
       <<"schema", (t.node = "symlink") <=> (t.link # {})>>,
       <<"schema", t.node = "regular" => t.to = t.path>>,
       <<"schema", t.nlink >= 1>> >>

\* The digest bootstrap is one of the locked tools.
BootstrapLocked(p) ==
    \E t \in ToSet(p.tools) :
        /\ {s \in ToSet(p.tools) : s.path = p.boot.path} = {t}
        /\ t.hash = p.boot.hash

ProfileChecks(h, i) ==
    LET p == h.profiles[i] IN
    << <<"schema", p.kind \in Kinds>>,
       <<"schema", \A j \in 1..(i - 1) : h.profiles[j].kind # p.kind>>,
       <<"schema", WellFormed(p)>>,
       <<"schema", p.eligible <=> p.reason = {}>>,
       <<"schema", LoadRootsOk(p.roots)>>,
       <<"schema", p.tools # <<>> /\ Ascending(Names(p.tools, LAMBDA t : t.id))>> >>
    \o ForEach(SystemToolChecks, p.tools)
    \o (IF p.kind \notin Kinds THEN <<>> ELSE
        << <<"schema", PlatformOk(p)>>,
           <<"schema", p.eligible => IF p.kind = "darwin" THEN DarwinEligible(p) ELSE LinuxEligible(p)>>,
           <<"schema", BootstrapLocked(p)>> >>)

ValidateHostLock(h) ==
    FirstFailure(<< <<"schema", h.schema = "v2" /\ WellFormed(h)>>,
                    <<"schema", h.profiles # <<>> /\ Ascending(Names(h.profiles, LAMBDA p : p.id))>> >>
                 \o FlattenSeq([i \in DOMAIN h.profiles |-> ProfileChecks(h, i)]))

\* validate_lock_pair: one profile of the lock's kind, with the same load roots.
ProfilesOf(h, kind) == SelectSeq(h.profiles, LAMBDA p : p.kind = kind)
ValidatePair(l, h) ==
    LET matching == ProfilesOf(h, l.platform) IN
    FirstFailure(<< <<"schema", Len(matching) = 1>>,
                    <<"schema", Len(matching) = 1 => matching[1].roots = l.policy.roots>> >>)

\* load_locks: the first of the three to fail.
LoadLocks(l, h) ==
    LET verdicts == <<ValidateToolLock(l), ValidateHostLock(h)>> IN
    IF verdicts[1] # "ok" THEN verdicts[1]
    ELSE IF verdicts[2] # "ok" THEN verdicts[2]
    ELSE ValidatePair(l, h)

----------------------------------------------------------------------------
(* Subsets of a lock                                                        *)

\* is_empty_policy_data_member: never given to readelf or otool.
IsDataMember(mode, f) == mode = "0444" /\ f.edges = <<>> /\ f.name = {}

\* source_build_executables.
SourceTools(l) == {t \in ToSet(l.tools) : t.source # {}}

\* selected_tool_closure: the paths of the requested tools, or a refusal.
Selected(l, requested) ==
    LET known == {t \in ToSet(l.tools) : t.id \in ToSet(requested)}
        paths == UNION {{t.executable} \cup PathsIn(t.runtime) : t \in known}
    IN  [verdict |-> FirstFailure(
            << <<"schema", requested # <<>> /\ IsInjective(requested)>>,
               <<"schema", \A i \in DOMAIN requested : \E t \in known : t.id = requested[i]>>,
               <<"schema", \A t \in known : t.source = {}>>,
               <<"schema", paths \subseteq Bundle(l)>> >>),
         paths |-> paths]

----------------------------------------------------------------------------
(* Tool roots                                                               *)

\* A root is absent, a directory, or something that is neither.  A file has its
\* hash, its mode, and "bad" where its kind, owner, size or links are not right.
Absent == [is |-> "absent", dirs |-> {}, files |-> <<>>]
EmptyDir == [Absent EXCEPT !.is = "dir"]
PutAll(root, paths, file) ==
    [root EXCEPT !.dirs = @ \cup {Dir(p) : p \in paths},
                 !.files = [p \in paths \cup DOMAIN @ |-> IF p \in paths THEN file ELSE @[p]]]
Put(root, p, file) == PutAll(root, {p}, file)
FileOf(record) == [hash |-> record.hash, mode |-> record.mode, bad |-> {}]
\* What cargo builds has a hash nobody locked; so has what others put there.
CargoOutput == 100
Foreign == 101
Built == [hash |-> CargoOutput, mode |-> "0555", bad |-> {}]
Stray == [hash |-> Foreign, mode |-> "0444", bad |-> {}]
BuiltBy == [all |-> "materialize-external", some |-> "materialize-tool-closure"]

----------------------------------------------------------------------------
(* What a valid tool lock says                                              *)

\* The files reached from an executable along the loads of the lock: the least
\* set that holds its loads and the loads of its members.
Reached(l, exe) ==
    LET loads == [p \in Bundle(l) |-> UNION {e.to : e \in ToSet(PolicyOf(l, p).edges)}]
        closed == {S \in SUBSET Bundle(l) : loads[exe] \subseteq S /\ \A p \in S : loads[p] \subseteq S}
    IN  {p \in Bundle(l) : \A S \in closed : p \in S}

\* Every reference leads to one record of the same lock, every copied hash is
\* the one copied from, and a tool's runtime files are what its executable
\* loads, directly or not, all in one directory.
Joined(l) ==
    /\ \A f \in ToSet(l.bundle) : f.asset \in AssetIds(l)
    /\ PathsIn(l.policy.files) = Bundle(l)
    /\ \A f \in ToSet(l.policy.files) : \A e \in ToSet(f.edges) : e.to \subseteq Bundle(l)
    /\ \A t \in ToSet(l.tools) :
         \/ /\ t.source # {} /\ t.executable \notin Bundle(l) /\ t.runtime = <<>>
            /\ t.asset \in AssetIds(l) /\ Asset(l, t.asset).format = "cargo-git"
            /\ \A s \in ToSet(l.tools) : s.executable = t.executable => s = t
         \/ /\ t.source = {} /\ t.executable \in Bundle(l)
            /\ t.asset = BundleFile(l, t.executable).asset
            /\ t.hash = {BundleFile(l, t.executable).hash}
            /\ t.executable \notin Reached(l, t.executable)
            /\ PathsIn(t.runtime) = Reached(l, t.executable)
            /\ \A r \in ToSet(t.runtime) : r.hash = BundleFile(l, r.path).hash
            /\ t.subdir = {Dir(p) : p \in Reached(l, t.executable)}
=============================================================================
