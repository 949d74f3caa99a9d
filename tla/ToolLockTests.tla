---------------------------- MODULE ToolLockTests ----------------------------
(* Locks for the model: one sound lock of each platform, the mutations the   *)
(* self-test of scripts/toolchain_assets.py applies to them with the verdict *)
(* each must have, and locks whose loads and runtime files vary.             *)
EXTENDS ToolLock

----------------------------------------------------------------------------
(* Sound locks                                                              *)

Download(id, format) == [id |-> id, format |-> format, bad |-> {}]
CargoGit(id) == [id |-> id, format |-> "cargo-git", bin |-> 3, version |-> 1, bad |-> {}]
File(path, asset, mode) ==
    [path |-> path, asset |-> asset, member |-> IF asset = 4 THEN {} ELSE {path}, size |-> 1,
     hash |-> path, mode |-> mode, bad |-> {}]
Load(name, target) == [name |-> name, to |-> target, bad |-> {}]
Loads(path, edges) == [path |-> path, name |-> {}, edges |-> edges, bad |-> {}]
Named(path, edges) == [Loads(path, edges) EXCEPT !.name = {path}]
Runtime(path) == [path |-> path, hash |-> path, bad |-> {}]
Tool(id, platform, asset, executable, runtime) ==
    [id |-> id, version |-> 1, platform |-> platform, asset |-> asset, executable |-> executable,
     home |-> executable, hash |-> {executable}, subdir |-> {Dir(r.path) : r \in ToSet(runtime)},
     runtime |-> runtime, source |-> {}, bad |-> {}]
Whole(n) == [kind |-> "int", n |-> n]
True == [kind |-> "bool", n |-> 1]

\* A tool with two libraries, one without and one built from source.  "loads"
\* gives the loads of the files 1, 11 and 12, of which 1 is the tool's.
LockOf(platform, loads, runtime) ==
    [schema |-> "v4", platform |-> platform, bad |-> {}, policies |-> {PolicyKey(platform)},
     assets |-> <<Download(1, "zip"), Download(2, "tar.gz"), CargoGit(3), Download(4, "file")>>,
     compiler |-> [bad |-> {}, platform |-> platform, asset |-> 1, strip |-> Whole(1), entries |-> Whole(3),
                   unpacked |-> Whole(1), executables |-> <<Runtime(1), Runtime(2)>>,
                   probes |-> <<Runtime(1), Runtime(2)>>],
     bundle |-> <<File(1, 2, "0555"), File(2, 4, "0555"), File(11, 2, "0444"), File(12, 2, "0444")>>,
     policy |-> [bad |-> {}, roots |-> <<1, 2>>,
                 files |-> <<Loads(1, loads[1]), Loads(2, <<>>), Named(11, loads[2]), Named(12, loads[3])>>],
     tools |-> <<Tool(1, platform, 2, 1, runtime), Tool(2, platform, 4, 2, <<>>),
                 [Tool(3, platform, 3, 3, <<>>) EXCEPT !.source = {3}, !.hash = {}]>>,
     unresolved |-> "ok"]
To(path) == Load(path, {path})
SoundLock(platform) ==
    LockOf(platform, << <<To(11)>>, <<To(12)>>, <<>> >>, <<Runtime(11), Runtime(12)>>)

HostTool(id, node, to) ==
    [id |-> id, path |-> id, node |-> node, link |-> IF node = "symlink" THEN {to} ELSE {}, to |-> to,
     hash |-> to, nlink |-> 1, mode |-> 1, bad |-> {}]
DarwinPlatform == [arch |-> "arm64", translated |-> FALSE, sip |-> "enabled", root |-> "enabled", seal |-> "sealed"]
LinuxPlatform == [arch |-> "x86_64", boot |-> "disabled"]
Profile(id, kind, platform, mutable) ==
    [id |-> id, kind |-> kind, bad |-> {}, eligible |-> FALSE, reason |-> {"fixture"},
     platform |-> platform, mutable |-> mutable, roots |-> <<1, 2>>,
     own |-> <<>>, boot |-> [path |-> "openssl", hash |-> "openssl"],
     tools |-> <<[HostTool("openssl", "regular", "openssl") EXCEPT !.id = 1],
                 [HostTool("python3", "symlink", "python3.12") EXCEPT !.id = 2]>>]
DarwinProfile == Profile(1, "darwin", DarwinPlatform, TRUE)
LinuxProfile == Profile(2, "linux", LinuxPlatform, FALSE)
SoundHosts == [schema |-> "v2", bad |-> {}, profiles |-> <<DarwinProfile, LinuxProfile>>]
Eligible(p) == [p EXCEPT !.eligible = TRUE, !.reason = {}, !.mutable = FALSE,
                         !.platform = IF p.kind = "linux" THEN [@ EXCEPT !.boot = "enabled"] ELSE @]

----------------------------------------------------------------------------
(* The mutations of the self-test                                           *)

Spoil(record, part) == [record EXCEPT !.bad = {part}]

\* self_test_darwin_tool_lock, the first mutations, and the closure class.
CommonMutations(l) ==
    {[l EXCEPT !.assets = Append(@, @[1])],
     [l EXCEPT !.bundle[1] = Spoil(@, "path")],
     [l EXCEPT !.assets[1] = Spoil(@, "url")],
     [l EXCEPT !.assets[1] = Spoil(@, "keys")],
     [l EXCEPT !.assets[1] = Spoil(@, "id")],
     [l EXCEPT !.compiler = Spoil(@, "sourceCommit")],
     [l EXCEPT !.compiler.entries = Whole(0)],
     [l EXCEPT !.compiler.strip = True],
     [l EXCEPT !.compiler = Spoil(@, "version")],
     [l EXCEPT !.compiler.unpacked = Whole(MaxUnpacked + 1)],
     [l EXCEPT !.tools[1] = Spoil(@, "head")],
     [l EXCEPT !.unresolved = "range"], [l EXCEPT !.unresolved = "over-u64"],
     [l EXCEPT !.schema = "v2"]}
CrossReferenceMutations(l) ==
    {[l EXCEPT !.tools[1].hash = {0}],
     [l EXCEPT !.compiler.probes = Front(@)],
     [l EXCEPT !.compiler.probes[1].path = 0],
     [l EXCEPT !.tools[1].asset = l.compiler.asset],
     [l EXCEPT !.tools[1].runtime = <<>>]}

\* self_test_cargo_git_mutations.
CargoGitMutations(l) ==
    {[l EXCEPT !.assets[3] = Spoil(@, part)] : part \in {"commit", "package", "bin", "keys"}}
    \cup {[l EXCEPT !.tools[3].hash = {0}],
          [l EXCEPT !.tools[3].runtime = <<Runtime(11)>>],
          [l EXCEPT !.tools[3].version = 9],
          [l EXCEPT !.tools[3].source = {}, !.tools[3].hash = {0}],
          [l EXCEPT !.bundle = <<[File(0, 3, "0555") EXCEPT !.member = {}]>> \o @]}

\* self_test_linux_tool_lock.
ElfMutations(l) ==
    {[l EXCEPT !.platform = "darwin"],
     [l EXCEPT !.schema = "v2"], [l EXCEPT !.schema = "v3"],
     [l EXCEPT !.policy.files = Tail(@)],
     [l EXCEPT !.policy.files[1].path = 0],
     [l EXCEPT !.policy.files[4].edges = <<Load(90, {}), Load(80, {})>>],
     [l EXCEPT !.policy.files[1].edges = <<Spoil(Load(90, {}), "soname")>>],
     [l EXCEPT !.policy.files[1].edges = <<Load(90, {0})>>],
     [l EXCEPT !.policy.bad = {"roots"}]}

\* self_test_empty_policy_data_members: a data member joins the bundle.
WithData(l) ==
    [l EXCEPT !.bundle = Append(@, File(13, 2, "0444")),
              !.policy.files = Append(@, Loads(13, <<>>))]

\* self_test_host_lock_section_darwin.
DarwinHostMutations(h) ==
    LET eligible == [h EXCEPT !.profiles[1] = Eligible(@)] IN
    {[h EXCEPT !.profiles[1].reason = {}],
     [h EXCEPT !.profiles[1] = Spoil(@, "platform")],
     [h EXCEPT !.profiles[1] = Spoil(@, "bootstrap")],
     [h EXCEPT !.profiles = Append(@, [h.profiles[1] EXCEPT !.id = 3])],
     [eligible EXCEPT !.profiles[1].platform.arch = "x86_64"],
     [eligible EXCEPT !.profiles[1].platform.translated = TRUE],
     [eligible EXCEPT !.profiles[1].platform.sip = "disabled"],
     [eligible EXCEPT !.profiles[1].platform.root = "disabled"],
     [eligible EXCEPT !.profiles[1].platform.seal = "broken"],
     [eligible EXCEPT !.profiles[1].mutable = TRUE],
     [h EXCEPT !.profiles[1].tools[1].node = "file"],
     [h EXCEPT !.profiles[1].tools[1] = Spoil(@, "mode")]}

\* self_test_host_lock_section.
LinuxHostMutations(h) ==
    LET eligible == [h EXCEPT !.profiles[2] = Eligible(@)] IN
    {[h EXCEPT !.schema = "v1"],
     [h EXCEPT !.profiles = Append(@, [h.profiles[2] EXCEPT !.id = 3])],
     [h EXCEPT !.profiles[2].kind = "none"],
     [h EXCEPT !.profiles[2].platform.boot = "yes"],
     [h EXCEPT !.profiles[2] = Spoil(@, "distroTools")],
     [h EXCEPT !.profiles[2] = Spoil(@, "gitPath")],
     [eligible EXCEPT !.profiles[2].platform.boot = "disabled"],
     [eligible EXCEPT !.profiles[2].platform.boot = "unavailable"],
     [eligible EXCEPT !.profiles[2].platform.arch = "riscv64"],
     [eligible EXCEPT !.profiles[2].mutable = TRUE]}

\* The pair of a lock with hosts whose load roots differ.
OtherRoots(h, i) == [h EXCEPT !.profiles[i].roots = <<2>>]

----------------------------------------------------------------------------
(* Documents with the verdicts they must have                               *)

Expect(locks, hosts, verdicts) ==
    {[lock |-> l, hosts |-> h, verdicts |-> verdicts] : l \in locks, h \in hosts}
Refused == {"schema", "closure"}
Sound == {SoundLock("darwin"), SoundLock("linux")}
SelfTests ==
    Expect(Sound \cup {WithData(l) : l \in Sound}, {SoundHosts}, {"ok"})
    \cup Expect(UNION {CommonMutations(l) \cup CargoGitMutations(l) : l \in Sound}
                \cup ElfMutations(SoundLock("linux")), {SoundHosts}, Refused)
    \cup Expect(UNION {CrossReferenceMutations(l) : l \in Sound}, {SoundHosts}, {"closure"})
    \cup Expect(Sound, {[SoundHosts EXCEPT !.profiles[i] = Eligible(@)] : i \in 1..2}, {"ok"})
    \cup Expect(Sound, DarwinHostMutations(SoundHosts) \cup LinuxHostMutations(SoundHosts), {"schema"})
    \cup Expect({SoundLock("darwin")}, {OtherRoots(SoundHosts, 1)}, {"schema"})
    \cup Expect({SoundLock("linux")}, {OtherRoots(SoundHosts, 2)}, {"schema"})

\* self_test_selected_tool_closure: two tools, then the three refusals.
SelectionsHold(l) ==
    /\ Selected(l, <<1, 2>>) = [verdict |-> "ok", paths |-> {1, 2, 11, 12}]
    /\ \A requested \in {<<9>>, <<1, 1>>, <<3>>} : Selected(l, requested).verdict = "schema"

\* self_test_empty_policy_data_members, the classifier.
ClassifierHolds(l) ==
    LET data == WithData(l) IN
    /\ IsDataMember(BundleFile(data, 13).mode, PolicyOf(data, 13))
    /\ ~IsDataMember("0555", PolicyOf(data, 13))
    /\ ~IsDataMember("0444", Loads(13, <<To(11)>>))

\* Loads of three files, and the runtime files the lock gives the tool: these
\* are right when they are what the loads lead to.
SomeLoads == {<<>>, <<To(11)>>, <<To(12)>>, <<To(11), To(12)>>}
Lists == {<<>>, <<Runtime(11)>>, <<Runtime(12)>>, <<Runtime(11), Runtime(12)>>}
Varied ==
    UNION {{[lock |-> LockOf("linux", <<first, second, third>>, runtime), hosts |-> SoundHosts,
             verdicts |-> {"joined"}] : first \in SomeLoads, runtime \in Lists} :
           second \in {<<>>, <<To(11)>>, <<To(12)>>, <<To(1)>>},
           third \in {<<>>, <<To(11)>>, <<To(12)>>, <<To(1)>>, <<Load(90, {})>>}}
=============================================================================
