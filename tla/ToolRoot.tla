------------------------------ MODULE ToolRoot ------------------------------
(* The other commands of toolchain-assets: load the locks, build a tool root *)
(* from them beside the destination and rename it there, verify a root, or    *)
(* verify a part of one.  While a root is verified other processes may edit,  *)
(* add or remove its files; while one is built they may make the destination. *)
EXTENDS HostGate

VARIABLES
    staging, dest,  \* the directory being built, and the tool root
    dirs, todo,     \* directories still to enter, entries of the one entered
    seen,           \* the paths found as the lock says, and the directories entered
    roots           \* the tool roots there have been since the verification began

rootVars == <<staging, dest, dirs, todo, seen, roots>>
vars == <<task, pc, verdict, host, was, profile, look, next, changes, faulted,
          staging, dest, dirs, todo, seen, roots>>

Lock == task.lock
Building == task.command \in {BuiltBy.all, BuiltBy.some}
Partial == task.command \in {BuiltBy.some, "verify-tool-closure"}

\* The records and source tools this command is about.
Chosen == Selected(Lock, task.requested)
FilesAmong(l, paths) == SelectSeq(l.bundle, LAMBDA r : r.path \in paths)
Records == IF Partial THEN FilesAmong(Lock, Chosen.paths) ELSE Lock.bundle
BuiltTools == IF Partial THEN {} ELSE SourceTools(Lock)
BuiltPaths == {t.executable : t \in BuiltTools}
BundledOnly == PathsIn(Records)   \* wrong: forgets what is built from source
ExpectedFiles == PathsIn(Records) \cup BuiltPaths
ExpectedDirs == {Dir(p) : p \in ExpectedFiles}
ToolsRun == IF Partial THEN {t \in ToSet(Lock.tools) : t.id \in ToSet(task.requested)} ELSE ToSet(Lock.tools)

Started ==
    /\ HostStarted
    /\ staging = Absent /\ dest = task.dest /\ roots = {}
    /\ dirs = {} /\ todo = {} /\ seen = {}
Init == task \in Tasks /\ Started

KeepRoot == UNCHANGED <<staging, dest, roots>>
KeepWalk == UNCHANGED <<dirs, todo, seen>>

\* The root being verified: the one under construction until it is renamed.
Root == IF staging.is = "absent" THEN dest ELSE staging

----------------------------------------------------------------------------
(* Loading and building                                                     *)

Dispatch(command) ==
    CASE command = "verify-host" -> "verify"
      [] command = "verify-asset-members" -> "members"
      [] command \in {"verify-external", "verify-tool-closure"} -> "open"
      [] command \in {BuiltBy.all, BuiltBy.some} -> "prepare"

\* load_locks, the platform of the host, and the command of main.
Load ==
    /\ pc = "load"
    /\ IF LoadLocks(Lock, task.hosts) # "ok" \/ Lock.platform # host.kind
          \/ (Partial /\ Chosen.verdict # "ok")
       THEN Refuse
       ELSE IF task.command = "validate" THEN Accept ELSE Goto(Dispatch(task.command))
    /\ KeepRoot /\ KeepWalk /\ UNCHANGED hostVars

\* prepare_destination.
Prepare ==
    /\ pc = "prepare"
    /\ Check(dest.is = "absent", "copy")
    /\ staging' = IF dest.is = "absent" THEN EmptyDir ELSE staging
    /\ KeepWalk /\ UNCHANGED <<dest, roots>> /\ UNCHANGED hostVars

\* member_stream and copy_exact: nothing but the locked bytes is written.
CopyMember ==
    /\ pc = "copy"
    /\ staging' = Put(staging, Records[next].path, FileOf(Records[next]))
    /\ Count(Len(Records), "copy", "place")
    /\ KeepWalk /\ UNCHANGED <<dest, roots, host, was, profile, look>>

\* materialize_source_build_tools: whatever cargo built, with mode 0555.
PlaceBuilt ==
    /\ pc = "place"
    /\ staging' = PutAll(staging, BuiltPaths, Built)
    /\ Goto("open")
    /\ KeepWalk /\ UNCHANGED <<dest, roots>> /\ UNCHANGED hostVars

\* A member or a build that is not there, or not right: the command fails.
AssetFails ==
    /\ pc \in {"copy", "place"}
    /\ pc' = "unwind" /\ verdict' = "refused" /\ faulted' = TRUE
    /\ UNCHANGED <<task, changes>> /\ UNCHANGED hostVars /\ UNCHANGED rootVars

\* os.replace puts a directory where nothing is, or an empty directory; the root
\* is then verified where it is, as the next command would.
Free(root) == root.is = "absent" \/ root = EmptyDir
Replace ==
    /\ pc = "replace"
    /\ \/ Free(dest) /\ dest' = staging /\ staging' = Absent /\ Goto("again-open")
       \/ ~Free(dest) /\ pc' = "unwind" /\ verdict' = "refused"
          /\ UNCHANGED <<task, changes, faulted, staging, dest>>
    /\ KeepWalk /\ UNCHANGED roots /\ UNCHANGED hostVars

\* The finally clause.
Unwind ==
    /\ pc = "unwind"
    /\ staging' = Absent /\ pc' = "end"
    /\ KeepWalk /\ UNCHANGED <<dest, roots, task, verdict, changes, faulted>> /\ UNCHANGED hostVars

----------------------------------------------------------------------------
(* Verifying a root                                                         *)

\* A refusal leaves a root under construction to the finally clause.
Fail ==
    /\ verdict' = "refused" /\ pc' = IF staging.is = "absent" THEN "end" ELSE "unwind"
    /\ UNCHANGED <<task, changes, faulted>>
Test(condition, p) == IF condition THEN Goto(p) ELSE Fail

\* verify_external_tree: the root itself, then its entries, in any order.
OpenRoot ==
    /\ pc \in {"open", "again-open"}
    /\ Test(Root.is = "dir", "enter")
    /\ dirs' = Root.dirs /\ todo' = {} /\ seen' = {} /\ roots' = {Root}
    /\ UNCHANGED <<staging, dest>> /\ UNCHANGED hostVars

EnterDir ==
    /\ pc = "enter" /\ todo = {}
    /\ \E d \in dirs :
         /\ Test(d \in ExpectedDirs /\ d \in Root.dirs, "enter")
         /\ dirs' = dirs \ {d}
         /\ todo' = {p \in DOMAIN Root.files : Dir(p) = d}
         /\ seen' = seen \cup {<<"dir", d>>}
    /\ KeepRoot /\ UNCHANGED hostVars

RecordFor(p) == BundleFile([bundle |-> Records], p)
AsLocked(root, p) ==
    /\ p \in DOMAIN root.files /\ root.files[p].bad = {}
    /\ IF p \in BuiltPaths THEN root.files[p].mode = "0555"
                           ELSE root.files[p] = FileOf(RecordFor(p))
VisitFile ==
    /\ pc = "enter"
    /\ \E p \in todo :
         /\ Test(p \in ExpectedFiles /\ AsLocked(Root, p), "enter")
         /\ todo' = todo \ {p} /\ seen' = seen \cup {<<"file", p>>}
    /\ KeepRoot /\ UNCHANGED dirs /\ UNCHANGED hostVars

Complete ==
    {<<"file", p>> : p \in ExpectedFiles} \cup {<<"dir", d>> : d \in ExpectedDirs}
NothingMissing == seen = Complete
TreeVerified ==
    /\ pc = "enter" /\ todo = {} /\ dirs = {}
    /\ next' = 1
    /\ Test(NothingMissing, IF Partial THEN "run" ELSE "inspector")
    /\ KeepRoot /\ KeepWalk /\ UNCHANGED <<host, was, profile, look>>

\* locked_readelf, or the otool of the first profile of the lock, whatever kind
\* that is of: the last of the profile's own tools.
InspectorProfile ==
    IF Lock.platform = "darwin" THEN Head(task.hosts.profiles)
    ELSE ProfilesOf(task.hosts, "linux")[1]
Inspector ==
    /\ pc = "inspector"
    /\ LET d == Last(InspectorProfile.own)
       IN Test(InspectorProfile.kind = Lock.platform
               /\ BytesMatch(host, [to |-> d.path, hash |-> d.hash]), "binary")
    /\ KeepRoot /\ KeepWalk /\ UNCHANGED hostVars

\* What the bytes of a file are: whether they are a program or library, its
\* install ID or its runpath, what it loads by name, and what it prints when it
\* is run.  otool lists the install ID of a library among the loads; on darwin
\* those under the system's roots are not looked at, on linux all are.
Body(p) == task.bodies[Root.files[p].hash]
LoadsShown(body) == IF Lock.platform = "darwin" THEN body.loads \cup body.name ELSE body.loads
Overlooked(f) == IF Lock.platform = "darwin" THEN f.name \cup task.system ELSE {}
NameAgrees(f, body) == (Lock.platform = "darwin" /\ f.name = {}) \/ body.name = f.name
BinaryAgrees(f) ==
    LET body == Body(f.path) IN
    IF IsDataMember(BundleFile(Lock, f.path).mode, f)
    THEN ~body.image
    ELSE /\ NameAgrees(f, body)
         /\ LoadsShown(body) \ Overlooked(f) = {e.name : e \in ToSet(f.edges)}

\* verify_external_macho_closure and verify_external_elf_closure.
BinaryClosure ==
    /\ pc = "binary"
    /\ LET f == Lock.policy.files[next]
           good == f.path \in DOMAIN Root.files /\ BinaryAgrees(f)
       IN  \/ good /\ Count(Len(Lock.policy.files), "binary", "run")
           \/ ~good /\ Fail /\ UNCHANGED next
    /\ KeepRoot /\ KeepWalk /\ UNCHANGED <<host, was, profile, look>>

\* A load is searched by name in the directory "lib" of the root, then in the
\* system; the name of a file of the bundle is its path.
Library == 1
Found(name) == name \in DOMAIN Root.files /\ Dir(name) = Library
LoadedFrom(p) == {name \in Body(p).loads : Found(name)}
Astray(p) == {name \in Body(p).loads : ~Found(name) /\ name \notin task.system}
VersionAnswers(t) ==
    t.executable \in DOMAIN Root.files /\ Body(t.executable).says = t.version
RuntimeAgrees(t) ==
    t.source = {} =>
        /\ Astray(t.executable) = {}
        /\ UNION {e.to : e \in ToSet(PolicyOf(Lock, t.executable).edges)} \subseteq LoadedFrom(t.executable)

\* verify_external's and verify_tool_closure's probes.
RunTools ==
    /\ pc = "run"
    /\ Test(\A t \in ToolsRun : VersionAnswers(t) /\ (Partial \/ RuntimeAgrees(t)),
            IF staging.is = "absent" THEN "accepted" ELSE "replace")
    /\ KeepRoot /\ KeepWalk /\ UNCHANGED hostVars
Accepted ==
    /\ pc = "accepted" /\ Accept /\ KeepRoot /\ KeepWalk /\ UNCHANGED hostVars

\* verify_asset_members: each member of one asset, whatever else is there.
MembersOf(asset) == {r \in ToSet(Lock.bundle) : r.asset = asset}
Members ==
    /\ pc = "members"
    /\ LET r == Lock.bundle[next]
           good == r \in MembersOf(task.asset) => dest.is = "dir" /\ AsLocked(dest, r.path)
       IN  \/ MembersOf(task.asset) # {} /\ good /\ Count(Len(Lock.bundle), "members", "accepted")
           \/ ~(MembersOf(task.asset) # {} /\ good) /\ Refuse /\ UNCHANGED next
    /\ roots' = roots \cup {dest}
    /\ KeepWalk /\ UNCHANGED <<staging, dest, host, was, profile, look>>

ProbeFails ==
    /\ pc \in {"binary", "run"}
    /\ verdict' = "refused" /\ pc' = (IF staging.is = "absent" THEN "end" ELSE "unwind")
    /\ faulted' = TRUE
    /\ UNCHANGED <<task, changes>> /\ UNCHANGED hostVars /\ UNCHANGED rootVars

----------------------------------------------------------------------------
(* Other processes                                                          *)

NowAt(root) ==
    /\ dest' = root /\ changes' = changes + 1
    /\ roots' = IF staging.is = "absent" /\ roots # {} THEN roots \cup {root} ELSE roots
    /\ UNCHANGED <<task, pc, verdict, faulted, staging, dirs, todo, seen>> /\ UNCHANGED hostVars

\* A file of a root that is being verified is edited, removed or added.
Meddle ==
    /\ pc \in {"enter", "inspector", "binary", "run", "members"} /\ ~Building
    /\ changes < MaxChanges /\ dest.is = "dir"
    /\ \E p \in DOMAIN dest.files \cup {13} :
         \/ p \in DOMAIN dest.files /\ NowAt([dest EXCEPT !.files[p] = Stray])
         \/ p \in DOMAIN dest.files /\ NowAt([dest EXCEPT !.files = [q \in DOMAIN @ \ {p} |-> @[q]]])
         \/ p \notin DOMAIN dest.files /\ NowAt(Put(dest, p, Stray))

\* Another process makes the destination of a root that is being built.
Rival ==
    /\ Building /\ staging.is = "dir" /\ dest.is = "absent" /\ changes < MaxChanges
    /\ \E root \in {EmptyDir, Put(EmptyDir, 1, Stray)} : NowAt(root)

\* The command is killed: its staging directory stays.
Kill ==
    /\ Building /\ pc \notin {"load", "end", "killed"}
    /\ pc' = "killed"
    /\ UNCHANGED <<task, verdict, changes, faulted>> /\ UNCHANGED hostVars /\ UNCHANGED rootVars

RootNext ==
    \/ Load \/ Prepare \/ CopyMember \/ PlaceBuilt \/ AssetFails \/ Replace \/ Unwind
    \/ OpenRoot \/ EnterDir \/ VisitFile \/ TreeVerified \/ Inspector \/ BinaryClosure
    \/ RunTools \/ Accepted \/ Members \/ ProbeFails
    \/ Meddle \/ Rival \/ Kill

Next == (HostNext /\ UNCHANGED rootVars) \/ RootNext
Spec == Init /\ [][Next]_vars

----------------------------------------------------------------------------
(* What a command is given                                                  *)

Commands == {"validate", "verify-host", "observe-host", "verify-external", "verify-tool-closure",
             "verify-asset-members", BuiltBy.all, BuiltBy.some}

\* No link of a host dangles.
IsHost(h) ==
    /\ DOMAIN h = {"kind", "platform", "roots", "node", "file", "xcode"} /\ h.kind \in Kinds
    /\ \A path \in DOMAIN h.node :
         /\ DOMAIN h.node[path] = {"type", "root", "to", "ino"}
         /\ h.node[path].ino \in Nat /\ Target(h, path) \in DOMAIN h.file
    /\ \A path \in DOMAIN h.file :
         /\ DOMAIN h.file[path] = {"hash", "root", "nlink", "mode", "ino", "exposed", "says",
                                   "works", "setuid", "loads"}
         /\ h.file[path].ino \in Nat

\* A profile with tools, all of whose pathnames exist; validate_darwin_developer
\* has it that an eligible one cannot be changed by the current user.
IsProfile(p, h) ==
    /\ p.tools \in Seq(ToSet(p.tools)) \ {<<>>} /\ p.own \in Seq(ToSet(p.own))
    /\ \A t \in ToSet(p.tools) : t.path \in DOMAIN h.node
    /\ p.kind = "darwin" /\ p.eligible => ~p.mutable
IsBlank(p) ==
    /\ DOMAIN p = {"id", "kind", "bad", "eligible", "reason", "platform", "mutable", "roots", "own",
                   "boot", "tools"}
    /\ p.kind = "linux" /\ p.tools = <<>>

TaskIsSound(t) ==
    /\ t.command \in Commands /\ IsHost(t.host) /\ t.lock.bundle \in Seq(ToSet(t.lock.bundle))
    /\ t.command = "verify-host" /\ LoadLocks(t.lock, t.hosts) = "ok" =>
         IsProfile(t.hosts.profiles[t.index], t.host)
    /\ t.command = "observe-host" =>
         IsBlank(t.blank) /\ t.paths \in Seq(DOMAIN t.host.node) \ {<<>>}
TasksAreSound == OwnIds \in Seq(Nat) /\ \A t \in Tasks : TaskIsSound(t)

----------------------------------------------------------------------------
(* Properties                                                               *)

\* load_locks accepts what the self-test of the script says it must, and a
\* lock whose loads and runtime files vary exactly when these fit together.
LockVerdicts ==
    pc = "load" =>
        LET answer == LoadLocks(Lock, task.hosts) IN
        IF task.verdicts = {"joined"} THEN answer = "ok" <=> Joined(Lock)
                                      ELSE answer \in task.verdicts

\* What a command has accepted was so at some moment while it ran: every tool
\* of the host with its link, its metadata and its bytes at once, every file of
\* a root with the locked bytes, every directory with the expected files; and
\* what is at the destination of a build is the whole root or someone else's.
DirWasSo(d) ==
    \E root \in roots : {p \in DOMAIN root.files : Dir(p) = d} = {p \in ExpectedFiles : Dir(p) = d}
RootWasSo ==
    LET files == IF task.command = "verify-asset-members" THEN {r.path : r \in MembersOf(task.asset)}
                                                          ELSE ExpectedFiles
    IN  /\ \A p \in files : \E root \in roots : AsLocked(root, p)
        /\ task.command # "verify-asset-members" => \A d \in ExpectedDirs : DirWasSo(d)
OwnWork(root) == DOMAIN root.files = ExpectedFiles /\ \A p \in ExpectedFiles : AsLocked(root, p)
AcceptedWasSo ==
    /\ HostAccepted => HostWasSo
    /\ pc = "end" /\ verdict = "ok" /\ roots # {} => RootWasSo
    /\ Building => dest \in {task.dest, EmptyDir, Put(EmptyDir, 1, Stray)} \/ OwnWork(dest)
    /\ pc = "end" => staging = Absent

\* Nothing is refused for no reason: on a host nobody changes, the profile that
\* observe-host writes is valid and verify-host accepts it; a root built from a
\* lock that tells the truth is accepted, and accepted again when verified.
Truthful ==
    /\ Joined(Lock) /\ task.verdicts = {"ok"} /\ task.dest = Absent
    /\ Partial => Chosen.verdict = "ok"
    /\ InspectorProfile.kind = Lock.platform
    /\ \A f \in ToSet(Lock.policy.files) : LET body == task.bodies[f.path] IN
         /\ body.image # IsDataMember(BundleFile(Lock, f.path).mode, f)
         /\ body.name = f.name
         /\ body.loads \ (IF Lock.platform = "darwin" THEN task.system ELSE {})
                = {e.name : e \in ToSet(f.edges)}
    /\ \A t \in ToSet(Lock.tools) : task.bodies[IF t.source = {} THEN t.executable ELSE CargoOutput].says = t.version
HonestAccepted ==
    pc = "end" /\ changes = 0 /\ ~faulted =>
        /\ task.command = "observe-host" /\ Proper(task.host) => verdict = "ok"
        /\ Building /\ Truthful => verdict = "ok"
=============================================================================
