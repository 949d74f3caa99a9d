--------------------------- MODULE ToolRoot_proofs ---------------------------
(* What a command of toolchain-assets about a host or a tool root accepts was *)
(* so while it ran (AcceptedWasSo of ToolRoot), whatever the tasks, as long as *)
(* they are sound.                                                           *)
(*                                                                           *)
(* HostInv says what verify-host knows at each step: which hosts there have   *)
(* been since it began (each no newer than the present one, and the same      *)
(* where an inode is the same), and for the tool whose turn it is, on which   *)
(* of them each thing already read was so.  RootInv says the same of a root:  *)
(* where the walk stands, and that a root under construction is nobody        *)
(* else's.                                                                   *)
EXTENDS ToolRoot, SequenceTheorems, TLAPS

----------------------------------------------------------------------------
(* The inductive invariant: hosts                                           *)

HostCommand == task.command \in {"verify-host", "observe-host"}
ToolPcs == {"node", "resolve", "file", "hash", "again"}
LaterPcs == {"bootstrap", "platform", "xcode", "own", "probe", "mutable", "replaceable", "eligible"}
ObservePcs == {"see", "sum", "see-rest", "written"}
HostPcs == {"verify"} \cup ToolPcs \cup LaterPcs \cup ObservePcs

\* h was the host once: an inode never gets smaller, and what has the same inode
\* is the same.
NotAfter(older, newer) ==
    /\ DOMAIN older = DOMAIN newer
    /\ \A path \in DOMAIN newer :
         /\ older[path].ino <= newer[path].ino
         /\ older[path].ino = newer[path].ino => older[path] = newer[path]
HostTypes ==
    /\ task \in Tasks /\ next \in Nat \ {0} /\ DOMAIN look = {"node", "file"}
    /\ host \in was /\ host.kind = task.host.kind
    /\ \A h \in was : IsHost(h) /\ NotAfter(h.node, host.node) /\ NotAfter(h.file, host.file)
    /\ DOMAIN host.node = DOMAIN task.host.node
    /\ pc = "load" => /\ host = task.host /\ profile = ProfileFor(task) /\ next = 1
                      /\ task.command # "observe-host"
    /\ pc \in HostPcs => HostCommand
    /\ pc \in ObservePcs => task.command = "observe-host"

\* What was read of the tool whose turn it is, and where it was so.
Turn == profile.tools[next]
NodeSeen(t) ==
    \E h \in was : /\ Node(h, t.path).ino = look.node
                   /\ Node(h, t.path).root /\ Node(h, t.path).type = t.node
Led(t) == \E h \in was : look.node <= Node(h, t.path).ino /\ LeadsTo(h, t)
FileSeen(t) ==
    \E h \in was : LET f == FileAt(h, t.to) IN
        f.root /\ look.file = [ino |-> f.ino, nlink |-> f.nlink, mode |-> f.mode]
Summed(t) ==
    \E h \in was : LET f == FileAt(h, t.to) IN
        /\ look.node <= Node(h, t.path).ino
        /\ f.root /\ look.file.nlink = f.nlink /\ look.file.mode = f.mode /\ BytesMatch(h, t)
TurnInv ==
    /\ pc \in {"resolve", "file", "hash", "again"} => NodeSeen(Turn)
    /\ pc \in {"file", "hash", "again"} => Led(Turn)
    /\ pc = "hash" => FileSeen(Turn)
    /\ pc = "again" => Summed(Turn)

ToolsSo == \A t \in ToSet(profile.tools) : ToolWasSo(t)
PlatformSo == \E h \in was : h.platform = profile.platform
SealedSo == profile.eligible => \E h \in was : ~h.xcode.exposed
OwnWasSo(d) == \E h \in was : FileAt(h, d.path).hash = d.hash
OwnSo == \A d \in ToSet(profile.own) : OwnWasSo(d)
GuardedSo == profile.eligible => \E h \in was : ~ToolsExposed(h, profile)

ProfileInv ==
    /\ pc \in {"verify"} \cup ToolPcs \cup LaterPcs => IsProfile(profile, host)
    /\ pc \in ToolPcs \cup LaterPcs => profile.kind = host.kind
    /\ pc \in ToolPcs => next <= Len(profile.tools)
    /\ pc \in ToolPcs => \A i \in 1..(next - 1) : ToolWasSo(profile.tools[i])
    /\ pc \in LaterPcs => ToolsSo
    /\ pc \in {"bootstrap", "platform", "xcode"} => next = 1
    /\ pc = "xcode" => profile.kind = "darwin"
    /\ pc \in {"mutable", "replaceable"} => profile.kind # "darwin"
    /\ pc \in {"xcode", "own", "probe", "mutable", "replaceable", "eligible"} => PlatformSo
    /\ pc \in {"own", "probe", "eligible"} /\ profile.kind = "darwin" => SealedSo
    /\ pc = "own" => \A i \in 1..(next - 1) : OwnWasSo(profile.own[i])
    /\ pc \in {"probe", "mutable", "replaceable", "eligible"} => OwnSo
    /\ pc = "eligible" /\ profile.kind # "darwin" => GuardedSo
    /\ HostAccepted => HostWasSo

\* The profile observe-host is writing.
ObserveInv ==
    pc \in ObservePcs =>
        /\ DOMAIN profile = {"id", "kind", "bad", "eligible", "reason", "platform", "mutable",
                             "roots", "own", "boot", "tools"}
        /\ profile.kind = "linux"
        /\ profile.tools \in Seq(ToSet(profile.tools))
        /\ \A t \in ToSet(profile.tools) : "path" \in DOMAIN t /\ t.path \in DOMAIN host.node
        /\ pc = "see" => Len(profile.tools) = next - 1 /\ next <= Len(task.paths)
        /\ pc = "sum" => Len(profile.tools) = next
        /\ pc \in {"see-rest", "written"} => profile.tools # <<>>
        /\ pc = "written" => profile.own \in Seq(ToSet(profile.own))

HostFacts == TurnInv /\ ProfileInv /\ ObserveInv
HostInv == HostTypes /\ HostFacts

----------------------------------------------------------------------------
(* The inductive invariant: roots                                           *)

MakePcs == {"copy", "place", "open", "enter", "inspector", "binary", "run", "replace", "unwind", "killed"}
RootPcs == MakePcs \cup {"prepare", "again-open", "members", "accepted"}

\* A root under construction holds the directories of its files.
Whole(root) == root.is = "dir" /\ \A p \in DOMAIN root.files : Dir(p) \in root.dirs
InDir(d, paths) == {p \in paths : Dir(p) = d}
Listed(root, d) == InDir(d, DOMAIN root.files)
FileWasSo(p) == \E root \in roots : AsLocked(root, p)

PlaceInv ==
    /\ pc \in HostPcs \cup RootPcs \cup {"load", "end"}
    /\ pc \in RootPcs => ~HostCommand
    /\ pc \in HostPcs \cup {"load"} => roots = {}
    /\ staging = Absent \/ (Building /\ DOMAIN staging = {"is", "dirs", "files"} /\ Whole(staging))
    /\ pc \notin MakePcs => staging = Absent
    /\ pc \in {"copy", "place", "replace"} => Building /\ staging.is = "dir"
    /\ pc = "prepare" => Building
    /\ Building => dest \in {task.dest, EmptyDir, Put(EmptyDir, 1, Stray)} \/ OwnWork(dest)

\* The walk: what has been seen, and what is left of the directories entered.
WalkInv ==
    pc = "enter" =>
        /\ Root \in roots /\ seen \subseteq Complete
        /\ \A p \in ExpectedFiles : <<"file", p>> \in seen => <<"dir", Dir(p)>> \in seen /\ FileWasSo(p)
        /\ \A p \in todo : <<"dir", Dir(p)>> \in seen
        /\ \A d \in ExpectedDirs : <<"dir", d>> \in seen =>
             /\ d \notin dirs
             /\ \E root \in roots :
                  Listed(root, d) = InDir(d, {p \in ExpectedFiles : <<"file", p>> \in seen} \cup todo)
        /\ staging.is = "dir" =>
             roots = {staging} /\ \A d \in staging.dirs : d \in dirs \/ <<"dir", d>> \in seen

MembersUpTo(n) == {Lock.bundle[i].path : i \in {j \in 1..n : Lock.bundle[j] \in MembersOf(task.asset)}}
VerifiedPcs == {"inspector", "binary", "run", "replace"}
TreeWasSo == (\A p \in ExpectedFiles : FileWasSo(p)) /\ \A d \in ExpectedDirs : DirWasSo(d)
VerifiedInv ==
    /\ pc \in VerifiedPcs => task.command # "verify-asset-members" /\ TreeWasSo
    /\ pc \in {"open", "again-open", "enter"} => task.command # "verify-asset-members"
    /\ pc \in VerifiedPcs /\ staging.is = "dir" => OwnWork(staging)
    /\ pc = "members" => /\ task.command = "verify-asset-members"
                         /\ \A p \in MembersUpTo(next - 1) : FileWasSo(p)
    /\ pc = "accepted" => RootWasSo
    /\ pc = "unwind" => verdict = "refused"
    /\ pc = "end" /\ verdict = "ok" /\ roots # {} => RootWasSo

RootInv == PlaceInv /\ WalkInv /\ VerifiedInv

----------------------------------------------------------------------------
(* The hosts there have been                                                *)

\* What has the inode numbers of a host: its pathnames, and its files.
Numbered(f) == \A path \in DOMAIN f : f[path].ino \in Nat

\* A host is older than itself, and older than what is newer than a newer one.
LEMMA NotAfterSelf == ASSUME NEW f, Numbered(f) PROVE NotAfter(f, f)
BY SMT DEF NotAfter, Numbered
\* NotAfter is transitive.
LEMMA NotAfterTransitive ==
  ASSUME NEW f, NEW g, NEW h, Numbered(f), Numbered(g), Numbered(h), NotAfter(f, g), NotAfter(g, h)
  PROVE  NotAfter(f, h)
BY SMT DEF NotAfter, Numbered

\* The nodes and the files of a host are numbered.
LEMMA HostNumbered == ASSUME NEW h, IsHost(h) PROVE Numbered(h.node) /\ Numbered(h.file)
BY DEF IsHost, Numbered

\* A host that is newer than the present one is newer than every earlier one.
LEMMA NewerThanAll ==
  ASSUME HostTypes, NEW new, IsHost(new), NotAfter(host.node, new.node), NotAfter(host.file, new.file),
         NEW h \in was
  PROVE  NotAfter(h.node, new.node) /\ NotAfter(h.file, new.file)
<1>1. IsHost(h) /\ IsHost(host) /\ NotAfter(h.node, host.node) /\ NotAfter(h.file, host.file)
  BY DEF HostTypes
<1> QED BY <1>1, HostNumbered, NotAfterTransitive

\* What another process makes of the host is a host, newer than the present one.
Newer(new) ==
    /\ IsHost(new) /\ new.kind = host.kind /\ DOMAIN new.node = DOMAIN host.node
    /\ NotAfter(host.node, new.node) /\ NotAfter(host.file, new.file)
\* A file the package manager replaces or edits has a later number.
LEMMA UpgradedIsNewer ==
  ASSUME IsHost(host), NEW path \in DOMAIN host.file
  PROVE  /\ Newer([host EXCEPT !.file[path].ino = @ + 1])
         /\ Newer([host EXCEPT !.file[path].ino = @ + 1, !.file[path].hash = "new",
                                !.file[path].mode = 2, !.file[path].says = 2])
<1> DEFINE a == [host EXCEPT !.file[path].ino = @ + 1]
           b == [host EXCEPT !.file[path].ino = @ + 1, !.file[path].hash = "new",
                             !.file[path].mode = 2, !.file[path].says = 2]
<1> USE DEF NotAfter
<1>1. /\ DOMAIN host = {"kind", "platform", "roots", "node", "file", "xcode"}
      /\ DOMAIN host.file[path] = {"hash", "root", "nlink", "mode", "ino", "exposed", "says",
                                   "works", "setuid", "loads"}
      /\ host.file[path].ino \in Nat
  BY DEF IsHost
<1>2. ASSUME NEW new \in {a, b} PROVE Newer(new)
  <2>1. /\ DOMAIN new = DOMAIN host /\ new.node = host.node /\ new.kind = host.kind
        /\ DOMAIN new.file = DOMAIN host.file
        /\ \A q \in DOMAIN host.file : q # path => new.file[q] = host.file[q]
        /\ DOMAIN new.file[path] = DOMAIN host.file[path]
        /\ new.file[path].ino = host.file[path].ino + 1
    <3>1. CASE new = a
      BY <1>1, <3>1
    <3>2. CASE new = b
      BY <1>1, <3>2
    <3> QED BY <1>2, <3>1, <3>2
  <2> HIDE DEF a, b
  <2>2. new.file[path].ino \in Nat
    BY <1>1, <2>1
  <2>3. \A q \in DOMAIN host.node : Target(new, q) = Target(host, q)
    BY <2>1 DEF Target
  <2>4. IsHost(new)
    BY <2>1, <2>2, <2>3 DEF IsHost
  <2>5. NotAfter(host.node, new.node)
    BY <2>1, HostNumbered, NotAfterSelf
  <2>6. NotAfter(host.file, new.file)
    BY <1>1, <2>1, HostNumbered, SMT DEF Numbered
  <2> QED BY <2>1, <2>4, <2>5, <2>6 DEF Newer
<1> QED BY <1>2
\* So has a link that is made to lead elsewhere.
LEMMA RelinkedIsNewer ==
  ASSUME IsHost(host), NEW path \in DOMAIN host.node, NEW to \in DOMAIN host.file,
         host.node[path].type = "symlink"
  PROVE  Newer([host EXCEPT !.node[path].ino = @ + 1, !.node[path].to = to])
<1> DEFINE new == [host EXCEPT !.node[path].ino = @ + 1, !.node[path].to = to]
<1> USE DEF NotAfter
<1>1. /\ DOMAIN host = {"kind", "platform", "roots", "node", "file", "xcode"}
      /\ DOMAIN host.node[path] = {"type", "root", "to", "ino"}
      /\ host.node[path].ino \in Nat
  BY DEF IsHost
<1>2. /\ DOMAIN new = DOMAIN host /\ new.file = host.file /\ new.kind = host.kind
      /\ DOMAIN new.node = DOMAIN host.node
      /\ \A q \in DOMAIN host.node : q # path => new.node[q] = host.node[q]
      /\ DOMAIN new.node[path] = DOMAIN host.node[path]
      /\ new.node[path].ino = host.node[path].ino + 1
      /\ new.node[path].type = "symlink" /\ new.node[path].to = to
  BY <1>1
<1> HIDE DEF new
<1>3. new.node[path].ino \in Nat
  BY <1>1, <1>2
<1>4. \A q \in DOMAIN host.node : Target(new, q) \in DOMAIN host.file
  BY <1>2 DEF Target, IsHost
<1>5. IsHost(new)
  BY <1>2, <1>3, <1>4 DEF IsHost
<1>6. NotAfter(host.file, new.file)
  BY <1>2, HostNumbered, NotAfterSelf
<1>7. NotAfter(host.node, new.node)
  BY <1>1, <1>2, HostNumbered, SMT DEF Numbered
<1>8. Newer(new)
  BY <1>2, <1>5, <1>6, <1>7 DEF Newer
<1> QED BY <1>8 DEF new

----------------------------------------------------------------------------
(* The steps of verify_host, in order                                       *)

\* What follows each step, on Darwin and on Linux.
LEMMA StageOf ==
  ASSUME NEW n \in Nat, NEW stages, DOMAIN stages = 1..n, NEW i \in 1..n,
         \A j \in 1..n : stages[j] = stages[i] => j = i
  PROVE  (CHOOSE j \in DOMAIN stages : stages[j] = stages[i]) = i
OBVIOUS
\* The stages of verify-host on a Mac follow each other, up to the last.
LEMMA DarwinStages ==
  ASSUME profile.kind = "darwin"
  PROVE  /\ StageAfter("bootstrap") = "platform" /\ StageAfter("platform") = "xcode"
         /\ StageAfter("xcode") = "own" /\ StageAfter("own") = "probe"
         /\ StageAfter("probe") = "eligible"
<1> DEFINE stages == <<"bootstrap", "platform", "xcode", "own", "probe", "eligible">>
<1>1. Stages(profile.kind) = stages
  BY DEF Stages
<1>2. /\ DOMAIN stages = 1..6
      /\ stages[1] = "bootstrap" /\ stages[2] = "platform" /\ stages[3] = "xcode"
      /\ stages[4] = "own" /\ stages[5] = "probe" /\ stages[6] = "eligible"
  OBVIOUS
<1> HIDE DEF stages
<1>3. \A i \in 1..5 : StageAfter(stages[i]) = stages[1 + i]
  <2> SUFFICES ASSUME NEW i \in 1..5 PROVE StageAfter(stages[i]) = stages[1 + i]
    OBVIOUS
  <2>1. i \in 1..6 /\ 6 \in Nat
    OBVIOUS
  <2>2. \A j \in 1..6 : stages[j] = stages[i] => j = i
    BY <1>2, SMT
  <2>3. (CHOOSE j \in DOMAIN stages : stages[j] = stages[i]) = i
    BY <1>2, <2>1, <2>2, StageOf
  <2> QED BY <1>1, <2>3 DEF StageAfter
<1>4. /\ StageAfter(stages[1]) = stages[2] /\ StageAfter(stages[2]) = stages[3]
      /\ StageAfter(stages[3]) = stages[4] /\ StageAfter(stages[4]) = stages[5]
      /\ StageAfter(stages[5]) = stages[6]
  BY <1>3, SMT
<1> QED BY <1>2, <1>4
\* Those on Linux likewise.
LEMMA LinuxStages ==
  ASSUME profile.kind # "darwin"
  PROVE  /\ StageAfter("bootstrap") = "platform" /\ StageAfter("platform") = "own"
         /\ StageAfter("own") = "probe" /\ StageAfter("probe") = "mutable"
         /\ StageAfter("mutable") = "replaceable" /\ StageAfter("replaceable") = "eligible"
<1> DEFINE stages == <<"bootstrap", "platform", "own", "probe", "mutable", "replaceable", "eligible">>
<1>1. Stages(profile.kind) = stages
  BY DEF Stages
<1>2. /\ DOMAIN stages = 1..7
      /\ stages[1] = "bootstrap" /\ stages[2] = "platform" /\ stages[3] = "own"
      /\ stages[4] = "probe" /\ stages[5] = "mutable" /\ stages[6] = "replaceable"
      /\ stages[7] = "eligible"
  OBVIOUS
<1> HIDE DEF stages
<1>3. \A i \in 1..6 : StageAfter(stages[i]) = stages[1 + i]
  <2> SUFFICES ASSUME NEW i \in 1..6 PROVE StageAfter(stages[i]) = stages[1 + i]
    OBVIOUS
  <2>1. i \in 1..7 /\ 7 \in Nat
    OBVIOUS
  <2>2. \A j \in 1..7 : stages[j] = stages[i] => j = i
    BY <1>2, SMT
  <2>3. (CHOOSE j \in DOMAIN stages : stages[j] = stages[i]) = i
    BY <1>2, <2>1, <2>2, StageOf
  <2> QED BY <1>1, <2>3 DEF StageAfter
<1>4. /\ StageAfter(stages[1]) = stages[2] /\ StageAfter(stages[2]) = stages[3]
      /\ StageAfter(stages[3]) = stages[4] /\ StageAfter(stages[4]) = stages[5]
      /\ StageAfter(stages[5]) = stages[6] /\ StageAfter(stages[6]) = stages[7]
  BY <1>3, SMT
<1> QED BY <1>2, <1>4

----------------------------------------------------------------------------
(* Facts that stay                                                          *)

\* What was so on some host was so, whatever comes later.
LEMMA StaysSo ==
  ASSUME profile' = profile, was \subseteq was'
  PROVE  /\ \A t : ToolWasSo(t) => ToolWasSo(t)'
         /\ \A d : OwnWasSo(d) => OwnWasSo(d)'
         /\ ToolsSo => ToolsSo'
         /\ PlatformSo => PlatformSo'
         /\ SealedSo => SealedSo'
         /\ OwnSo => OwnSo'
         /\ GuardedSo => GuardedSo'
         /\ HostWasSo => HostWasSo'
<1>1. \A t : ToolWasSo(t) => ToolWasSo(t)'
  BY DEF ToolWasSo
<1>2. \A d : OwnWasSo(d) => OwnWasSo(d)'
  BY DEF OwnWasSo
<1>3. ToolsSo => ToolsSo'
  BY <1>1 DEF ToolsSo
<1>4. PlatformSo => PlatformSo'
  BY DEF PlatformSo
<1>5. SealedSo => SealedSo'
  BY DEF SealedSo
<1>6. OwnSo => OwnSo'
  BY <1>2 DEF OwnSo
<1>7. GuardedSo => GuardedSo'
  BY DEF GuardedSo
<1>8. HostWasSo => HostWasSo'
  <2> SUFFICES ASSUME HostWasSo PROVE HostWasSo'
    OBVIOUS
  <2>1. (\A t \in ToSet(profile.tools) : ToolWasSo(t))'
    BY <1>1 DEF HostWasSo
  <2>2. (\A d \in ToSet(profile.own) : \E h \in was : FileAt(h, d.path).hash = d.hash)'
    BY DEF HostWasSo
  <2>3. (\E h \in was : h.platform = profile.platform)'
    BY DEF HostWasSo
  <2>4. (profile.eligible => \E h \in was : IF profile.kind = "linux" THEN ~ToolsExposed(h, profile)
                                                                   ELSE ~h.xcode.exposed)'
    BY DEF HostWasSo
  <2> QED BY <2>1, <2>2, <2>3, <2>4 DEF HostWasSo
<1> QED BY <1>1, <1>2, <1>3, <1>4, <1>5, <1>6, <1>7, <1>8

\* What was read of a tool was so, whatever comes later.
LEMMA StaysRead ==
  ASSUME look' = look, was \subseteq was', NEW t
  PROVE  /\ (NodeSeen(t) => NodeSeen(t)') /\ (Led(t) => Led(t)')
         /\ (FileSeen(t) => FileSeen(t)') /\ (Summed(t) => Summed(t)')
BY DEF NodeSeen, Led, FileSeen, Summed

\* A command that is not looking at a host, and has accepted none, is bound by
\* nothing.
LEMMA Elsewhere ==
  ASSUME pc' \notin HostPcs, ~HostAccepted'
  PROVE  HostFacts'
BY DEF HostFacts, TurnInv, ProfileInv, ObserveInv, HostPcs, ToolPcs, LaterPcs, ObservePcs

\* A refusal is such a step.
LEMMA Refused ==
  ASSUME pc' = "end", verdict' = "refused"
  PROVE  HostFacts'
<1>1. pc' \notin HostPcs
  BY DEF HostPcs, ToolPcs, LaterPcs, ObservePcs
<1>2. ~HostAccepted'
  BY DEF HostAccepted
<1> QED BY <1>1, <1>2, Elsewhere

----------------------------------------------------------------------------
(* verify_host                                                              *)

VerifyPcs == ToolPcs \cup LaterPcs
StillVerified == pc' \in VerifyPcs \cup {"end"} /\ next' \in Nat \ {0} /\ HostFacts'

\* Each step of verify_host in turn keeps what it knows, or ends.
LEMMA StartVerifies == ASSUME HostInv, StartVerify PROVE StillVerified
<1> USE DEF HostInv, StartVerify, Check, Goto, Refuse, StillVerified, VerifyPcs, ToolPcs, LaterPcs
<1>1. CASE profile.kind = host.kind
  <2>1. pc' = "node" /\ next' = 1 /\ IsProfile(profile, host)
    BY <1>1 DEF HostFacts, ProfileInv
  <2>2. 1 <= Len(profile.tools)
    BY <2>1, SMT DEF IsProfile
  <2>3. ProfileInv'
    BY <1>1, <2>1, <2>2, SMT DEF ProfileInv, HostAccepted
  <2>4. TurnInv' /\ ObserveInv'
    BY <2>1 DEF TurnInv, ObserveInv, ObservePcs
  <2> QED BY <2>1, <2>3, <2>4 DEF HostFacts
<1>2. CASE profile.kind # host.kind
  BY <1>2, Refused
<1> QED BY <1>1, <1>2

\* The lstat of a tool's pathname (verify_system_tool_nodes).
LEMMA ToolNodeVerifies == ASSUME HostInv, ToolNode PROVE StillVerified
<1> USE DEF HostInv, ToolNode, Check, Goto, Refuse, StillVerified, VerifyPcs, ToolPcs, LaterPcs
<1> DEFINE path == Turn.path
<1>1. CASE Node(host, path).root /\ Node(host, path).type = Turn.node
  <2>1. /\ pc' = "resolve" /\ next' = next /\ host \in was
        /\ UNCHANGED <<host, was, profile>> /\ look'.node = Node(host, path).ino
    BY <1>1 DEF Turn, HostTypes, NoLook
  <2>2. NodeSeen(Turn)'
    BY <1>1, <2>1 DEF NodeSeen, Turn
  <2>3. TurnInv' /\ ObserveInv'
    BY <2>1, <2>2 DEF TurnInv, ObserveInv, ObservePcs
  <2>4. ProfileInv'
    BY <2>1, StaysSo DEF ProfileInv, HostFacts, HostAccepted
  <2> QED BY <2>1, <2>3, <2>4 DEF HostFacts, HostTypes
<1>2. CASE ~(Node(host, path).root /\ Node(host, path).type = Turn.node)
  BY <1>2, Refused DEF Turn, HostTypes
<1> QED BY <1>1, <1>2

\* It is the turn of a tool of the profile.
LEMMA TurnIsTool ==
  ASSUME HostInv, pc \in ToolPcs
  PROVE  Turn \in ToSet(profile.tools) /\ IsProfile(profile, host)
<1>1. IsProfile(profile, host) /\ next <= Len(profile.tools) /\ next \in Nat \ {0}
  BY DEF HostInv, HostFacts, ProfileInv, HostTypes
<1>2. profile.tools \in Seq(ToSet(profile.tools))
  BY <1>1 DEF IsProfile
<1>3. next \in DOMAIN profile.tools
  BY <1>1, <1>2, SMT
<1> QED BY <1>1, <1>3 DEF Turn, ToSet

\* Where the pathname leads.
LEMMA ToolResolvedVerifies == ASSUME HostInv, ToolResolved PROVE StillVerified
<1> USE DEF HostInv, ToolResolved, Check, Goto, Refuse, Keep, StillVerified, VerifyPcs, ToolPcs, LaterPcs
<1>1. CASE LeadsTo(host, Turn)
  <2>1. /\ pc' = "file" /\ next' = next /\ host \in was /\ UNCHANGED <<host, was, profile, look>>
    BY <1>1 DEF Turn, HostTypes
  <2>2. NodeSeen(Turn)
    BY DEF HostFacts, TurnInv
  <2>3. Led(Turn)
    <3>1. PICK h \in was : Node(h, Turn.path).ino = look.node
      BY <2>2 DEF NodeSeen
    <3>2. Turn.path \in DOMAIN host.node
      BY TurnIsTool DEF IsProfile
    <3>3. Node(h, Turn.path).ino <= Node(host, Turn.path).ino
      BY <3>2 DEF HostTypes, NotAfter, Node
    <3> QED BY <1>1, <2>1, <3>1, <3>3 DEF Led
  <2>4. NodeSeen(Turn)' /\ Led(Turn)'
    BY <2>1, <2>2, <2>3 DEF NodeSeen, Led, Turn
  <2>5. TurnInv' /\ ObserveInv'
    BY <2>1, <2>4 DEF TurnInv, ObserveInv, ObservePcs
  <2>6. ProfileInv'
    BY <2>1, StaysSo DEF ProfileInv, HostFacts, HostAccepted
  <2> QED BY <2>1, <2>5, <2>6 DEF HostFacts, HostTypes
<1>2. CASE ~LeadsTo(host, Turn)
  BY <1>2, Refused DEF Turn, HostTypes
<1> QED BY <1>1, <1>2

\* The metadata of the file it leads to.
LEMMA ToolFileVerifies == ASSUME HostInv, ToolFile PROVE StillVerified
<1> USE DEF HostInv, ToolFile, Check, Goto, Refuse, StillVerified, VerifyPcs, ToolPcs, LaterPcs
<1> DEFINE f == FileAt(host, Turn.to)
<1>1. CASE f.root
  <2>1. /\ pc' = "hash" /\ next' = next /\ host \in was /\ UNCHANGED <<host, was, profile>>
        /\ look'.node = look.node /\ look'.file = [ino |-> f.ino, nlink |-> f.nlink, mode |-> f.mode]
    BY <1>1 DEF Turn, HostTypes
  <2>2. NodeSeen(Turn)' /\ Led(Turn)'
    BY <2>1 DEF HostFacts, TurnInv, NodeSeen, Led, Turn
  <2>3. FileSeen(Turn)'
    BY <1>1, <2>1 DEF FileSeen, Turn
  <2>4. TurnInv' /\ ObserveInv'
    BY <2>1, <2>2, <2>3 DEF TurnInv, ObserveInv, ObservePcs
  <2>5. ProfileInv'
    BY <2>1, StaysSo DEF ProfileInv, HostFacts, HostAccepted
  <2> QED BY <2>1, <2>4, <2>5 DEF HostFacts, HostTypes
<1>2. CASE ~f.root
  BY <1>2, Refused DEF Turn, HostTypes
<1> QED BY <1>1, <1>2

\* The pathname of the tool whose turn it is, and the file it leads to, exist.
LEMMA TurnExists ==
  ASSUME HostInv, pc \in ToolPcs
  PROVE  Turn.path \in DOMAIN host.node /\ (pc # "node" /\ pc # "resolve" => Turn.to \in DOMAIN host.file)
<1>1. Turn.path \in DOMAIN host.node
  BY TurnIsTool DEF IsProfile
<1>2. ASSUME pc # "node", pc # "resolve" PROVE Turn.to \in DOMAIN host.file
  <2>1. PICK h \in was : LeadsTo(h, Turn)
    BY <1>2 DEF HostInv, HostFacts, TurnInv, Led, ToolPcs
  <2>2. IsHost(h) /\ DOMAIN h.node = DOMAIN host.node /\ DOMAIN h.file = DOMAIN host.file
    BY DEF HostInv, HostTypes, NotAfter
  <2> QED BY <1>1, <2>1, <2>2 DEF LeadsTo, IsHost
<1> QED BY <1>1, <1>2

\* What is still the inode that was read is what was read.
LEMMA InodesAgree ==
  ASSUME HostTypes, NEW h \in was
  PROVE  /\ \A path \in DOMAIN host.node :
              /\ h.node[path].ino \in Nat /\ host.node[path].ino \in Nat
              /\ h.node[path].ino <= host.node[path].ino
              /\ h.node[path].ino = host.node[path].ino => h.node[path] = host.node[path]
         /\ \A path \in DOMAIN host.file :
              h.file[path].ino = host.file[path].ino => h.file[path] = host.file[path]
BY DEF HostTypes, IsHost, NotAfter

\* The bytes of that file.
LEMMA ToolHashVerifies == ASSUME HostInv, ToolHash PROVE StillVerified
<1> USE DEF HostInv, ToolHash, Check, Goto, Refuse, Keep, StillVerified, VerifyPcs, ToolPcs, LaterPcs
<1>1. CASE SameFile(host, Turn.to) /\ BytesMatch(host, Turn)
  <2>1. /\ pc' = "again" /\ next' = next /\ host \in was /\ UNCHANGED <<host, was, profile, look>>
    BY <1>1 DEF Turn, HostTypes
  <2>2. NodeSeen(Turn) /\ Led(Turn) /\ FileSeen(Turn)
    BY DEF HostFacts, TurnInv
  <2>3. Turn.path \in DOMAIN host.node /\ Turn.to \in DOMAIN host.file
    BY TurnExists
  <2>4. Summed(Turn)
    <3>1. PICK h \in was : FileAt(h, Turn.to).root
                           /\ look.file = [ino |-> FileAt(h, Turn.to).ino, nlink |-> FileAt(h, Turn.to).nlink,
                                           mode |-> FileAt(h, Turn.to).mode]
      BY <2>2 DEF FileSeen
    <3>2. FileAt(h, Turn.to) = FileAt(host, Turn.to)
      BY <1>1, <2>3, <3>1, InodesAgree DEF SameFile, FileAt
    <3>3. PICK g \in was : Node(g, Turn.path).ino = look.node
      BY <2>2 DEF NodeSeen
    <3>4. look.node <= Node(host, Turn.path).ino
      BY <2>3, <3>3, InodesAgree DEF Node
    <3> QED BY <1>1, <2>1, <3>1, <3>2, <3>4 DEF Summed
  <2>5. NodeSeen(Turn)' /\ Led(Turn)' /\ Summed(Turn)'
    BY <2>1, <2>2, <2>4 DEF NodeSeen, Led, Summed, Turn
  <2>6. TurnInv' /\ ObserveInv'
    BY <2>1, <2>5 DEF TurnInv, ObserveInv, ObservePcs
  <2>7. ProfileInv'
    BY <2>1, StaysSo DEF ProfileInv, HostFacts, HostAccepted
  <2> QED BY <2>1, <2>6, <2>7 DEF HostFacts, HostTypes
<1>2. CASE ~(SameFile(host, Turn.to) /\ BytesMatch(host, Turn))
  BY <1>2, Refused DEF Turn, HostTypes
<1> QED BY <1>1, <1>2

\* The second look at the pathname: everything read of the tool was so at once.
LEMMA SeenAgain ==
  ASSUME HostInv, pc = "again", look.file.nlink = Turn.nlink, look.file.mode = Turn.mode, SameNode(Turn)
  PROVE  ToolWasSo(Turn)
<1>1. NodeSeen(Turn) /\ Led(Turn) /\ Summed(Turn)
  BY DEF HostInv, HostFacts, TurnInv
<1>2. Turn.path \in DOMAIN host.node
  BY TurnExists DEF ToolPcs
<1>3. PICK a \in was : Node(a, Turn.path).ino = look.node
                       /\ Node(a, Turn.path).root /\ Node(a, Turn.path).type = Turn.node
  BY <1>1 DEF NodeSeen
<1>4. PICK b \in was : look.node <= Node(b, Turn.path).ino /\ LeadsTo(b, Turn)
  BY <1>1 DEF Led
<1>5. PICK c \in was : /\ look.node <= Node(c, Turn.path).ino
                       /\ FileAt(c, Turn.to).root /\ look.file.nlink = FileAt(c, Turn.to).nlink
                       /\ look.file.mode = FileAt(c, Turn.to).mode /\ BytesMatch(c, Turn)
  BY <1>1 DEF Summed
<1>6. look.node = Node(host, Turn.path).ino
  BY DEF SameNode
<1>7. HostTypes
  BY DEF HostInv
<1>8. Node(a, Turn.path) = Node(host, Turn.path)
  BY <1>2, <1>3, <1>6, <1>7, InodesAgree DEF Node
<1>9. Node(b, Turn.path) = Node(host, Turn.path)
  <2> DEFINE m == b.node[Turn.path].ino
             n == host.node[Turn.path].ino
  <2>1. /\ m \in Nat /\ n \in Nat /\ m <= n
        /\ m = n => b.node[Turn.path] = host.node[Turn.path]
    BY <1>2, <1>7, InodesAgree
  <2>2. n <= m
    BY <1>4, <1>6 DEF Node
  <2> HIDE DEF m, n
  <2>3. m = n
    BY <2>1, <2>2, SMT
  <2> QED BY <2>1, <2>3 DEF Node
<1>10. Node(c, Turn.path) = Node(host, Turn.path)
  <2> DEFINE m == c.node[Turn.path].ino
             n == host.node[Turn.path].ino
  <2>1. /\ m \in Nat /\ n \in Nat /\ m <= n
        /\ m = n => c.node[Turn.path] = host.node[Turn.path]
    BY <1>2, <1>7, InodesAgree
  <2>2. n <= m
    BY <1>5, <1>6 DEF Node
  <2> HIDE DEF m, n
  <2>3. m = n
    BY <2>1, <2>2, SMT
  <2> QED BY <2>1, <2>3 DEF Node
<1>11. NodeMatches(c, Turn)
  BY <1>3, <1>4, <1>8, <1>9, <1>10 DEF NodeMatches, LeadsTo, Target, Node
<1>12. MetadataMatches(c, Turn)
  BY <1>5 DEF MetadataMatches
<1> QED BY <1>5, <1>11, <1>12 DEF ToolWasSo

\* The second lstat, which shows that nothing has moved since the first: the
\* link, the metadata and the bytes were the profile's at one moment.
LEMMA ToolAgainVerifies == ASSUME HostInv, ToolAgain PROVE StillVerified
<1> USE DEF HostInv, ToolAgain, Keep, StillVerified, VerifyPcs, ToolPcs, LaterPcs
<1> DEFINE good == look.file.nlink = Turn.nlink /\ look.file.mode = Turn.mode /\ SameNode(Turn)
<1>1. ASSUME ~good, Refuse, UNCHANGED next PROVE StillVerified
  BY <1>1, Refused DEF HostTypes, Refuse
<1>2. ASSUME good, Count(Len(profile.tools), "node", "bootstrap") PROVE StillVerified
  <2>1. ToolWasSo(Turn)
    BY <1>2, SeenAgain
  <2>2. /\ IsProfile(profile, host) /\ profile.kind = host.kind /\ next <= Len(profile.tools)
        /\ next \in Nat \ {0} /\ UNCHANGED <<host, was, profile, look, task, verdict>>
        /\ \A i \in 1..(next - 1) : ToolWasSo(profile.tools[i])
    BY <1>2 DEF HostFacts, ProfileInv, HostTypes, Count, Goto
  <2>3. \A i \in 1..next : ToolWasSo(profile.tools[i])
    BY <2>1, <2>2, SMT DEF Turn
  <2>4. Len(profile.tools) \in Nat /\ DOMAIN profile.tools = 1..Len(profile.tools)
    BY <2>2, SMT DEF IsProfile
  <2>5. CASE next < Len(profile.tools)
    <3>1. pc' = "node" /\ next' = next + 1
      BY <1>2, <2>5 DEF Count, Goto
    <3>2. \A i \in 1..(next' - 1) : ToolWasSo(profile.tools[i])'
      BY <2>2, <2>3, <3>1, StaysSo, SMT
    <3>3. ProfileInv'
      BY <2>2, <2>4, <2>5, <3>1, <3>2, SMT DEF ProfileInv, HostAccepted
    <3> QED BY <2>2, <3>1, <3>3, SMT DEF HostFacts, TurnInv, ObserveInv, ObservePcs
  <2>6. CASE ~(next < Len(profile.tools))
    <3>1. pc' = "bootstrap" /\ next' = 1
      BY <1>2, <2>6 DEF Count, Goto
    <3>2. ToolsSo
      BY <2>2, <2>3, <2>4, <2>6, SMT DEF ToolsSo, ToSet
    <3>3. ProfileInv'
      BY <2>2, <3>1, <3>2, StaysSo DEF ProfileInv, HostAccepted
    <3> QED BY <2>2, <3>1, <3>3 DEF HostFacts, TurnInv, ObserveInv, ObservePcs
  <2> QED BY <2>5, <2>6
<1> QED BY <1>1, <1>2 DEF Turn

\* After the tools have been verified no tool is being read.
LEMMA NoTurn == ASSUME pc' \in LaterPcs PROVE TurnInv' /\ ObserveInv'
BY DEF LaterPcs, TurnInv, ObserveInv, ObservePcs

\* What holds at each of the later steps, and is not disturbed by them.
LEMMA LaterFacts ==
  ASSUME HostInv, pc \in LaterPcs
  PROVE  /\ IsProfile(profile, host) /\ profile.kind = host.kind /\ ToolsSo
         /\ host.kind \in Kinds /\ host \in was /\ next \in Nat \ {0}
         /\ pc = "xcode" => profile.kind = "darwin"
         /\ pc \in {"mutable", "replaceable"} => profile.kind # "darwin"
BY DEF HostInv, HostFacts, ProfileInv, HostTypes, IsHost

\* The digest the first tool must compute.
LEMMA BootstrapVerifies == ASSUME HostInv, Bootstrap PROVE StillVerified
<1> USE DEF HostInv, Bootstrap, Check, Goto, Refuse, Keep, StillVerified, VerifyPcs
<1>1. ASSUME pc' = StageAfter("bootstrap"), UNCHANGED <<task, verdict, changes, faulted>> PROVE StillVerified
  <2>1. pc' = "platform" /\ pc' \in LaterPcs /\ pc \in LaterPcs
    BY <1>1, DarwinStages, LinuxStages DEF LaterPcs
  <2>2. next = 1
    BY DEF HostFacts, ProfileInv
  <2>3. ProfileInv'
    BY <2>1, <2>2, LaterFacts, StaysSo DEF ProfileInv, ToolPcs, HostAccepted
  <2> QED BY <2>1, <2>3, NoTurn, LaterFacts DEF HostFacts
<1> QED BY <1>1, Refused DEF HostTypes

\* The facts about the platform.
LEMMA PlatformVerifies == ASSUME HostInv, Platform PROVE StillVerified
<1> USE DEF HostInv, Platform, Check, Goto, Refuse, Keep, StillVerified, VerifyPcs
<1>1. ASSUME host.platform = profile.platform, pc' = StageAfter("platform"),
             UNCHANGED <<task, verdict, changes, faulted>>
      PROVE  StillVerified
  <2>1. /\ pc' = (IF profile.kind = "darwin" THEN "xcode" ELSE "own")
        /\ pc' \in LaterPcs /\ pc \in LaterPcs
    BY <1>1, DarwinStages, LinuxStages DEF LaterPcs
  <2>2. next = 1
    BY DEF HostFacts, ProfileInv
  <2>3. PlatformSo'
    BY <1>1, <2>1, LaterFacts DEF PlatformSo
  <2>4. ProfileInv'
    BY <2>1, <2>2, <2>3, LaterFacts, StaysSo, SMT DEF ProfileInv, ToolPcs, HostAccepted
  <2> QED BY <2>1, <2>4, NoTurn, LaterFacts DEF HostFacts
<1> QED BY <1>1, Refused DEF HostTypes

\* Xcode, which only a Mac has.
LEMMA XcodeVerifies == ASSUME HostInv, Xcode PROVE StillVerified
<1> USE DEF HostInv, Xcode, Check, Goto, Refuse, Keep, StillVerified, VerifyPcs
<1>1. ASSUME host.xcode.exposed = profile.mutable, pc' = StageAfter("xcode"),
             UNCHANGED <<task, verdict, changes, faulted>>
      PROVE  StillVerified
  <2>1. pc \in LaterPcs /\ profile.kind = "darwin"
    BY LaterFacts DEF LaterPcs
  <2>2. pc' = "own" /\ pc' \in LaterPcs
    BY <1>1, <2>1, DarwinStages DEF LaterPcs
  <2>3. next = 1 /\ PlatformSo
    BY DEF HostFacts, ProfileInv
  <2>4. SealedSo'
    BY <1>1, <2>1, LaterFacts DEF SealedSo, IsProfile
  <2>5. ProfileInv'
    BY <2>1, <2>2, <2>3, <2>4, LaterFacts, StaysSo, SMT DEF ProfileInv, ToolPcs, HostAccepted
  <2> QED BY <2>2, <2>3, <2>5, NoTurn DEF HostFacts
<1> QED BY <1>1, Refused DEF HostTypes

\* A tool of the distribution.
LEMMA OwnToolVerifies == ASSUME HostInv, OwnTool PROVE StillVerified
<1> USE DEF HostInv, OwnTool, Keep, StillVerified, VerifyPcs
<1> DEFINE d == profile.own[next]
<1>1. ASSUME Refuse, UNCHANGED next PROVE StillVerified
  BY <1>1, Refused DEF HostTypes, Refuse
<1>2. ASSUME BytesMatch(host, [to |-> d.path, hash |-> d.hash]),
             Count(Len(profile.own), "own", StageAfter("own"))
      PROVE  StillVerified
  <2>1. pc \in LaterPcs /\ UNCHANGED <<host, was, profile, look, task, verdict>>
    BY <1>2 DEF LaterPcs, Count, Goto
  <2>2. /\ Len(profile.own) \in Nat /\ DOMAIN profile.own = 1..Len(profile.own)
        /\ next \in Nat \ {0} /\ PlatformSo /\ (profile.kind = "darwin" => SealedSo)
        /\ \A i \in 1..(next - 1) : OwnWasSo(profile.own[i])
    BY <2>1, LaterFacts, SMT DEF IsProfile, HostFacts, ProfileInv
  <2>3. OwnWasSo(d)
    BY <1>2, <2>1, LaterFacts DEF BytesMatch, FileAt, OwnWasSo
  <2>4. \A i \in 1..next : OwnWasSo(profile.own[i])
    BY <2>2, <2>3, SMT
  <2>5. CASE next < Len(profile.own)
    <3>1. pc' = "own" /\ next' = next + 1 /\ pc' \in LaterPcs
      BY <1>2, <2>5 DEF Count, Goto, LaterPcs
    <3>2. (\A i \in 1..(next - 1) : OwnWasSo(profile.own[i]))'
      BY <2>1, <2>2, <2>4, <3>1, StaysSo, SMT
    <3>3. ProfileInv'
      BY <2>1, <2>2, <3>1, <3>2, LaterFacts, StaysSo, SMT DEF ProfileInv, ToolPcs, HostAccepted
    <3> QED BY <2>2, <3>1, <3>3, NoTurn, SMT DEF HostFacts
  <2>6. CASE ~(next < Len(profile.own))
    <3>1. pc' = "probe" /\ next' = 1 /\ pc' \in LaterPcs
      BY <1>2, <2>6, DarwinStages, LinuxStages DEF Count, Goto, LaterPcs
    <3>2. OwnSo
      BY <2>2, <2>4, <2>6, SMT DEF OwnSo, ToSet
    <3>3. ProfileInv'
      BY <2>1, <2>2, <3>1, <3>2, LaterFacts, StaysSo, SMT DEF ProfileInv, ToolPcs, HostAccepted
    <3> QED BY <3>1, <3>3, NoTurn DEF HostFacts
  <2> QED BY <2>5, <2>6
<1> QED BY <1>1, <1>2

\* The version such a tool answers.
LEMMA OwnProbeVerifies == ASSUME HostInv, OwnProbe PROVE StillVerified
<1> USE DEF HostInv, OwnProbe, Keep, StillVerified, VerifyPcs
<1>1. ASSUME Refuse, UNCHANGED next PROVE StillVerified
  BY <1>1, Refused DEF HostTypes, Refuse
<1>2. ASSUME Count(Len(profile.own), "probe", StageAfter("probe")) PROVE StillVerified
  <2>1. /\ pc \in LaterPcs /\ UNCHANGED <<host, was, profile, look, task, verdict>>
        /\ next' \in Nat \ {0}
    BY <1>2, SMT DEF LaterPcs, Count, Goto, HostTypes
  <2>2. PlatformSo /\ OwnSo /\ (profile.kind = "darwin" => SealedSo)
    BY DEF HostFacts, ProfileInv
  <2>3. /\ pc' \in {"probe", IF profile.kind = "darwin" THEN "eligible" ELSE "mutable"}
        /\ pc' \in LaterPcs
    BY <1>2, DarwinStages, LinuxStages DEF Count, Goto, LaterPcs
  <2>4. /\ ToolsSo' /\ PlatformSo' /\ OwnSo' /\ (profile.kind = "darwin" => SealedSo')
        /\ IsProfile(profile, host) /\ profile.kind = host.kind
    BY <2>1, <2>2, LaterFacts, StaysSo
  <2>5. CASE profile.kind = "darwin"
    <3>1. pc' \in {"probe", "eligible"}
      BY <2>3, <2>5
    <3> QED BY <2>1, <2>3, <2>4, <2>5, <3>1, NoTurn DEF HostFacts, ProfileInv, ToolPcs, HostAccepted
  <2>6. CASE profile.kind # "darwin"
    <3>1. pc' \in {"probe", "mutable"}
      BY <2>3, <2>6
    <3> QED BY <2>1, <2>3, <2>4, <2>6, <3>1, NoTurn DEF HostFacts, ProfileInv, ToolPcs, HostAccepted
  <2> QED BY <2>5, <2>6
<1> QED BY <1>1, <1>2

\* Whether anything is writable by the user.
LEMMA MutableVerifies == ASSUME HostInv, Mutable PROVE StillVerified
<1> USE DEF HostInv, Mutable, Check, Goto, Refuse, Keep, StillVerified, VerifyPcs
<1>1. ASSUME pc' = StageAfter("mutable"), UNCHANGED <<task, verdict, changes, faulted>> PROVE StillVerified
  <2>1. pc \in LaterPcs /\ profile.kind # "darwin" /\ PlatformSo /\ OwnSo
    BY DEF LaterPcs, HostFacts, ProfileInv
  <2>2. pc' = "replaceable" /\ pc' \in LaterPcs
    BY <1>1, <2>1, LinuxStages DEF LaterPcs
  <2>3. ProfileInv'
    BY <2>1, <2>2, LaterFacts, StaysSo, SMT DEF ProfileInv, ToolPcs, HostAccepted
  <2> QED BY <2>1, <2>2, <2>3, NoTurn, LaterFacts DEF HostFacts
<1> QED BY <1>1, Refused DEF HostTypes

\* Whether a tool of an eligible host is.
LEMMA ReplaceableVerifies == ASSUME HostInv, Replaceable PROVE StillVerified
<1> USE DEF HostInv, Replaceable, Check, Goto, Refuse, Keep, StillVerified, VerifyPcs
<1>1. ASSUME profile.eligible => ~ToolsExposed(host, profile), pc' = StageAfter("replaceable"),
             UNCHANGED <<task, verdict, changes, faulted>>
      PROVE  StillVerified
  <2>1. pc \in LaterPcs /\ profile.kind # "darwin" /\ PlatformSo /\ OwnSo
    BY DEF LaterPcs, HostFacts, ProfileInv
  <2>2. pc' = "eligible" /\ pc' \in LaterPcs
    BY <1>1, <2>1, LinuxStages DEF LaterPcs
  <2>3. GuardedSo
    BY <1>1, <2>1, LaterFacts DEF GuardedSo
  <2>4. ProfileInv'
    BY <2>1, <2>2, <2>3, LaterFacts, StaysSo, SMT DEF ProfileInv, ToolPcs, HostAccepted
  <2> QED BY <2>1, <2>2, <2>4, NoTurn, LaterFacts DEF HostFacts
<1> QED BY <1>1, Refused DEF HostTypes

\* The last stage, which accepts or refuses.
LEMMA RequireEligibleVerifies == ASSUME HostInv, RequireEligible PROVE StillVerified
<1> USE DEF HostInv, RequireEligible, Refuse, Accept, Keep, StillVerified, VerifyPcs
<1>1. pc \in LaterPcs /\ UNCHANGED <<host, was, profile, look, next>> /\ pc' = "end"
  BY DEF LaterPcs
<1>2. /\ ToolsSo /\ PlatformSo /\ OwnSo
      /\ profile.kind = "darwin" => SealedSo
      /\ profile.kind # "darwin" => GuardedSo
  BY <1>1, LaterFacts DEF HostFacts, ProfileInv
<1>3. profile.kind \in {"darwin", "linux"}
  BY <1>1, LaterFacts DEF Kinds
<1>4. HostWasSo
  BY <1>2, <1>3 DEF HostWasSo, ToolsSo, PlatformSo, OwnSo, OwnWasSo, SealedSo, GuardedSo
<1>5. HostWasSo'
  BY <1>1, <1>4, StaysSo
<1> QED BY <1>1, <1>5, LaterFacts DEF HostFacts, TurnInv, ProfileInv, ObserveInv, ToolPcs, LaterPcs, ObservePcs

\* Every step of verify_host keeps what it knows.
LEMMA VerifyVerifies == ASSUME HostInv, Verify PROVE StillVerified
BY StartVerifies, ToolNodeVerifies, ToolResolvedVerifies, ToolFileVerifies, ToolHashVerifies,
   ToolAgainVerifies, BootstrapVerifies, PlatformVerifies, XcodeVerifies, OwnToolVerifies,
   OwnProbeVerifies, MutableVerifies, ReplaceableVerifies, RequireEligibleVerifies
   DEF Verify

----------------------------------------------------------------------------
(* observe_host_linux                                                       *)

\* A list with one more record, and a list with one record changed.
LEMMA Appended ==
  ASSUME NEW s, s \in Seq(ToSet(s)), NEW e
  PROVE  /\ Append(s, e) \in Seq(ToSet(Append(s, e))) /\ Len(Append(s, e)) = Len(s) + 1
         /\ ToSet(Append(s, e)) = ToSet(s) \cup {e} /\ Append(s, e) # <<>>
<1> DEFINE T == ToSet(s) \cup {e}
           a == Append(s, e)
<1>1. s \in Seq(T) /\ e \in T /\ Len(s) \in Nat /\ DOMAIN s = 1..Len(s)
  BY SMT DEF ToSet
<1>2. /\ a \in Seq(T) /\ Len(a) = Len(s) + 1
      /\ \A i \in 1..Len(s) : a[i] = s[i]
      /\ a[Len(s) + 1] = e
  BY <1>1, AppendProperties
<1>3. DOMAIN a = 1..(Len(s) + 1)
  BY <1>1, <1>2, SMT
<1> HIDE DEF a
<1>4. ToSet(a) = ToSet(s) \cup {e}
  BY <1>1, <1>2, <1>3, SMT DEF ToSet
<1>5. a \in Seq(ToSet(a)) /\ a # <<>>
  BY <1>1, <1>2, <1>4, SMT
<1> QED BY <1>2, <1>4, <1>5 DEF a
\* A sequence with one element replaced.
LEMMA Replaced ==
  ASSUME NEW s, s \in Seq(ToSet(s)), NEW k \in DOMAIN s, NEW e
  PROVE  LET r == [s EXCEPT ![k] = e] IN
         /\ r \in Seq(ToSet(r)) /\ Len(r) = Len(s) /\ ToSet(r) \subseteq ToSet(s) \cup {e}
<1> DEFINE r == [s EXCEPT ![k] = e]
<1>1. Len(s) \in Nat /\ DOMAIN s = 1..Len(s)
  BY SMT
<1>2. DOMAIN r = 1..Len(s) /\ \A i \in 1..Len(s) : r[i] = IF i = k THEN e ELSE s[i]
  BY <1>1
<1>3. r = [i \in 1..Len(s) |-> r[i]]
  BY <1>1
<1> HIDE DEF r
<1>4. ToSet(r) \subseteq ToSet(s) \cup {e}
  BY <1>1, <1>2, SMT DEF ToSet
<1>5. r \in [1..Len(s) -> ToSet(r)]
  BY <1>2, <1>3, SMT DEF ToSet
<1>6. r \in Seq(ToSet(r)) /\ Len(r) = Len(s)
  BY <1>1, <1>5, SMT
<1> QED BY <1>4, <1>6 DEF r

ProfileFields == {"id", "kind", "bad", "eligible", "reason", "platform", "mutable", "roots", "own",
                  "boot", "tools"}
StillObserved == pc' \in ObservePcs \cup {"verify", "end"} /\ next' \in Nat \ {0} /\ HostFacts'

\* While a profile is written only that is known of it.
LEMMA OnlyObserved == ASSUME pc' \in ObservePcs, ObserveInv' PROVE HostFacts'
<1>1. TurnInv' /\ ProfileInv'
  BY DEF TurnInv, ProfileInv, ObservePcs, ToolPcs, LaterPcs, HostAccepted
<1> QED BY <1>1 DEF HostFacts

\* The pathnames observe-host looks at exist.
LEMMA PathsExist ==
  ASSUME TasksAreSound, HostTypes, pc \in ObservePcs
  PROVE  /\ Len(task.paths) \in Nat \ {0} /\ DOMAIN task.paths = 1..Len(task.paths)
         /\ \A i \in 1..Len(task.paths) : task.paths[i] \in DOMAIN host.node
<1>1. task.paths \in Seq(DOMAIN task.host.node) \ {<<>>}
  BY DEF TasksAreSound, TaskIsSound, HostTypes
<1>2. DOMAIN host.node = DOMAIN task.host.node
  BY DEF HostTypes
<1> QED BY <1>1, <1>2, SMT

\* A tool's node and metadata are noted (observe_linux_system_tool).
LEMMA SeeToolObserves == ASSUME TasksAreSound, HostInv, SeeTool PROVE StillObserved
<1> USE DEF HostInv, SeeTool, Check, Goto, Refuse, StillObserved
<1>1. ASSUME pc' = "sum" PROVE StillObserved
  <2> DEFINE path == task.paths[next]
             n == Node(host, path)
             to == Target(host, path)
             f == FileAt(host, to)
             record == [id |-> next, path |-> path, node |-> n.type, to |-> to, hash |-> "none",
                        link |-> IF n.type = "symlink" THEN {n.to} ELSE {}, nlink |-> f.nlink,
                        mode |-> f.mode, bad |-> IF f.setuid THEN {"mode"} ELSE {}]
  <2>1. /\ DOMAIN profile = ProfileFields /\ profile.kind = "linux"
        /\ profile.tools \in Seq(ToSet(profile.tools)) /\ Len(profile.tools) = next - 1
        /\ \A t \in ToSet(profile.tools) : "path" \in DOMAIN t /\ t.path \in DOMAIN host.node
        /\ next \in Nat \ {0} /\ next <= Len(task.paths)
    BY DEF HostFacts, ObserveInv, ObservePcs, ProfileFields, HostTypes
  <2>2. /\ profile' = [profile EXCEPT !.tools = Append(@, record)]
        /\ UNCHANGED <<host, was, look, next, task>>
    BY <1>1
  <2>3. "path" \in DOMAIN record /\ record.path = path
    OBVIOUS
  <2>4. path \in DOMAIN host.node
    BY <2>1, PathsExist, SMT DEF ObservePcs
  <2> HIDE DEF record
  <2>5. /\ DOMAIN profile' = ProfileFields /\ profile'.kind = profile.kind
        /\ profile'.tools = Append(profile.tools, record)
    BY <2>1, <2>2 DEF ProfileFields
  <2>6. /\ profile'.tools \in Seq(ToSet(profile'.tools)) /\ Len(profile'.tools) = next
        /\ ToSet(profile'.tools) = ToSet(profile.tools) \cup {record}
    <3> DEFINE a == Append(profile.tools, record)
    <3>1. /\ a \in Seq(ToSet(a)) /\ Len(a) = Len(profile.tools) + 1
          /\ ToSet(a) = ToSet(profile.tools) \cup {record}
      BY <2>1, Appended
    <3>2. profile'.tools = a
      BY <2>5
    <3> HIDE DEF a
    <3>3. Len(a) = next
      BY <2>1, <3>1, SMT
    <3> QED BY <3>1, <3>2, <3>3
  <2>7. ObserveInv'
    BY <1>1, <2>1, <2>2, <2>3, <2>4, <2>5, <2>6 DEF ObserveInv, ProfileFields
  <2> QED BY <1>1, <2>1, <2>2, <2>7, OnlyObserved DEF ObservePcs
<1> QED BY <1>1, Refused DEF HostTypes

\* Its bytes are hashed later, when they may be those of a newer file.
LEMMA SumToolObserves == ASSUME TasksAreSound, HostInv, SumTool PROVE StillObserved
<1> USE DEF HostInv, SumTool, StillObserved
<1> DEFINE x == FileAt(host, profile.tools[next].to).hash
           record == [profile.tools[next] EXCEPT !.hash = x]
<1>1. /\ DOMAIN profile = ProfileFields /\ profile.kind = "linux"
      /\ profile.tools \in Seq(ToSet(profile.tools)) /\ Len(profile.tools) = next
      /\ \A t \in ToSet(profile.tools) : "path" \in DOMAIN t /\ t.path \in DOMAIN host.node
      /\ next \in Nat \ {0}
  BY DEF HostFacts, ObserveInv, ObservePcs, ProfileFields, HostTypes
<1>2. UNCHANGED <<host, was, look, task>>
  BY DEF Count, Goto
<1>3. DOMAIN profile.tools = 1..next /\ next \in DOMAIN profile.tools
  BY <1>1, SMT
<1>4. profile.tools[next] \in ToSet(profile.tools)
  BY <1>3 DEF ToSet
<1>5. "path" \in DOMAIN record /\ record.path = profile.tools[next].path
  BY <1>1, <1>4
<1>6. profile' = [profile EXCEPT !.tools = [profile.tools EXCEPT ![next] = record]]
  OBVIOUS
<1> HIDE DEF record
<1>7. /\ DOMAIN profile' = ProfileFields /\ profile'.kind = "linux"
      /\ profile'.tools = [profile.tools EXCEPT ![next] = record]
  BY <1>1, <1>6 DEF ProfileFields
<1>8. /\ profile'.tools \in Seq(ToSet(profile'.tools)) /\ Len(profile'.tools) = next
      /\ ToSet(profile'.tools) \subseteq ToSet(profile.tools) \cup {record}
  <2> DEFINE r == [profile.tools EXCEPT ![next] = record]
  <2>1. /\ r \in Seq(ToSet(r)) /\ Len(r) = Len(profile.tools)
        /\ ToSet(r) \subseteq ToSet(profile.tools) \cup {record}
    BY <1>1, <1>3, Replaced
  <2>2. profile'.tools = r
    BY <1>7
  <2> HIDE DEF r
  <2> QED BY <1>1, <2>1, <2>2
<1>9. \A t \in ToSet(profile'.tools) : "path" \in DOMAIN t /\ t.path \in DOMAIN host'.node
  BY <1>1, <1>2, <1>4, <1>5, <1>8
<1>10. profile'.tools # <<>>
  BY <1>1, <1>8, SMT
<1>11. CASE next < Len(task.paths)
  <2>1. pc' = "see" /\ next' = next + 1
    BY <1>11 DEF Count, Goto
  <2>2. Len(task.paths) \in Nat
    BY PathsExist DEF ObservePcs
  <2>3. Len(profile'.tools) = next' - 1 /\ next' <= Len(task'.paths)
    BY <1>1, <1>2, <1>8, <1>11, <2>1, <2>2, SMT
  <2>4. ObserveInv'
    BY <1>2, <1>7, <1>8, <1>9, <2>1, <2>3 DEF ObserveInv, ProfileFields
  <2>5. next' \in Nat \ {0}
    BY <1>1, <2>1, SMT
  <2> QED BY <2>1, <2>4, <2>5, OnlyObserved DEF ObservePcs
<1>12. CASE ~(next < Len(task.paths))
  <2>1. pc' = "see-rest" /\ next' = 1
    BY <1>12 DEF Count, Goto
  <2>2. ObserveInv'
    BY <1>2, <1>7, <1>8, <1>9, <1>10, <2>1 DEF ObserveInv, ProfileFields
  <2> QED BY <2>1, <2>2, OnlyObserved DEF ObservePcs
<1> QED BY <1>11, <1>12

\* The platform and the tools of the distribution are noted.
LEMMA SeeRestObserves == ASSUME TasksAreSound, HostInv, SeeRest PROVE StillObserved
<1> USE DEF HostInv, SeeRest, Check, Goto, Refuse, StillObserved
<1>1. ASSUME pc' = "written" PROVE StillObserved
  <2> DEFINE own == [i \in DOMAIN OwnTools(profile) |->
                       LET t == OwnTools(profile)[i]
                       IN  [path |-> t.to, hash |-> t.hash, says |-> FileAt(host, t.to).says]]
             boot == profile.tools[1]
             first == [profile EXCEPT !.boot = [path |-> boot.path, hash |-> boot.hash]]
             eligible == EligibleHere(host, first)
  <2>1. /\ DOMAIN profile = ProfileFields /\ profile.kind = "linux"
        /\ profile.tools \in Seq(ToSet(profile.tools)) /\ profile.tools # <<>>
        /\ \A t \in ToSet(profile.tools) : "path" \in DOMAIN t /\ t.path \in DOMAIN host.node
        /\ next \in Nat \ {0}
    BY DEF HostFacts, ObserveInv, ObservePcs, ProfileFields, HostTypes
  <2>2. /\ profile' = [first EXCEPT !.platform = host.platform, !.own = own,
                         !.mutable = OwnExposed(host, own), !.roots = host.roots,
                         !.eligible = eligible, !.reason = IF eligible THEN {} ELSE {"why"}]
        /\ UNCHANGED <<host, was, look, next, task>>
    BY <1>1
  <2>3. own \in Seq(ToSet(own))
    <3>1. OwnIds \in Seq(Nat)
      BY DEF TasksAreSound
    <3>2. Len(OwnIds) \in Nat /\ DOMAIN own = 1..Len(OwnIds)
      BY <3>1, SMT DEF OwnTools
    <3>3. own = [i \in 1..Len(OwnIds) |-> own[i]]
      BY <3>2
    <3> HIDE DEF own
    <3>4. own \in [1..Len(OwnIds) -> ToSet(own)]
      BY <3>2, <3>3, SMT DEF ToSet
    <3> QED BY <3>2, <3>4, SMT
  <2> HIDE DEF own, eligible
  <2>4. /\ DOMAIN first = ProfileFields /\ first.kind = "linux" /\ first.tools = profile.tools
    BY <2>1 DEF ProfileFields
  <2> HIDE DEF first
  <2>5. /\ DOMAIN profile' = ProfileFields /\ profile'.kind = "linux"
        /\ profile'.tools = profile.tools /\ profile'.own = own
    BY <2>2, <2>4 DEF ProfileFields
  <2>6. ObserveInv'
    BY <1>1, <2>1, <2>2, <2>3, <2>5 DEF ObserveInv, ProfileFields
  <2> QED BY <1>1, <2>1, <2>2, <2>6, OnlyObserved DEF ObservePcs
<1> QED BY <1>1, Refused DEF HostTypes

\* The profile that was written is validated, and then verified.
LEMMA ValidateProfileObserves == ASSUME HostInv, ValidateProfile PROVE StillObserved
<1> USE DEF HostInv, ValidateProfile, Check, Goto, Refuse, Keep, StillObserved
<1>1. ASSUME pc' = "verify" PROVE StillObserved
  <2>1. IsProfile(profile, host)
    BY DEF HostFacts, ObserveInv, ObservePcs, IsProfile
  <2>2. IsProfile(profile, host)'
    BY <2>1
  <2> QED BY <1>1, <2>2 DEF HostFacts, TurnInv, ProfileInv, ObserveInv, ToolPcs, LaterPcs, ObservePcs,
                            HostAccepted, HostTypes
<1> QED BY <1>1, Refused DEF HostTypes

\* Every step of observe-host keeps what it knows.
LEMMA ObserveObserves == ASSUME TasksAreSound, HostInv, ObserveHost PROVE StillObserved
BY SeeToolObserves, SumToolObserves, SeeRestObserves, ValidateProfileObserves DEF ObserveHost

----------------------------------------------------------------------------
(* The surroundings                                                         *)

\* A change another process makes keeps what is known of the host.
LEMMA ChangedKeeps ==
  ASSUME HostInv, NEW new, Newer(new), Changed(new)
  PROVE  HostFacts' /\ next' \in Nat \ {0} /\ pc' = pc
<1> USE DEF HostInv, Changed
<1>1. /\ UNCHANGED <<task, pc, verdict, profile, look, next>> /\ was \subseteq was'
      /\ DOMAIN host'.node = DOMAIN host.node /\ host'.kind = host.kind
  BY DEF Newer
<1>2. TurnInv'
  <2>1. Turn' = Turn
    BY <1>1 DEF Turn
  <2>2. /\ (NodeSeen(Turn) => NodeSeen(Turn)') /\ (Led(Turn) => Led(Turn)')
        /\ (FileSeen(Turn) => FileSeen(Turn)') /\ (Summed(Turn) => Summed(Turn)')
    <3>1. \A t : /\ (NodeSeen(t) => NodeSeen(t)') /\ (Led(t) => Led(t)')
                 /\ (FileSeen(t) => FileSeen(t)') /\ (Summed(t) => Summed(t)')
      BY <1>1, StaysRead
    <3> QED BY <1>1, <2>1, <3>1 DEF NodeSeen, Led, FileSeen, Summed
  <2> QED BY <1>1, <2>2 DEF HostFacts, TurnInv
<1>3. ProfileInv'
  <2>1. IsProfile(profile, host) => IsProfile(profile', host')
    BY <1>1 DEF IsProfile
  <2>2. \A i : /\ ToolWasSo(profile.tools[i]) => ToolWasSo(profile.tools[i])'
               /\ OwnWasSo(profile.own[i]) => OwnWasSo(profile.own[i])'
    BY <1>1, StaysSo DEF ToolWasSo, OwnWasSo
  <2>3. /\ pc \in ToolPcs => \A i \in 1..(next' - 1) : ToolWasSo(profile.tools[i])'
        /\ pc = "own" => \A i \in 1..(next' - 1) : OwnWasSo(profile.own[i])'
    BY <1>1, <2>2 DEF HostFacts, ProfileInv
  <2> QED BY <1>1, <2>1, <2>3, StaysSo DEF HostFacts, ProfileInv, HostAccepted
<1>4. ObserveInv'
  BY <1>1 DEF HostFacts, ObserveInv
<1> QED BY <1>1, <1>2, <1>3, <1>4 DEF HostFacts, HostTypes

\* So does the package manager.
LEMMA OthersChange ==
  ASSUME HostInv, Upgrade \/ Relink
  PROVE  \E new : Newer(new) /\ Changed(new)
<1>1. IsHost(host)
  BY DEF HostInv, HostTypes
<1>2. CASE Upgrade
  BY <1>1, <1>2, UpgradedIsNewer DEF Upgrade
<1>3. CASE Relink
  BY <1>1, <1>3, RelinkedIsNewer DEF Relink
<1> QED BY <1>2, <1>3

----------------------------------------------------------------------------
(* What depends on the command alone                                        *)

\* What depends on the command alone does not move.
LEMMA TaskFixed ==
  ASSUME task' = task
  PROVE  /\ ExpectedFiles' = ExpectedFiles /\ ExpectedDirs' = ExpectedDirs /\ Complete' = Complete
         /\ Lock' = Lock /\ Building' = Building /\ Partial' = Partial
         /\ \A root, p : AsLocked(root, p)' = AsLocked(root, p)
         /\ \A root : OwnWork(root)' = OwnWork(root)
<1>1. Lock' = Lock /\ Building' = Building /\ Partial' = Partial
  BY DEF Lock, Building, Partial
<1>2. Records' = Records
  BY <1>1 DEF Records, Chosen
<1>3. BuiltPaths' = BuiltPaths
  BY <1>1 DEF BuiltPaths, BuiltTools
<1>4. ExpectedFiles' = ExpectedFiles
  BY <1>2, <1>3 DEF ExpectedFiles
<1>5. ExpectedDirs' = ExpectedDirs /\ Complete' = Complete
  BY <1>4 DEF ExpectedDirs, Complete
<1>6. \A root, p : AsLocked(root, p)' = AsLocked(root, p)
  BY <1>2, <1>3 DEF AsLocked, RecordFor
<1>7. \A root : OwnWork(root)' = OwnWork(root)
  BY <1>4, <1>6 DEF OwnWork
<1> QED BY <1>1, <1>4, <1>5, <1>6, <1>7

----------------------------------------------------------------------------
(* Building a root                                                          *)

\* What each step of a command about roots leaves alone.
RootStep ==
    /\ UNCHANGED <<task, host, was, profile, look>> /\ next' \in Nat \ {0}
    /\ pc' \notin HostPcs \cup {"load"} /\ ~HostAccepted'
Rooted == RootStep /\ RootInv'
OtherPcs == RootPcs \cup {"end"}

\* The stages of a command about roots are none of those about hosts.
LEMMA OtherPcsApart == OtherPcs \cap (HostPcs \cup {"load"}) = {}
BY DEF OtherPcs, RootPcs, MakePcs, HostPcs, ToolPcs, LaterPcs, ObservePcs

\* What was so of a root was so, whatever comes later.
LEMMA RootStaysSo ==
  ASSUME task' = task, roots \subseteq roots'
  PROVE  /\ \A p : FileWasSo(p) => FileWasSo(p)'
         /\ TreeWasSo => TreeWasSo'
         /\ RootWasSo => RootWasSo'
<1>1. \A p : FileWasSo(p) => FileWasSo(p)'
  BY TaskFixed DEF FileWasSo
<1>2. \A d : DirWasSo(d) => DirWasSo(d)'
  BY TaskFixed DEF DirWasSo
<1>3. TreeWasSo => TreeWasSo'
  BY <1>1, <1>2, TaskFixed DEF TreeWasSo
<1>4. MembersOf(task.asset)' = MembersOf(task.asset)
  BY TaskFixed DEF MembersOf
<1>5. RootWasSo => RootWasSo'
  BY <1>1, <1>2, <1>4, TaskFixed DEF RootWasSo, FileWasSo
<1> QED BY <1>1, <1>3, <1>5

\* A staging directory is absent, or belongs to a command that builds.
LEMMA StagingIs ==
  ASSUME PlaceInv
  PROVE  /\ staging.is \in {"absent", "dir"} /\ (staging.is = "absent" <=> staging = Absent)
         /\ (staging.is = "dir" => Building /\ DOMAIN staging = {"is", "dirs", "files"} /\ Whole(staging))
BY DEF PlaceInv, Absent, Whole
\* A step that ends in a refusal, or goes to the finally clause.
LEMMA RootRefused ==
  ASSUME HostTypes, RootInv, pc' = (IF staging.is = "absent" THEN "end" ELSE "unwind"),
         verdict' = "refused", pc \in RootPcs \cup {"load"},
         UNCHANGED <<task, host, was, profile, look, staging, dest>>,
         next' \in Nat \ {0}, pc = "load" => roots' = {}
  PROVE  Rooted
<1> USE DEF RootInv
<1>1. pc' \in OtherPcs /\ pc' \in {"end", "unwind"}
  BY DEF OtherPcs, RootPcs, MakePcs
<1>2. RootStep
  BY <1>1, OtherPcsApart DEF RootStep, HostAccepted
<1>3. ~HostCommand \/ pc = "load"
  BY DEF PlaceInv
<1>4. PlaceInv'
  BY <1>1, <1>3, StagingIs, TaskFixed DEF PlaceInv, OtherPcs, MakePcs, RootPcs, HostPcs, ToolPcs,
     LaterPcs, ObservePcs, HostCommand, Whole, Absent
<1>5. WalkInv' /\ VerifiedInv'
  BY <1>1 DEF WalkInv, VerifiedInv, VerifiedPcs
<1> QED BY <1>2, <1>4, <1>5 DEF Rooted

\* Some files more in a directory.
IsStaging(root) == DOMAIN root = {"is", "dirs", "files"} /\ Whole(root)
\* A root with some files more is still whole.
LEMMA PutWhole ==
  ASSUME NEW root, IsStaging(root), NEW paths, NEW file
  PROVE  IsStaging(PutAll(root, paths, file))
<1> DEFINE r == PutAll(root, paths, file)
<1>1. /\ DOMAIN r = {"is", "dirs", "files"} /\ r.is = "dir"
      /\ r.dirs = root.dirs \cup {Dir(p) : p \in paths}
      /\ DOMAIN r.files = paths \cup DOMAIN root.files
  BY DEF PutAll, IsStaging, Whole
<1> HIDE DEF r
<1>2. \A p \in DOMAIN r.files : Dir(p) \in r.dirs
  BY <1>1 DEF IsStaging, Whole
<1>3. IsStaging(r)
  BY <1>1, <1>2 DEF IsStaging, Whole
<1> QED BY <1>3 DEF r

\* A step on the way to a root that is to be verified.
LEMMA StillBuilding ==
  ASSUME HostTypes, RootInv, Building, IsStaging(staging'), pc' \in {"copy", "place", "open"},
         UNCHANGED <<task, host, was, profile, look, dest>>, next' \in Nat \ {0}
  PROVE  Rooted
<1> USE DEF RootInv
<1>1. ~HostCommand /\ task.command # "verify-asset-members"
  BY DEF Building, BuiltBy, HostCommand
<1>2. pc' \in OtherPcs
  BY DEF OtherPcs, RootPcs, MakePcs
<1>3. RootStep
  BY <1>2, OtherPcsApart DEF RootStep, HostAccepted
<1>4. PlaceInv'
  BY <1>1, <1>2, TaskFixed DEF PlaceInv, IsStaging, Whole, OtherPcs, MakePcs, RootPcs, HostPcs, ToolPcs,
     LaterPcs, ObservePcs, HostCommand
<1>5. WalkInv' /\ VerifiedInv'
  BY <1>1 DEF WalkInv, VerifiedInv, VerifiedPcs
<1> QED BY <1>3, <1>4, <1>5 DEF Rooted

\* Each step of materialize-external in turn.
LEMMA PrepareRooted == ASSUME HostInv, RootInv, Prepare PROVE Rooted
<1> USE DEF Prepare, Check, Goto, Refuse, HostInv
<1>1. /\ Building /\ staging = Absent /\ UNCHANGED <<task, host, was, profile, look, dest, next>>
      /\ next \in Nat \ {0}
  BY DEF RootInv, PlaceInv, RootPcs, MakePcs, hostVars, HostTypes
<1>2. CASE dest.is = "absent"
  <2>1. IsStaging(staging')
    BY <1>2 DEF EmptyDir, Absent, IsStaging, Whole
  <2> QED BY <1>1, <1>2, <2>1, StillBuilding
<1>3. CASE dest.is # "absent"
  BY <1>1, <1>3, RootRefused, StagingIs DEF RootInv, RootPcs, hostVars, Absent
<1> QED BY <1>2, <1>3

\* A member of an archive is written into the staging directory.
LEMMA CopyMemberRooted == ASSUME HostInv, RootInv, CopyMember PROVE Rooted
<1> USE DEF CopyMember, HostInv
<1>1. Building /\ IsStaging(staging)
  BY StagingIs DEF RootInv, PlaceInv, IsStaging
<1>2. IsStaging(staging')
  BY <1>1, PutWhole DEF Put
<1>3. next' \in Nat \ {0} /\ pc' \in {"copy", "place"} /\ task' = task
  BY SMT DEF Count, Goto, HostTypes
<1> QED BY <1>1, <1>2, <1>3, StillBuilding

\* The programs built from source are placed.
LEMMA PlaceBuiltRooted == ASSUME HostInv, RootInv, PlaceBuilt PROVE Rooted
<1> USE DEF PlaceBuilt, HostInv, Goto
<1>1. Building /\ IsStaging(staging)
  BY StagingIs DEF RootInv, PlaceInv, IsStaging
<1>2. IsStaging(staging')
  BY <1>1, PutWhole
<1> QED BY <1>1, <1>2, StillBuilding DEF hostVars, HostTypes

\* A step to the finally clause, and out of it.
LEMMA Unwinding ==
  ASSUME HostTypes, RootInv, ~HostCommand, pc' = "unwind", verdict' = "refused",
         UNCHANGED <<task, host, was, profile, look, next, staging, dest>>
  PROVE  Rooted
<1> USE DEF RootInv
<1>1. pc' \in OtherPcs
  BY DEF OtherPcs, RootPcs, MakePcs
<1>2. RootStep
  BY <1>1, OtherPcsApart DEF RootStep, HostAccepted, HostTypes
<1>3. PlaceInv'
  BY <1>1, TaskFixed DEF PlaceInv, OtherPcs, MakePcs, RootPcs, HostPcs, ToolPcs, LaterPcs,
     ObservePcs, HostCommand, Whole
<1>4. WalkInv' /\ VerifiedInv'
  BY DEF WalkInv, VerifiedInv, VerifiedPcs
<1> QED BY <1>2, <1>3, <1>4 DEF Rooted

\* An asset that cannot be read or does not match its lock.
LEMMA AssetFailsRooted == ASSUME HostInv, RootInv, AssetFails PROVE Rooted
BY Unwinding DEF AssetFails, HostInv, RootInv, PlaceInv, RootPcs, MakePcs, hostVars, rootVars

\* The finally clause removes the staging directory.
LEMMA UnwindRooted == ASSUME HostInv, RootInv, Unwind PROVE Rooted
<1> USE DEF Unwind, HostInv, RootInv
<1>1. /\ ~HostCommand /\ verdict' = "refused" /\ pc' = "end" /\ staging' = Absent
      /\ UNCHANGED <<task, host, was, profile, look, next, dest>>
  BY DEF PlaceInv, VerifiedInv, RootPcs, MakePcs, hostVars
<1>2. pc' \in OtherPcs
  BY <1>1 DEF OtherPcs
<1>3. RootStep
  BY <1>1, <1>2, OtherPcsApart DEF RootStep, HostAccepted, HostTypes
<1>4. PlaceInv'
  BY <1>1, TaskFixed DEF PlaceInv, RootPcs, MakePcs, HostPcs, ToolPcs, LaterPcs, ObservePcs
<1>5. WalkInv' /\ VerifiedInv'
  BY <1>1 DEF WalkInv, VerifiedInv, VerifiedPcs
<1> QED BY <1>3, <1>4, <1>5 DEF Rooted

\* The rename: what was verified is what stands at the destination.
LEMMA ReplaceRooted == ASSUME HostInv, RootInv, Replace PROVE Rooted
<1> USE DEF Replace, HostInv, RootInv, Goto
<1>1. /\ Building /\ ~HostCommand /\ task.command # "verify-asset-members" /\ OwnWork(staging)
      /\ UNCHANGED <<host, was, profile, look, next>> /\ task' = task
  BY DEF PlaceInv, VerifiedInv, VerifiedPcs, RootPcs, MakePcs, hostVars, Building, BuiltBy, HostCommand
<1>2. CASE Free(dest) /\ dest' = staging /\ staging' = Absent /\ Goto("again-open")
  <2>1. pc' \in OtherPcs
    BY <1>2 DEF OtherPcs, RootPcs
  <2>2. RootStep
    BY <1>1, <1>2, <2>1, OtherPcsApart DEF RootStep, HostAccepted, HostTypes
  <2>3. OwnWork(dest)'
    BY <1>1, <1>2, TaskFixed
  <2>4. PlaceInv'
    BY <1>1, <1>2, <2>3, TaskFixed DEF PlaceInv, RootPcs, MakePcs, HostPcs, ToolPcs, LaterPcs,
       ObservePcs, HostCommand
  <2>5. WalkInv' /\ VerifiedInv'
    BY <1>1, <1>2 DEF WalkInv, VerifiedInv, VerifiedPcs
  <2> QED BY <2>2, <2>4, <2>5 DEF Rooted
<1>3. CASE pc' = "unwind" /\ verdict' = "refused" /\ UNCHANGED <<task, changes, faulted, staging, dest>>
  BY <1>1, <1>3, Unwinding DEF hostVars
<1> QED BY <1>2, <1>3

----------------------------------------------------------------------------
(* Verifying a root                                                         *)

\* A step within the verification of a root: the root and its surroundings stay.
KeepsTo(p) ==
    /\ pc \in RootPcs /\ pc' \in p /\ UNCHANGED <<task, verdict, host, was, profile, look, staging, dest>>
    /\ next' \in Nat \ {0}
\* Such a step leaves what is at the destination and in staging in its place.
LEMMA WithinPlace ==
  ASSUME HostTypes, PlaceInv, NEW p \in SUBSET {"enter", "inspector", "binary", "run", "replace", "members",
                                               "accepted"},
         KeepsTo(p), pc' \notin MakePcs => staging = Absent,
         pc' = "replace" => staging.is # "absent"
  PROVE  RootStep /\ PlaceInv'
<1> USE DEF KeepsTo
<1>1. pc' \in RootPcs /\ pc' \in OtherPcs /\ ~HostCommand /\ pc' \notin {"copy", "place", "prepare"}
  BY DEF PlaceInv, OtherPcs, RootPcs, MakePcs
<1>2. RootStep
  BY <1>1, OtherPcsApart DEF RootStep, HostAccepted, HostCommand
<1>3. pc' \notin HostPcs \cup {"load"}
  BY <1>1, OtherPcsApart
<1>4. PlaceInv'
  BY <1>1, <1>3, StagingIs, TaskFixed DEF PlaceInv, HostCommand, Whole
<1> QED BY <1>2, <1>4

\* What a failed test does.
LEMMA FailRooted ==
  ASSUME HostInv, RootInv, pc \in RootPcs, Fail, next' \in Nat \ {0},
         UNCHANGED <<host, was, profile, look, staging, dest>>
  PROVE  Rooted
<1>1. pc # "load"
  BY DEF RootPcs, MakePcs
<1> QED BY <1>1, RootRefused DEF Fail, HostInv

\* Each step of verify_external_tree in turn.
LEMMA OpenRootRooted == ASSUME HostInv, RootInv, OpenRoot PROVE Rooted
<1> USE DEF OpenRoot, Test, Goto, HostInv, RootInv
<1>1. /\ pc \in RootPcs /\ UNCHANGED <<host, was, profile, look, next, staging, dest>>
      /\ task.command # "verify-asset-members" /\ next \in Nat \ {0}
  BY DEF RootPcs, MakePcs, hostVars, VerifiedInv, HostTypes
<1>2. CASE Root.is = "dir"
  <2>1. pc' = "enter" /\ KeepsTo({"enter"})
    BY <1>1, <1>2 DEF KeepsTo
  <2>2. RootStep /\ PlaceInv'
    BY <2>1, WithinPlace DEF MakePcs
  <2>3. Root' = Root
    BY <1>1 DEF Root
  <2>4. WalkInv'
    BY <1>1, <2>1, <2>3, TaskFixed DEF WalkInv, Root, KeepsTo, Complete
  <2>5. VerifiedInv'
    BY <1>1, <2>1 DEF VerifiedInv, VerifiedPcs, KeepsTo
  <2> QED BY <2>2, <2>4, <2>5 DEF Rooted
<1>3. CASE Root.is # "dir"
  BY <1>1, <1>3, FailRooted
<1> QED BY <1>2, <1>3

\* A directory is listed (verify_external_tree).
LEMMA EnterDirRooted == ASSUME HostInv, RootInv, EnterDir PROVE Rooted
<1> USE DEF HostInv, RootInv
<1>1. PICK d \in dirs :
        /\ Test(d \in ExpectedDirs /\ d \in Root.dirs, "enter") /\ dirs' = dirs \ {d}
        /\ todo' = {p \in DOMAIN Root.files : Dir(p) = d} /\ seen' = seen \cup {<<"dir", d>>}
  BY DEF EnterDir
<1>2. /\ pc = "enter" /\ todo = {} /\ pc \in RootPcs /\ next \in Nat \ {0}
      /\ UNCHANGED <<host, was, profile, look, next, staging, dest, roots>>
  BY DEF EnterDir, KeepRoot, hostVars, RootPcs, MakePcs, HostTypes
<1>3. CASE d \in ExpectedDirs /\ d \in Root.dirs
  <2>1. pc' = "enter" /\ KeepsTo({"enter"}) /\ UNCHANGED <<task, verdict>>
    BY <1>1, <1>2, <1>3 DEF Test, Goto, KeepsTo
  <2>2. RootStep /\ PlaceInv'
    BY <2>1, WithinPlace DEF MakePcs
  <2>3. /\ Root' = Root /\ ExpectedFiles' = ExpectedFiles /\ ExpectedDirs' = ExpectedDirs
        /\ Complete' = Complete /\ \A p : FileWasSo(p) => FileWasSo(p)'
    BY <1>2, <2>1, TaskFixed, RootStaysSo DEF Root
  <2>4. \A p : <<"file", p>> \in seen' <=> <<"file", p>> \in seen
    BY <1>1
  <2>5. \A e : e # d => (<<"dir", e>> \in seen' <=> <<"dir", e>> \in seen)
    BY <1>1
  <2>6. <<"dir", d>> \in seen' /\ <<"dir", d>> \notin seen
    BY <1>1, <1>2, <1>3 DEF WalkInv
  <2>7. seen' \subseteq Complete' /\ Root' \in roots'
    BY <1>1, <1>2, <1>3, <2>3 DEF WalkInv, Complete
  <2>8. \A p \in ExpectedFiles : <<"file", p>> \in seen' => <<"dir", Dir(p)>> \in seen' /\ FileWasSo(p)'
    BY <1>1, <1>2, <2>3, <2>4 DEF WalkInv
  <2>9. \A p \in todo' : <<"dir", Dir(p)>> \in seen'
    BY <1>1, <2>6
  <2>10. ASSUME NEW e \in ExpectedDirs, <<"dir", e>> \in seen'
         PROVE  /\ e \notin dirs'
                /\ \E root \in roots' :
                     Listed(root, e) = InDir(e, {p \in ExpectedFiles : <<"file", p>> \in seen'} \cup todo')
    <3>1. CASE e = d
      <4>1. \A p \in ExpectedFiles : <<"file", p>> \in seen => Dir(p) # d
        BY <1>2, <2>6 DEF WalkInv
      <4>2. Listed(Root, d) = InDir(d, {p \in ExpectedFiles : <<"file", p>> \in seen'} \cup todo')
        BY <1>1, <2>4, <4>1 DEF Listed, InDir
      <4> QED BY <1>1, <1>2, <2>3, <2>7, <3>1, <4>2
    <3>2. CASE e # d
      <4>1. <<"dir", e>> \in seen
        BY <2>5, <2>10, <3>2
      <4>2. e \notin dirs
        BY <1>2, <4>1 DEF WalkInv
      <4>3. PICK root \in roots :
              Listed(root, e) = InDir(e, {p \in ExpectedFiles : <<"file", p>> \in seen} \cup todo)
        BY <1>2, <4>1 DEF WalkInv
      <4>4. InDir(e, {p \in ExpectedFiles : <<"file", p>> \in seen} \cup todo)
            = InDir(e, {p \in ExpectedFiles : <<"file", p>> \in seen'} \cup todo')
        BY <1>1, <1>2, <2>4, <3>2 DEF InDir
      <4> QED BY <1>1, <1>2, <4>2, <4>3, <4>4
    <3> QED BY <3>1, <3>2
  <2>11. staging'.is = "dir" => /\ roots' = {staging'}
                                /\ \A e \in staging'.dirs : e \in dirs' \/ <<"dir", e>> \in seen'
    BY <1>1, <1>2, <2>5, <2>6 DEF WalkInv
  <2>12. WalkInv'
    BY <2>3, <2>7, <2>8, <2>9, <2>10, <2>11 DEF WalkInv, Listed, InDir
  <2>13. VerifiedInv'
    BY <1>2, <2>1 DEF VerifiedInv, VerifiedPcs
  <2> QED BY <2>2, <2>12, <2>13 DEF Rooted
<1>4. CASE ~(d \in ExpectedDirs /\ d \in Root.dirs)
  <2>1. Fail
    BY <1>1, <1>4 DEF Test
  <2> QED BY <1>2, <2>1, FailRooted
<1> QED BY <1>3, <1>4

\* A file is hashed and compared with its record.
LEMMA VisitFileRooted == ASSUME HostInv, RootInv, VisitFile PROVE Rooted
<1> USE DEF HostInv, RootInv
<1>1. PICK f \in todo :
        /\ Test(f \in ExpectedFiles /\ AsLocked(Root, f), "enter")
        /\ todo' = todo \ {f} /\ seen' = seen \cup {<<"file", f>>}
  BY DEF VisitFile
<1>2. /\ pc = "enter" /\ pc \in RootPcs /\ next \in Nat \ {0}
      /\ UNCHANGED <<host, was, profile, look, next, staging, dest, roots, dirs>>
  BY DEF VisitFile, KeepRoot, hostVars, RootPcs, MakePcs, HostTypes
<1>3. CASE f \in ExpectedFiles /\ AsLocked(Root, f)
  <2>1. pc' = "enter" /\ KeepsTo({"enter"}) /\ UNCHANGED <<task, verdict>>
    BY <1>1, <1>2, <1>3 DEF Test, Goto, KeepsTo
  <2>2. RootStep /\ PlaceInv'
    BY <2>1, WithinPlace DEF MakePcs
  <2>3. /\ Root' = Root /\ ExpectedFiles' = ExpectedFiles /\ ExpectedDirs' = ExpectedDirs
        /\ Complete' = Complete /\ \A p : FileWasSo(p) => FileWasSo(p)'
    BY <1>2, <2>1, TaskFixed, RootStaysSo DEF Root
  <2>4. \A e : <<"dir", e>> \in seen' <=> <<"dir", e>> \in seen
    BY <1>1
  <2>5. \A p : p # f => (<<"file", p>> \in seen' <=> <<"file", p>> \in seen)
    BY <1>1
  <2>6. <<"file", f>> \in seen' /\ <<"dir", Dir(f)>> \in seen
    BY <1>1, <1>2 DEF WalkInv
  <2>7. seen' \subseteq Complete' /\ Root' \in roots'
    BY <1>1, <1>2, <1>3, <2>3 DEF WalkInv, Complete
  <2>8. \A p \in ExpectedFiles : <<"file", p>> \in seen' => <<"dir", Dir(p)>> \in seen' /\ FileWasSo(p)'
    <3>1. FileWasSo(f)
      BY <1>2, <1>3 DEF WalkInv, FileWasSo
    <3> QED BY <1>2, <2>3, <2>4, <2>5, <2>6, <3>1 DEF WalkInv
  <2>9. \A p \in todo' : <<"dir", Dir(p)>> \in seen'
    BY <1>1, <1>2, <2>4 DEF WalkInv
  <2>10. {p \in ExpectedFiles : <<"file", p>> \in seen} \cup todo
         = {p \in ExpectedFiles : <<"file", p>> \in seen'} \cup todo'
    BY <1>1, <1>3, <2>5, <2>6
  <2>11. \A e \in ExpectedDirs : <<"dir", e>> \in seen' =>
           /\ e \notin dirs'
           /\ \E root \in roots' :
                Listed(root, e) = InDir(e, {p \in ExpectedFiles : <<"file", p>> \in seen'} \cup todo')
    BY <1>2, <2>4, <2>10 DEF WalkInv
  <2>12. staging'.is = "dir" => /\ roots' = {staging'}
                                /\ \A e \in staging'.dirs : e \in dirs' \/ <<"dir", e>> \in seen'
    BY <1>2, <2>4 DEF WalkInv
  <2>13. WalkInv'
    BY <2>3, <2>7, <2>8, <2>9, <2>11, <2>12 DEF WalkInv, Listed, InDir
  <2>14. VerifiedInv'
    BY <1>2, <2>1 DEF VerifiedInv, VerifiedPcs
  <2> QED BY <2>2, <2>13, <2>14 DEF Rooted
<1>4. CASE ~(f \in ExpectedFiles /\ AsLocked(Root, f))
  <2>1. Fail
    BY <1>1, <1>4 DEF Test
  <2> QED BY <1>2, <2>1, FailRooted
<1> QED BY <1>3, <1>4

\* When everything expected has been seen, the tree was so; and a root under
\* construction, which nobody else changes, is the whole of it.
LEMMA SeenWasSo ==
  ASSUME WalkInv, pc = "enter", todo = {}, NothingMissing
  PROVE  TreeWasSo
<1> USE DEF WalkInv, NothingMissing, Complete
<1>1. \A p \in ExpectedFiles : FileWasSo(p)
  OBVIOUS
<1>2. ASSUME NEW d \in ExpectedDirs PROVE DirWasSo(d)
  <2>1. PICK root \in roots :
          Listed(root, d) = InDir(d, {p \in ExpectedFiles : <<"file", p>> \in seen} \cup todo)
    OBVIOUS
  <2>2. {p \in ExpectedFiles : <<"file", p>> \in seen} \cup todo = ExpectedFiles
    OBVIOUS
  <2> QED BY <2>1, <2>2 DEF DirWasSo, Listed, InDir
<1> QED BY <1>1, <1>2 DEF TreeWasSo
\* A staging directory in which all that was seen is all there should be is the
\* whole root.
LEMMA SeenIsOwnWork ==
  ASSUME RootInv, pc = "enter", todo = {}, dirs = {}, NothingMissing, staging.is = "dir"
  PROVE  OwnWork(staging)
<1> USE DEF RootInv
<1>1. /\ roots = {staging} /\ \A d \in staging.dirs : <<"dir", d>> \in seen
      /\ seen = Complete /\ Whole(staging)
  BY StagingIs DEF WalkInv, NothingMissing
<1>2. TreeWasSo
  BY SeenWasSo
<1>3. \A p \in ExpectedFiles : AsLocked(staging, p)
  BY <1>1, <1>2 DEF TreeWasSo, FileWasSo
<1>4. ASSUME NEW p \in DOMAIN staging.files PROVE p \in ExpectedFiles
  <2>1. <<"dir", Dir(p)>> \in Complete
    BY <1>1 DEF Whole
  <2>2. Dir(p) \in ExpectedDirs
    BY <2>1 DEF Complete
  <2>3. DirWasSo(Dir(p))
    BY <1>2, <2>2 DEF TreeWasSo
  <2>4. p \in {q \in ExpectedFiles : Dir(q) = Dir(p)}
    BY <1>1, <2>3 DEF DirWasSo
  <2> QED BY <2>4
<1>5. DOMAIN staging.files = ExpectedFiles
  BY <1>3, <1>4 DEF AsLocked
<1> QED BY <1>3, <1>5 DEF OwnWork

\* A step to a later part of the verification of a tree.
LEMMA TreeStaysSo ==
  ASSUME HostTypes, RootInv, TreeWasSo, task.command # "verify-asset-members",
         staging.is = "dir" => OwnWork(staging),
         KeepsTo({"inspector", "binary", "run", "replace", "accepted"}),
         IF staging.is = "absent" THEN pc' # "replace" ELSE pc' # "accepted", UNCHANGED roots
  PROVE  Rooted
<1> USE DEF KeepsTo, RootInv
<1>1. pc' \notin MakePcs => staging = Absent
  BY StagingIs DEF MakePcs
<1>2. RootStep /\ PlaceInv'
  BY <1>1, WithinPlace
<1>3. WalkInv'
  BY DEF WalkInv
<1>4. TreeWasSo' /\ (staging'.is = "dir" => OwnWork(staging)')
  BY TaskFixed, RootStaysSo
<1>5. pc' = "accepted" => RootWasSo'
  BY <1>4 DEF RootWasSo, TreeWasSo, FileWasSo
<1>6. VerifiedInv'
  BY <1>4, <1>5, TaskFixed DEF VerifiedInv, VerifiedPcs
<1> QED BY <1>2, <1>3, <1>6 DEF Rooted

\* The end of the walk: nothing is missing.
LEMMA TreeVerifiedRooted == ASSUME HostInv, RootInv, TreeVerified PROVE Rooted
<1> USE DEF HostInv, RootInv, TreeVerified, KeepRoot
<1>1. /\ pc \in RootPcs /\ next' \in Nat \ {0} /\ task.command # "verify-asset-members"
      /\ UNCHANGED <<host, was, profile, look, staging, dest, roots>>
  BY DEF RootPcs, MakePcs, VerifiedInv
<1>2. CASE NothingMissing
  <2>1. KeepsTo({"inspector", "binary", "run", "replace", "accepted"}) /\ pc' \in {"run", "inspector"}
    BY <1>1, <1>2 DEF Test, Goto, KeepsTo
  <2>2. TreeWasSo /\ (staging.is = "dir" => OwnWork(staging))
    BY <1>2, SeenWasSo, SeenIsOwnWork
  <2> QED BY <1>1, <2>1, <2>2, TreeStaysSo
<1>3. CASE ~NothingMissing
  <2>1. Fail
    BY <1>3 DEF Test
  <2> QED BY <1>1, <2>1, FailRooted
<1> QED BY <1>2, <1>3

\* What is known while the programs of the tree are looked at.
LEMMA TreeKnown ==
  ASSUME HostInv, RootInv, pc \in VerifiedPcs
  PROVE  /\ HostTypes /\ TreeWasSo /\ task.command # "verify-asset-members" /\ pc \in RootPcs
         /\ (staging.is = "dir" => OwnWork(staging)) /\ next \in Nat \ {0}
BY DEF HostInv, RootInv, VerifiedInv, VerifiedPcs, RootPcs, MakePcs, HostTypes

\* The inspector of the host is taken from its profile.
LEMMA InspectorRooted == ASSUME HostInv, RootInv, Inspector PROVE Rooted
<1> USE DEF Inspector, KeepRoot, hostVars
<1>1. pc \in VerifiedPcs /\ UNCHANGED <<host, was, profile, look, next, staging, dest, roots>>
  BY DEF VerifiedPcs
<1>2. CASE Goto("binary")
  <2>1. KeepsTo({"inspector", "binary", "run", "replace", "accepted"}) /\ pc' = "binary"
    BY <1>1, <1>2, TreeKnown DEF Goto, KeepsTo
  <2> QED BY <1>1, <2>1, TreeKnown, TreeStaysSo
<1>3. CASE Fail
  BY <1>1, <1>3, TreeKnown, FailRooted
<1> QED BY <1>2, <1>3 DEF Test

\* The loads of every program are compared with the policy.
LEMMA BinaryClosureRooted == ASSUME HostInv, RootInv, BinaryClosure PROVE Rooted
<1> USE DEF BinaryClosure, KeepRoot
<1>1. pc \in VerifiedPcs /\ UNCHANGED <<host, was, profile, look, staging, dest, roots>>
  BY DEF VerifiedPcs
<1>2. CASE Count(Len(Lock.policy.files), "binary", "run")
  <2>1. /\ KeepsTo({"inspector", "binary", "run", "replace", "accepted"}) /\ pc' \in {"binary", "run"}
    BY <1>1, <1>2, TreeKnown, SMT DEF Count, Goto, KeepsTo
  <2> QED BY <1>1, <2>1, TreeKnown, TreeStaysSo
<1>3. CASE Fail /\ UNCHANGED next
  BY <1>1, <1>3, TreeKnown, FailRooted
<1> QED BY <1>2, <1>3

\* The programs are run.
LEMMA RunToolsRooted == ASSUME HostInv, RootInv, RunTools PROVE Rooted
<1> USE DEF RunTools, KeepRoot, hostVars
<1>1. pc \in VerifiedPcs /\ UNCHANGED <<host, was, profile, look, next, staging, dest, roots>>
  BY DEF VerifiedPcs
<1>2. CASE Goto(IF staging.is = "absent" THEN "accepted" ELSE "replace")
  <2>1. /\ KeepsTo({"inspector", "binary", "run", "replace", "accepted"})
        /\ IF staging.is = "absent" THEN pc' # "replace" ELSE pc' # "accepted"
    BY <1>1, <1>2, TreeKnown DEF Goto, KeepsTo
  <2> QED BY <1>1, <2>1, TreeKnown, TreeStaysSo
<1>3. CASE Fail
  BY <1>1, <1>3, TreeKnown, FailRooted
<1> QED BY <1>2, <1>3 DEF Test

\* The verification accepts.
LEMMA AcceptedRooted == ASSUME HostInv, RootInv, Accepted PROVE Rooted
<1> USE DEF Accepted, Accept, KeepRoot, hostVars, HostInv, RootInv
<1>1. /\ ~HostCommand /\ staging = Absent /\ RootWasSo /\ pc' = "end"
      /\ UNCHANGED <<task, host, was, profile, look, next, staging, dest, roots>>
  BY DEF PlaceInv, RootPcs, MakePcs, VerifiedInv
<1>2. pc' \in OtherPcs
  BY <1>1 DEF OtherPcs
<1>3. RootStep
  BY <1>1, <1>2, OtherPcsApart DEF RootStep, HostAccepted, HostTypes, HostCommand
<1>4. PlaceInv'
  BY <1>1, TaskFixed DEF PlaceInv, RootPcs, MakePcs, HostPcs, ToolPcs, LaterPcs, ObservePcs
<1>5. RootWasSo'
  <2>1. task' = task /\ roots \subseteq roots'
    BY <1>1
  <2> QED BY <1>1, <2>1, RootStaysSo
<1>6. WalkInv' /\ VerifiedInv'
  BY <1>1, <1>5 DEF WalkInv, VerifiedInv, VerifiedPcs
<1> QED BY <1>3, <1>4, <1>6 DEF Rooted

\* verify_asset_members keeps which members have been found, and has found all
\* when it comes to the end of the bundle.
LEMMA MembersRooted == ASSUME TasksAreSound, HostInv, RootInv, Members PROVE Rooted
<1> USE DEF HostInv, RootInv
<1> DEFINE r == Lock.bundle[next]
           good == r \in MembersOf(task.asset) => dest.is = "dir" /\ AsLocked(dest, r.path)
<1>1. /\ pc = "members" /\ pc \in RootPcs /\ roots' = roots \cup {dest}
      /\ UNCHANGED <<staging, dest, host, was, profile, look>> /\ next \in Nat \ {0}
      /\ task.command = "verify-asset-members" /\ staging = Absent
      /\ \A p \in MembersUpTo(next - 1) : FileWasSo(p)
  BY DEF Members, RootPcs, MakePcs, PlaceInv, VerifiedInv, HostTypes
<1>2. Len(Lock.bundle) \in Nat /\ DOMAIN Lock.bundle = 1..Len(Lock.bundle)
  <2>1. Lock.bundle \in Seq(ToSet(Lock.bundle))
    BY DEF HostTypes, TasksAreSound, TaskIsSound, Lock
  <2> QED BY <2>1, SMT
<1>3. ASSUME good, Count(Len(Lock.bundle), "members", "accepted") PROVE Rooted
  <2>1. /\ task' = task /\ verdict' = verdict
        /\ \/ pc' = "members" /\ next' = next + 1
           \/ pc' = "accepted" /\ next' = 1 /\ ~(next < Len(Lock.bundle))
    BY <1>3 DEF Count, Goto
  <2>2. next' \in Nat \ {0}
    BY <1>1, <2>1, SMT
  <2>3. KeepsTo({"members", "accepted"})
    BY <1>1, <2>1, <2>2 DEF KeepsTo
  <2>4. RootStep /\ PlaceInv'
    <3>1. pc' # "replace"
      BY <2>1
    <3>2. {"members", "accepted"} \in SUBSET {"enter", "inspector", "binary", "run", "replace", "members",
                                               "accepted"}
      OBVIOUS
    <3> QED BY <1>1, <2>3, <3>1, <3>2, WithinPlace
  <2>5. \A p : FileWasSo(p) => FileWasSo(p)'
    BY <1>1, <2>1, RootStaysSo
  <2>6. /\ MembersOf(task.asset)' = MembersOf(task.asset)
        /\ \A n : MembersUpTo(n)' = MembersUpTo(n)
        /\ \A root, p : AsLocked(root, p)' = AsLocked(root, p)
    BY <2>1, TaskFixed DEF MembersOf, MembersUpTo
  <2>7. \A p : r \in MembersOf(task.asset) /\ p = r.path => FileWasSo(p)'
    BY <1>1, <1>3, <2>6 DEF FileWasSo
  <2>8. \A p \in MembersUpTo(next) : p \in MembersUpTo(next - 1) \/ (r \in MembersOf(task.asset) /\ p = r.path)
    BY <1>1, SMT DEF MembersUpTo
  <2>9. \A p \in MembersUpTo(next) : FileWasSo(p)'
    BY <1>1, <2>5, <2>7, <2>8
  <2>10. WalkInv'
    BY <2>1 DEF WalkInv
  <2>11. CASE pc' = "members" /\ next' = next + 1
    <3>1. next' - 1 = next
      BY <1>1, <2>11, SMT
    <3>2. (\A p \in MembersUpTo(next - 1) : FileWasSo(p))'
      BY <2>6, <2>9, <3>1
    <3>3. VerifiedInv'
      BY <1>1, <2>1, <2>11, <3>2 DEF VerifiedInv, VerifiedPcs
    <3> QED BY <2>4, <2>10, <3>3 DEF Rooted
  <2>12. CASE pc' = "accepted" /\ ~(next < Len(Lock.bundle))
    <3>1. ASSUME NEW m \in MembersOf(task.asset) PROVE m.path \in MembersUpTo(next)
      <4>1. PICK i \in DOMAIN Lock.bundle : Lock.bundle[i] = m
        BY DEF MembersOf, ToSet
      <4>2. i \in 1..next
        BY <1>1, <1>2, <2>12, SMT
      <4> QED BY <4>1, <4>2 DEF MembersUpTo
    <3>2. \A p \in {m.path : m \in MembersOf(task.asset)} : FileWasSo(p)'
      BY <2>9, <3>1
    <3>3. RootWasSo'
      BY <1>1, <2>1, <2>6, <3>2 DEF RootWasSo, FileWasSo
    <3>4. VerifiedInv'
      BY <1>1, <2>1, <2>12, <3>3 DEF VerifiedInv, VerifiedPcs
    <3> QED BY <2>4, <2>10, <3>4 DEF Rooted
  <2> QED BY <2>1, <2>11, <2>12
<1>4. ASSUME Refuse, UNCHANGED next PROVE Rooted
  <2>1. pc # "load" /\ staging.is = "absent"
    BY <1>1 DEF Absent
  <2> QED BY <1>1, <1>4, <2>1, RootRefused DEF Refuse
<1> QED BY <1>3, <1>4 DEF Members

\* A program cannot be run.
LEMMA ProbeFailsRooted == ASSUME HostInv, RootInv, ProbeFails PROVE Rooted
<1>1. /\ pc \in RootPcs /\ pc # "load" /\ next' \in Nat \ {0}
      /\ UNCHANGED <<task, host, was, profile, look, staging, dest>>
  BY DEF ProbeFails, hostVars, rootVars, RootPcs, MakePcs, HostInv, HostTypes
<1> QED BY <1>1, RootRefused DEF ProbeFails, HostInv

----------------------------------------------------------------------------
(* Other processes                                                          *)

\* What others do to a root that is verified leaves what was so.
LEMMA MeddleRooted == ASSUME HostInv, RootInv, Meddle PROVE Rooted
<1> USE DEF HostInv, RootInv
<1>1. PICK root : NowAt(root)
  BY DEF Meddle
<1>2. /\ ~Building /\ staging = Absent /\ staging.is = "absent" /\ pc \in RootPcs /\ pc \in OtherPcs
      /\ pc \in {"enter", "inspector", "binary", "run", "members"}
      /\ UNCHANGED <<task, pc, verdict, staging, dirs, todo, seen, host, was, profile, look, next>>
      /\ next \in Nat \ {0} /\ ~HostCommand
  BY <1>1 DEF Meddle, NowAt, hostVars, PlaceInv, Absent, OtherPcs, RootPcs, MakePcs, HostTypes
<1>3. RootStep
  BY <1>2, OtherPcsApart DEF RootStep, HostAccepted, HostCommand
<1>4. PlaceInv'
  BY <1>2, TaskFixed, OtherPcsApart DEF PlaceInv, HostCommand
<1>5. roots \subseteq roots' /\ (roots # {} => dest' \in roots')
  BY <1>1, <1>2 DEF NowAt
<1>6. /\ \A p : FileWasSo(p) => FileWasSo(p)'
      /\ TreeWasSo => TreeWasSo'
  BY <1>2, <1>5, RootStaysSo
<1>7. /\ ExpectedFiles' = ExpectedFiles /\ ExpectedDirs' = ExpectedDirs /\ Complete' = Complete
      /\ MembersUpTo(next - 1)' = MembersUpTo(next - 1)
  BY <1>2, TaskFixed DEF MembersOf, MembersUpTo
<1>8. WalkInv'
  <2> SUFFICES ASSUME pc = "enter" PROVE WalkInv'
    BY <1>2 DEF WalkInv
  <2>1. Root' \in roots' /\ seen' \subseteq Complete'
    BY <1>2, <1>5, <1>7 DEF WalkInv, Root
  <2>2. \A p \in ExpectedFiles : <<"file", p>> \in seen' => <<"dir", Dir(p)>> \in seen' /\ FileWasSo(p)'
    BY <1>2, <1>6 DEF WalkInv
  <2>3. \A p \in todo' : <<"dir", Dir(p)>> \in seen'
    BY <1>2 DEF WalkInv
  <2>4. \A d \in ExpectedDirs : <<"dir", d>> \in seen' =>
          /\ d \notin dirs'
          /\ \E some \in roots' :
               Listed(some, d) = InDir(d, {p \in ExpectedFiles : <<"file", p>> \in seen'} \cup todo')
    BY <1>2, <1>5 DEF WalkInv
  <2> QED BY <1>2, <1>7, <2>1, <2>2, <2>3, <2>4 DEF WalkInv, Listed, InDir
<1>9. VerifiedInv'
  <2>1. pc = "members" => \A p \in MembersUpTo(next - 1) : FileWasSo(p)'
    BY <1>6 DEF VerifiedInv
  <2> QED BY <1>2, <1>6, <1>7, <2>1 DEF VerifiedInv, VerifiedPcs
<1> QED BY <1>3, <1>4, <1>8, <1>9 DEF Rooted

\* A destination others make is not the root under construction.
LEMMA RivalRooted == ASSUME HostInv, RootInv, Rival PROVE Rooted
<1> USE DEF HostInv, RootInv
<1>1. PICK root \in {EmptyDir, Put(EmptyDir, 1, Stray)} : NowAt(root)
  BY DEF Rival
<1>2. /\ Building /\ staging.is = "dir" /\ pc \in MakePcs /\ pc \in OtherPcs
      /\ UNCHANGED <<task, pc, verdict, staging, dirs, todo, seen, host, was, profile, look, next, roots>>
      /\ dest' = root /\ next \in Nat \ {0} /\ ~HostCommand
  BY <1>1 DEF Rival, NowAt, hostVars, PlaceInv, Absent, OtherPcs, RootPcs, HostTypes
<1>3. RootStep
  BY <1>2, OtherPcsApart DEF RootStep, HostAccepted, HostCommand
<1>4. PlaceInv'
  BY <1>1, <1>2, TaskFixed DEF PlaceInv, HostCommand, Whole
<1>5. /\ \A p : FileWasSo(p) => FileWasSo(p)'
      /\ TreeWasSo => TreeWasSo'
      /\ RootWasSo => RootWasSo'
      /\ \A p : FileWasSo(p)' => FileWasSo(p)
  BY <1>2, RootStaysSo, TaskFixed DEF FileWasSo
<1>6. /\ ExpectedFiles' = ExpectedFiles /\ ExpectedDirs' = ExpectedDirs /\ Complete' = Complete
      /\ Root' = Root /\ OwnWork(staging)' = OwnWork(staging)
  BY <1>2, TaskFixed DEF Root
<1>7. WalkInv'
  BY <1>2, <1>5, <1>6 DEF WalkInv, Listed, InDir
<1>8. VerifiedInv'
  BY <1>2, <1>5, <1>6 DEF VerifiedInv, VerifiedPcs, MakePcs
<1> QED BY <1>3, <1>4, <1>7, <1>8 DEF Rooted

\* A killed command accepts nothing.
LEMMA KillRooted == ASSUME HostInv, RootInv, Kill PROVE Rooted
<1> USE DEF Kill, HostInv, RootInv
<1>1. /\ pc' = "killed" /\ pc' \in OtherPcs /\ ~HostCommand /\ next \in Nat \ {0}
      /\ UNCHANGED <<task, verdict, host, was, profile, look, next, staging, dest, roots>>
  BY DEF OtherPcs, RootPcs, MakePcs, hostVars, rootVars, HostTypes, Building, BuiltBy, HostCommand
<1>2. RootStep
  BY <1>1, OtherPcsApart DEF RootStep, HostAccepted
<1>3. PlaceInv'
  BY <1>1, TaskFixed, OtherPcsApart DEF PlaceInv, MakePcs, RootPcs, HostCommand, Whole, OtherPcs
<1>4. WalkInv' /\ VerifiedInv'
  BY <1>1 DEF WalkInv, VerifiedInv, VerifiedPcs
<1> QED BY <1>2, <1>3, <1>4 DEF Rooted

----------------------------------------------------------------------------
(* Loading                                                                  *)

\* A step of a command about roots keeps the invariant of hosts.
LEMMA RootKeepsHosts == ASSUME HostInv, RootStep PROVE HostInv'
<1> USE DEF RootStep, HostInv
<1>1. HostFacts'
  BY Elsewhere
<1>2. pc' # "load" /\ pc' \notin HostPcs /\ pc' \notin ObservePcs
  BY DEF HostPcs
<1>3. HostTypes'
  BY <1>2 DEF HostTypes, HostCommand
<1> QED BY <1>1, <1>3

\* Where main goes for each command.
LEMMA Dispatched ==
  ASSUME TasksAreSound, HostTypes, pc = "load", task.command # "validate"
  PROVE  \/ task.command = "verify-host" /\ Dispatch(task.command) = "verify"
         \/ task.command = "verify-asset-members" /\ Dispatch(task.command) = "members"
         \/ task.command \in {"verify-external", "verify-tool-closure"} /\ Dispatch(task.command) = "open"
         \/ Building /\ Dispatch(task.command) = "prepare"
<1>1. task.command \in Commands \ {"validate", "observe-host"}
  BY DEF HostTypes, TasksAreSound, TaskIsSound
<1> QED BY <1>1 DEF Dispatch, Commands, Building, BuiltBy

\* Nothing is known of a root before its verification begins.
LEMMA LoadKeeps == ASSUME TasksAreSound, HostInv, RootInv, Load PROVE HostInv' /\ RootInv'
<1> USE DEF HostInv, RootInv, Load, KeepRoot, hostVars
<1>1. /\ pc = "load" /\ staging = Absent /\ roots = {} /\ next = 1 /\ next' = next
      /\ UNCHANGED <<host, was, profile, look, staging, dest, roots>>
      /\ task.command # "observe-host" /\ profile = ProfileFor(task) /\ host = task.host
  BY DEF PlaceInv, HostTypes, RootPcs, MakePcs
<1>2. CASE Refuse
  <2>1. Rooted
    BY <1>1, <1>2, RootRefused DEF Refuse, Absent
  <2> QED BY <2>1, RootKeepsHosts DEF Rooted
<1>3. CASE task.command = "validate" /\ Accept
  <2>1. pc' = "end" /\ task' = task /\ ~HostCommand /\ ~Building
    BY <1>3 DEF Accept, HostCommand, Building, BuiltBy
  <2>2. RootStep
    BY <1>1, <2>1, OtherPcsApart DEF RootStep, OtherPcs, HostAccepted, HostCommand
  <2>3. PlaceInv'
    BY <1>1, <2>1, TaskFixed, OtherPcsApart DEF PlaceInv, RootPcs, MakePcs
  <2>4. WalkInv' /\ VerifiedInv'
    BY <1>1, <2>1 DEF WalkInv, VerifiedInv, VerifiedPcs
  <2> QED BY <2>2, <2>3, <2>4, RootKeepsHosts
<1>4. CASE /\ task.command # "validate" /\ Goto(Dispatch(task.command))
           /\ LoadLocks(Lock, task.hosts) = "ok"
  <2>1. task' = task /\ verdict' = verdict /\ pc' = Dispatch(task.command)
    BY <1>4 DEF Goto
  <2>2. CASE task.command = "verify-host" /\ pc' = "verify"
    <3>1. IsProfile(profile, host)
      BY <1>1, <1>4, <2>2 DEF HostTypes, TasksAreSound, TaskIsSound, ProfileFor, Lock
    <3>2. HostTypes'
      BY <1>1, <2>1, <2>2 DEF HostTypes, HostCommand, ObservePcs
    <3>3. IsProfile(profile, host)'
      BY <1>1, <3>1
    <3>4. HostFacts'
      BY <2>2, <3>3 DEF HostFacts, TurnInv, ProfileInv, ObserveInv, ToolPcs, LaterPcs, ObservePcs, HostAccepted
    <3>5. ~Building
      BY <2>2 DEF Building, BuiltBy
    <3>6. PlaceInv'
      BY <1>1, <2>1, <2>2, <3>5, TaskFixed DEF PlaceInv, HostPcs, RootPcs, MakePcs
    <3>7. WalkInv' /\ VerifiedInv'
      BY <2>2 DEF WalkInv, VerifiedInv, VerifiedPcs
    <3> QED BY <3>2, <3>4, <3>6, <3>7
  <2>3. CASE /\ \/ task.command = "verify-asset-members" /\ pc' = "members"
                \/ task.command \in {"verify-external", "verify-tool-closure"} /\ pc' = "open"
                \/ Building /\ pc' = "prepare"
    <3>1. pc' \in OtherPcs /\ ~HostCommand
      BY <2>3 DEF OtherPcs, RootPcs, MakePcs, HostCommand, Building, BuiltBy
    <3>2. RootStep
      BY <1>1, <2>1, <3>1, OtherPcsApart DEF RootStep, HostAccepted, HostCommand
    <3>3. pc' \notin {"copy", "place", "replace", "end", "load"} /\ pc' \notin HostPcs
      BY <2>3, <3>1, OtherPcsApart
    <3>4. PlaceInv'
      BY <1>1, <2>1, <2>3, <3>1, <3>3, TaskFixed DEF PlaceInv, HostCommand, OtherPcs
    <3>5. WalkInv'
      BY <2>3 DEF WalkInv
    <3>6. VerifiedInv'
      <4>1. pc' = "members" => (\A p \in MembersUpTo(next - 1) : FileWasSo(p))'
        <5>1. next' - 1 = 0
          BY <1>1
        <5>2. \A j : j \notin 1..(next' - 1)
          BY <5>1, SMT
        <5>3. MembersUpTo(next - 1)' = {}
          BY <5>2 DEF MembersUpTo
        <5> QED BY <5>3
      <4>2. pc' \in {"members", "open", "prepare"}
        BY <2>3
      <4>3. pc' = "open" => task.command # "verify-asset-members"
        BY <2>3
      <4>4. pc' = "members" => task.command = "verify-asset-members"
        BY <2>3
      <4> QED BY <2>1, <4>1, <4>2, <4>3, <4>4 DEF VerifiedInv, VerifiedPcs
    <3> QED BY <3>2, <3>4, <3>5, <3>6, RootKeepsHosts
  <2>4. HostTypes
    OBVIOUS
  <2> QED BY <1>1, <1>4, <2>1, <2>2, <2>3, <2>4, Dispatched
<1> QED BY <1>2, <1>3, <1>4

----------------------------------------------------------------------------
(* Steps of commands about hosts                                            *)

\* No root is built or verified while a host is looked at.
LEMMA HostStepKeepsRoots ==
  ASSUME HostTypes, RootInv, UNCHANGED <<task, rootVars>>, pc \in HostPcs, pc' \in HostPcs \cup {"end"}
  PROVE  RootInv'
<1> USE DEF RootInv, rootVars
<1>1. pc \notin MakePcs /\ pc \notin RootPcs /\ pc' \notin MakePcs /\ pc' \notin RootPcs
  BY OtherPcsApart DEF OtherPcs, RootPcs, MakePcs, HostPcs, ToolPcs, LaterPcs, ObservePcs
<1>2. staging = Absent /\ roots = {} /\ HostCommand /\ ~Building
  BY <1>1 DEF PlaceInv, HostTypes, HostCommand, Building, BuiltBy
<1>3. PlaceInv'
  BY <1>1, <1>2, TaskFixed DEF PlaceInv, MakePcs, RootPcs
<1>4. WalkInv' /\ VerifiedInv'
  BY <1>1, <1>2 DEF WalkInv, VerifiedInv, VerifiedPcs, RootPcs, MakePcs
<1> QED BY <1>3, <1>4

\* The step of a command leaves the host as it is.
LEMMA OwnStepTypes ==
  ASSUME HostTypes, UNCHANGED <<task, host>>, was' \in {was, {host}}, DOMAIN look' = {"node", "file"},
         next' \in Nat \ {0}, pc \in HostPcs, pc' \in HostPcs \cup {"end"},
         pc' \in ObservePcs => pc \in ObservePcs
  PROVE  HostTypes'
<1>1. pc' # "load" /\ HostCommand
  BY DEF HostTypes, HostPcs, ToolPcs, LaterPcs, ObservePcs
<1>2. host \in was' /\ was' \subseteq was
  BY DEF HostTypes
<1> QED BY <1>1, <1>2 DEF HostTypes, HostCommand

\* The steps of verify-host keep the types and their stages.
LEMMA VerifyTypes ==
  ASSUME HostInv, Verify
  PROVE  HostTypes' /\ pc \in HostPcs /\ pc' \in HostPcs \cup {"end"} /\ task' = task /\ HostFacts'
<1> USE DEF HostInv, Check, Goto, Refuse, Accept, Count, Keep
<1>1. HostTypes /\ DOMAIN look = {"node", "file"} /\ StillVerified
  BY VerifyVerifies DEF HostTypes
<1>2. /\ UNCHANGED <<task, host>> /\ was' \in {was, {host}} /\ DOMAIN look' = {"node", "file"}
      /\ pc \in {"verify"} \cup VerifyPcs
  <2> USE <1>1 DEF VerifyPcs, ToolPcs, LaterPcs
  <2>1. CASE StartVerify
    BY <2>1 DEF StartVerify, NoLook
  <2>2. CASE ToolNode
    BY <2>2 DEF ToolNode, NoLook
  <2>3. CASE ToolResolved \/ ToolHash
    BY <2>3 DEF ToolResolved, ToolHash
  <2>4. CASE ToolFile
    BY <2>4 DEF ToolFile
  <2>5. CASE ToolAgain
    BY <2>5 DEF ToolAgain
  <2>6. CASE Bootstrap \/ Platform \/ Xcode \/ Mutable \/ Replaceable \/ RequireEligible
    BY <2>6 DEF Bootstrap, Platform, Xcode, Mutable, Replaceable, RequireEligible
  <2>7. CASE OwnTool
    BY <2>7 DEF OwnTool
  <2>8. CASE OwnProbe
    BY <2>8 DEF OwnProbe
  <2> QED BY <2>1, <2>2, <2>3, <2>4, <2>5, <2>6, <2>7, <2>8 DEF Verify
<1>3. pc \in HostPcs /\ pc' \in HostPcs \cup {"end"} /\ pc' \notin ObservePcs /\ next' \in Nat \ {0}
  BY <1>1, <1>2 DEF StillVerified, VerifyPcs, HostPcs, ToolPcs, LaterPcs, ObservePcs
<1> QED BY <1>1, <1>2, <1>3, OwnStepTypes DEF StillVerified

\* So do those of observe-host.
LEMMA ObserveTypes ==
  ASSUME TasksAreSound, HostInv, ObserveHost
  PROVE  HostTypes' /\ pc \in HostPcs /\ pc' \in HostPcs \cup {"end"} /\ task' = task /\ HostFacts'
<1> USE DEF HostInv, Check, Goto, Refuse, Count, Keep
<1>1. HostTypes /\ DOMAIN look = {"node", "file"} /\ StillObserved
  BY ObserveObserves DEF HostTypes
<1>2. UNCHANGED <<task, host, was, look>> /\ pc \in ObservePcs
  BY DEF ObserveHost, SeeTool, SumTool, SeeRest, ValidateProfile, ObservePcs
<1>3. pc \in HostPcs /\ pc' \in HostPcs \cup {"end"} /\ next' \in Nat \ {0}
  BY <1>1, <1>2 DEF StillObserved, HostPcs
<1> QED BY <1>1, <1>2, <1>3, OwnStepTypes DEF StillObserved

\* So does a program that fails.
LEMMA ProgramFailsTypes ==
  ASSUME HostInv, ProgramFails
  PROVE  HostTypes' /\ pc \in HostPcs /\ pc' \in HostPcs \cup {"end"} /\ task' = task /\ HostFacts'
<1> USE DEF HostInv, ProgramFails, hostVars
<1>1. pc \in HostPcs /\ pc' = "end"
  BY DEF Runs, HostPcs, ToolPcs, LaterPcs, ObservePcs
<1>2. HostFacts'
  BY Refused
<1>3. /\ UNCHANGED <<task, host>> /\ was' \in {was, {host}} /\ DOMAIN look' = {"node", "file"}
      /\ next' \in Nat \ {0} /\ pc' \notin ObservePcs
  BY <1>1 DEF HostTypes, ObservePcs
<1> QED BY <1>1, <1>2, <1>3, OwnStepTypes

\* The package manager makes a newer host, whatever the command is about.
LEMMA ChangedTypes ==
  ASSUME HostInv, NEW new, Newer(new), Changed(new), pc # "load"
  PROVE  HostInv'
<1> USE DEF HostInv
<1>1. HostFacts'
  BY ChangedKeeps
<1>2. /\ UNCHANGED <<task, pc, verdict, profile, look, next>> /\ host' = new /\ was' = was \cup {new}
      /\ IsHost(new) /\ new.kind = host.kind /\ DOMAIN new.node = DOMAIN host.node
  BY DEF Changed, Newer
<1>3. \A h \in was' : IsHost(h) /\ NotAfter(h.node, new.node) /\ NotAfter(h.file, new.file)
  <2>1. NotAfter(new.node, new.node) /\ NotAfter(new.file, new.file)
    BY <1>2, HostNumbered, NotAfterSelf
  <2>2. \A h \in was : NotAfter(h.node, new.node) /\ NotAfter(h.file, new.file)
    BY NewerThanAll DEF Newer
  <2>3. \A h \in was : IsHost(h)
    BY DEF HostTypes
  <2> QED BY <1>2, <2>1, <2>2, <2>3
<1>4. HostTypes'
  BY <1>2, <1>3 DEF HostTypes, HostCommand
<1> QED BY <1>1, <1>4

\* What is known of a root depends on the command and on the roots alone.
LEMMA RootsStay ==
  ASSUME RootInv, UNCHANGED <<task, pc, verdict, next, rootVars>>
  PROVE  RootInv'
<1> USE DEF RootInv, rootVars
<1>1. /\ \A p : FileWasSo(p)' = FileWasSo(p)
      /\ TreeWasSo => TreeWasSo'
      /\ RootWasSo => RootWasSo'
  BY TaskFixed, RootStaysSo DEF FileWasSo
<1>2. /\ ExpectedFiles' = ExpectedFiles /\ ExpectedDirs' = ExpectedDirs /\ Complete' = Complete
      /\ MembersUpTo(next - 1)' = MembersUpTo(next - 1) /\ Root' = Root
      /\ OwnWork(staging)' = OwnWork(staging) /\ OwnWork(dest)' = OwnWork(dest)
      /\ Building' = Building /\ HostCommand' = HostCommand
  BY TaskFixed DEF MembersUpTo, MembersOf, Root, HostCommand
<1>3. PlaceInv'
  BY <1>2 DEF PlaceInv, Whole
<1>4. WalkInv'
  BY <1>1, <1>2 DEF WalkInv, Listed, InDir
<1>5. VerifiedInv'
  BY <1>1, <1>2 DEF VerifiedInv
<1> QED BY <1>3, <1>4, <1>5

\* So is what is known of a host, when nothing changes.
LEMMA HostStays ==
  ASSUME HostInv, UNCHANGED <<task, pc, verdict, host, was, profile, look, next>>
  PROVE  HostInv'
<1> USE DEF HostInv, HostFacts
<1>1. HostTypes'
  BY DEF HostTypes, HostCommand
<1>2. TurnInv'
  <2>1. Turn' = Turn
    BY DEF Turn
  <2> QED BY <2>1 DEF TurnInv, NodeSeen, Led, FileSeen, Summed
<1>3. ProfileInv'
  <2>1. \A t : ToolWasSo(t)' = ToolWasSo(t)
    BY DEF ToolWasSo
  <2>2. \A d : OwnWasSo(d)' = OwnWasSo(d)
    BY DEF OwnWasSo
  <2>3. HostAccepted' = HostAccepted
    BY DEF HostAccepted
  <2> QED BY <2>1, <2>2, <2>3, StaysSo DEF ProfileInv
<1>4. ObserveInv'
  BY DEF ObserveInv
<1> QED BY <1>1, <1>2, <1>3, <1>4

----------------------------------------------------------------------------
(* The theorem                                                              *)

\* Every command starts in the invariant.
LEMMA InitEstablishes == ASSUME TasksAreSound, Init PROVE HostInv /\ RootInv
<1> USE DEF Init, Started, HostStarted
<1>1. /\ task \in Tasks /\ TaskIsSound(task) /\ host = task.host /\ was = {task.host} /\ next = 1
      /\ profile = ProfileFor(task) /\ look = NoLook /\ verdict = "none"
      /\ pc = IF task.command = "observe-host" THEN "see" ELSE "load"
  BY DEF TasksAreSound
<1>2. IsHost(host) /\ NotAfter(host.node, host.node) /\ NotAfter(host.file, host.file)
  BY <1>1, HostNumbered, NotAfterSelf DEF TaskIsSound
<1>3. HostTypes
  BY <1>1, <1>2 DEF HostTypes, NoLook, HostCommand, HostPcs, ToolPcs, LaterPcs, ObservePcs
<1>4. HostFacts
  <2>1. TurnInv /\ ProfileInv
    BY <1>1 DEF TurnInv, ProfileInv, ToolPcs, LaterPcs, HostAccepted
  <2>2. ASSUME pc \in ObservePcs PROVE ObserveInv
    <3>1. task.command = "observe-host" /\ pc = "see" /\ profile = task.blank
      BY <1>1, <2>2 DEF ObservePcs, ProfileFor
    <3>2. IsBlank(profile) /\ task.paths \in Seq(DOMAIN task.host.node) \ {<<>>}
      BY <1>1, <3>1 DEF TaskIsSound
    <3>3. 1 <= Len(task.paths)
      BY <3>2, SMT
    <3>4. profile.tools = <<>> /\ ToSet(profile.tools) = {} /\ Len(profile.tools) = 0
      BY <3>2, SMT DEF IsBlank, ToSet
    <3>5. profile.tools \in Seq(ToSet(profile.tools)) /\ next - 1 = 0
      BY <1>1, <3>4, SMT
    <3> QED BY <1>1, <3>1, <3>2, <3>3, <3>4, <3>5 DEF ObserveInv, IsBlank
  <2> QED BY <2>1, <2>2 DEF HostFacts, ObserveInv
<1>5. pc \in HostPcs \cup {"load"} /\ pc \notin RootPcs /\ pc \notin MakePcs
  BY <1>1 DEF HostPcs, ObservePcs, RootPcs, MakePcs
<1>6. PlaceInv
  BY <1>1, <1>5 DEF PlaceInv, RootPcs
<1>7. WalkInv /\ VerifiedInv
  BY <1>1, <1>5 DEF WalkInv, VerifiedInv, VerifiedPcs, RootPcs, MakePcs
<1> QED BY <1>3, <1>4, <1>6, <1>7 DEF HostInv, RootInv

\* A step of a command about roots keeps the invariant.
LEMMA RootNextKeeps ==
  ASSUME TasksAreSound, HostInv, RootInv, RootNext
  PROVE  HostInv' /\ RootInv'
<1>1. CASE Load
  BY <1>1, LoadKeeps
<1>2. CASE ~Load
  <2>1. Rooted
    BY <1>2, PrepareRooted, CopyMemberRooted, PlaceBuiltRooted, AssetFailsRooted, ReplaceRooted,
       UnwindRooted, OpenRootRooted, EnterDirRooted, VisitFileRooted, TreeVerifiedRooted,
       InspectorRooted, BinaryClosureRooted, RunToolsRooted, AcceptedRooted, MembersRooted,
       ProbeFailsRooted, MeddleRooted, RivalRooted, KillRooted
       DEF RootNext
  <2> QED BY <2>1, RootKeepsHosts DEF Rooted
<1> QED BY <1>1, <1>2

\* A step of a command about hosts, or of the host itself, keeps it.
LEMMA HostNextKeeps ==
  ASSUME TasksAreSound, HostInv, RootInv, HostNext, UNCHANGED rootVars
  PROVE  HostInv' /\ RootInv'
<1>1. CASE Verify \/ ObserveHost \/ ProgramFails
  <2>1. HostTypes' /\ pc \in HostPcs /\ pc' \in HostPcs \cup {"end"} /\ task' = task /\ HostFacts'
    BY <1>1, VerifyTypes, ObserveTypes, ProgramFailsTypes
  <2> QED BY <2>1, HostStepKeepsRoots DEF HostInv
<1>2. CASE Upgrade \/ Relink
  <2>1. PICK new : Newer(new) /\ Changed(new)
    BY <1>2, OthersChange
  <2>2. pc # "load" /\ UNCHANGED <<task, pc, verdict, next>>
    BY <1>2, <2>1 DEF Upgrade, Relink, Changed
  <2>3. HostInv'
    BY <2>1, <2>2, ChangedTypes
  <2>4. RootInv'
    BY <2>2, RootsStay
  <2> QED BY <2>3, <2>4
<1> QED BY <1>1, <1>2 DEF HostNext

\* Every step keeps it.
LEMMA NextKeeps ==
  ASSUME TasksAreSound, HostInv, RootInv, [Next]_vars
  PROVE  HostInv' /\ RootInv'
<1>1. CASE UNCHANGED vars
  <2>1. UNCHANGED <<task, pc, verdict, host, was, profile, look, next, rootVars>>
    BY <1>1 DEF vars, rootVars
  <2> QED BY <2>1, HostStays, RootsStay
<1>2. CASE Next
  BY <1>2, RootNextKeeps, HostNextKeeps DEF Next
<1> QED BY <1>1, <1>2

\* What the invariant says of the end of a command.
LEMMA InvImplies == ASSUME HostInv, RootInv PROVE AcceptedWasSo
<1>1. HostAccepted => HostWasSo
  BY DEF HostInv, HostFacts, ProfileInv
<1>2. /\ pc = "end" /\ verdict = "ok" /\ roots # {} => RootWasSo
      /\ Building => dest \in {task.dest, EmptyDir, Put(EmptyDir, 1, Stray)} \/ OwnWork(dest)
      /\ pc = "end" => staging = Absent
  BY DEF RootInv, PlaceInv, VerifiedInv, MakePcs
<1> QED BY <1>1, <1>2 DEF AcceptedWasSo

\* Whatever verify-host, observe-host, verify-external, verify-tool-closure,
\* verify-asset-members and the materializers accept was so at some moment while
\* they ran, whoever changes hosts and roots in between; and a destination holds
\* the whole root that was built, or what others put there.
THEOREM AcceptedWasSoCorrect == ASSUME TasksAreSound PROVE Spec => []AcceptedWasSo
<1>1. Init => HostInv /\ RootInv
  BY InitEstablishes
<1>2. HostInv /\ RootInv /\ [Next]_vars => (HostInv /\ RootInv)'
  BY NextKeeps
<1>3. HostInv /\ RootInv => AcceptedWasSo
  BY InvImplies
<1> QED BY <1>1, <1>2, <1>3, PTL DEF Spec
=============================================================================
