------------------------------ MODULE HostGate ------------------------------
(* toolchain-assets observe-host and verify-host beside a package manager:   *)
(* the host's tools are looked at one system call after another, so that an  *)
(* upgrade may come between any two of them.  What observe-host prints is     *)
(* then validated and verified, as the profile file it becomes would be.     *)
(*                                                                           *)
(* Every program the commands run goes through bounded_host_command, which   *)
(* may always raise (a timeout, too much output, an exit code): Refuse.      *)
EXTENDS ToolLock

CONSTANTS
    Tasks,          \* the commands, with their locks and the state they start in
    OwnIds,         \* the system tools that are also distroTools, in their order
    MaxChanges      \* changes other processes make during one command

VARIABLES
    task,           \* the element of Tasks that runs
    pc, verdict,    \* the next step; "ok" or "refused" at the end
    host,           \* the files, links and answers of the host
    was,            \* the hosts there have been since the verification began
    profile,        \* the profile being verified, or written
    look,           \* what lstat said of a pathname and of the file it led to
    next,           \* the index of the tool whose turn it is
    changes,        \* how often other processes have changed something
    faulted         \* a program failed that need not have

hostVars == <<host, was, profile, look, next>>
NoLook == [node |-> 0, file |-> [ino |-> 0, nlink |-> 0, mode |-> 0]]

\* The locks, and with them the profile a command needs, are loaded first.
ProfileFor(t) == IF t.command = "verify-host" THEN t.hosts.profiles[t.index] ELSE t.blank

HostStarted ==
    /\ pc = IF task.command = "observe-host" THEN "see" ELSE "load"
    /\ verdict = "none"
    /\ host = task.host /\ was = {task.host}
    /\ profile = ProfileFor(task)
    /\ look = NoLook /\ next = 1 /\ changes = 0 /\ faulted = FALSE

Goto(p) == pc' = p /\ UNCHANGED <<task, verdict, changes, faulted>>
Refuse == pc' = "end" /\ verdict' = "refused" /\ UNCHANGED <<task, changes, faulted>>
Accept == pc' = "end" /\ verdict' = "ok" /\ UNCHANGED <<task, changes, faulted>>
Check(condition, p) == IF condition THEN Goto(p) ELSE Refuse
Keep == UNCHANGED <<host, was, profile, look>>

\* The i-th step of a list is followed by the next one, or by another step.
Count(n, here, after) ==
    IF next < n THEN next' = next + 1 /\ Goto(here) ELSE next' = 1 /\ Goto(after)

----------------------------------------------------------------------------
(* The host                                                                 *)

Node(h, path) == h.node[path]
Target(h, path) == IF h.node[path].type = "symlink" THEN h.node[path].to ELSE path
FileAt(h, path) == h.file[path]

\* What a profile says of a tool: its pathname, the file it leads to, its bytes.
LeadsTo(h, t) ==
    /\ Node(h, t.path).type = "symlink" => t.link = {Node(h, t.path).to}
    /\ Target(h, t.path) = t.to
NodeMatches(h, t) == Node(h, t.path).root /\ Node(h, t.path).type = t.node /\ LeadsTo(h, t)
MetadataMatches(h, t) ==
    LET f == FileAt(h, t.to) IN f.root /\ f.nlink = t.nlink /\ f.mode = t.mode
BytesMatch(h, t) == FileAt(h, t.to).hash = t.hash

\* path_mutable_by_current_user raises on a symlink.
Exposed(h, path) == FileAt(h, path).exposed
Plain(h, path) == h.node[path].type = "regular"

----------------------------------------------------------------------------
(* verify_host                                                              *)

\* Another process may have replaced the file between lstat and open.
SameFile(h, path) == FileAt(h, path).ino = look.file.ino

Stages(kind) ==
    IF kind = "darwin"
    THEN <<"bootstrap", "platform", "xcode", "own", "probe", "eligible">>
    ELSE <<"bootstrap", "platform", "own", "probe", "mutable", "replaceable", "eligible">>
StageAfter(s) ==
    LET stages == Stages(profile.kind)
    IN  stages[1 + CHOOSE i \in DOMAIN stages : stages[i] = s]

StartVerify ==
    /\ pc = "verify"
    /\ was' = {host} /\ next' = 1 /\ look' = NoLook
    /\ Check(profile.kind = host.kind, "node")
    /\ UNCHANGED <<host, profile>>

\* verify_system_tool_nodes looks at the pathname, resolves it, looks at the
\* file it leads to, hashes that, and looks at the pathname once more.
ToolNode ==
    /\ pc = "node"
    /\ LET path == profile.tools[next].path IN
       /\ look' = [NoLook EXCEPT !.node = Node(host, path).ino]
       /\ Check(Node(host, path).root /\ Node(host, path).type = profile.tools[next].node, "resolve")
    /\ UNCHANGED <<host, was, profile, next>>

ToolResolved ==
    /\ pc = "resolve"
    /\ LET t == profile.tools[next] IN Check(LeadsTo(host, t), "file")
    /\ Keep /\ UNCHANGED next

\* verify_locked_regular up to the hash: the metadata are compared later.
ToolFile ==
    /\ pc = "file"
    /\ LET f == FileAt(host, profile.tools[next].to) IN
       /\ look' = [look EXCEPT !.file = [ino |-> f.ino, nlink |-> f.nlink, mode |-> f.mode]]
       /\ Check(f.root, "hash")
    /\ UNCHANGED <<host, was, profile, next>>

ToolHash ==
    /\ pc = "hash"
    /\ LET t == profile.tools[next] IN Check(SameFile(host, t.to) /\ BytesMatch(host, t), "again")
    /\ Keep /\ UNCHANGED next

AnyNode(t) == TRUE   \* wrong: the pathname is not looked at again
SameNode(t) == Node(host, t.path).ino = look.node
ToolAgain ==
    /\ pc = "again"
    /\ LET t == profile.tools[next]
           good == look.file.nlink = t.nlink /\ look.file.mode = t.mode /\ SameNode(t)
       IN  \/ good /\ Count(Len(profile.tools), "node", "bootstrap")
           \/ ~good /\ Refuse /\ UNCHANGED next
    /\ Keep

\* require_host_tool, then the known-answer test of the digest bootstrap.
Answers(h, path) == FileAt(h, Target(h, path)).works
Bootstrap ==
    /\ pc = "bootstrap"
    /\ Check(Len(profile.tools) >= Cardinality(task.required) /\ Answers(host, profile.boot.path),
             StageAfter("bootstrap"))
    /\ Keep /\ UNCHANGED next

Platform ==
    /\ pc = "platform"
    /\ Check(host.platform = profile.platform, StageAfter("platform"))
    /\ Keep /\ UNCHANGED next

\* The directories of Xcode, their owner, its signature, its versions and where
\* xcrun finds each tool; and whether the current user could change it.
Xcode ==
    /\ pc = "xcode"
    /\ Check(host.xcode.asLocked /\ host.xcode.exposed = profile.mutable, StageAfter("xcode"))
    /\ Keep /\ UNCHANGED next

\* verify_locked_regular for each of the distro's or Xcode's tools.
OwnTool ==
    /\ pc = "own"
    /\ LET d == profile.own[next] IN
       \/ /\ FileAt(host, d.path).root /\ BytesMatch(host, [to |-> d.path, hash |-> d.hash])
          /\ Count(Len(profile.own), "own", StageAfter("own"))
       \/ /\ ~(FileAt(host, d.path).root /\ BytesMatch(host, [to |-> d.path, hash |-> d.hash]))
          /\ Refuse /\ UNCHANGED next
    /\ Keep

\* The version probes; on Darwin what was loaded is looked at as well.
OwnProbe ==
    /\ pc = "probe"
    /\ LET d == profile.own[next]
           good == FileAt(host, d.path).says = d.says
                   /\ (profile.kind = "darwin" => FileAt(host, d.path).loads \subseteq ToSet(profile.roots))
       IN  \/ good /\ Count(Len(profile.own), "probe", StageAfter("probe"))
           \/ ~good /\ Refuse /\ UNCHANGED next
    /\ Keep

OwnExposed(h, own) == \E d \in ToSet(own) : Exposed(h, d.path)
Mutable ==
    /\ pc = "mutable"
    /\ Check(OwnExposed(host, profile.own) = profile.mutable, StageAfter("mutable"))
    /\ Keep /\ UNCHANGED next

\* Only an eligible profile promises that none of its files can be replaced; its
\* digest bootstrap is one of its tools, and must not be a symlink.
ToolsExposed(h, p) == \E t \in ToSet(p.tools) : Exposed(h, t.to)
Replaceable ==
    /\ pc = "replaceable"
    /\ Check(profile.eligible => Plain(host, profile.boot.path) /\ ~ToolsExposed(host, profile),
             StageAfter("replaceable"))
    /\ Keep /\ UNCHANGED next

RequireEligible ==
    /\ pc = "eligible"
    /\ IF task.strict /\ ~profile.eligible THEN Refuse ELSE Accept
    /\ Keep /\ UNCHANGED next

Verify == StartVerify \/ ToolNode \/ ToolResolved \/ ToolFile \/ ToolHash \/ ToolAgain \/ Bootstrap \/ Platform \/ Xcode
          \/ OwnTool \/ OwnProbe \/ Mutable \/ Replaceable \/ RequireEligible

----------------------------------------------------------------------------
(* observe_host_linux                                                       *)

\* observe_linux_system_tool up to the hash: lstat, readlink, resolve, lstat.
SeeTool ==
    /\ pc = "see"
    /\ LET path == task.paths[next]
           n == Node(host, path)
           to == Target(host, path)
           f == FileAt(host, to)
           record == [id |-> next, path |-> path, node |-> n.type, to |-> to, hash |-> "none",
                      link |-> IF n.type = "symlink" THEN {n.to} ELSE {}, nlink |-> f.nlink,
                      mode |-> f.mode, bad |-> IF f.setuid THEN {"mode"} ELSE {}]
       IN  profile' = [profile EXCEPT !.tools = Append(@, record)]
    /\ Check(host.kind = "linux" /\ Node(host, task.paths[next]).type \in {"regular", "symlink"}, "sum")
    /\ UNCHANGED <<host, was, look, next>>

\* sha256_file opens the resolved path anew: these may be other bytes.
SumTool ==
    /\ pc = "sum"
    /\ profile' = [profile EXCEPT !.tools[next].hash = FileAt(host, profile.tools[next].to).hash]
    /\ Count(Len(task.paths), "see", "see-rest")
    /\ UNCHANGED <<host, was, look>>

\* The tools observe-host also lists as the distribution's, by their ids, and
\* whether some tool is the current user's to replace.
OwnTools(p) == [i \in DOMAIN OwnIds |-> p.tools[OwnIds[i]]]
Unprotected(h, p) == ToolsExposed(h, p)
EligibleHere(h, p) ==
    /\ h.platform.arch \in {"x86_64", "aarch64"} /\ h.platform.boot = "enabled"
    /\ ~Unprotected(h, p)

\* The platform, the versions and owners of the distro's tools, the known
\* answer and the load roots; "why" stands for the reasons joined.
SeeRest ==
    /\ pc = "see-rest"
    /\ LET own == [i \in DOMAIN OwnTools(profile) |->
                     LET t == OwnTools(profile)[i]
                     IN  [path |-> t.to, hash |-> t.hash, says |-> FileAt(host, t.to).says]]
           boot == profile.tools[1]
           seen == [profile EXCEPT !.boot = [path |-> boot.path, hash |-> boot.hash]]
           eligible == EligibleHere(host, seen)
       IN  profile' = [seen EXCEPT !.platform = host.platform, !.own = own,
                         !.mutable = OwnExposed(host, own), !.roots = host.roots,
                         !.eligible = eligible, !.reason = IF eligible THEN {} ELSE {"why"}]
    /\ Check(Plain(host, profile.tools[1].path) /\ Answers(host, profile.tools[1].path) /\ host.roots # <<>>,
             "written")
    /\ UNCHANGED <<host, was, look, next>>

\* validate-host-profile: a lock of this one profile, and the tool lock of its
\* platform; then verify-host.
ValidateProfile ==
    /\ pc = "written"
    /\ Check(/\ ValidateHostLock([schema |-> "v2", bad |-> {}, profiles |-> <<profile>>]) = "ok"
             /\ ValidatePair(task.lock, [profiles |-> <<profile>>]) = "ok", "verify")
    /\ Keep /\ UNCHANGED next

ObserveHost == SeeTool \/ SumTool \/ SeeRest \/ ValidateProfile

----------------------------------------------------------------------------
(* The surroundings                                                         *)

\* bounded_host_command raises: the program timed out, was too talkative, or
\* failed.
Runs == {"bootstrap", "platform", "xcode", "probe", "see-rest"}
ProgramFails ==
    /\ pc \in Runs
    /\ pc' = "end" /\ verdict' = "refused" /\ faulted' = TRUE
    /\ UNCHANGED <<task, changes>> /\ UNCHANGED hostVars

\* The package manager replaces a file, by a new version or by the same one,
\* or makes a link point elsewhere; each makes a new inode.
Changed(h) ==
    /\ host' = h /\ was' = was \cup {h} /\ changes' = changes + 1
    /\ UNCHANGED <<task, pc, verdict, profile, look, next, faulted>>
Upgrade ==
    /\ pc \notin {"load", "end"} /\ task.upgraded /\ changes < MaxChanges
    /\ \E path \in DOMAIN host.file :
         \/ Changed([host EXCEPT !.file[path].ino = @ + 1])
         \/ Changed([host EXCEPT !.file[path].ino = @ + 1, !.file[path].hash = "new",
                                   !.file[path].mode = 2, !.file[path].says = 2])
Relink ==
    /\ pc \notin {"load", "end"} /\ task.upgraded /\ changes < MaxChanges
    /\ \E path \in DOMAIN host.node : \E to \in DOMAIN host.file :
         /\ host.node[path].type = "symlink"
         /\ Changed([host EXCEPT !.node[path].ino = @ + 1, !.node[path].to = to])

HostNext == Verify \/ ObserveHost \/ ProgramFails \/ Upgrade \/ Relink

----------------------------------------------------------------------------
(* Properties                                                               *)

\* Whether verify-host has accepted the profile.
HostAccepted == pc = "end" /\ verdict = "ok" /\ task.command \in {"verify-host", "observe-host"}

\* There was a host on which everything said of a tool held at once.
ToolWasSo(t) ==
    \E h \in was : NodeMatches(h, t) /\ MetadataMatches(h, t) /\ BytesMatch(h, t)
HostWasSo ==
    /\ \A t \in ToSet(profile.tools) : ToolWasSo(t)
    /\ \A d \in ToSet(profile.own) : \E h \in was : FileAt(h, d.path).hash = d.hash
    /\ \E h \in was : h.platform = profile.platform
    /\ profile.eligible => \E h \in was : IF profile.kind = "linux" THEN ~ToolsExposed(h, profile)
                                                                    ELSE ~h.xcode.exposed

\* A host whose profile can be written and locked: everything belongs to root,
\* and its digest bootstrap is a file of its own.
Proper(h) ==
    /\ h.kind = "linux" /\ h.roots = task.lock.policy.roots
    /\ \A path \in DOMAIN h.node : h.node[path].root /\ h.node[path].type \in {"regular", "symlink"}
    /\ \A path \in DOMAIN h.file : h.file[path].root /\ h.file[path].works /\ ~h.file[path].setuid
    /\ Plain(h, task.paths[1])
=============================================================================
