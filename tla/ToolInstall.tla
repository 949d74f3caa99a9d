----------------------------- MODULE ToolInstall -----------------------------
(***************************************************************************)
(* `proof-forge-next install` and `doctor` (scripts/proof_forge_install.py,*)
(* scripts/proof_forge_doctor.py) over the asset cache of                  *)
(* scripts/toolchain_assets.py.  Runs share the tool root and the cache    *)
(* with no lock: what keeps them apart is unique temporary names,          *)
(* os.replace, and checks before and after.  Two kinds of tool are         *)
(* installed: the members of a downloaded archive, pinned by digest, and a *)
(* program built from a git commit, which is pinned by nothing.  A run may *)
(* be killed anywhere.                                                     *)
(***************************************************************************)
EXTENDS Naturals, Sequences, FiniteSets

CONSTANTS
  Runs,       \* install processes
  Members,    \* the archive's members, in the order of the lock
  Source,     \* the path of the program built from source
  Attempts,   \* SAFE_HTTPS_OPEN_ATTEMPTS
  Retired     \* a node of the tool root no lock names any more

Tools == {"archive", "source"}
MemberPaths == {Members[i] : i \in DOMAIN Members}
Paths == MemberPaths \cup {Source}

ASSUME InstallAssumption ==
  /\ Members \in Seq(MemberPaths) /\ Members # << >> /\ Source \notin MemberPaths
  /\ Attempts \in Nat \ {0} /\ Retired \notin Runs
  /\ Paths \cap (Runs \cup {Retired}) = {}

VARIABLES
  pc,        \* where each run is
  tool,      \* the tool it works on
  todo,      \* the tools it has not come to yet
  status,    \* what it reports of each tool
  idx,       \* the member it works on
  attempt,   \* the download attempt it is in
  listed,    \* what its prune listed, then what of it is outside the lock
  stale,     \* the file or tree it holds open lost its name
  made,      \* the tool root exists
  root,      \* what each locked path of the tool root holds
  temp,      \* each run's temporary file in the tool root
  retired,   \* the retired node is there
  blob,      \* the archive's content-addressed file in the cache
  part,      \* each run's temporary download beside it
  tree,      \* the cache directory of the built program
  stage,     \* each run's staging tree beside it
  met,       \* history: the runs whose life overlapped each run's
  faulted,   \* history: runs that met a failure of network, build or disk
  gap        \* history: paths each run unlinked and did not write again

plan    == <<tool, todo, status>>
call    == <<idx, attempt, listed, stale>>
place   == <<made, root, temp, retired>>
cache   == <<blob, part, tree, stage>>
history == <<met, faulted, gap>>
vars == <<pc, plan, call, place, cache, history>>

NoTemp == [path |-> Source, holds |-> "none"]

Active(r) == pc[r] \notin {"idle", "done", "aborted", "killed"}
Others(r) == Runs \ {r}
Member(r) == Members[idx[r]]
At(r, p) == pc[r] = p
Goto(r, p) == pc' = [pc EXCEPT ![r] = p]

Init ==
  /\ pc = [r \in Runs |-> "idle"]
  /\ tool = [r \in Runs |-> "archive"]
  /\ todo = [r \in Runs |-> Tools]
  /\ status = [r \in Runs |-> [t \in Tools |-> "none"]]
  /\ idx = [r \in Runs |-> 1]
  /\ attempt = [r \in Runs |-> 1]
  /\ listed = [r \in Runs |-> {}]
  /\ stale = [r \in Runs |-> FALSE]
  /\ made \in BOOLEAN
  /\ root \in [Paths -> IF made THEN {"absent", "old"} ELSE {"absent"}]
  /\ temp = [r \in Runs |-> NoTemp]
  /\ retired \in IF made THEN BOOLEAN ELSE {FALSE}
  /\ blob = "absent"
  /\ part = [r \in Runs |-> "none"]
  /\ tree \in {"absent", "stale"}
  /\ stage = [r \in Runs |-> "none"]
  /\ met = [r \in Runs |-> {}]
  /\ faulted = {}
  /\ gap = [r \in Runs |-> {}]

-----------------------------------------------------------------------------
(* How a step, a tool or a run ends.                                       *)

\* The run goes to p and nothing else happens; Steps also moves its index.
Moves(r, p) == Goto(r, p) /\ UNCHANGED <<plan, call, place, cache, history>>
Steps(r, p, i) ==
  /\ Goto(r, p) /\ idx' = [idx EXCEPT ![r] = i]
  /\ UNCHANGED <<plan, attempt, listed, stale, place, cache, history>>

\* The locals of a call that returned or of a process that is gone.
Forgets(r) ==
  /\ idx' = [idx EXCEPT ![r] = 1]
  /\ attempt' = [attempt EXCEPT ![r] = 1]
  /\ listed' = [listed EXCEPT ![r] = {}]
  /\ stale' = [stale EXCEPT ![r] = FALSE]

\* Mutant: temporary files are removed on success only.
KeepsTemporaries(r) == UNCHANGED <<temp, part, stage>>

\* The finally clauses: whatever happens but a kill, no temporary file stays.
Tidy(r) ==
  /\ temp' = [temp EXCEPT ![r] = NoTemp]
  /\ part' = [part EXCEPT ![r] = "none"]
  /\ stage' = [stage EXCEPT ![r] = "none"]

\* AssetError, OSError and RuntimeError end the tool, not the run.
FailTool(r) ==
  /\ status' = [status EXCEPT ![r][tool[r]] = "failed"]
  /\ Goto(r, "next") /\ Tidy(r) /\ Forgets(r)
  /\ UNCHANGED <<tool, todo, made, root, retired, blob, tree>>

Fails(r) == FailTool(r) /\ UNCHANGED history

\* The same, for a cause outside the program.
Blamed(r) == faulted' = faulted \cup {r} /\ UNCHANGED <<met, gap>>
Breaks(r) == FailTool(r) /\ Blamed(r)

\* An exception nothing catches, or die(), ends the run.
Aborts(r) ==
  /\ Goto(r, "aborted") /\ Tidy(r) /\ Forgets(r)
  /\ UNCHANGED <<plan, made, root, retired, blob, tree>>

\* The post-install digest of the archive's executable overrides the status.
Reported(r, s) == IF tool[r] = "archive" /\ root[Members[1]] = "old" THEN "failed" ELSE s

Settles(r, s) ==
  /\ status' = [status EXCEPT ![r][tool[r]] = Reported(r, s)]
  /\ Goto(r, "next") /\ Forgets(r)
  /\ UNCHANGED <<tool, todo, place, cache, history>>

-----------------------------------------------------------------------------
(* A run begins, prunes and goes through its tools: main.                  *)

Start(r) ==
  /\ At(r, "idle") /\ Goto(r, "ensure")
  /\ \E wanted \in SUBSET Tools \ {{}} : todo' = [todo EXCEPT ![r] = wanted]
  /\ met' = [q \in Runs |-> IF q = r THEN {o \in Runs : Active(o)}
                            ELSE IF Active(q) THEN met[q] \cup {r} ELSE met[q]]
  /\ UNCHANGED <<tool, status, call, place, cache, faulted, gap>>

\* ensure_tool_root: the root is there, or it is made without exist_ok.
EnsureRoot(r) == At(r, "ensure") /\ Moves(r, IF made THEN "scan" ELSE "mkdir")

MakeRoot(r) ==
  /\ At(r, "mkdir")
  /\ IF made THEN Aborts(r) /\ UNCHANGED history
     ELSE /\ made' = TRUE /\ Goto(r, "scan")
          /\ UNCHANGED <<plan, call, root, temp, retired, cache, history>>

\* What the root holds outside the lock: the retired node and the temporary
\* files of runs, dead or alive.
Unlocked ==
  {<<q, temp[q].path>> : q \in {o \in Runs : temp[o].holds # "none"}}
    \cup (IF retired THEN {<<Retired, Retired>>} ELSE {})

\* The names it holds: those, and the locked paths that are there.
Nodes == (Runs \cup {Retired} \cup Paths) \X (Paths \cup {Retired})
LockedNames == {<<p, p>> : p \in {q \in Paths : root[q] # "absent"}}
Names == Unlocked \cup LockedNames

\* Mutant: retired tools are removed, not what killed runs left.
RetiredOnly(names) == {n \in names : n[1] = Retired}

\* Of the names listed, those outside the lock.
ToPrune(names) == {n \in names : n[1] \notin Paths}

\* The walk lists the names of the root, ...
ScanRoot(r) ==
  /\ At(r, "scan") /\ Goto(r, "visit")
  /\ listed' = [listed EXCEPT ![r] = Names]
  /\ UNCHANGED <<plan, idx, attempt, stale, place, cache, history>>

\* ... then stats them one after another; a name that is gone when its turn
\* comes, a locked one that another run has unlinked included, ends the run
\* with exit status 3.  The walk gets through only if none of them goes before
\* its turn; a stat changes nothing, so where it does all can be taken at once.
VisitNodes(r) ==
  /\ At(r, "visit")
  /\ \/ listed[r] \ Names # {} /\ Aborts(r) /\ UNCHANGED history
     \/ /\ listed[r] \subseteq Names /\ Goto(r, "prune")
        /\ listed' = [listed EXCEPT ![r] = ToPrune(@)]
        /\ UNCHANGED <<plan, idx, attempt, stale, place, cache, history>>

\* One unlink of prune_retired_nodes; a node that is gone meanwhile ends the
\* run with exit status 3.
PruneNode(r, n) ==
  IF n \notin Unlocked THEN Aborts(r) /\ UNCHANGED history
  ELSE /\ listed' = [listed EXCEPT ![r] = @ \ {n}]
       /\ retired' = (retired /\ n[1] # Retired)
       /\ temp' = [q \in Runs |-> IF q = n[1] THEN NoTemp ELSE temp[q]]
       /\ UNCHANGED <<pc, plan, idx, attempt, stale, made, root, cache, history>>

Prune(r) ==
  /\ At(r, "prune")
  /\ \/ listed[r] = {} /\ Moves(r, "next")
     \/ \E n \in listed[r] : PruneNode(r, n)

NextTool(r) ==
  /\ At(r, "next")
  /\ \/ todo[r] = {} /\ Moves(r, "done")
     \/ \E t \in todo[r] :
          /\ tool' = [tool EXCEPT ![r] = t]
          /\ todo' = [todo EXCEPT ![r] = @ \ {t}]
          /\ Goto(r, IF t = "archive" THEN "match" ELSE "present")
          /\ UNCHANGED <<status, call, place, cache, history>>

Kill(r) ==
  /\ Active(r) /\ Goto(r, "killed") /\ Forgets(r)
  /\ UNCHANGED <<plan, place, cache, history>>

-----------------------------------------------------------------------------
(* The archive in the cache: provision_asset, cached_asset_snapshot.       *)

\* Mutant: members are always written again.
NeverMatches(r) == FALSE

\* member_matches: type, size, mode and digest.
Matches(r) == root[Member(r)] = "good"

\* all_members_match, one member at a time.
Match(r) ==
  /\ At(r, "match")
  /\ \/ ~Matches(r) /\ Steps(r, "look", 1)
     \/ Matches(r) /\ idx[r] < Len(Members) /\ Steps(r, "match", idx[r] + 1)
     \/ Matches(r) /\ idx[r] = Len(Members) /\ Settles(r, "skipped")

Look(r) == At(r, "look") /\ Moves(r, IF blob = "absent" THEN "fetch" ELSE "open")

TriesLeft(r) == attempt[r] < Attempts

\* safe_https_open: a transient failure is tried again a bounded number of
\* times, any other ends the download.
Fetch(r) ==
  /\ At(r, "fetch")
  /\ \/ /\ part' = [part EXCEPT ![r] = "torn"] /\ Goto(r, "save")
        /\ attempt' = [attempt EXCEPT ![r] = 1]
        /\ UNCHANGED <<plan, idx, listed, stale, place, blob, tree, stage, history>>
     \/ /\ TriesLeft(r)
        /\ attempt' = [attempt EXCEPT ![r] = @ + 1]
        /\ UNCHANGED <<pc, plan, idx, listed, stale, place, cache, history>>
     \/ Breaks(r)

\* The body arrives, is other bytes than the locked ones, or breaks off.
Save(r) ==
  /\ At(r, "save")
  /\ \/ /\ \E bytes \in {"good", "wrong"} : part' = [part EXCEPT ![r] = bytes]
        /\ Goto(r, "publish")
        /\ UNCHANGED <<plan, call, place, blob, tree, stage, history>>
     \/ Breaks(r)

\* Mutant: the digest of the download is not compared.
AnyBytes(r) == TRUE

Verified(r) == part[r] = "good"

\* Size and digest, then os.replace: a reader of the former file is left with
\* an inode that has no name.
Publish(r) ==
  /\ At(r, "publish")
  /\ \/ ~Verified(r) /\ Breaks(r)
     \/ /\ Verified(r) /\ Goto(r, "open")
        /\ blob' = part[r] /\ part' = [part EXCEPT ![r] = "none"]
        /\ stale' = [q \in Runs |-> stale[q] \/ pc[q] \in {"close", "reclose"}]
        /\ UNCHANGED <<plan, idx, attempt, listed, place, tree, stage, history>>

OpenBlob(r, here, next) ==
  /\ At(r, here)
  /\ \/ blob = "absent" /\ Fails(r)
     \/ blob # "absent" /\ Moves(r, next)

\* The link count after the read must be the one before it, and the digest the
\* locked one.
CloseBlob(r, here, next) ==
  /\ At(r, here)
  /\ \/ (stale[r] \/ blob # "good") /\ Fails(r)
     \/ ~stale[r] /\ blob = "good" /\ Moves(r, next)

Validate(r) == OpenBlob(r, "open", "close") \/ CloseBlob(r, "close", "compare")

-----------------------------------------------------------------------------
(* The archive's members in the tool root: materialize_asset_members.      *)

Compare(r) ==
  /\ At(r, "compare")
  /\ \/ ~Matches(r) /\ Moves(r, "exists")
     \/ Matches(r) /\ idx[r] < Len(Members) /\ Steps(r, "compare", idx[r] + 1)
     \/ Matches(r) /\ idx[r] = Len(Members) /\ Steps(r, "verify", 1)

Exists(r) ==
  At(r, "exists") /\ Moves(r, IF root[Member(r)] = "absent" THEN "reopen" ELSE "unlink")

\* The name goes first, its new file comes later.
UnlinkAt(r, p, next) ==
  /\ root' = [root EXCEPT ![p] = "absent"]
  /\ gap' = [gap EXCEPT ![r] = @ \cup {p}]
  /\ Goto(r, next)
  /\ UNCHANGED <<plan, call, made, temp, retired, cache, met, faulted>>

Unlink(r) ==
  /\ At(r, "unlink")
  /\ \/ root[Member(r)] = "absent" /\ Fails(r)
     \/ root[Member(r)] # "absent" /\ UnlinkAt(r, Member(r), "reopen")

\* member_stream opens the cached file once more.
Reopen(r) == OpenBlob(r, "reopen", "reclose") \/ CloseBlob(r, "reclose", "write")

CreateTemp(r, p, next) ==
  /\ temp' = [temp EXCEPT ![r] = [path |-> p, holds |-> "torn"]] /\ Goto(r, next)
  /\ UNCHANGED <<plan, call, made, root, retired, cache, history>>

Write(r) == At(r, "write") /\ CreateTemp(r, Member(r), "finish")

\* The copy ends, or the disk does; if a prune took the name away, the bytes go
\* to a file that has none.
FillTemp(r, next) ==
  \/ /\ temp' = [temp EXCEPT ![r].holds = IF @ = "none" THEN "none" ELSE "good"]
     /\ Goto(r, next)
     /\ UNCHANGED <<plan, call, made, root, retired, cache, history>>
  \/ Breaks(r)

Finish(r) == At(r, "finish") /\ FillTemp(r, "replace")

\* chmod and os.replace, which need the temporary name.
Gone(r) == temp[r].holds = "none"
ReplaceAt(r, p) ==
  /\ root' = [root EXCEPT ![p] = temp[r].holds]
  /\ temp' = [temp EXCEPT ![r] = NoTemp]
  /\ gap' = [gap EXCEPT ![r] = @ \ {p}]
  /\ UNCHANGED <<tool, todo, attempt, listed, stale, made, retired, cache, met, faulted>>

Replace(r) ==
  /\ At(r, "replace")
  /\ \/ Gone(r) /\ Fails(r)
     \/ /\ ~Gone(r) /\ ReplaceAt(r, Member(r)) /\ UNCHANGED status
        /\ IF idx[r] = Len(Members)
           THEN Goto(r, "verify") /\ idx' = [idx EXCEPT ![r] = 1]
           ELSE Goto(r, "compare") /\ idx' = [idx EXCEPT ![r] = @ + 1]

\* verify_asset_members.
Verify(r) ==
  /\ At(r, "verify")
  /\ \/ root[Member(r)] # "good" /\ Fails(r)
     \/ /\ root[Member(r)] = "good"
        /\ \/ idx[r] < Len(Members) /\ Steps(r, "verify", idx[r] + 1)
           \/ idx[r] = Len(Members) /\ Settles(r, "installed")

-----------------------------------------------------------------------------
(* The program built from source: materialize_source_build and             *)
(* provision_cargo_git_asset.                                              *)

\* binary_usable: a regular executable file and, where one is prescribed, the
\* marker of the build policy.  A stale tree is one built before the policy; a
\* tree that is being removed keeps both for a while ("crumbling") or not.
Usable == tree \in {"whole", "crumbling"}

\* source_build_present: any executable file will do.
Present(r) ==
  /\ At(r, "present")
  /\ \/ root[Source] # "absent" /\ Settles(r, "skipped")
     \/ root[Source] = "absent" /\ Moves(r, IF Usable THEN "binary" ELSE "stage")

Stage(r) ==
  /\ At(r, "stage") /\ Goto(r, "build")
  /\ stage' = [stage EXCEPT ![r] = "partial"]
  /\ UNCHANGED <<plan, call, place, blob, part, tree, history>>

\* clone, fetch or full fetch, checkout, HEAD, rustup, cargo: each may fail; a
\* timeout raises TimeoutExpired, which install_one_tool does not catch.
Build(r) ==
  /\ At(r, "build")
  /\ \/ /\ stage' = [stage EXCEPT ![r] = "whole"] /\ Goto(r, "clear")
        /\ UNCHANGED <<plan, call, place, blob, part, tree, history>>
     \/ Breaks(r)
     \/ Aborts(r) /\ Blamed(r)

\* Mutant: only a tree that could be used is removed.
UsableOnly == Usable

InTheWay == tree # "absent"

\* rmtree begins on whatever tree has the name by now.
Clear(r) ==
  /\ At(r, "clear")
  /\ \/ ~InTheWay /\ Moves(r, "swap")
     \/ /\ InTheWay /\ Goto(r, "clearing")
        /\ tree' \in {"torn"} \cup (IF Usable THEN {"crumbling"} ELSE {})
        /\ UNCHANGED <<plan, call, place, blob, part, stage, history>>

\* rmtree ends; it fails if another run removes, or has removed, the same tree.
Clearing(r) ==
  /\ At(r, "clearing")
  /\ \/ /\ ~stale[r] /\ tree' = "absent" /\ Goto(r, "swap")
        /\ stale' = [q \in Runs |-> stale[q] \/ (q # r /\ At(q, "clearing"))]
        /\ UNCHANGED <<plan, idx, attempt, listed, place, blob, part, stage, history>>
     \/ /\ stale[r] \/ \E q \in Others(r) : At(q, "clearing")
        /\ Fails(r)

\* os.replace of a directory: the name must be free.
Swap(r) ==
  /\ At(r, "swap")
  /\ \/ tree # "absent" /\ Fails(r)
     \/ /\ tree = "absent" /\ Goto(r, "confirm")
        /\ tree' = stage[r] /\ stage' = [stage EXCEPT ![r] = "none"]
        /\ UNCHANGED <<plan, call, place, blob, part, history>>

Confirm(r) ==
  /\ At(r, "confirm")
  /\ \/ Usable /\ Moves(r, "binary")
     \/ ~Usable /\ Fails(r)

\* The binary is opened, then the temporary file is made.
OpenBinary(r) ==
  /\ At(r, "binary")
  /\ \/ Usable /\ CreateTemp(r, Source, "fill")
     \/ ~Usable /\ Fails(r)

Fill(r) == At(r, "fill") /\ FillTemp(r, "sweep")

\* chmod, then the name is freed if it is taken.
Sweep(r) ==
  /\ At(r, "sweep")
  /\ \/ Gone(r) /\ Fails(r)
     \/ ~Gone(r) /\ Moves(r, IF root[Source] = "absent" THEN "place" ELSE "unname")

Unname(r) ==
  /\ At(r, "unname")
  /\ \/ root[Source] = "absent" /\ Fails(r)
     \/ root[Source] # "absent" /\ UnlinkAt(r, Source, "place")

Place(r) ==
  /\ At(r, "place")
  /\ \/ Gone(r) /\ Fails(r)
     \/ /\ ~Gone(r) /\ ReplaceAt(r, Source) /\ Goto(r, "next") /\ UNCHANGED idx
        /\ status' = [status EXCEPT ![r]["source"] = "installed"]

-----------------------------------------------------------------------------
ArchiveStep(r) ==
  \/ Match(r) \/ Look(r) \/ Fetch(r) \/ Save(r) \/ Publish(r) \/ Validate(r) \/ Compare(r)
  \/ Exists(r) \/ Unlink(r) \/ Reopen(r) \/ Write(r) \/ Finish(r) \/ Replace(r) \/ Verify(r)

SourceStep(r) ==
  \/ Present(r) \/ Stage(r) \/ Build(r) \/ Clear(r) \/ Clearing(r) \/ Swap(r) \/ Confirm(r)
  \/ OpenBinary(r) \/ Fill(r) \/ Sweep(r) \/ Unname(r) \/ Place(r)

RunStep(r) ==
  \/ EnsureRoot(r) \/ MakeRoot(r) \/ ScanRoot(r) \/ VisitNodes(r) \/ Prune(r) \/ NextTool(r)
  \/ ArchiveStep(r) \/ SourceStep(r)

Next == \E r \in Runs : Start(r) \/ RunStep(r) \/ Kill(r)

Spec == Init /\ [][Next]_vars

-----------------------------------------------------------------------------
(* The doctor, which only reads.                                           *)

\* inspect_lock_tool: a program built from source is not compared.
Inspect(p) ==
  IF root[p] = "absent" THEN "missing"
  ELSE IF p = Source \/ root[p] = "good" THEN "ok" ELSE "mismatch"

\* aggregate_target_status.
Aggregate(statuses) ==
  IF statuses \subseteq {"ok"} THEN "ok"
  ELSE IF statuses = {"missing"} THEN "missing"
  ELSE IF "mismatch" \in statuses /\ statuses \subseteq {"ok", "mismatch"} THEN "mismatch"
  ELSE "partial"

PathsOf(t) == IF t = "archive" THEN MemberPaths ELSE {Source}

\* unexpected_tool_root_nodes: the doctor's own walk of the root.
Unexpected == Unlocked

\* build_target_report: a node outside the lock spoils every target with tools.
Diagnosis(t) ==
  IF Unexpected # {} THEN "mismatch" ELSE Aggregate({Inspect(p) : p \in PathsOf(t)})

-----------------------------------------------------------------------------
(* Properties.                                                             *)

Places ==
  {"idle", "ensure", "mkdir", "scan", "visit", "prune", "next", "done", "aborted", "killed",
   "match", "look", "fetch", "save", "publish", "open", "close", "compare", "exists",
   "unlink", "reopen", "reclose", "write", "finish", "replace", "verify",
   "present", "stage", "build", "clear", "clearing", "swap", "confirm", "binary", "fill",
   "sweep", "unname", "place"}

RunsType ==
  /\ pc \in [Runs -> Places]
  /\ tool \in [Runs -> Tools] /\ todo \in [Runs -> SUBSET Tools]
  /\ status \in [Runs -> [Tools -> {"none", "skipped", "installed", "failed"}]]
  /\ idx \in [Runs -> DOMAIN Members] /\ attempt \in [Runs -> 1 .. Attempts]
  /\ listed \in [Runs -> SUBSET Nodes]
  /\ stale \in [Runs -> BOOLEAN]

FilesType ==
  /\ made \in BOOLEAN /\ retired \in BOOLEAN
  /\ root \in [Paths -> {"absent", "old", "torn", "good"}]
  /\ temp \in [Runs -> [path : Paths, holds : {"none", "torn", "good"}]]
  /\ blob \in {"absent", "wrong", "good"}
  /\ part \in [Runs -> {"none", "torn", "wrong", "good"}]
  /\ tree \in {"absent", "stale", "partial", "whole", "crumbling", "torn"}
  /\ stage \in [Runs -> {"none", "partial", "whole"}]

HistoryType ==
  /\ met \in [Runs -> SUBSET Runs] /\ faulted \subseteq Runs
  /\ gap \in [Runs -> SUBSET Paths]

\* Every variable stays in its range.
TypeOK == RunsType /\ FilesType /\ HistoryType

\* Whatever is killed, pruned or raced, the name of a locked tool and the name
\* of a cached download never lead to bytes that were not completely written
\* and compared with the lock, and a cached tree is never published before its
\* build ended.
NothingTorn ==
  /\ \A p \in Paths : root[p] # "torn"
  /\ blob \in {"absent", "good"}
  /\ tree # "partial"

\* A run that was not killed leaves no temporary file or tree, in the tool root
\* or in the cache, on any way out of it.
NoResidue ==
  \A r \in Runs : pc[r] \in {"done", "aborted"} =>
    temp[r].holds = "none" /\ part[r] = "none" /\ stage[r] = "none"

\* A run that no other overlapped, and that met no failure of network, build or
\* disk, installs what it was asked to, whatever killed or failed runs left in
\* the tool root and in the cache.
AloneSucceeds ==
  \A r \in Runs :
    /\ met[r] = {} /\ r \notin faulted /\ pc[r] \in {"done", "aborted"}
    => pc[r] = "done" /\ \A t \in Tools : status[r][t] # "failed"

\* The runs r overlapped, directly or through others that did.
Company(r) ==
  {q \in Runs : \A S \in SUBSET Runs : r \in S /\ (\A o \in S : met[o] \subseteq S) => q \in S}

\* What a run reported as installed or skipped is still there later, except for
\* a path that another run in its company unlinked and could not write again.
ReportStands ==
  \A r \in Runs, t \in Tools :
    pc[r] = "done" /\ status[r][t] \in {"installed", "skipped"} =>
      \A p \in PathsOf(t) :
        \/ root[p] = "good" \/ (t = "source" /\ root[p] = "old")
        \/ \E q \in Company(r) \ {r} : p \in gap[q]

\* The doctor finds in order what a run alone has just installed: no tool of it
\* is missing and nothing is left outside the lock
\* (docs/product/01-toolchain-install-surface.md:183).
DoctorAgrees ==
  [][\A r \in Runs :
       pc[r] # "done" /\ pc'[r] = "done" /\ met[r] = {} =>
         \A t \in Tools :
           status[r][t] \in {"installed", "skipped"} => Diagnosis(t)' = "ok"]_vars

\* After an install that nothing disturbed, the doctor's "ok" means the version
\* the lock names (docs/product/01-toolchain-install-surface.md:156).
OkIsLocked ==
  \A r \in Runs, t \in Tools :
    /\ pc[r] = "done" /\ met[r] = {} /\ status[r][t] \in {"installed", "skipped"}
    /\ Diagnosis(t) = "ok"
    => \A p \in PathsOf(t) : root[p] = "good"

\* A tool that does not match is replaced atomically: its name leads to the old
\* file or to the new one (the comment at scripts/proof_forge_install.py:415).
ReplacedAtomically ==
  [][\A p \in Paths : root[p] # "absent" => root'[p] # "absent"]_vars

=============================================================================
