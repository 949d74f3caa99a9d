----------------------------- MODULE LeanRuntime -----------------------------
(***************************************************************************)
(* The Lean toolchain in scripts/toolchain_assets.py and                   *)
(* scripts/compiler_runtime_manifest.py.  materialize_lean unpacks the     *)
(* locked archive into a staging tree, checks the tree, derives what each  *)
(* compiler executable loads, runs the executables to compare, and only    *)
(* then renames the tree into place.  observe_compiler_runtime later reads *)
(* the installed tree again, beside other processes: it opens and hashes   *)
(* every runtime image, keeps them open while otool or readelf inspects    *)
(* them by path, and checks at the end that nothing moved.  What it saw is *)
(* bound to the manifest the extraction wrote.                             *)
(*                                                                         *)
(* The file system holds two trees of the same shape: the installed one    *)
(* and another build.  A directory entry leads to its own tree until some  *)
(* process exchanges it with its twin; an inode's stamp is its ctime and   *)
(* mtime, new after every change.                                          *)
(***************************************************************************)
EXTENDS RuntimeGraph

CONSTANTS
  Cases,     \* archives with their locks, and the other build's files
  Meddles,   \* changes other processes make while an installed tree is read
  Lower,     \* the lower case of the names that have one
  Unportable \* paths over 1024 bytes, or with a drive letter

IsList(s) == s \in Seq(ToSet(s))
CasesAreLists ==
  \A c \in Cases : /\ IsList(c.entries)
                   /\ \A e \in ToSet(c.entries) : IsList(e.path) /\ e.dir \in BOOLEAN

ASSUME RuntimeAssumption == Meddles \in Nat /\ IsList(Above) /\ CasesAreLists

VARIABLES
  case,         \* the archive and the lock
  step, job,    \* where the process is, and in which of the three functions
  stagingTree, destination,   \* the staging tree and the destination
  fs,           \* the two trees
  manifest,     \* what the extraction recorded of each path
  images,       \* the runtime images found in the tree, in order
  pending,      \* the images still to be opened, inspected or verified
  insp,         \* what the inspector printed of each image
  window,       \* what is held open, with the stat taken when it was opened
  before,       \* the stat taken of the next thing to open
  outcome,      \* what the process reported
  bound,        \* what binding the observation gave
  meddled       \* the changes other processes made since the reading began

unread == <<window, before>>
disk == <<stagingTree, destination>>
leanVars ==
  <<case, step, job, disk, fs, manifest, images, pending, insp, unread, walk, outcome, bound, meddled>>

Entries == case.entries
TreeRoot == Above
Full(p) == TreeRoot \o p
PathsOf(c) == {c.entries[i].path : i \in DOMAIN c.entries}
FilesOf(c) == {c.entries[i].path : i \in {j \in DOMAIN c.entries : ~c.entries[j].dir}}
EntryAt(c, p) == c.entries[CHOOSE i \in DOMAIN c.entries : c.entries[i].path = p]

\* The archive's central directory, before anything is written.
Ancestors(p) == {SubSeq(p, 1, n) : n \in 1..(Len(p) - 1)}
Total(entries) == FoldLeft(LAMBDA sum, e : sum + e.size, 0, entries)
WellFormedEntry(e) ==
  /\ e.safe /\ e.plain
  /\ IF e.dir THEN e.type = "dir" /\ e.size = 0 ELSE e.type = "file"
  /\ e.path = << >> => e.dir
ValidZip(c) ==
  /\ Len(c.entries) = c.count
  /\ \A i \in DOMAIN c.entries : WellFormedEntry(c.entries[i])
  /\ \A i, j \in DOMAIN c.entries : c.entries[i].path = c.entries[j].path => i = j
  /\ << >> \in PathsOf(c)
  /\ Total(c.entries) = c.size
  /\ \A p \in PathsOf(c), q \in PathsOf(c) \cup UNION {Ancestors(r) : r \in PathsOf(c)} :
       q \in Ancestors(p) => q \in PathsOf(c) /\ EntryAt(c, q).dir

\* What is written: a mode of two, and a digest that names the content.
Mode(e) == IF e.dir \/ e.exec THEN "0555" ELSE "0444"
RecordOf(e) ==
  [kind |-> IF e.dir THEN "directory" ELSE "file", size |-> e.size, mode |-> Mode(e), sha256 |-> e.body]
ManifestOf(c) == [p \in PathsOf(c) \ {<< >>} |-> RecordOf(EntryAt(c, p))]

NamesIn(c) == UNION {{SubSeq(Full(p), 1, n) : n \in 1..Len(Full(p))} : p \in PathsOf(c)}
Inodes(c) == {1, 2} \X NamesIn(c)
FileNode(c, b, p) ==
  LET e == EntryAt(c, p) IN IF b = 2 /\ p \in DOMAIN c.other THEN c.other[p] ELSE
  [size |-> e.size, mode |-> Mode(e), body |-> e.body]
Trees(c) ==
  [at |-> [i \in Inodes(c) |-> i[1]], stamp |-> [i \in Inodes(c) |-> 0],
   file |-> [i \in {<<b, Full(p)>> : b \in {1, 2}, p \in FilesOf(c)} |->
               FileNode(c, i[1], SubSeq(i[2], Len(TreeRoot) + 1, Len(i[2])))]]

\* The inode a name leads to from a directory, and a whole path from "/".
Below(dir, path) == <<fs.at[<<dir[1], path>>], path>>
Walked(path) ==
  LET walked[n \in 0..Len(path)] ==
        IF n = 0 THEN <<1, << >>>> ELSE Below(walked[n - 1], SubSeq(path, 1, n))
  IN walked
Lookup(path) == Walked(path)[Len(path)]
Stat(i) ==
  [ino |-> i, stamp |-> fs.stamp[i],
   meta |-> IF i \in DOMAIN fs.file THEN <<fs.file[i].size, fs.file[i].mode>> ELSE << >>]

First(numbers) == CHOOSE n \in numbers : \A m \in numbers : n <= m
Extend(f, x, value) == [y \in DOMAIN f \cup {x} |-> IF y = x THEN value ELSE f[y]]

NoWindow == [held |-> << >>, stat |-> << >>, body |-> << >>]
NoStat == [ino |-> << >>]

LeanStarted ==
  /\ step = "zip" /\ job = "install"
  /\ stagingTree = "made" /\ destination = "absent"
  /\ fs = << >> /\ manifest = << >> /\ images = << >> /\ pending = << >> /\ insp = << >>
  /\ window = NoWindow /\ before = NoStat
  /\ WalkInit
  /\ outcome = "none" /\ bound = [to |-> "none", ok |-> FALSE] /\ meddled = << >>
LeanInit == case \in Cases /\ LeanStarted

\* A failure: materialize_lean removes its staging tree; an observation
\* closes what it holds.
Fails(why) ==
  /\ step' = "end" /\ outcome' = why
  /\ stagingTree' = "none" /\ window' = NoWindow /\ before' = NoStat
  /\ UNCHANGED <<case, job, destination, fs, manifest, images, pending, insp, walk, bound, meddled>>
GoOn(next) == step' = next /\ UNCHANGED <<case, job, outcome, bound, meddled>>
-----------------------------------------------------------------------------
\* materialize_lean

ValidateZip ==
  /\ step = "zip"
  /\ IF ValidZip(case)
     THEN GoOn("extract") /\ UNCHANGED <<disk, fs, manifest, images, pending, insp, unread, walk>>
     ELSE Fails("refused")

\* A member that inflates to fewer or more bytes than it declares is noticed
\* while it is written.
Extract ==
  /\ step = "extract"
  /\ IF \E i \in DOMAIN Entries : Entries[i].inflates # Entries[i].size THEN Fails("refused")
     ELSE /\ fs' = Trees(case) /\ manifest' = ManifestOf(case) /\ stagingTree' = "sealed"
          /\ GoOn("tree") /\ UNCHANGED <<destination, images, pending, insp, unread, walk>>

TreePaths ==
  {SubSeq(i[2], Len(TreeRoot) + 1, Len(i[2])) : i \in {j \in DOMAIN fs.at : j[1] = 1 /\ Len(j[2]) > Len(TreeRoot)}}
MatchesRecord(p) ==
  LET i == Lookup(Full(p)) IN
  IF manifest[p].kind = "directory" THEN i \notin DOMAIN fs.file
  ELSE i \in DOMAIN fs.file /\ manifest[p].size = fs.file[i].size /\ manifest[p].mode = fs.file[i].mode
FoundImages == SelectSeq([i \in DOMAIN Entries |-> Entries[i].path],
                   LAMBDA p : p \in FilesOf(case) /\ fs.file[Lookup(Full(p))].body.magic)
VerifyTree ==
  /\ step = "tree"
  /\ IF ~(TreePaths = DOMAIN manifest /\ \A p \in TreePaths : MatchesRecord(p)) THEN Fails("refused")
     ELSE /\ images' = FoundImages /\ GoOn("hash")
          /\ UNCHANGED <<disk, fs, manifest, pending, insp, unread, walk>>

\* The executables against the lock's digests, then static discovery with
\* the inspector the host profile pins.
Executables == case.executables
HashExecutables ==
  /\ step = "hash"
  /\ IF ~case.inspector \/ images = << >>
        \/ \E p \in ToSet(Executables) : p \notin FilesOf(case) \/ fs.file[Lookup(Full(p))].body # case.pinned[p]
     THEN Fails("refused")
     ELSE /\ pending' = images /\ insp' = << >> /\ GoOn("head")
          /\ UNCHANGED <<disk, fs, manifest, images, unread, walk>>

\* What the failing of discovery is reported as.
Rejected == IF job = "install" THEN "refused" ELSE "CLOSURE"
ImageNow(p) == fs.file[Lookup(Full(p))].body

\* otool -hv, readelf -h: every image, before any is looked into.
Typed(types) == [types |-> types, rpaths |-> << >>, runpaths |-> {}, loads |-> << >>, ids |-> {}]
Classify ==
  /\ step = "head" /\ pending # << >>
  /\ LET p == Head(pending) types == ImageNow(p).types
     IN IF ~IsObject(types) /\ ~IsRuntime(types, case.platform) THEN Fails(Rejected)
        ELSE /\ pending' = Tail(pending)
             /\ insp' = IF IsObject(types) THEN insp ELSE Extend(insp, p, Typed(types))
             /\ GoOn("head") /\ UNCHANGED <<disk, fs, manifest, images, unread, walk>>
\* runtime_macho_paths, runtime_elf_paths: those that passed, in their order.
RuntimeUpTo ==
  LET upTo[n \in 0..Len(images)] ==
        IF n = 0 THEN << >>
        ELSE IF images[n] \in DOMAIN insp THEN Append(upTo[n - 1], images[n]) ELSE upTo[n - 1]
  IN upTo
RuntimeImages == RuntimeUpTo[Len(images)]
Classified ==
  /\ step = "head" /\ pending = << >>
  /\ IF insp = << >> THEN Fails(Rejected)
     ELSE pending' = RuntimeImages /\ GoOn("rpaths") /\ UNCHANGED <<disk, fs, manifest, images, insp, unread, walk>>

\* otool -l, -L and -D are three runs, each of which opens the path anew;
\* readelf -d prints everything at once.
ReadRpaths ==
  /\ step = "rpaths" /\ pending # << >>
  /\ LET p == Head(pending) now == ImageNow(p)
     IN IF case.platform = "darwin"
        THEN insp' = [insp EXCEPT ![p].rpaths = now.rpaths] /\ GoOn("loads")
        ELSE insp' = [insp EXCEPT ![p].runpaths = now.runpaths, ![p].loads = now.loads] /\ GoOn("admit")
  /\ UNCHANGED <<disk, fs, manifest, images, pending, unread, walk>>
ReadLoads ==
  /\ step = "loads"
  /\ insp' = [insp EXCEPT ![Head(pending)].loads = ImageNow(Head(pending)).loads] /\ GoOn("ids")
  /\ UNCHANGED <<disk, fs, manifest, images, pending, unread, walk>>
ReadIds ==
  /\ step = "ids"
  /\ insp' = [insp EXCEPT ![Head(pending)].ids = ImageNow(Head(pending)).ids] /\ GoOn("admit")
  /\ UNCHANGED <<disk, fs, manifest, images, pending, unread, walk>>
Admitted(p) ==
  IF case.platform = "darwin" THEN AdmittedMacho(insp[p], p, DOMAIN insp) ELSE AdmittedElf(insp[p], p)
Admit ==
  /\ step = "admit"
  /\ IF ~Admitted(Head(pending)) THEN Fails(Rejected)
     ELSE pending' = Tail(pending) /\ GoOn("rpaths") /\ UNCHANGED <<disk, fs, manifest, images, insp, unread, walk>>

InputOf(p) == IF case.platform = "darwin" THEN MachoInput(insp[p]) ELSE ElfInput(insp[p], p, DOMAIN insp)
StartWalk ==
  /\ step = "rpaths" /\ pending = << >>
  /\ IF ~(ToSet(Executables) \subseteq DOMAIN insp) THEN Fails(Rejected)
     ELSE /\ walk' = Begin([p \in DOMAIN insp |-> InputOf(p)], Executables)
          /\ GoOn("walk") /\ UNCHANGED <<disk, fs, manifest, images, pending, insp, unread>>
Walk ==
  /\ step = "walk" /\ WalkStep
  /\ UNCHANGED <<case, step, job, disk, fs, manifest, images, pending, insp, unread, outcome, bound, meddled>>
EndWalk ==
  /\ step = "walk" /\ walk.at \in {"ended", "failed"}
  /\ IF walk.at = "failed" THEN Fails(Rejected)
     ELSE /\ pending' = images /\ GoOn(IF job = "install" THEN "probe" ELSE "files")
          /\ UNCHANGED <<disk, fs, manifest, images, insp, unread, walk>>
-----------------------------------------------------------------------------
\* The system's loader, which the probe runs.  dyld searches the paths of the
\* image and then those of the images it was reached through; ld.so the
\* image's RUNPATH, or else the RPATHs of the chain, and then its default
\* path.  Neither knows which directories are the toolchain's: what counts is
\* that every directory a path is spelled through is there.
Default == <<"usr", "lib">>
IsDirectory(names) ==
  \/ \E e \in ToSet(Entries) : e.dir /\ names = Full(e.path)
  \/ \E p \in case.host \cup {TreeRoot} : IsStrictPrefix(names, p)
Walkable(names) == \A n \in 0..(Len(names) - 1) : IsDirectory(Resolved(SubSeq(names, 1, n)))
HoldsFile(at) == at \in case.host \/ BelowRoot(at) \in DOMAIN insp
IsThere(names) == Walkable(names) /\ HoldsFile(Resolved(names))

LoaderOwn(p, exe) ==
  LET paths == IF case.platform = "linux" THEN Runpath(ImageNow(p)) ELSE ImageNow(p).rpaths
  IN [i \in DOMAIN paths |-> Spelled(paths[i], p, exe)]
LoaderDirs(c) ==
  LET own == ImageNow(Last(c))
      inherits(p) == case.platform = "darwin" \/ p = Last(c)
                     \/ (ImageNow(p).rpath /\ (own.rpath \/ own.runpaths = {}))
  IN FoldLeft(LAMBDA dirs, p : (IF inherits(p) THEN LoaderOwn(p, Head(c)) ELSE << >>) \o dirs, << >>, c)
In(dirs, rest) == [i \in DOMAIN dirs |-> dirs[i] \o rest]
Places(f, c) ==
  IF f.base \in {"soname", "@rpath"}
  THEN In(LoaderDirs(c) \o (IF f.base = "soname" THEN <<Default>> ELSE << >>), f.rest)
  ELSE <<Spelled(f, Last(c), Head(c))>>
There(f, c) == SelectSeq(Places(f, c), IsThere)
Sought(f, c) == Head(Append(There(f, c), Failed))

\* An image is loaded once, by the first chain that leads to it; ld.so looks
\* for a name once, whoever asks for it again.
Loads(c) == Observed(ImageNow(Last(c)))
Entered(chains, c, p) ==
  IF p \in DOMAIN insp /\ p \notin {Last(d) : d \in Range(chains)} THEN Append(chains, Append(c, p)) ELSE chains
MapFirst(st, c, f, found) ==
  [chains |-> Entered(st.chains, c, Within(found)), names |-> st.names \cup {f.rest},
   trace |-> st.trace \cup {found}]
Mapped(st, c, f) ==
  IF f.base = "soname" /\ f.rest \in st.names THEN st ELSE MapFirst(st, c, f, Sought(f, c))
Trace(entry) ==
  LET run[n \in 0..Len(images)] ==
        IF n = 0 THEN [chains |-> <<<<entry>>>>, names |-> {}, trace |-> {}]
        ELSE IF n > Len(run[n - 1].chains) THEN run[n - 1]
        ELSE LET c == run[n - 1].chains[n]
             IN FoldLeft(LAMBDA st, f : Mapped(st, c, f), run[n - 1], Loads(c))
  IN run[Len(images)].trace

\* Every executable must start, and load what discovery derived: what the
\* loader names below a system root is passed over, anything else must be
\* named below the tree's root and be an image of the graph.
Agrees(entry, trace) ==
  LET own == {names \in trace : ~UnderSystem(names)}
  IN /\ Failed \notin trace
     /\ \A names \in own : IsStrictPrefix(TreeRoot, names) /\ Within(names) \in GraphPaths
     /\ {Within(names) : names \in own} \ {entry} = ReachedFrom(entry) \ {entry}
ProbeAgrees == \A e \in ToSet(Executables) : Agrees(e, Trace(e))
Probe ==
  /\ step = "probe"
  /\ IF ~ProbeAgrees THEN Fails("refused")
     ELSE GoOn("replace") /\ UNCHANGED <<disk, fs, manifest, images, pending, insp, unread, walk>>

\* The rename fails on a destination some other process made meanwhile.
RenameTree ==
  /\ step = "replace"
  /\ IF destination = "rival" THEN Fails("refused")
     ELSE /\ destination' = "ours" /\ stagingTree' = "none" /\ step' = "installed" /\ outcome' = "installed"
          /\ UNCHANGED <<case, job, fs, manifest, images, pending, insp, unread, walk, bound, meddled>>
RivalTree ==
  /\ job = "install" /\ step = "replace" /\ destination = "absent" /\ destination' = "rival"
  /\ UNCHANGED <<case, step, job, stagingTree, fs, manifest, images, pending, insp, unread, walk, outcome, bound>>
  /\ UNCHANGED meddled
-----------------------------------------------------------------------------
\* observe_compiler_runtime and verify_extracted_file_witness

\* The paths an observation is asked for: files of the extraction, none twice.
PathsOk(list) ==
  /\ list \in Seq(ToSet(list)) \ {<< >>} /\ IsInjective(list)
  /\ \A p \in ToSet(list) : Join(<< >>, p) = p /\ p \in DOMAIN manifest /\ manifest[p].kind = "file"
Observe ==
  /\ step = "installed" /\ PathsOk(images)
  /\ step' = "open" /\ job' = "observe" /\ pending' = images /\ insp' = << >> /\ outcome' = "none"
  /\ UNCHANGED <<case, disk, fs, manifest, images, unread, walk, bound, meddled>>
Witness ==
  /\ step = "installed"
  /\ step' = "open" /\ job' = "witness" /\ pending' = <<images[1]>> /\ outcome' = "none"
  /\ UNCHANGED <<case, disk, fs, manifest, images, insp, unread, walk, bound, meddled>>

\* Of the first image that is not open yet, the first name that is not:
\* directories from "/" down, each kept open, then the file.  The directories
\* of an earlier image are not opened again.
Unopened == {i \in DOMAIN pending : Full(pending[i]) \notin DOMAIN window.held}
AllOpen == Unopened = {}
Opening ==
  LET path == Full(pending[First(Unopened)])
  IN SubSeq(path, 1, First({n \in 1..Len(path) : SubSeq(path, 1, n) \notin DOMAIN window.held}))
HeldParent(path) == IF Len(path) = 1 THEN <<1, << >>>> ELSE window.held[Parent(path)]
FromHeld(path) == Below(HeldParent(path), path)
RelativeOf(path) == SubSeq(path, Len(TreeRoot) + 1, Len(path))
IsFile(path) == \E p \in ToSet(pending) : path = Full(p)

Look ==
  /\ step = "open" /\ ~AllOpen
  /\ LET now == Stat(FromHeld(Opening)) r == manifest[RelativeOf(Opening)]
     IN IF IsFile(Opening) /\ now.meta # <<r.size, r.mode>> THEN Fails("CLOSURE")
        ELSE before' = now /\ GoOn("opening") /\ UNCHANGED <<disk, fs, manifest, images, pending, insp, window, walk>>

\* A directory is compared by its identity, a file, or anything the witness
\* opens, by all of its stat.
Unmoved(now) ==
  IF IsFile(Opening) \/ job = "witness" THEN now = before ELSE now.ino = before.ino
Open ==
  /\ step = "opening"
  /\ LET i == FromHeld(Opening)
     IN IF ~Unmoved(Stat(i)) THEN Fails("IO")
        ELSE /\ window' = [window EXCEPT !.held = Extend(@, Opening, i), !.stat = Extend(@, Opening, Stat(i))]
             /\ before' = NoStat /\ GoOn(IF IsFile(Opening) THEN "read" ELSE "open")
             /\ UNCHANGED <<disk, fs, manifest, images, pending, insp, walk>>

\* The file that was opened last is hashed and compared with its record.
Fresh == CHOOSE p \in {q \in ToSet(pending) : Full(q) \in DOMAIN window.held} : p \notin DOMAIN window.body
Read ==
  /\ step = "read"
  /\ LET i == window.held[Full(Fresh)]
     IN IF Stat(i) # window.stat[Full(Fresh)] \/ (job = "witness" /\ FromHeld(Full(Fresh)) # i) THEN Fails("IO")
        ELSE IF fs.file[i].body # manifest[Fresh].sha256 THEN Fails("CLOSURE")
        ELSE /\ window' = [window EXCEPT !.body = Extend(@, Fresh, fs.file[i].body)]
             /\ GoOn("open") /\ UNCHANGED <<disk, fs, manifest, images, pending, insp, before, walk>>
Opened ==
  /\ step = "open" /\ AllOpen
  /\ IF job = "observe" /\ ~case.inspector THEN Fails("CLOSURE")
     ELSE /\ GoOn(IF job = "observe" THEN "head" ELSE "dirs")
          /\ UNCHANGED <<disk, fs, manifest, images, pending, insp, unread, walk>>

\* After the inspection: each file by descriptor and by name, and its bytes
\* once more.
SameInode(path) == window.held[path] = window.stat[path].ino   \* wrong: no times, no size
Still(path) == Stat(window.held[path]) = window.stat[path]
StillNamed(path) == FromHeld(path) = window.held[path]
VerifyFile ==
  /\ step = "files" /\ pending # << >>
  /\ LET p == Head(pending)
         i == window.held[Full(p)]
     IN IF ~Still(Full(p)) \/ ~StillNamed(Full(p)) \/ fs.file[i].body # window.body[p] THEN Fails("IO")
        ELSE pending' = Tail(pending) /\ GoOn("files") /\ UNCHANGED <<disk, fs, manifest, images, insp, unread, walk>>
FilesVerified ==
  /\ step = "files" /\ pending = << >>
  /\ GoOn("dirs") /\ UNCHANGED <<disk, fs, manifest, images, pending, insp, unread, walk>>
HeldDirs ==
  {d \in DOMAIN window.held : Len(d) >= Len(TreeRoot) /\ \A p \in DOMAIN window.body : d # Full(p)}
VerifyDirs ==
  /\ step = "dirs"
  /\ IF \E d \in HeldDirs : ~Still(d) \/ (job = "observe" /\ d # TreeRoot /\ ~StillNamed(d)) THEN Fails("IO")
     ELSE GoOn("root") /\ UNCHANGED <<disk, fs, manifest, images, pending, insp, unread, walk>>

\* The root once more, by its path; then everything is closed.
VerifyRoot ==
  /\ step = "root"
  /\ IF Stat(Lookup(TreeRoot)) # window.stat[TreeRoot] THEN Fails("IO")
     ELSE /\ step' = IF job = "observe" THEN "bind" ELSE "end"
          /\ outcome' = IF job = "observe" THEN "observed" ELSE "witnessed"
          /\ window' = [NoWindow EXCEPT !.body = window.body]
          /\ UNCHANGED <<case, job, disk, fs, manifest, images, pending, insp, before, walk, bound, meddled>>
-----------------------------------------------------------------------------
\* bind_compiler_runtime_observation

LoadsOf(p) == Range(walk.final[p])
OneLevel(entry) == LoadsOf(entry)   \* wrong: one level of loads
Transitive(entry) ==
  LET seen[n \in 0..Cardinality(OwnedFiles)] ==
        IF n = 0 THEN LoadsOf(entry) ELSE seen[n - 1] \cup UNION {LoadsOf(p) : p \in seen[n - 1]}
  IN seen[Cardinality(OwnedFiles)]
LowerCase(p) == [i \in DOMAIN p |-> IF p[i] \in DOMAIN Lower THEN Lower[p[i]] ELSE p[i]]
NoCollision(paths) == \A p, q \in paths : LowerCase(p) = LowerCase(q) => p = q
OwnersOf(p) == {o[2] : o \in {x \in walk.owners : x[1] = p}}
ValidGraph ==
  /\ Cardinality(OwnedFiles) <= MaxFiles /\ walk.entries # {} /\ walk.entries \cap OwnedFiles = {}
  /\ GraphPaths \cap Unportable = {} /\ NoCollision(GraphPaths)
  /\ \A p \in GraphPaths : LoadsOf(p) \subseteq OwnedFiles
  /\ \A e \in walk.entries : ReachedFrom(e) = Transitive(e)
  /\ \A p \in OwnedFiles : OwnersOf(p) # {} /\ OwnersOf(p) = {e \in walk.entries : p \in ReachedFrom(e)}

\* The witnesses cover the graph and equal the manifest's records.
WitnessOf(p) == manifest[p]
Covers == GraphPaths \subseteq DOMAIN window.body
Matches(against, p) == p \in DOMAIN against /\ against[p].kind = "file" /\ against[p] = WitnessOf(p)
OtherManifest ==
  [p \in DOMAIN manifest |->
     IF p \in DOMAIN case.other THEN [manifest[p] EXCEPT !.sha256 = case.other[p].body] ELSE manifest[p]]
Bind ==
  /\ step = "bind" /\ step' = "end"
  /\ \E which \in {"own", "other"} :
       LET against == IF which = "own" THEN manifest ELSE OtherManifest
           ok == ValidGraph /\ Covers /\ \A p \in GraphPaths : Matches(against, p)
       IN bound' = [to |-> which, ok |-> ok]
  /\ UNCHANGED <<case, job, disk, fs, manifest, images, pending, insp, unread, walk, outcome, meddled>>
-----------------------------------------------------------------------------
\* Other processes, while the installed tree is read.
Reading == job # "install" /\ step \notin {"installed", "bind", "end"} /\ Len(meddled) < Meddles
Touched(inodes) == [i \in DOMAIN fs.stamp |-> IF i \in inodes THEN fs.stamp[i] + 1 ELSE fs.stamp[i]]

\* A file is written in place: with the other build's bytes, or back.
Edit(p) ==
  LET i == Lookup(Full(p))
      b == IF fs.file[i] = FileNode(case, 1, p) THEN 2 ELSE 1
  IN /\ Reading
     /\ fs' = [fs EXCEPT !.file[i] = FileNode(case, b, p), !.stamp = Touched({i})]
     /\ meddled' = Append(meddled, <<"edit", p>>)
     /\ UNCHANGED <<case, step, job, disk, manifest, images, pending, insp, unread, walk, outcome, bound>>

\* A name is exchanged with its twin in the other tree.
Exchange(path) ==
  /\ Reading
  /\ fs' = [fs EXCEPT !.at[<<1, path>>] = fs.at[<<2, path>>], !.at[<<2, path>>] = fs.at[<<1, path>>],
                      !.stamp = Touched({1, 2} \X {path, Parent(path)})]
  /\ meddled' = Append(meddled, <<"exchange", path>>)
  /\ UNCHANGED <<case, step, job, disk, manifest, images, pending, insp, unread, walk, outcome, bound>>
Tamper == \E p \in DOMAIN case.other : Edit(p) \/ \E n \in 1..Len(Full(p)) : Exchange(SubSeq(Full(p), 1, n))

Install == ValidateZip \/ Extract \/ VerifyTree \/ HashExecutables \/ Probe \/ RenameTree
Discover == \/ Classify \/ Classified \/ ReadRpaths \/ ReadLoads \/ ReadIds \/ Admit
            \/ StartWalk \/ Walk \/ EndWalk
Observation == \/ Observe \/ Witness \/ Look \/ Open \/ Read \/ Opened
               \/ VerifyFile \/ FilesVerified \/ VerifyDirs \/ VerifyRoot \/ Bind
LeanNext == Install \/ Discover \/ Observation \/ RivalTree \/ Tamper
LeanSpec == LeanInit /\ [][LeanNext]_leanVars
-----------------------------------------------------------------------------
\* The chains of loads as the resolver sees them.
Chains(entry, Onward(_)) ==
  LET grown[n \in 0..Len(images)] ==
        IF n = 0 THEN {<<entry>>}
        ELSE grown[n - 1] \cup UNION {{Append(c, t) : t \in Onward(c) \ ToSet(c)} : c \in grown[n - 1]}
  IN grown[Len(images)]
ChainDirs(c) == FoldLeft(LAMBDA dirs, p : OwnDirs(walk.images[p], p, Head(c)) \o dirs, << >>, c)
ChainEdges(c) == Edges(walk.images[Last(c)], Last(c), Head(c), ChainDirs(c), DOMAIN walk.images)
ChainNext(c) == Range(ChainEdges(c)) \ {Failed}
AllChains == UNION {Chains(e, ChainNext) : e \in walk.entries}
ContextsOf(e) == {<<Last(c), ChainDirs(Front(c))>> : c \in Chains(e, ChainNext)}

Broken == \E c \in AllChains :
  ~Resolves(walk.images[Last(c)], Last(c), Head(c), ChainDirs(c), DOMAIN walk.images, walk.entries)
Ambiguous == \E c, d \in AllChains : Last(c) = Last(d) /\ ChainEdges(c) # ChainEdges(d)
Looping == \E c \in AllChains :
  ChainNext(c) \cap ToSet(c) # {} /\ \E p \in ToSet(c) : walk.images[p].rpaths # << >>
Crowded ==
  \/ Cardinality({Last(c) : c \in AllChains} \ walk.entries) > MaxFiles
  \/ \E e \in walk.entries : \/ Cardinality(ContextsOf(e)) > MaxWalk
                             \/ \E x \in ContextsOf(e) : Cardinality({y \in ContextsOf(e) : y[1] = x[1]}) > MaxContexts

Steps == {"zip", "extract", "tree", "hash", "head", "rpaths", "loads", "ids", "admit", "walk", "probe",
           "replace", "installed", "open", "opening", "read", "files", "dirs", "root", "bind", "end"}

\* The steps, the results and the walk keep to their kinds; the walk never
\* holds more contexts or owns more files than its limits.
TypeOK ==
  /\ step \in Steps /\ job \in {"install", "observe", "witness"}
  /\ stagingTree \in {"none", "made", "sealed"} /\ destination \in {"absent", "ours", "rival"}
  /\ outcome \in {"none", "refused", "installed", "observed", "witnessed", "IO", "CLOSURE"}
  /\ bound \in [to : {"none", "own", "other"}, ok : BOOLEAN]
  /\ walk.at \in {"idle", "entry", "walking", "ended", "failed"}
  /\ Cardinality(walk.seen) <= MaxWalk /\ Cardinality(OwnedFiles) <= MaxFiles
  /\ Len(meddled) <= Meddles

\* What static discovery derives is what the loader does: once a toolchain
\* passes the walk, its executables start and load exactly the images the
\* graph gives them, so the probe (probe_lean_versions_and_runtime) never
\* disagrees.  The walk reads paths and not the host, so it is excepted what
\* the walk cannot know: a path spelled through a directory that is not
\* there; and in an ELF tree an inherited RPATH, a run path spelled outside
\* the tree that leads into it or the other way, a library neither the tree
\* nor the host has, one that a system directory of the run path has ahead
\* of the tree (discovery passes such directories over), and a name that
\* leads two images to two libraries.
Straight(dir) ==
  /\ Walkable(dir)
  /\ IsPrefix(TreeRoot, dir) <=> Within(dir) # Outside
Hides(p, f) ==
  LET there == There(f, <<p>>)
  IN there # << >> /\ Within(Head(there)) = Outside /\ \E at \in Range(there) : Within(at) # Outside
InTreeFor(p, f) == ElfLoad(f, SearchDirs(insp[p], p), DOMAIN insp)
ExactElf ==
  /\ \A p \in DOMAIN insp :
       /\ insp[p].runpaths # {} => ~ImageNow(p).rpath
       /\ \A dir \in Range(LoaderOwn(p, p)) : Within(dir) # Outside \/ IsPrefix(TreeRoot, dir) => Straight(dir)
       /\ \A f \in Range(insp[p].loads) : Sought(f, <<p>>) # Failed /\ ~Hides(p, f)
  /\ \A p, q \in DOMAIN insp : \A f \in Range(insp[p].loads) \cap Range(insp[q].loads) :
       InTreeFor(p, f) = InTreeFor(q, f)
ExactMacho ==
  \A e \in ToSet(Executables), p \in DOMAIN insp : \A f \in Range(insp[p].rpaths) \cup Range(insp[p].loads) :
    f.base # "@rpath" => Walkable(Spelled(f, p, e))
Exact == IF case.platform = "darwin" THEN ExactMacho ELSE ExactElf
GraphIsLoaded == step = "probe" /\ Exact => ProbeAgrees

\* A toolchain is refused by the walk (resolve_compiler_runtime_graph) only
\* for a reason one can point to in its chains of loads: one that does not
\* resolve, two that disagree, a loop among images with search paths, whose
\* contexts never repeat, or more images or contexts than the limits.
RejectionsExplained ==
  step = "walk" /\ walk.at = "failed" =>
    CASE walk.why = "input"   -> ~Acceptable(walk.images, walk.entries)
      [] walk.why = "load"    -> Broken \/ Looping
      [] walk.why = "context" -> Ambiguous \/ Looping
      [] walk.why = "limit"   -> Crowded \/ Looping

\* An accepted observation describes one tree: what the inspector printed of
\* each image is what was hashed of it, whatever other processes wrote or
\* exchanged below the directory that holds the tree
\* (_open_ and _verify_runtime_observation_window).  A directory above is
\* not kept: that it is exchanged and put back goes unnoticed.
Told(p) ==
  LET body == window.body[p] IN
  /\ insp[p].types = body.types /\ insp[p].loads = body.loads
  /\ IF case.platform = "darwin" THEN insp[p].rpaths = body.rpaths /\ insp[p].ids = body.ids
     ELSE insp[p].runpaths = body.runpaths
AboveMoved == \E i \in DOMAIN meddled : meddled[i][1] = "exchange" /\ Len(meddled[i][2]) < Len(TreeRoot)
OneTree ==
  outcome = "observed" /\ ~AboveMoved =>
    \A p \in ToSet(images) : IF p \in DOMAIN insp THEN Told(p) ELSE IsObject(window.body[p].types)

\* What was installed can be observed, and what was observed can be bound to
\* the manifest of its extraction, when nobody changed the tree: the three
\* functions accept the same trees.  Only the binding refuses two runtime
\* paths that differ in case alone, and a runtime path over 1024 bytes or with
\* a drive letter, which the archive may hold: these are the exceptions.
QuietAccepts ==
  /\ job # "install" /\ meddled = << >> => outcome \notin {"IO", "CLOSURE"}
  /\ bound.to = "own" => bound.ok \/ ~NoCollision(GraphPaths) \/ GraphPaths \cap Unportable # {}
=============================================================================
