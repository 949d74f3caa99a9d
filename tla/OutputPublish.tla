---------------------------- MODULE OutputPublish ----------------------------
(***************************************************************************)
(* Publication of a build's output directory: emitProgram and              *)
(* renderIntoStaging of ProofForgeV2/CLI/Emit.lean, with the scanner of    *)
(* ProofForgeV2/Materialization/ArtifactContentV1.lean they rely on.       *)
(*                                                                         *)
(* Several builds (each one run of the command line) publish to the same   *)
(* destination.  A build makes a sibling staging directory, writes its     *)
(* base files, lets the target's tool add the extra files, scans what is   *)
(* on disk, writes evidence.json and manifest.json, scans again, and       *)
(* renames the staging directory to the destination.  Nothing is locked:   *)
(* other builds and other processes act between any two file operations,   *)
(* a build can be killed, and every operation can fail.                    *)
(*                                                                         *)
(* A directory a build made is named by the build.  File contents are      *)
(* compared only for equality, so the bytes build b renders are b and the  *)
(* bytes another process wrote are Other.                                  *)
(***************************************************************************)
EXTENDS Integers, FiniteSets, FiniteSetsExt

CONSTANTS
  Builds,               \* runs of `proof-forge build -o <destination>`
  Pid,                  \* process ids; equal ones are possible on a shared
                        \* volume, or when a killed build's id is reused
  Base,                 \* paths of the materialized base files
  Extras,               \* paths the finalizer claims
  Bytes,                \* the size of a build's file, and of Other
  SidecarBytes,         \* the size of a build's evidence, and of a manifest
  PublishedBytesLimit,  \* artifact-output.published-bytes
  MaxAttempts,          \* 128 in the code
  MaxMeddles,           \* bound: steps of other processes
  Evidence, Manifest,   \* the sidecars
  Stray,                \* a file nobody claims
  Absent, Other,        \* no file; bytes of another process
  Nothing, EmptyDir, FullDir, File, Symlink, \* what a name can stand for
  Destination           \* the name of the output directory

ASSUME BuildsAssumption == Pid \in [Builds -> Nat] /\ Builds # {}
ASSUME PathsAssumption ==
  /\ Base # {}
  /\ Base \cap Extras = {}
  /\ {Evidence, Manifest, Stray} \cap (Base \cup Extras) = {}
  /\ Evidence # Manifest /\ Evidence # Stray /\ Manifest # Stray
ASSUME ValuesAssumption ==
  /\ Absent # Other
  /\ Absent \notin Builds /\ Other \notin Builds /\ Nothing \notin Builds
  /\ Builds \cap {EmptyDir, FullDir, File, Symlink} = {}
  /\ Nothing \notin {EmptyDir, FullDir, File, Symlink}
  /\ \A b \in Builds, k \in 0 .. MaxAttempts : Destination # <<Pid[b], k>>
ASSUME LimitsAssumption ==
  /\ Bytes \in [Builds \cup {Other} -> Nat]
  /\ PublishedBytesLimit \in Nat
  /\ MaxAttempts \in Nat \ {0}
  /\ MaxMeddles \in Nat

Claims == Base \cup Extras
Sidecars == {Evidence, Manifest}
Paths == Claims \cup Sidecars \cup {Stray}
Staging == {Pid[b] : b \in Builds} \X (0 .. MaxAttempts - 1)
Names == {Destination} \cup Staging
Contents == Builds \cup {Other, Absent}
\* What other processes put at the destination, and what a name can stand for.
Foreign == {EmptyDir, FullDir, File, Symlink}
Entries == {Nothing} \cup Foreign \cup Builds

VARIABLES
  entry,     \* what each name of the parent directory stands for
  dirs,      \* the files of the directory each build made
  pc,        \* how far each build is
  attempt,   \* createSiblingStaging's attempt
  todo,      \* the paths the current loop of a build still has to visit
  inventory, \* the contents a build's two scans found
  late,      \* history: paths of a build's directory another process wrote
             \* after the build last read or wrote them
  removed,   \* history: builds whose published directory was removed
  meddles    \* steps other processes took

fs == <<entry, dirs>>
vars == <<entry, dirs, pc, attempt, todo, inventory, late, removed, meddles>>

Inventories == [Claims -> Contents]
Manifests == [evidence : Builds, files : Inventories]

ASSUME SidecarsAssumption == SidecarBytes \in [Builds \cup Manifests -> Nat]

-----------------------------------------------------------------------------
(* What is on disk *)

NoInventory == [p \in Claims |-> Absent]

(* The manifest lists the first scan's inventory and the digest of the     *)
(* evidence; rendering is deterministic, so two manifests are the same     *)
(* file exactly when these agree.                                          *)
Rendered(b) == [evidence |-> b, files |-> inventory[b].before]
NewDirectory == [p \in Paths |-> Absent]

Home(b) == <<Pid[b], attempt[b]>>
Present(dir) == {p \in Paths : dir[p] # Absent}

(* rename(2): a directory replaces nothing or an empty directory. *)
RenameSucceeds(b) == entry[Destination] \in {Nothing, EmptyDir}

-----------------------------------------------------------------------------
Init ==
  /\ entry \in {e \in [Names -> {Nothing} \cup Foreign] :
                  \A n \in Staging : e[n] \in {Nothing, FullDir}}
  /\ dirs = [b \in Builds |-> NewDirectory]
  /\ pc = [b \in Builds |-> "started"]
  /\ attempt = [b \in Builds |-> 0]
  /\ todo = [b \in Builds |-> {}]
  /\ inventory = [b \in Builds |-> [before |-> NoInventory, after |-> NoInventory]]
  /\ late = [b \in Builds |-> {}]
  /\ removed = {}
  /\ meddles = 0

Goto(b, label) == pc' = [pc EXCEPT ![b] = label]
Visit(b, paths) == todo' = [todo EXCEPT ![b] = paths]
Fail(b) == Goto(b, "cleaning") /\ Visit(b, {})
Settled(b, p) == late' = [late EXCEPT ![b] = @ \ {p}]

(* Inside emitProgram's try block. *)
InTry == {"writing", "finalizing", "scanning", "reading", "minting",
          "evidence", "manifest", "rescanning", "rereading", "comparing",
          "evidenceCheck", "recheck", "renaming"}

(***************************************************************************)
(* emitProgram up to the staging directory.  Nothing to clean up yet: an   *)
(* error here simply ends the build.                                       *)
(***************************************************************************)
CheckDestination(b) ==
  /\ pc[b] = "started"
  /\ entry[Destination] = Nothing
  /\ Goto(b, "allocating")
  /\ UNCHANGED <<fs, attempt, todo, inventory, late, removed, meddles>>

(* Something stands at the destination, or the materializer, the names or  *)
(* the parent directory were refused before it was looked at.              *)
Refuse(b) ==
  /\ pc[b] = "started"
  /\ Goto(b, "failed")
  /\ UNCHANGED <<fs, attempt, todo, inventory, late, removed, meddles>>

CreateStaging(b) ==
  /\ pc[b] = "allocating"
  /\ attempt[b] < MaxAttempts
  /\ entry[Home(b)] = Nothing
  /\ entry' = [entry EXCEPT ![Home(b)] = b]
  /\ Goto(b, "writing") /\ Visit(b, Base)
  /\ UNCHANGED <<dirs, attempt, inventory, late, removed, meddles>>

(* createDir failed, because the name is taken or for any other reason. *)
NextAttempt(b) ==
  /\ pc[b] = "allocating"
  /\ attempt[b] < MaxAttempts
  /\ attempt' = [attempt EXCEPT ![b] = @ + 1]
  /\ UNCHANGED <<fs, pc, todo, inventory, late, removed, meddles>>

NoStaging(b) ==
  /\ pc[b] = "allocating"
  /\ attempt[b] >= MaxAttempts
  /\ Goto(b, "failed")
  /\ UNCHANGED <<fs, attempt, todo, inventory, late, removed, meddles>>

-----------------------------------------------------------------------------
(* renderIntoStaging *)

WriteBase(b) ==
  /\ pc[b] = "writing"
  /\ \E p \in todo[b] :
       /\ dirs' = [dirs EXCEPT ![b][p] = b]
       /\ Visit(b, todo[b] \ {p})
       /\ Goto(b, IF todo[b] = {p} THEN "finalizing" ELSE "writing")
  /\ UNCHANGED <<entry, attempt, inventory, late, removed, meddles>>

(* The target's tool compiles the base files it finds on disk.  It may     *)
(* leave out a file it was to make, and leave one behind nobody claims.    *)
Compiled(b) == IF \A p \in Base : dirs[b][p] = b THEN b ELSE Other

Finalize(b) ==
  /\ pc[b] = "finalizing"
  /\ \E made \in SUBSET (Extras \cup {Stray}) :
       dirs' = [dirs EXCEPT ![b] =
                  [p \in Paths |-> IF p \in made THEN Compiled(b) ELSE @[p]]]
  /\ Goto(b, "scanning")
  /\ UNCHANGED <<entry, attempt, todo, inventory, late, removed, meddles>>

(* walkPhysicalClosureV1: exactly the expected leaves are there. *)
Closed(b, leaves) == Present(dirs[b]) = leaves

Scan(b) ==
  /\ pc[b] = "scanning"
  /\ IF Closed(b, Claims)
     THEN Goto(b, "reading") /\ Visit(b, Claims)
     ELSE Fail(b)
  /\ UNCHANGED <<fs, attempt, inventory, late, removed, meddles>>

(* readArtifactContentStableV1 of one claimed file. *)
Read(b) ==
  /\ pc[b] = "reading"
  /\ \E p \in todo[b] :
       IF dirs[b][p] = Absent
       THEN Fail(b) /\ UNCHANGED inventory
       ELSE /\ inventory' = [inventory EXCEPT ![b].before[p] = dirs[b][p]]
            /\ Visit(b, todo[b] \ {p})
            /\ Goto(b, IF todo[b] = {p} THEN "minting" ELSE "reading")
  /\ UNCHANGED <<fs, attempt, late, removed, meddles>>

(* engineeringPublishedBytesV1: what the first scan measured, and the      *)
(* sidecars as they were rendered in memory.                               *)
PublishedBytes(files, evidence, manifest) ==
  MapThenSumSet(LAMBDA p : Bytes[files[p]], Claims) + SidecarBytes[evidence] + SidecarBytes[manifest]

WithinLimit(b, files) ==
  PublishedBytes(files, b, [evidence |-> b, files |-> files]) <= PublishedBytesLimit

Mint(b) ==
  /\ pc[b] = "minting"
  /\ IF WithinLimit(b, inventory[b].before)
     THEN Goto(b, "evidence") /\ UNCHANGED todo
     ELSE Fail(b)
  /\ UNCHANGED <<fs, attempt, inventory, late, removed, meddles>>

WriteEvidence(b) ==
  /\ pc[b] = "evidence"
  /\ dirs' = [dirs EXCEPT ![b][Evidence] = b]
  /\ Goto(b, "manifest")
  /\ UNCHANGED <<entry, attempt, todo, inventory, late, removed, meddles>>

WriteManifest(b) ==
  /\ pc[b] = "manifest"
  /\ dirs' = [dirs EXCEPT ![b][Manifest] = Rendered(b)]
  /\ Settled(b, Manifest)
  /\ Goto(b, "rescanning")
  /\ UNCHANGED <<entry, attempt, todo, inventory, removed, meddles>>

Rescan(b) ==
  /\ pc[b] = "rescanning"
  /\ IF Closed(b, Claims \cup Sidecars)
     THEN Goto(b, "rereading") /\ Visit(b, Claims) /\ Settled(b, Stray)
     ELSE Fail(b) /\ UNCHANGED late
  /\ UNCHANGED <<fs, attempt, inventory, removed, meddles>>

Reread(b) ==
  /\ pc[b] = "rereading"
  /\ \E p \in todo[b] :
       IF dirs[b][p] = Absent
       THEN Fail(b) /\ UNCHANGED <<inventory, late>>
       ELSE /\ inventory' = [inventory EXCEPT ![b].after[p] = dirs[b][p]]
            /\ Settled(b, p)
            /\ Visit(b, todo[b] \ {p})
            /\ Goto(b, IF todo[b] = {p} THEN "comparing" ELSE "rereading")
  /\ UNCHANGED <<fs, attempt, removed, meddles>>

(* Mutant: the second scan checks only which files there are. *)
SamePaths(b) == DOMAIN inventory[b].after = DOMAIN inventory[b].before

(* The scan ends with the sidecars, which only have to be there            *)
(* (checkAuxLeafStableV1 discards what it read); then the two inventories  *)
(* are compared.                                                           *)
Unchanged(b) == inventory[b].after = inventory[b].before

Compare(b) ==
  /\ pc[b] = "comparing"
  /\ IF Sidecars \subseteq Present(dirs[b]) /\ Unchanged(b)
     THEN Goto(b, "evidenceCheck") /\ UNCHANGED todo
     ELSE Fail(b)
  /\ UNCHANGED <<fs, attempt, inventory, late, removed, meddles>>

EvidenceIntact(b) == dirs[b][Evidence] = b

CheckEvidence(b) ==
  /\ pc[b] = "evidenceCheck"
  /\ IF EvidenceIntact(b)
     THEN Goto(b, "recheck") /\ Settled(b, Evidence) /\ UNCHANGED todo
     ELSE Fail(b) /\ UNCHANGED late
  /\ UNCHANGED <<fs, attempt, inventory, removed, meddles>>

-----------------------------------------------------------------------------
(* emitProgram after the staging directory is complete *)

Recheck(b) ==
  /\ pc[b] = "recheck"
  /\ IF entry[Destination] = Nothing
     THEN Goto(b, "renaming") /\ UNCHANGED todo
     ELSE Fail(b)
  /\ UNCHANGED <<fs, attempt, inventory, late, removed, meddles>>

Rename(b) ==
  /\ pc[b] = "renaming"
  /\ IF RenameSucceeds(b)
     THEN /\ entry' = [entry EXCEPT ![Destination] = b, ![Home(b)] = Nothing]
          /\ Goto(b, "published") /\ UNCHANGED todo
     ELSE Fail(b) /\ UNCHANGED entry
  /\ UNCHANGED <<dirs, attempt, inventory, late, removed, meddles>>

(* Any file operation, the finalizer's tool or the wall-clock limit fails  *)
(* inside the try block.                                                   *)
Throw(b) ==
  /\ pc[b] \in InTry
  /\ Fail(b)
  /\ UNCHANGED <<fs, attempt, inventory, late, removed, meddles>>

(* Mutants: the destination is removed too; the staging name is computed     *)
(* again, from the first attempt.                                          *)
CleanedUpBoth(b) == {Home(b), Destination}
CleanedUpFirst(b) == {<<Pid[b], 0>>}

(* What the catch block removes. *)
CleanedUp(b) == {Home(b)}

Clean(b) ==
  /\ pc[b] = "cleaning"
  /\ entry' = [n \in Names |-> IF n \in CleanedUp(b) THEN Nothing ELSE entry[n]]
  /\ Goto(b, "failed")
  /\ UNCHANGED <<dirs, attempt, todo, inventory, late, removed, meddles>>

(* removePathIfPresent throws: its error replaces the build's and the      *)
(* staging directory, or what is left of it, stays behind.                 *)
CleanFails(b) ==
  /\ pc[b] = "cleaning"
  /\ Goto(b, "dirty")
  /\ UNCHANGED <<fs, attempt, todo, inventory, late, removed, meddles>>

Crash(b) ==
  /\ pc[b] \in InTry \cup {"started", "allocating", "cleaning"}
  /\ Goto(b, "crashed")
  /\ UNCHANGED <<fs, attempt, todo, inventory, late, removed, meddles>>

Build(b) ==
  \/ CheckDestination(b) \/ Refuse(b)
  \/ CreateStaging(b) \/ NextAttempt(b) \/ NoStaging(b)
  \/ WriteBase(b) \/ Finalize(b) \/ Scan(b) \/ Read(b) \/ Mint(b)
  \/ WriteEvidence(b) \/ WriteManifest(b) \/ Rescan(b) \/ Reread(b)
  \/ Compare(b) \/ CheckEvidence(b) \/ Recheck(b) \/ Rename(b)
  \/ Throw(b) \/ Clean(b) \/ CleanFails(b) \/ Crash(b)

-----------------------------------------------------------------------------
(***************************************************************************)
(* Other processes: they make and remove what stands at the destination,   *)
(* and write and delete files in directories the builds made.  They leave  *)
(* the names of the staging directories alone.                             *)
(***************************************************************************)
PlaceDestination ==
  /\ entry[Destination] = Nothing
  /\ \E e \in Foreign :
       entry' = [entry EXCEPT ![Destination] = e]
  /\ UNCHANGED <<dirs, late, removed>>

RemoveDestination ==
  /\ entry[Destination] # Nothing
  /\ entry' = [entry EXCEPT ![Destination] = Nothing]
  /\ removed' = removed \cup ({entry[Destination]} \cap Builds)
  /\ UNCHANGED <<dirs, late>>

WriteInside ==
  /\ \E b \in Builds, p \in Paths, c \in {Other, Absent} :
       /\ \E n \in Names : entry[n] = b
       /\ dirs[b][p] # c
       /\ dirs' = [dirs EXCEPT ![b][p] = c]
       /\ late' = [late EXCEPT ![b] = @ \cup {p}]
  /\ UNCHANGED <<entry, removed>>

OtherProcess ==
  /\ meddles < MaxMeddles
  /\ meddles' = meddles + 1
  /\ PlaceDestination \/ RemoveDestination \/ WriteInside
  /\ UNCHANGED <<pc, attempt, todo, inventory>>

Next == (\E b \in Builds : Build(b)) \/ OtherProcess

Spec == Init /\ [][Next]_vars

-----------------------------------------------------------------------------
Stages == InTry \cup {"started", "allocating", "cleaning",
                      "published", "failed", "dirty", "crashed"}

Types ==
  /\ entry \in [Names -> Entries]
  /\ dirs \in [Builds -> [Paths -> Contents \cup Manifests]]
  /\ \A b \in Builds, p \in Paths \ {Manifest} : dirs[b][p] \in Contents
  /\ pc \in [Builds -> Stages]
  /\ attempt \in [Builds -> 0 .. MaxAttempts]
  /\ todo \in [Builds -> SUBSET Claims]
  /\ inventory \in [Builds -> [before : Inventories, after : Inventories]]
  /\ late \in [Builds -> SUBSET Paths]
  /\ removed \subseteq Builds
  /\ meddles \in 0 .. MaxMeddles

(* A build's directory is at its staging name while the build works on it, *)
(* can be left there by a build that was killed or could not clean up, and *)
(* is nowhere else before it is published; only a published one is ever at *)
(* the destination.                                                        *)
Placed ==
  \A b \in Builds :
    /\ pc[b] \in InTry \cup {"cleaning"} => attempt[b] < MaxAttempts /\ entry[Home(b)] = b
    /\ \A n \in Staging : entry[n] = b =>
         n = Home(b) /\ pc[b] \in InTry \cup {"cleaning", "dirty", "crashed"}
    /\ entry[Destination] = b => pc[b] = "published"

(* Types, and where the directories of emitProgram are at every moment.    *)
TypeOK == Types /\ Placed

(* A build never replaces user data (emitProgram's recheck and the rename  *)
(* that fails on a non-empty directory), nor touches what another build    *)
(* made: whatever a build takes away from a name is its own staging        *)
(* directory.  An empty directory that appears after the recheck is        *)
(* replaced.                                                               *)
NothingLost ==
  [][\A n \in Names :
       entry[n] \notin {Nothing, EmptyDir} /\ entry'[n] # entry[n]
       => \/ meddles' # meddles
          \/ n # Destination /\ entry[n] \in Builds
             /\ pc[entry[n]] \in {"renaming", "cleaning"}
             /\ pc'[entry[n]] # pc[entry[n]]]_vars

(* A receipt is returned only by a build whose output then stands at the   *)
(* destination until another process removes it.  So of two builds racing  *)
(* to one destination at most one succeeds.                                *)
ReceiptStands ==
  \A b \in Builds :
    pc[b] = "published" => entry[Destination] = b \/ b \in removed

(* A directory a build published is complete and described by its          *)
(* manifest: each file holds what the first scan recorded, the evidence    *)
(* and the manifest are the build's, and there is no other file; except    *)
(* for files another process wrote after the build last looked at them     *)
(* (for the manifest, after the build wrote it).                           *)
Described ==
  \A b \in Builds : entry[Destination] = b =>
    /\ \A p \in Claims \ late[b] : dirs[b][p] = inventory[b].before[p]
                                     /\ dirs[b][p] # Absent
    /\ Evidence \notin late[b] => dirs[b][Evidence] = b
    /\ Manifest \notin late[b] => dirs[b][Manifest] = Rendered(b)
    /\ Stray \notin late[b] => dirs[b][Stray] = Absent

(* What stands on disk in a published directory, the sidecars included, is *)
(* not larger than artifact-output.published-bytes, although the limit is  *)
(* tested before the sidecars are written and before the last scan; unless *)
(* another process wrote in it after the build last looked, which for the  *)
(* manifest, never read back, is since the build wrote it.                 *)
LimitKept ==
  \A b \in Builds : entry[Destination] = b /\ late[b] = {} =>
    /\ dirs[b][Stray] = Absent
    /\ PublishedBytes([p \in Claims |-> dirs[b][p]], dirs[b][Evidence], dirs[b][Manifest])
         <= PublishedBytesLimit

(* A build that ended with a receipt, or with an error after a clean-up    *)
(* that worked, has left no staging directory.                             *)
NoResidue ==
  \A b \in Builds : pc[b] \in {"published", "failed"} =>
    \A n \in Staging : entry[n] # b

=============================================================================
