---------------------------- MODULE Output_proofs ---------------------------
(***************************************************************************)
(* Proofs about OutputPublish and OutputInspect, for every set of builds,  *)
(* any process ids, any set of files and every number of steps of other    *)
(* processes; and about OutputValidation, for every staging root, limit    *)
(* and contract.                                                           *)
(*                                                                         *)
(* The publisher first.  Types and Placed together are inductive; with     *)
(* them Records, which says what a build knows of its directory at each    *)
(* stage, is inductive too, and Described and LimitKept follow.  The       *)
(* lemmas named ...Moves say which steps change a variable, so that each   *)
(* of the later proofs treats only the steps that matter to it.            *)
(*                                                                         *)
(* Then an inspection beside it: what it accepts is the output of one      *)
(* build, and what a build published untouched is not rejected.  Both      *)
(* invariants follow the inspection from read to read.  OwnManifests says  *)
(* that a manifest which parses was written by the build whose directory   *)
(* holds it, and still describes that build's first scan.                  *)
(*                                                                         *)
(* Last the validation of a staging root.  WalkRight is the heart of       *)
(* ValidationInv: between two turns of the work list the walk has met the  *)
(* children of the directories it is done with, all expected, and nothing  *)
(* else, and has not made more visits than there are directories.          *)
(***************************************************************************)
EXTENDS OutputInspect, OutputValidation, SequenceTheorems, FiniteSetTheorems,
        WellFoundedInduction, TLAPS

(* While a build has attempts left the name it tries is a staging name.    *)
LEMMA HomeIsStaging ==
  ASSUME NEW b \in Builds, Types, attempt[b] < MaxAttempts
  PROVE  Home(b) \in Staging /\ Home(b) \in Names /\ Home(b) # Destination
BY LimitsAssumption, ValuesAssumption, SMT DEF Types, Home, Staging, Names

(* A step moves at most one build's label, to a label of the program.      *)
LEMMA PcMoves ==
  ASSUME Next
  PROVE  UNCHANGED pc \/ \E b \in Builds, l \in Stages : pc' = [pc EXCEPT ![b] = l]
<1>1. ASSUME NEW b \in Builds, Build(b)
      PROVE  UNCHANGED pc \/ \E l \in Stages : pc' = [pc EXCEPT ![b] = l]
  <2> DEFINE G(l) == pc' = [pc EXCEPT ![b] = l]
  <2>1. \/ UNCHANGED pc \/ G("allocating") \/ G("failed") \/ G("writing")
        \/ G("finalizing") \/ G("scanning") \/ G("reading") \/ G("minting")
        \/ G("evidence") \/ G("manifest") \/ G("rescanning") \/ G("rereading")
        \/ G("comparing") \/ G("evidenceCheck") \/ G("recheck") \/ G("renaming")
        \/ G("published") \/ G("cleaning") \/ G("dirty") \/ G("crashed")
    BY <1>1, Zenon DEF Build, Goto, Fail, CheckDestination, Refuse, CreateStaging, NextAttempt,
       NoStaging, WriteBase, Finalize, Scan, Read, Mint, WriteEvidence, WriteManifest,
       Rescan, Reread, Compare, CheckEvidence, Recheck, Rename, Throw, Clean,
       CleanFails, Crash
  <2> QED BY <2>1, Zenon DEF Stages, InTry
<1>2. CASE OtherProcess
  BY <1>2 DEF OtherProcess
<1> QED BY <1>1, <1>2 DEF Next

(* A step changes at most one build's paths to visit, to some claims.      *)
LEMMA TodoMoves ==
  ASSUME Types, Next
  PROVE  UNCHANGED todo \/ \E b \in Builds, s \in SUBSET Claims : todo' = [todo EXCEPT ![b] = s]
<1>1. ASSUME NEW b \in Builds, Build(b)
      PROVE  UNCHANGED todo \/ \E s \in SUBSET Claims : todo' = [todo EXCEPT ![b] = s]
  <2> DEFINE V(s) == todo' = [todo EXCEPT ![b] = s]
  <2>1. \/ UNCHANGED todo \/ V({}) \/ V(Base) \/ V(Claims)
        \/ \E p \in todo[b] : V(todo[b] \ {p})
    BY <1>1, Zenon DEF Build, Visit, Fail, CheckDestination, Refuse, CreateStaging, NextAttempt,
       NoStaging, WriteBase, Finalize, Scan, Read, Mint, WriteEvidence, WriteManifest,
       Rescan, Reread, Compare, CheckEvidence, Recheck, Rename, Throw, Clean,
       CleanFails, Crash
  <2>2. todo[b] \subseteq Claims
    BY DEF Types
  <2>3. Base \subseteq Claims
    BY DEF Claims
  <2> HIDE DEF V
  <2>4. \E s \in SUBSET Claims : todo' = [todo EXCEPT ![b] = s] \/ UNCHANGED todo
    BY <2>1, <2>2, <2>3, Zenon DEF V
  <2> QED BY <2>4
<1>2. CASE OtherProcess
  BY <1>2 DEF OtherProcess
<1> QED BY <1>1, <1>2 DEF Next

(* Only NextAttempt changes an attempt.                                    *)
LEMMA AttemptMoves ==
  ASSUME Next
  PROVE  UNCHANGED attempt \/ \E b \in Builds : NextAttempt(b)
<1>1. ASSUME NEW b \in Builds, Build(b)
      PROVE  UNCHANGED attempt \/ NextAttempt(b)
  BY <1>1, Zenon DEF Build, CheckDestination, Refuse, CreateStaging,
     NoStaging, WriteBase, Finalize, Scan, Read, Mint, WriteEvidence, WriteManifest,
     Rescan, Reread, Compare, CheckEvidence, Recheck, Rename, Throw, Clean,
     CleanFails, Crash
<1>2. CASE OtherProcess
  BY <1>2 DEF OtherProcess
<1> QED BY <1>1, <1>2 DEF Next

(* Only these steps change what a name stands for.                         *)
LEMMA EntryMoves ==
  ASSUME Next
  PROVE  \/ UNCHANGED entry
         \/ \E b \in Builds : CreateStaging(b) \/ Clean(b) \/ Rename(b)
         \/ OtherProcess /\ (PlaceDestination \/ RemoveDestination)
<1>1. ASSUME NEW b \in Builds, Build(b)
      PROVE  UNCHANGED entry \/ CreateStaging(b) \/ Clean(b) \/ Rename(b)
  BY <1>1, Zenon DEF Build, fs, CheckDestination, Refuse, NextAttempt,
     NoStaging, WriteBase, Finalize, Scan, Read, Mint, WriteEvidence, WriteManifest,
     Rescan, Reread, Compare, CheckEvidence, Recheck, Throw, CleanFails, Crash
<1>2. CASE OtherProcess
  BY <1>2 DEF OtherProcess, WriteInside
<1> QED BY <1>1, <1>2, Zenon DEF Next

(* Only these steps change the files of a directory.                       *)
LEMMA DirsMoves ==
  ASSUME Next
  PROVE  \/ UNCHANGED dirs
         \/ \E b \in Builds : WriteBase(b) \/ Finalize(b) \/ WriteEvidence(b) \/ WriteManifest(b)
         \/ OtherProcess /\ WriteInside
<1>1. ASSUME NEW b \in Builds, Build(b)
      PROVE  \/ UNCHANGED dirs
             \/ WriteBase(b) \/ Finalize(b) \/ WriteEvidence(b) \/ WriteManifest(b)
  BY <1>1, Zenon DEF Build, fs, CheckDestination, Refuse, CreateStaging, NextAttempt,
     NoStaging, Scan, Read, Mint, Rescan, Reread, Compare, CheckEvidence, Recheck,
     Rename, Throw, Clean, CleanFails, Crash
<1>2. CASE OtherProcess
  BY <1>2 DEF OtherProcess, PlaceDestination, RemoveDestination
<1> QED BY <1>1, <1>2, Zenon DEF Next

(* Only the two scans change an inventory.                                 *)
LEMMA InventoryMoves ==
  ASSUME Next
  PROVE  UNCHANGED inventory \/ \E b \in Builds : Read(b) \/ Reread(b)
<1>1. ASSUME NEW b \in Builds, Build(b)
      PROVE  UNCHANGED inventory \/ Read(b) \/ Reread(b)
  BY <1>1, Zenon DEF Build, CheckDestination, Refuse, CreateStaging, NextAttempt,
     NoStaging, WriteBase, Finalize, Scan, Mint, WriteEvidence, WriteManifest,
     Rescan, Compare, CheckEvidence, Recheck, Rename, Throw, Clean, CleanFails, Crash
<1>2. CASE OtherProcess
  BY <1>2 DEF OtherProcess
<1> QED BY <1>1, <1>2 DEF Next

(* A build's steps only shorten its list of late writes.                   *)
LEMMA LateMoves ==
  ASSUME Next
  PROVE  \/ UNCHANGED late
         \/ \E b \in Builds : \E p : late' = [late EXCEPT ![b] = @ \ {p}]
         \/ OtherProcess /\ WriteInside
<1>1. ASSUME NEW b \in Builds, Build(b)
      PROVE  \/ UNCHANGED late
             \/ \E p \in {Manifest, Stray, Evidence} \cup todo[b] : Settled(b, p)
  BY <1>1, Zenon DEF Build, CheckDestination, Refuse, CreateStaging, NextAttempt,
     NoStaging, WriteBase, Finalize, Scan, Read, Mint, WriteEvidence, WriteManifest,
     Rescan, Reread, Compare, CheckEvidence, Recheck, Rename, Throw, Clean,
     CleanFails, Crash
<1>2. CASE OtherProcess
  BY <1>2 DEF OtherProcess, PlaceDestination, RemoveDestination
<1>3. {Manifest, Stray, Evidence} \subseteq Paths
  BY DEF Paths, Sidecars
<1> QED BY <1>1, <1>2, <1>3, Zenon DEF Next, Settled

(* Only other processes change the histories and their own count.          *)
LEMMA RestMoves ==
  ASSUME Next
  PROVE  \/ UNCHANGED <<removed, meddles>>
         \/ OtherProcess /\ (UNCHANGED removed \/ RemoveDestination)
<1>1. ASSUME NEW b \in Builds, Build(b)
      PROVE  UNCHANGED <<removed, meddles>>
  BY <1>1, Zenon DEF Build, CheckDestination, Refuse, CreateStaging, NextAttempt,
     NoStaging, WriteBase, Finalize, Scan, Read, Mint, WriteEvidence, WriteManifest,
     Rescan, Reread, Compare, CheckEvidence, Recheck, Rename, Throw, Clean,
     CleanFails, Crash
<1>2. CASE OtherProcess
  BY <1>2 DEF OtherProcess, PlaceDestination, WriteInside
<1> QED BY <1>1, <1>2, Zenon DEF Next

-----------------------------------------------------------------------------
(* Types *)

(* The initial values have their types.                                    *)
LEMMA TypesInit == Init => Types
<1> SUFFICES ASSUME Init PROVE Types
  OBVIOUS
<1>1. entry \in [Names -> Entries]
  BY DEF Init, Entries
<1>2. dirs \in [Builds -> [Paths -> Contents \cup Manifests]]
  BY DEF Init, NewDirectory, Contents
<1>3. \A b \in Builds, p \in Paths \ {Manifest} : dirs[b][p] \in Contents
  BY DEF Init, NewDirectory, Contents
<1>4. pc \in [Builds -> Stages]
  BY DEF Init, Stages
<1>5. attempt \in [Builds -> 0 .. MaxAttempts] /\ meddles \in 0 .. MaxMeddles
  BY LimitsAssumption DEF Init
<1>6. todo \in [Builds -> SUBSET Claims] /\ late \in [Builds -> SUBSET Paths] /\ removed \subseteq Builds
  BY DEF Init
<1>7. inventory \in [Builds -> [before : Inventories, after : Inventories]]
  BY DEF Init, NoInventory, Inventories, Contents
<1> QED BY <1>1, <1>2, <1>3, <1>4, <1>5, <1>6, <1>7 DEF Types

(* Every step keeps the types.                                             *)
LEMMA TypesNext ==
  ASSUME Types, Next
  PROVE  Types'
<1>1. (entry \in [Names -> Entries])'
  <2>0. entry \in [Names -> Entries]
    BY DEF Types
  <2>1. ASSUME NEW b \in Builds, CreateStaging(b)
        PROVE  (entry \in [Names -> Entries])'
    BY <2>0, <2>1 DEF CreateStaging, Entries
  <2>2. ASSUME NEW b \in Builds, Clean(b)
        PROVE  (entry \in [Names -> Entries])'
    BY <2>0, <2>2 DEF Clean, Entries
  <2>3. ASSUME NEW b \in Builds, Rename(b)
        PROVE  (entry \in [Names -> Entries])'
    BY <2>0, <2>3 DEF Rename, Entries
  <2>4. ASSUME PlaceDestination
        PROVE  (entry \in [Names -> Entries])'
    <3>1. PICK e \in Foreign : entry' = [entry EXCEPT ![Destination] = e]
      BY <2>4 DEF PlaceDestination
    <3>2. e \in Entries
      BY DEF Entries
    <3> QED BY <2>0, <3>1, <3>2
  <2>5. ASSUME RemoveDestination
        PROVE  (entry \in [Names -> Entries])'
    BY <2>0, <2>5 DEF RemoveDestination, Entries
  <2> QED BY <2>0, <2>1, <2>2, <2>3, <2>4, <2>5, EntryMoves, Zenon
<1>2. (pc \in [Builds -> Stages])'
  BY PcMoves DEF Types
<1>3. (todo \in [Builds -> SUBSET Claims])'
  BY TodoMoves DEF Types
<1>4. (attempt \in [Builds -> 0 .. MaxAttempts])'
  BY AttemptMoves, LimitsAssumption DEF Types, NextAttempt
<1>5. (inventory \in [Builds -> [before : Inventories, after : Inventories]])'
  <2>0. \A c \in Builds, p \in Claims : dirs[c][p] \in Contents
    BY PathsAssumption DEF Types, Paths, Claims
  <2>1. ASSUME NEW b \in Builds, NEW p \in Claims,
               inventory' = [inventory EXCEPT ![b].before[p] = dirs[b][p]]
        PROVE  (inventory \in [Builds -> [before : Inventories, after : Inventories]])'
    BY <2>0, <2>1 DEF Types, Inventories
  <2>2. ASSUME NEW b \in Builds, NEW p \in Claims,
               inventory' = [inventory EXCEPT ![b].after[p] = dirs[b][p]]
        PROVE  (inventory \in [Builds -> [before : Inventories, after : Inventories]])'
    BY <2>0, <2>2 DEF Types, Inventories
  <2>3. ASSUME NEW b \in Builds, Read(b) \/ Reread(b)
        PROVE  \/ UNCHANGED inventory
               \/ \E p \in Claims : inventory' = [inventory EXCEPT ![b].before[p] = dirs[b][p]]
               \/ \E p \in Claims : inventory' = [inventory EXCEPT ![b].after[p] = dirs[b][p]]
    <3>1. todo[b] \subseteq Claims
      BY DEF Types
    <3> QED BY <3>1, <2>3, Zenon DEF Read, Reread
  <2>4. CASE UNCHANGED inventory
    BY <2>4 DEF Types
  <2> QED BY <2>1, <2>2, <2>3, <2>4, InventoryMoves, Zenon
<1>6. (late \in [Builds -> SUBSET Paths])'
  <2>1. CASE WriteInside
    BY <2>1 DEF WriteInside, Types
  <2> QED BY <2>1, LateMoves DEF Types
<1>7. (removed \subseteq Builds)' /\ (meddles \in 0 .. MaxMeddles)'
  BY RestMoves, LimitsAssumption DEF Types, OtherProcess, RemoveDestination
<1>8. (dirs \in [Builds -> [Paths -> Contents \cup Manifests]])'
      /\ (\A b \in Builds, p \in Paths \ {Manifest} : dirs[b][p] \in Contents)'
  <2> DEFINE D == dirs \in [Builds -> [Paths -> Contents \cup Manifests]]
             F == \A b \in Builds, p \in Paths \ {Manifest} : dirs[b][p] \in Contents
  <2>0. D /\ F
    BY DEF Types
  <2> HIDE DEF D, F
  <2>1. ASSUME NEW b \in Builds, NEW p \in Paths, NEW c \in Contents,
               dirs' = [dirs EXCEPT ![b][p] = c]
        PROVE  D' /\ F'
    BY <2>0, <2>1 DEF D, F
  <2>2. ASSUME NEW b \in Builds, Finalize(b)
        PROVE  D' /\ F'
    <3>1. PICK made \in SUBSET (Extras \cup {Stray}) :
            dirs' = [dirs EXCEPT ![b] =
                      [p \in Paths |-> IF p \in made THEN Compiled(b) ELSE dirs[b][p]]]
      BY <2>2 DEF Finalize
    <3>2. Compiled(b) \in Contents
      BY DEF Compiled, Contents
    <3> QED BY <2>0, <3>1, <3>2 DEF D, F
  <2>3. ASSUME NEW b \in Builds, WriteManifest(b)
        PROVE  D' /\ F'
    <3>1. Rendered(b) \in Manifests
      BY DEF Rendered, Manifests, Types
    <3>2. dirs' = [dirs EXCEPT ![b][Manifest] = Rendered(b)]
      BY <2>3 DEF WriteManifest
    <3>3. D'
      BY <2>0, <3>1, <3>2 DEF D
    <3>4. F'
      BY <2>0, <3>2 DEF F, D
    <3> QED BY <3>3, <3>4
  <2>4. ASSUME NEW b \in Builds, WriteBase(b) \/ WriteEvidence(b)
        PROVE  D' /\ F'
    <3>1. todo[b] \subseteq Paths /\ Evidence \in Paths /\ b \in Contents
      BY DEF Types, Paths, Sidecars, Contents
    <3>2. \E p \in Paths : dirs' = [dirs EXCEPT ![b][p] = b]
      BY <2>4, <3>1 DEF WriteBase, WriteEvidence
    <3> QED BY <3>1, <3>2, <2>1, Zenon
  <2>5. ASSUME WriteInside
        PROVE  D' /\ F'
    <3>1. PICK b \in Builds, p \in Paths, c \in {Other, Absent} :
            dirs' = [dirs EXCEPT ![b][p] = c]
      BY <2>5, Zenon DEF WriteInside
    <3>2. c \in Contents
      BY DEF Contents
    <3> QED BY <3>1, <3>2, <2>1, Zenon
  <2>6. ASSUME UNCHANGED dirs
        PROVE  D' /\ F'
    BY <2>0, <2>6 DEF D, F
  <2>7. D' /\ F'
    BY <2>2, <2>3, <2>4, <2>5, <2>6, DirsMoves
  <2> QED BY <2>7 DEF D, F
<1> QED BY <1>1, <1>2, <1>3, <1>4, <1>5, <1>6, <1>7, <1>8 DEF Types

-----------------------------------------------------------------------------
(* Where the directories are *)

\* A build's directory is at its staging name; it may also be left there.
Working == InTry \cup {"cleaning"}
Leaving == Working \cup {"dirty", "crashed"}

\* The steps of a build that leave the parent directory alone.
Quiet(b) ==
  \/ CheckDestination(b) \/ Refuse(b) \/ NextAttempt(b) \/ NoStaging(b)
  \/ WriteBase(b) \/ Finalize(b) \/ Scan(b) \/ Read(b) \/ Mint(b)
  \/ WriteEvidence(b) \/ WriteManifest(b) \/ Rescan(b) \/ Reread(b)
  \/ Compare(b) \/ CheckEvidence(b) \/ Recheck(b)
  \/ Throw(b) \/ CleanFails(b) \/ Crash(b)
  \/ Rename(b) /\ UNCHANGED entry

(* Every step of a build is quiet, or one of the three that write the      *)
(* parent directory.                                                       *)
LEMMA BuildSteps ==
  ASSUME NEW b \in Builds, Build(b)
  PROVE  \/ Quiet(b) \/ CreateStaging(b) \/ Clean(b)
         \/ Rename(b) /\ RenameSucceeds(b)
BY Zenon DEF Build, Quiet, Rename

(* A quiet step moves only its own build's label, never into the try block *)
(* from outside it, and never out of the labels under which a directory    *)
(* may stand at a staging name.                                            *)
LEMMA QuietSteps ==
  ASSUME Types, NEW b \in Builds, Quiet(b), ~(Rename(b) /\ RenameSucceeds(b))
  PROVE  /\ UNCHANGED entry
         /\ \A c \in Builds : c # b => pc'[c] = pc[c]
         /\ pc[b] # "published" /\ pc'[b] # "published"
         /\ pc'[b] \in Working => pc[b] \in Working
         /\ pc[b] \in Leaving => pc'[b] \in Leaving
         /\ UNCHANGED attempt \/ NextAttempt(b)
<1> DEFINE Step(x, y) == pc[b] = x /\ pc' = [pc EXCEPT ![b] = y]
<1>0. pc \in [Builds -> Stages]
  BY DEF Types
<1>1. UNCHANGED entry
  BY Zenon DEF Quiet, fs, CheckDestination, Refuse, NextAttempt, NoStaging, WriteBase,
     Finalize, Scan, Read, Mint, WriteEvidence, WriteManifest, Rescan, Reread,
     Compare, CheckEvidence, Recheck, Throw, CleanFails, Crash
<1>2. UNCHANGED attempt \/ NextAttempt(b)
  BY Zenon DEF Quiet, CheckDestination, Refuse, NoStaging, WriteBase,
     Finalize, Scan, Read, Mint, WriteEvidence, WriteManifest, Rescan, Reread,
     Compare, CheckEvidence, Recheck, Rename, Throw, CleanFails, Crash
<1>3. \/ pc[b] = "allocating" /\ UNCHANGED pc
      \/ Step("started", "allocating") \/ Step("started", "failed")
      \/ Step("allocating", "failed")
      \/ \E x \in InTry, y \in Working : Step(x, y)
      \/ Step("cleaning", "dirty")
      \/ \E x \in InTry \cup {"started", "allocating", "cleaning"} : Step(x, "crashed")
  <2>1. CASE CheckDestination(b) \/ Refuse(b) \/ NextAttempt(b) \/ NoStaging(b) \/ CleanFails(b) \/ Crash(b)
    BY <2>1, Zenon DEF CheckDestination, Refuse, NextAttempt, NoStaging, CleanFails, Crash, Goto
  <2>2. CASE Throw(b)
    BY <2>2, Zenon DEF Throw, Fail, Goto, Working
  <2>3. CASE \/ WriteBase(b) \/ Finalize(b) \/ Scan(b) \/ Read(b) \/ Mint(b)
             \/ WriteEvidence(b) \/ WriteManifest(b) \/ Rescan(b) \/ Reread(b)
             \/ Compare(b) \/ CheckEvidence(b) \/ Recheck(b)
    <3>1. WriteBase(b) => Step("writing", "writing") \/ Step("writing", "finalizing")
      BY Zenon DEF WriteBase, Fail, Goto
    <3>2. Finalize(b) => Step("finalizing", "scanning")
      BY Zenon DEF Finalize, Fail, Goto
    <3>3. Scan(b) => Step("scanning", "reading") \/ Step("scanning", "cleaning")
      BY Zenon DEF Scan, Fail, Goto
    <3>4. Read(b) => Step("reading", "reading") \/ Step("reading", "minting") \/ Step("reading", "cleaning")
      BY Zenon DEF Read, Fail, Goto
    <3>5. Mint(b) => Step("minting", "evidence") \/ Step("minting", "cleaning")
      BY Zenon DEF Mint, Fail, Goto
    <3>6. WriteEvidence(b) => Step("evidence", "manifest")
      BY Zenon DEF WriteEvidence, Fail, Goto
    <3>7. WriteManifest(b) => Step("manifest", "rescanning")
      BY Zenon DEF WriteManifest, Fail, Goto
    <3>8. Rescan(b) => Step("rescanning", "rereading") \/ Step("rescanning", "cleaning")
      BY Zenon DEF Rescan, Fail, Goto
    <3>9. Reread(b) => Step("rereading", "rereading") \/ Step("rereading", "comparing") \/ Step("rereading", "cleaning")
      BY Zenon DEF Reread, Fail, Goto
    <3>10. Compare(b) => Step("comparing", "evidenceCheck") \/ Step("comparing", "cleaning")
      BY Zenon DEF Compare, Fail, Goto
    <3>11. CheckEvidence(b) => Step("evidenceCheck", "recheck") \/ Step("evidenceCheck", "cleaning")
      BY Zenon DEF CheckEvidence, Fail, Goto
    <3>12. Recheck(b) => Step("recheck", "renaming") \/ Step("recheck", "cleaning")
      BY Zenon DEF Recheck, Fail, Goto
    <3> HIDE DEF Step
    <3>13. /\ {"writing", "finalizing", "scanning", "reading", "minting", "evidence",
              "manifest", "rescanning", "rereading", "comparing", "evidenceCheck",
              "recheck", "renaming"} \subseteq Working
          /\ "cleaning" \in Working
      BY DEF Working, InTry
    <3>14. \E x \in InTry, y \in Working : Step(x, y)
      BY <2>3, <3>1, <3>2, <3>3, <3>4, <3>5, <3>6, <3>7, <3>8, <3>9, <3>10, <3>11, <3>12, <3>13, SMT DEF InTry
    <3> QED BY <3>14
  <2>4. CASE Rename(b)
    BY <2>4, Zenon DEF Rename, Fail, Goto, Working, InTry
  <2> QED BY <2>1, <2>2, <2>3, <2>4, Zenon DEF Quiet
<1>4. ASSUME NEW x, NEW y, Step(x, y)
      PROVE  /\ \A c \in Builds : c # b => pc'[c] = pc[c]
             /\ pc[b] = x /\ pc'[b] = y
  BY <1>0, <1>4
<1>5. \A c \in Builds : c # b => pc'[c] = pc[c]
  BY <1>3, <1>4, Zenon
<1> HIDE DEF Step
<1>6. pc[b] # "published" /\ pc'[b] # "published"
  BY <1>3, <1>4, SMT DEF InTry, Working
<1>7. pc'[b] \in Working => pc[b] \in Working
  BY <1>3, <1>4, SMT DEF InTry, Working
<1>8. pc[b] \in Leaving => pc'[b] \in Leaving
  BY <1>3, <1>4, SMT DEF InTry, Working, Leaving
<1> QED BY <1>1, <1>2, <1>5, <1>6, <1>7, <1>8

(* The destination is no staging name.                                     *)
LEMMA StagingNames ==
  Destination \notin Staging /\ Staging \subseteq Names /\ Destination \in Names
BY ValuesAssumption, LimitsAssumption, SMT DEF Staging, Names

(* At first no name stands for a build's directory.                        *)
LEMMA PlacedInit == Init => Placed
<1> SUFFICES ASSUME Init, NEW b \in Builds
             PROVE  /\ pc[b] = "started"
                    /\ \A n \in Names : entry[n] # b
  BY StagingNames, SMT DEF Placed, InTry
<1>1. b # Nothing /\ b \notin Foreign
  BY ValuesAssumption DEF Foreign
<1> QED BY <1>1 DEF Init

(* A step that only changes what stands at the destination, and puts no    *)
(* build's directory there, keeps Placed.                                  *)
LEMMA PlacedElsewhere ==
  ASSUME Types, Placed, UNCHANGED <<pc, attempt>>,
         NEW e, e \notin Builds, entry' = [entry EXCEPT ![Destination] = e]
  PROVE  Placed'
<1>1. \A n \in Staging : entry'[n] = entry[n]
  BY StagingNames DEF Types
<1>2. entry'[Destination] = e
  BY StagingNames DEF Types
<1>3. \A b \in Builds : Home(b)' = Home(b)
  BY DEF Home
<1>4. ASSUME NEW b \in Builds
      PROVE  pc'[b] \in Working => attempt'[b] < MaxAttempts /\ entry'[Home(b)'] = b
  <2>1. attempt[b] < MaxAttempts => Home(b) \in Staging
    BY HomeIsStaging
  <2>2. pc[b] \in Working => attempt[b] < MaxAttempts /\ entry[Home(b)] = b
    BY DEF Placed, Working
  <2> QED BY <1>1, <1>3, <2>1, <2>2
<1>5. ASSUME NEW b \in Builds, NEW n \in Staging, entry'[n] = b
      PROVE  n = Home(b)' /\ pc'[b] \in Leaving
  BY <1>1, <1>3, <1>5 DEF Placed, Working, Leaving
<1>6. \A b \in Builds : entry'[Destination] # b
  BY <1>2
<1> QED BY <1>4, <1>5, <1>6 DEF Placed, Working, Leaving

(* A quiet step of one build keeps Placed.                                 *)
LEMMA PlacedQuiet ==
  ASSUME Types, Placed, NEW b \in Builds, Quiet(b), ~(Rename(b) /\ RenameSucceeds(b))
  PROVE  Placed'
<1>1. /\ UNCHANGED entry
      /\ \A c \in Builds : c # b => pc'[c] = pc[c]
      /\ pc[b] # "published" /\ pc'[b] # "published"
      /\ pc'[b] \in Working => pc[b] \in Working
      /\ pc[b] \in Leaving => pc'[b] \in Leaving
      /\ UNCHANGED attempt \/ NextAttempt(b)
  BY QuietSteps
<1>2. ASSUME NEW c \in Builds
      PROVE  \/ attempt'[c] = attempt[c] /\ Home(c)' = Home(c)
             \/ c = b /\ pc[b] = "allocating" /\ pc'[b] = "allocating"
  BY <1>1 DEF Home, NextAttempt, Types
<1>3. "allocating" \notin Leaving
  BY DEF Leaving, Working, InTry
<1>4. ASSUME NEW c \in Builds
      PROVE  pc'[c] \in Working => attempt'[c] < MaxAttempts /\ entry'[Home(c)'] = c
  BY <1>1, <1>2, <1>3, <1>4, Zenon DEF Placed, Working, Leaving
<1>5. ASSUME NEW c \in Builds, NEW n \in Staging, entry'[n] = c
      PROVE  n = Home(c)' /\ pc'[c] \in Leaving
  BY <1>1, <1>2, <1>3, <1>5, Zenon DEF Placed, Working, Leaving
<1>6. ASSUME NEW c \in Builds, entry'[Destination] = c
      PROVE  pc'[c] = "published"
  BY <1>1, <1>6, Zenon DEF Placed
<1>7. Working = InTry \cup {"cleaning"} /\ Leaving = InTry \cup {"cleaning", "dirty", "crashed"}
  BY DEF Working, Leaving
<1> QED BY <1>4, <1>5, <1>6, <1>7, Zenon DEF Placed

(* A build takes a staging name only when nothing is there.                *)
LEMMA PlacedCreate ==
  ASSUME Types, Placed, NEW b \in Builds, CreateStaging(b)
  PROVE  Placed'
<1>1. /\ pc[b] = "allocating" /\ attempt[b] < MaxAttempts /\ entry[Home(b)] = Nothing
      /\ entry' = [entry EXCEPT ![Home(b)] = b]
      /\ pc' = [pc EXCEPT ![b] = "writing"]
      /\ UNCHANGED attempt
  BY DEF CreateStaging, Goto
<1>2. Home(b) \in Names /\ Home(b) # Destination /\ Home(b) \in Staging
  BY <1>1, HomeIsStaging
<1>3. /\ entry'[Home(b)] = b
      /\ \A n \in Names : n # Home(b) => entry'[n] = entry[n]
  BY <1>1, <1>2 DEF Types
<1>4. /\ pc'[b] = "writing"
      /\ \A c \in Builds : c # b => pc'[c] = pc[c]
  BY <1>1 DEF Types
<1>5. "writing" \in Working /\ "writing" \in Leaving /\ "allocating" \notin Leaving
  BY DEF Working, Leaving, InTry
<1>6. \A c \in Builds : Home(c)' = Home(c) /\ attempt'[c] = attempt[c]
  BY <1>1 DEF Home
<1>7. ASSUME NEW c \in Builds
      PROVE  pc'[c] \in Working => attempt'[c] < MaxAttempts /\ entry'[Home(c)'] = c
  <2>1. CASE c = b
    BY <2>1, <1>1, <1>3, <1>6
  <2>2. ASSUME c # b, pc'[c] \in Working
        PROVE  attempt'[c] < MaxAttempts /\ entry'[Home(c)'] = c
    <3>1. attempt[c] < MaxAttempts /\ entry[Home(c)] = c
      BY <2>2, <1>4 DEF Placed, Working
    <3>2. Home(c) \in Names /\ Home(c) # Home(b)
      BY <3>1, <1>1, HomeIsStaging, ValuesAssumption
    <3> QED BY <3>1, <3>2, <1>3, <1>6
  <2> QED BY <2>1, <2>2
<1>8. ASSUME NEW c \in Builds, NEW n \in Staging, entry'[n] = c
      PROVE  n = Home(c)' /\ pc'[c] \in Leaving
  <2>1. CASE n = Home(b)
    BY <2>1, <1>3, <1>4, <1>5, <1>6, <1>8
  <2>2. CASE n # Home(b)
    <3>1. entry[n] = c
      BY <2>2, <1>3, <1>8, StagingNames
    <3>2. n = Home(c) /\ pc[c] \in Leaving
      BY <3>1 DEF Placed, Working, Leaving
    <3> QED BY <3>2, <2>2, <1>4, <1>6
  <2> QED BY <2>1, <2>2
<1>9. ASSUME NEW c \in Builds, entry'[Destination] = c
      PROVE  pc'[c] = "published"
  BY <1>9, <1>1, <1>2, <1>3, <1>4, StagingNames DEF Placed
<1> QED BY <1>7, <1>8, <1>9 DEF Placed, Working, Leaving

(* A build that cleans up, or publishes, leaves its own staging name and   *)
(* touches no other.                                                       *)
LEMMA PlacedLeave ==
  ASSUME Types, Placed, NEW b \in Builds,
         Clean(b) \/ (Rename(b) /\ RenameSucceeds(b))
  PROVE  Placed'
<1>1. /\ pc[b] \in Working
      /\ UNCHANGED attempt
  BY DEF Clean, Rename, Working, InTry
<1>2. attempt[b] < MaxAttempts /\ entry[Home(b)] = b
  BY <1>1 DEF Placed, Working
<1>3. Home(b) \in Names /\ Home(b) # Destination /\ Home(b) \in Staging
  BY <1>2, HomeIsStaging
<1>4. /\ entry'[Home(b)] = Nothing
      /\ \A n \in Staging : n # Home(b) => entry'[n] = entry[n]
      /\ \/ entry'[Destination] = entry[Destination]
         \/ entry'[Destination] = b /\ pc'[b] = "published"
  <2>1. CASE Clean(b)
    BY <2>1, <1>3, StagingNames DEF Clean, CleanedUp
  <2>2. CASE Rename(b) /\ RenameSucceeds(b)
    <3>1. /\ entry' = [entry EXCEPT ![Destination] = b, ![Home(b)] = Nothing]
          /\ pc' = [pc EXCEPT ![b] = "published"]
      BY <2>2 DEF Rename, Goto
    <3> QED BY <3>1, <1>3, StagingNames DEF Types
  <2> QED BY <2>1, <2>2
<1>5. \A c \in Builds : c # b => pc'[c] = pc[c]
  BY DEF Clean, Rename, RenameSucceeds, Goto, Types
<1>6. pc'[b] \notin Working /\ pc[b] # "published"
  <2>1. pc'[b] \in {"failed", "published"}
    BY DEF Clean, Rename, RenameSucceeds, Goto, Types
  <2> QED BY <2>1, <1>1 DEF Working, InTry
<1>7. \A c \in Builds : Home(c)' = Home(c) /\ attempt'[c] = attempt[c]
  BY <1>1 DEF Home
<1>8. ASSUME NEW c \in Builds, pc'[c] \in Working
      PROVE  attempt'[c] < MaxAttempts /\ entry'[Home(c)'] = c
  <2>1. c # b /\ pc[c] \in Working
    BY <1>5, <1>6, <1>8
  <2>2. attempt[c] < MaxAttempts /\ entry[Home(c)] = c
    BY <2>1 DEF Placed, Working
  <2>3. Home(c) \in Staging /\ Home(c) # Home(b)
    BY <2>1, <2>2, <1>2, HomeIsStaging
  <2> QED BY <2>2, <2>3, <1>4, <1>7
<1>9. ASSUME NEW c \in Builds, NEW n \in Staging, entry'[n] = c
      PROVE  n = Home(c)' /\ pc'[c] \in Leaving
  <2>1. n # Home(b)
    BY <1>4, <1>9, ValuesAssumption
  <2>2. entry[n] = c
    BY <2>1, <1>4, <1>9
  <2>3. n = Home(c) /\ pc[c] \in Leaving
    BY <2>2 DEF Placed, Working, Leaving
  <2> QED BY <2>1, <2>3, <1>5, <1>7
<1>10. ASSUME NEW c \in Builds, entry'[Destination] = c
       PROVE  pc'[c] = "published"
  BY <1>10, <1>4, <1>5, <1>6 DEF Placed
<1> QED BY <1>8, <1>9, <1>10 DEF Placed, Working, Leaving

(* Every step keeps the directories where the builds believe them.         *)
LEMMA PlacedNext ==
  ASSUME Types, Placed, Next
  PROVE  Placed'
<1>1. ASSUME NEW b \in Builds, Build(b)
      PROVE  Placed'
  <2>1. CASE Rename(b) /\ RenameSucceeds(b)
    BY <2>1, PlacedLeave
  <2>2. CASE ~(Rename(b) /\ RenameSucceeds(b))
    BY <1>1, <2>2, BuildSteps, PlacedQuiet, PlacedCreate, PlacedLeave
  <2> QED BY <2>1, <2>2
<1>2. ASSUME OtherProcess
      PROVE  Placed'
  <2>1. UNCHANGED <<pc, attempt>>
    BY <1>2 DEF OtherProcess
  <2>2. CASE PlaceDestination
    <3>1. PICK e \in Foreign : entry' = [entry EXCEPT ![Destination] = e]
      BY <2>2 DEF PlaceDestination
    <3>2. e \notin Builds
      BY ValuesAssumption DEF Foreign
    <3> QED BY <2>1, <3>1, <3>2, PlacedElsewhere
  <2>3. CASE RemoveDestination
    BY <2>1, <2>3, PlacedElsewhere, ValuesAssumption DEF RemoveDestination
  <2>4. CASE WriteInside
    BY <2>1, <2>4, Zenon DEF WriteInside, Placed, Home
  <2> QED BY <1>2, <2>2, <2>3, <2>4 DEF OtherProcess
<1> QED BY <1>1, <1>2 DEF Next

(* A step that changes nothing keeps TypeOK.                               *)
LEMMA StutterOK ==
  ASSUME TypeOK, UNCHANGED vars
  PROVE  TypeOK'
BY Zenon DEF TypeOK, Types, Placed, Home, vars

(* TypeOK: every variable keeps its type, and every build's directory is   *)
(* where emitProgram believes it to be, whatever other builds with the     *)
(* same process id and other processes do.                                 *)
THEOREM TypeOKCorrect == Spec => []TypeOK
<1>1. Init => TypeOK
  BY TypesInit, PlacedInit DEF TypeOK
<1>2. TypeOK /\ [Next]_vars => TypeOK'
  BY TypesNext, PlacedNext, StutterOK DEF TypeOK
<1> QED BY <1>1, <1>2, PTL DEF Spec

(* NoResidue: no staging directory of a build that published, or that      *)
(* failed and cleaned up, stays behind.                                    *)
THEOREM NoResidueCorrect == Spec => []NoResidue
<1>1. TypeOK => NoResidue
  <2> SUFFICES ASSUME TypeOK, NEW b \in Builds, pc[b] \in {"published", "failed"},
                      NEW n \in Staging, entry[n] = b
               PROVE  FALSE
    BY DEF NoResidue
  <2>1. pc[b] \in InTry \cup {"cleaning", "dirty", "crashed"}
    BY DEF TypeOK, Placed
  <2> QED BY <2>1 DEF InTry
<1> QED BY <1>1, TypeOKCorrect, PTL

-----------------------------------------------------------------------------
(* What stands at the destination *)

(* While a build works, its staging name is its own.                       *)
LEMMA HomeAway ==
  ASSUME TypeOK, NEW b \in Builds, pc[b] \in Working
  PROVE  entry[Home(b)] = b /\ Home(b) # Destination
BY HomeIsStaging DEF TypeOK, Placed, Working

(* Which steps take something away from a name, and from whom.             *)
LEMMA TakesAway ==
  ASSUME TypeOK, Next, NEW n \in Names, entry'[n] # entry[n]
  PROVE  \/ OtherProcess
         \/ entry[n] \in {Nothing, EmptyDir}
         \/ /\ n # Destination /\ entry[n] \in Builds
            /\ pc[entry[n]] \in {"renaming", "cleaning"}
            /\ pc'[entry[n]] # pc[entry[n]]
<1>1. PICK b \in Builds : \/ CreateStaging(b) \/ Clean(b) \/ Rename(b)
                          \/ OtherProcess
  BY EntryMoves, BuildsAssumption, Zenon
<1>2. CASE CreateStaging(b)
  BY <1>2 DEF CreateStaging, TypeOK, Types
<1>3. CASE Clean(b)
  <2>1. pc[b] = "cleaning" /\ pc'[b] = "failed" /\ n = Home(b)
    BY <1>3 DEF Clean, CleanedUp, Goto, TypeOK, Types
  <2>2. entry[n] = b /\ n # Destination
    BY <2>1, HomeIsStaging DEF TypeOK, Placed
  <2> QED BY <2>1, <2>2
<1>4. CASE Rename(b)
  <2>1. /\ RenameSucceeds(b) /\ pc[b] = "renaming"
        /\ entry' = [entry EXCEPT ![Destination] = b, ![Home(b)] = Nothing]
        /\ pc' = [pc EXCEPT ![b] = "published"]
    BY <1>4 DEF Rename, Goto
  <2>2. pc[b] \in InTry
    BY <2>1 DEF InTry
  <2>3. entry[Home(b)] = b /\ Home(b) # Destination
    BY <2>2, HomeIsStaging DEF TypeOK, Placed
  <2>4. CASE n = Destination
    BY <2>1, <2>4 DEF RenameSucceeds
  <2>5. CASE n # Destination
    BY <2>1, <2>3, <2>5 DEF TypeOK, Types
  <2> QED BY <2>4, <2>5
<1> QED BY <1>1, <1>2, <1>3, <1>4

(* NothingLost: a build takes from the file system nothing but its own     *)
(* staging directory, or an empty directory.                               *)
THEOREM NothingLostCorrect == Spec => NothingLost
<1>1. TypeOK /\ [Next]_vars =>
        [\A n \in Names :
           entry[n] \notin {Nothing, EmptyDir} /\ entry'[n] # entry[n]
           => \/ meddles' # meddles
              \/ n # Destination /\ entry[n] \in Builds
                 /\ pc[entry[n]] \in {"renaming", "cleaning"}
                 /\ pc'[entry[n]] # pc[entry[n]]]_vars
  <2>1. ASSUME TypeOK, OtherProcess
        PROVE  meddles' # meddles
    BY <2>1, LimitsAssumption DEF TypeOK, Types, OtherProcess
  <2> QED BY <2>1, TakesAway
<1> QED BY <1>1, TypeOKCorrect, PTL DEF Spec, NothingLost

(* ReceiptStands: when a build returned its receipt its output stands at   *)
(* the destination, unless another process removed it.                     *)
THEOREM ReceiptStandsCorrect == Spec => []ReceiptStands
<1>1. Init => ReceiptStands
  BY DEF Init, ReceiptStands
<1>2. TypeOK /\ ReceiptStands /\ [Next]_vars => ReceiptStands'
  <2> SUFFICES ASSUME TypeOK, ReceiptStands, [Next]_vars,
                      NEW b \in Builds, pc'[b] = "published"
               PROVE  entry'[Destination] = b \/ b \in removed'
    BY DEF ReceiptStands
  <2>1. CASE UNCHANGED vars
    BY <2>1 DEF ReceiptStands, vars
  <2>2. CASE Next /\ pc[b] # "published"
    <3>1. PICK c \in Builds : Build(c)
      BY <2>2 DEF Next, OtherProcess
    <3>2. Quiet(c) \/ CreateStaging(c) \/ Clean(c) \/ (Rename(c) /\ RenameSucceeds(c))
      BY <3>1, BuildSteps, Zenon
    <3>3. CASE Rename(c) /\ RenameSucceeds(c)
      <4>1. /\ entry' = [entry EXCEPT ![Destination] = c, ![Home(c)] = Nothing]
            /\ pc[c] = "renaming" /\ pc' = [pc EXCEPT ![c] = "published"]
        BY <3>3 DEF Rename, Goto
      <4>2. Home(c) # Destination
        BY <4>1, HomeAway DEF Working, InTry
      <4>3. b = c
        BY <4>1, <2>2 DEF TypeOK, Types
      <4>4. entry'[Destination] = c
        BY <4>1, <4>2, StagingNames DEF TypeOK, Types
      <4> QED BY <4>3, <4>4
    <3>4. CASE Quiet(c) /\ ~(Rename(c) /\ RenameSucceeds(c))
      BY <3>4, <2>2, QuietSteps DEF TypeOK
    <3>5. CASE CreateStaging(c) \/ Clean(c)
      BY <3>5, <2>2 DEF CreateStaging, Clean, Goto, TypeOK, Types
    <3> QED BY <3>2, <3>3, <3>4, <3>5
  <2>3. CASE Next /\ pc[b] = "published"
    <3>1. entry[Destination] = b \/ b \in removed
      BY <2>3 DEF ReceiptStands
    <3>2. removed \subseteq removed'
      BY <2>3, RestMoves DEF RemoveDestination
    <3>3. CASE entry[Destination] = b /\ entry'[Destination] # b
      <4>1. b \notin {Nothing, EmptyDir}
        BY ValuesAssumption
      <4>2. OtherProcess
        BY <2>3, <3>3, <4>1, TakesAway, StagingNames
      <4>3. RemoveDestination
        BY <3>3, <4>1, <4>2 DEF OtherProcess, PlaceDestination, WriteInside
      <4> QED BY <3>3, <4>3 DEF RemoveDestination
    <3> QED BY <3>1, <3>2, <3>3
  <2> QED BY <2>1, <2>2, <2>3
<1> QED BY <1>1, <1>2, TypeOKCorrect, PTL DEF Spec

-----------------------------------------------------------------------------
(* What a build knows about its directory at each stage *)

Rechecked == {"recheck", "renaming", "published"}
Compared == {"evidenceCheck"} \cup Rechecked
RereadDone == {"comparing"} \cup Compared
Rescanned == {"rereading"} \cup RereadDone
ManifestDone == {"rescanning"} \cup Rescanned
Minted == {"evidence", "manifest"} \cup ManifestDone

(* At stage l, with files d, paths t still to read, scans i and paths x    *)
(* another process wrote late.                                             *)
Known(b, l, d, t, i, x) ==
  /\ l \in Minted => WithinLimit(b, i.before)
  /\ l \in ManifestDone /\ Manifest \notin x =>
       d[Manifest] = [evidence |-> b, files |-> i.before]
  /\ l \in Rescanned =>
       /\ Stray \notin x => d[Stray] = Absent
       /\ \A p \in Claims \ (t \cup x) : d[p] = i.after[p] /\ d[p] # Absent
  /\ l \in RereadDone => t = {}
  /\ l \in Compared => i.after = i.before
  /\ l \in Rechecked /\ Evidence \notin x => d[Evidence] = b

Records ==
  \A b \in Builds : Known(b, pc[b], dirs[b], todo[b], inventory[b], late[b])

(* A build's step changes nothing of another build.                        *)
LEMMA OthersKept ==
  ASSUME Types, NEW b \in Builds, Build(b), NEW c \in Builds, c # b
  PROVE  /\ pc'[c] = pc[c] /\ dirs'[c] = dirs[c] /\ todo'[c] = todo[c]
         /\ inventory'[c] = inventory[c] /\ late'[c] = late[c]
<1> DEFINE Same == /\ pc'[c] = pc[c] /\ dirs'[c] = dirs[c] /\ todo'[c] = todo[c]
                   /\ inventory'[c] = inventory[c] /\ late'[c] = late[c]
<1>1. CASE CheckDestination(b) \/ Refuse(b) \/ CreateStaging(b) \/ NextAttempt(b) \/ NoStaging(b)
  BY <1>1 DEF Types, fs, Goto, Visit, CheckDestination, Refuse, CreateStaging, NextAttempt, NoStaging
<1>2. CASE WriteBase(b) \/ Finalize(b) \/ Scan(b) \/ Read(b) \/ Mint(b)
  BY <1>2 DEF Types, fs, Goto, Visit, Fail, WriteBase, Finalize, Scan, Read, Mint
<1>3. CASE WriteEvidence(b) \/ WriteManifest(b) \/ Rescan(b) \/ Reread(b) \/ Compare(b)
  BY <1>3 DEF Types, fs, Goto, Visit, Fail, Settled, WriteEvidence, WriteManifest, Rescan, Reread, Compare
<1>4. CASE CheckEvidence(b) \/ Recheck(b) \/ Rename(b) \/ Throw(b)
  BY <1>4 DEF Types, fs, Goto, Visit, Fail, Settled, CheckEvidence, Recheck, Rename, Throw
<1>5. CASE Clean(b) \/ CleanFails(b) \/ Crash(b)
  BY <1>5 DEF Types, fs, Goto, Clean, CleanFails, Crash
<1> QED BY <1>1, <1>2, <1>3, <1>4, <1>5, Zenon DEF Build

(* A build's own step keeps what it knows.                                 *)
LEMMA KnownStep ==
  ASSUME Types, Records, NEW b \in Builds, Build(b)
  PROVE  Known(b, pc'[b], dirs'[b], todo'[b], inventory'[b], late'[b])
<1> DEFINE K == Known(b, pc'[b], dirs'[b], todo'[b], inventory'[b], late'[b])
<1>0. Known(b, pc[b], dirs[b], todo[b], inventory[b], late[b])
  BY DEF Records
<1>s. /\ Minted = {"evidence", "manifest", "rescanning", "rereading", "comparing",
                   "evidenceCheck", "recheck", "renaming", "published"}
      /\ ManifestDone = {"rescanning", "rereading", "comparing", "evidenceCheck",
                         "recheck", "renaming", "published"}
      /\ Rescanned = {"rereading", "comparing", "evidenceCheck", "recheck",
                      "renaming", "published"}
      /\ RereadDone = {"comparing", "evidenceCheck", "recheck", "renaming", "published"}
      /\ Compared = {"evidenceCheck", "recheck", "renaming", "published"}
      /\ Rechecked = {"recheck", "renaming", "published"}
  BY DEF Minted, ManifestDone, Rescanned, RereadDone, Compared, Rechecked
<1>p. /\ Evidence \in Paths /\ Manifest \in Paths /\ Stray \in Paths /\ Claims \subseteq Paths
      /\ Evidence \notin Claims /\ Manifest \notin Claims /\ Stray \notin Claims
      /\ Evidence # Manifest /\ Evidence # Stray /\ Manifest # Stray
      /\ Sidecars = {Evidence, Manifest}
  BY PathsAssumption DEF Paths, Claims, Sidecars
<1>1. ASSUME pc'[b] \notin Minted
      PROVE  K
  BY <1>1, <1>s DEF Known
<1>2. CASE Mint(b)
  <2>1. \/ pc'[b] = "cleaning"
        \/ pc'[b] = "evidence" /\ WithinLimit(b, inventory[b].before) /\ inventory'[b] = inventory[b]
    BY <1>2 DEF Mint, Fail, Goto, Types
  <2> QED BY <2>1, <1>s DEF Known
<1>3. CASE WriteEvidence(b)
  <2>1. pc[b] = "evidence" /\ pc'[b] = "manifest" /\ inventory'[b] = inventory[b]
    BY <1>3 DEF WriteEvidence, Goto, Types
  <2> QED BY <2>1, <1>0, <1>s DEF Known
<1>4. CASE WriteManifest(b)
  <2>1. /\ pc[b] = "manifest" /\ pc'[b] = "rescanning" /\ inventory'[b] = inventory[b]
        /\ dirs'[b][Manifest] = Rendered(b)
    BY <1>4, <1>p DEF WriteManifest, Goto, Types
  <2> QED BY <2>1, <1>0, <1>s DEF Known, Rendered
<1>5. CASE Rescan(b)
  <2>1. \/ pc'[b] = "cleaning"
        \/ /\ pc[b] = "rescanning" /\ pc'[b] = "rereading"
           /\ inventory'[b] = inventory[b] /\ dirs'[b] = dirs[b]
           /\ todo'[b] = Claims /\ late'[b] = late[b] \ {Stray}
           /\ Closed(b, Claims \cup Sidecars)
    BY <1>5 DEF Rescan, Fail, Goto, Visit, Settled, fs, Types
  <2>2. Closed(b, Claims \cup Sidecars) => dirs[b][Stray] = Absent
    BY <1>p DEF Closed, Present
  <2> QED BY <2>1, <2>2, <1>0, <1>s, <1>p DEF Known
<1>6. CASE Reread(b)
  <2>1. PICK p \in todo[b] :
          \/ pc'[b] = "cleaning"
          \/ /\ pc[b] = "rereading" /\ dirs[b][p] # Absent /\ dirs'[b] = dirs[b]
             /\ inventory'[b].before = inventory[b].before
             /\ inventory'[b].after = [inventory[b].after EXCEPT ![p] = dirs[b][p]]
             /\ late'[b] = late[b] \ {p} /\ todo'[b] = todo[b] \ {p}
             /\ pc'[b] = IF todo[b] = {p} THEN "comparing" ELSE "rereading"
    <3>1. PICK p \in todo[b] :
            IF dirs[b][p] = Absent
            THEN Fail(b) /\ UNCHANGED <<inventory, late>>
            ELSE /\ inventory' = [inventory EXCEPT ![b].after[p] = dirs[b][p]]
                 /\ Settled(b, p)
                 /\ Visit(b, todo[b] \ {p})
                 /\ Goto(b, IF todo[b] = {p} THEN "comparing" ELSE "rereading")
      BY <1>6 DEF Reread
    <3>2. pc[b] = "rereading" /\ dirs'[b] = dirs[b]
      BY <1>6 DEF Reread, fs
    <3>3. CASE dirs[b][p] = Absent
      BY <3>1, <3>3 DEF Fail, Goto, Types
    <3>4. CASE dirs[b][p] # Absent
      <4>1. /\ inventory'[b].before = inventory[b].before
            /\ inventory'[b].after = [inventory[b].after EXCEPT ![p] = dirs[b][p]]
        <5>1. inventory \in [Builds -> [before : Inventories, after : Inventories]]
          BY DEF Types
        <5>2. inventory' = [inventory EXCEPT ![b].after[p] = dirs[b][p]]
          BY <3>1, <3>4
        <5> QED BY <5>1, <5>2
      <4>2. /\ late'[b] = late[b] \ {p} /\ todo'[b] = todo[b] \ {p}
            /\ pc'[b] = IF todo[b] = {p} THEN "comparing" ELSE "rereading"
        BY <3>1, <3>4 DEF Settled, Visit, Goto, Types
      <4> QED BY <3>2, <3>4, <4>1, <4>2
    <3> QED BY <3>3, <3>4
  <2>2. p \in Claims /\ DOMAIN inventory[b].after = Claims
    BY DEF Types, Inventories
  <2>3. CASE pc'[b] # "cleaning"
    <3>1. \A q \in Claims \ (todo'[b] \cup late'[b]) :
            dirs'[b][q] = inventory'[b].after[q] /\ dirs'[b][q] # Absent
      BY <2>1, <2>2, <2>3, <1>0, <1>s DEF Known
    <3>2. pc'[b] = "comparing" => todo'[b] = {}
      BY <2>1
    <3>3. pc[b] = "rereading" /\ pc'[b] \in {"rereading", "comparing"}
      BY <2>1, <2>3
    <3>4. Manifest # p /\ Stray # p
      BY <2>2, <1>p
    <3> QED BY <2>1, <2>3, <3>1, <3>2, <3>3, <3>4, <1>0, <1>s DEF Known
  <2>4. CASE pc'[b] = "cleaning"
    BY <2>4, <1>1, <1>s
  <2> QED BY <2>3, <2>4
<1>7. CASE Compare(b)
  <2>1. \/ pc'[b] = "cleaning"
        \/ /\ pc[b] = "comparing" /\ pc'[b] = "evidenceCheck"
           /\ inventory'[b] = inventory[b] /\ dirs'[b] = dirs[b]
           /\ todo'[b] = todo[b] /\ late'[b] = late[b] /\ Unchanged(b)
    BY <1>7 DEF Compare, Fail, Goto, Visit, fs, Types
  <2> QED BY <2>1, <1>0, <1>s DEF Known, Unchanged
<1>8. CASE CheckEvidence(b)
  <2>1. \/ pc'[b] = "cleaning"
        \/ /\ pc[b] = "evidenceCheck" /\ pc'[b] = "recheck"
           /\ inventory'[b] = inventory[b] /\ dirs'[b] = dirs[b]
           /\ todo'[b] = todo[b] /\ late'[b] = late[b] \ {Evidence} /\ EvidenceIntact(b)
    BY <1>8 DEF CheckEvidence, Fail, Goto, Visit, Settled, fs, Types
  <2> QED BY <2>1, <1>0, <1>s, <1>p DEF Known, EvidenceIntact
<1>9. CASE Recheck(b) \/ Rename(b)
  <2>1. \/ pc'[b] = "cleaning"
        \/ /\ pc[b] \in {"recheck", "renaming"} /\ pc'[b] \in {"renaming", "published"}
           /\ inventory'[b] = inventory[b] /\ dirs'[b] = dirs[b]
           /\ todo'[b] = todo[b] /\ late'[b] = late[b]
    BY <1>9 DEF Recheck, Rename, Fail, Goto, Visit, fs, Types
  <2> QED BY <2>1, <1>0, <1>s DEF Known
<1>10. CASE \/ CheckDestination(b) \/ Refuse(b) \/ CreateStaging(b) \/ NextAttempt(b)
            \/ NoStaging(b) \/ WriteBase(b) \/ Finalize(b) \/ Scan(b) \/ Read(b)
            \/ Throw(b) \/ Clean(b) \/ CleanFails(b) \/ Crash(b)
  <2>1. CASE \/ CheckDestination(b) \/ Refuse(b) \/ CreateStaging(b) \/ NextAttempt(b)
             \/ NoStaging(b) \/ Throw(b) \/ Clean(b) \/ CleanFails(b) \/ Crash(b)
    <3>1. pc'[b] \in {"allocating", "failed", "writing", "cleaning", "dirty", "crashed"}
      BY <2>1 DEF CheckDestination, Refuse, CreateStaging, NextAttempt, NoStaging,
         Throw, Clean, CleanFails, Crash, Fail, Goto, Types
    <3> QED BY <3>1, <1>1, <1>s
  <2>2. CASE WriteBase(b) \/ Finalize(b) \/ Scan(b) \/ Read(b)
    <3>1. pc'[b] \in {"writing", "finalizing", "scanning", "reading", "minting", "cleaning"}
      BY <2>2 DEF WriteBase, Finalize, Scan, Read, Fail, Goto, Types
    <3> QED BY <3>1, <1>1, <1>s
  <2> QED BY <1>10, <2>1, <2>2
<1> QED BY <1>2, <1>3, <1>4, <1>5, <1>6, <1>7, <1>8, <1>9, <1>10, Zenon DEF Build

(* A build that has not started knows nothing.                             *)
LEMMA RecordsInit == Init => Records
<1> SUFFICES ASSUME Init, NEW b \in Builds
             PROVE  Known(b, pc[b], dirs[b], todo[b], inventory[b], late[b])
  BY DEF Records
<1>1. pc[b] = "started"
  BY DEF Init
<1> QED BY <1>1 DEF Known, Minted, ManifestDone, Rescanned, RereadDone, Compared, Rechecked

(* Every step, of a build or of another process, keeps what the builds     *)
(* know.                                                                   *)
LEMMA RecordsNext ==
  ASSUME Types, Records, [Next]_vars
  PROVE  Records'
<1>1. ASSUME UNCHANGED <<pc, dirs, todo, inventory, late>>
      PROVE  Records'
  BY <1>1 DEF Records
<1>2. ASSUME NEW b \in Builds, Build(b)
      PROVE  Records'
  <2>1. ASSUME NEW c \in Builds
        PROVE  Known(c, pc'[c], dirs'[c], todo'[c], inventory'[c], late'[c])
    <3>1. CASE c = b
      BY <3>1, <1>2, KnownStep
    <3>2. CASE c # b
      <4>1. Known(c, pc[c], dirs[c], todo[c], inventory[c], late[c])
        BY DEF Records
      <4> QED BY <4>1, <3>2, <1>2, OthersKept
    <3> QED BY <3>1, <3>2
  <2> QED BY <2>1 DEF Records
<1>3. ASSUME WriteInside, UNCHANGED <<pc, todo, inventory>>
      PROVE  Records'
  <2>1. PICK b \in Builds, p \in Paths, v \in {Other, Absent} :
          /\ dirs' = [dirs EXCEPT ![b][p] = v]
          /\ late' = [late EXCEPT ![b] = @ \cup {p}]
    BY <1>3, Zenon DEF WriteInside
  <2>2. ASSUME NEW c \in Builds
        PROVE  Known(c, pc'[c], dirs'[c], todo'[c], inventory'[c], late'[c])
    <3>1. Known(c, pc[c], dirs[c], todo[c], inventory[c], late[c])
      BY DEF Records
    <3>2. CASE c = b
      <4>1. late'[c] = late[c] \cup {p}
        BY <2>1, <3>2 DEF Types
      <4>2. \A q \in Paths : q # p => dirs'[c][q] = dirs[c][q]
        BY <2>1, <3>2 DEF Types
      <4>3. {Manifest, Stray, Evidence} \cup Claims \subseteq Paths
        BY DEF Paths, Sidecars
      <4> QED BY <3>1, <4>1, <4>2, <4>3, <1>3 DEF Known
    <3>3. CASE c # b
      <4>1. late'[c] = late[c] /\ dirs'[c] = dirs[c]
        BY <2>1, <3>3 DEF Types
      <4> QED BY <3>1, <4>1, <1>3
    <3> QED BY <3>2, <3>3
  <2> QED BY <2>2 DEF Records
<1>4. CASE OtherProcess
  BY <1>4, <1>1, <1>3 DEF OtherProcess, PlaceDestination, RemoveDestination
<1>5. CASE UNCHANGED vars
  BY <1>5, <1>1 DEF vars
<1> QED BY <1>2, <1>4, <1>5 DEF Next

(* What the builds know is true in every reachable state.                  *)
LEMMA RecordsCorrect == Spec => []Records
<1>1. TypeOK => Types
  BY DEF TypeOK
<1> QED BY <1>1, RecordsInit, RecordsNext, TypeOKCorrect, PTL DEF Spec

(* A directory at the destination is of a build that published it, and     *)
(* that therefore knows all of it.                                         *)
LEMMA KnownWhenPublished ==
  ASSUME TypeOK, Records, NEW b \in Builds, entry[Destination] = b
  PROVE  /\ WithinLimit(b, inventory[b].before)
         /\ Manifest \notin late[b] => dirs[b][Manifest] = Rendered(b)
         /\ Stray \notin late[b] => dirs[b][Stray] = Absent
         /\ \A p \in Claims \ late[b] : dirs[b][p] = inventory[b].before[p] /\ dirs[b][p] # Absent
         /\ Evidence \notin late[b] => dirs[b][Evidence] = b
<1>1. pc[b] = "published"
  BY DEF TypeOK, Placed
<1>2. Known(b, "published", dirs[b], todo[b], inventory[b], late[b])
  BY <1>1 DEF Records
<1>3. /\ "published" \in Minted /\ "published" \in ManifestDone /\ "published" \in Rescanned
      /\ "published" \in RereadDone /\ "published" \in Compared /\ "published" \in Rechecked
  BY DEF Minted, ManifestDone, Rescanned, RereadDone, Compared, Rechecked
<1> QED BY <1>2, <1>3 DEF Known, Rendered

(* Described: what stands at the destination is complete and is what its   *)
(* manifest says, up to late writes of other processes.                    *)
THEOREM DescribedCorrect == Spec => []Described
<1>1. TypeOK /\ Records => Described
  BY KnownWhenPublished DEF Described
<1> QED BY <1>1, TypeOKCorrect, RecordsCorrect, PTL

(* LimitKept: what stands in a published directory nobody else wrote in,   *)
(* the sidecars included, is within the byte limit.                        *)
THEOREM LimitKeptCorrect == Spec => []LimitKept
<1>1. TypeOK /\ Records => LimitKept
  <2> SUFFICES ASSUME TypeOK, Records, NEW b \in Builds, entry[Destination] = b, late[b] = {}
               PROVE  /\ dirs[b][Stray] = Absent
                      /\ PublishedBytes([p \in Claims |-> dirs[b][p]], dirs[b][Evidence], dirs[b][Manifest])
                           <= PublishedBytesLimit
    BY DEF LimitKept
  <2>1. WithinLimit(b, inventory[b].before)
    BY KnownWhenPublished
  <2>2. /\ \A p \in Claims : dirs[b][p] = inventory[b].before[p]
        /\ dirs[b][Stray] = Absent /\ dirs[b][Evidence] = b
        /\ dirs[b][Manifest] = [evidence |-> b, files |-> inventory[b].before]
    BY KnownWhenPublished DEF Rendered
  <2>3. inventory[b].before \in [Claims -> Contents]
    BY DEF TypeOK, Types, Inventories
  <2>4. [p \in Claims |-> dirs[b][p]] = inventory[b].before
    BY <2>2, <2>3
  <2> QED BY <2>1, <2>2, <2>4 DEF WithinLimit
<1> QED BY <1>1, TypeOKCorrect, RecordsCorrect, PTL

-----------------------------------------------------------------------------
(* An inspection beside the builds *)

(* The builds beside an inspection behave as without it.                   *)
LEMMA BuildsAlone == InspectSpec => Spec
<1>1. InspectInit => Init
  BY DEF InspectInit
<1>2. [InspectNext]_<<vars, inspection>> => [Next]_vars
  BY Zenon DEF InspectNext
<1> QED BY <1>1, <1>2, PTL DEF InspectSpec, Spec

(* What the publisher's proofs establish holds beside an inspection too.   *)
LEMMA Publishing == InspectSpec => [](TypeOK /\ Records)
BY BuildsAlone, TypeOKCorrect, RecordsCorrect, PTL

(* Manifest is no other file's path.                                       *)
LEMMA ManifestPath ==
  /\ Manifest \in Paths /\ Manifest \notin Claims \cup {Evidence, Stray}
  /\ Evidence \in Paths /\ Claims \subseteq Paths
BY PathsAssumption DEF Paths, Claims, Sidecars

-----------------------------------------------------------------------------
(* The manifests on disk *)

(* The labels of a build that has written its manifest.                    *)
Rendering == ManifestDone \cup {"cleaning", "failed", "dirty", "crashed"}

(* At label l, with manifest m: it parses only if build b wrote it.        *)
Own(b, l, m, i) ==
  m \notin {Other, Absent} =>
    l \in Rendering /\ m = [evidence |-> b, files |-> i.before]

OwnManifests ==
  \A b \in Builds : Own(b, pc[b], dirs[b][Manifest], inventory[b])

(* At first there is no manifest.                                          *)
LEMMA OwnInit == Init => OwnManifests
BY ManifestPath DEF Init, OwnManifests, Own, NewDirectory

(* A build's own step leaves a manifest that parses its own.               *)
LEMMA OwnStep ==
  ASSUME Types, OwnManifests, NEW b \in Builds, Build(b)
  PROVE  Own(b, pc'[b], dirs'[b][Manifest], inventory'[b])
<1> DEFINE O == Own(b, pc'[b], dirs'[b][Manifest], inventory'[b])
           Kept == /\ dirs'[b][Manifest] = dirs[b][Manifest]
                   /\ inventory'[b].before = inventory[b].before
<1>0. Own(b, pc[b], dirs[b][Manifest], inventory[b])
  BY DEF OwnManifests
<1>r. Rendering = {"rescanning", "rereading", "comparing", "evidenceCheck", "recheck",
                   "renaming", "published", "cleaning", "failed", "dirty", "crashed"}
  BY DEF Rendering, ManifestDone, Rescanned, RereadDone, Compared, Rechecked
<1>1. ASSUME Kept, pc[b] \in Rendering => pc'[b] \in Rendering
      PROVE  O
  BY <1>0, <1>1 DEF Own
<1>2. CASE CheckDestination(b) \/ Refuse(b) \/ CreateStaging(b) \/ NextAttempt(b) \/ NoStaging(b)
  <2>1. Kept /\ (pc[b] \in Rendering => pc'[b] \in Rendering)
    BY <1>2, <1>r DEF Types, fs, Goto, CheckDestination, Refuse, CreateStaging,
                      NextAttempt, NoStaging
  <2> QED BY <2>1, <1>1
<1>3. CASE WriteBase(b)
  <2>1. PICK p \in todo[b] : dirs' = [dirs EXCEPT ![b][p] = b]
    BY <1>3, Zenon DEF WriteBase
  <2>2. p # Manifest
    BY <2>1, ManifestPath DEF Types
  <2>3. dirs'[b][Manifest] = dirs[b][Manifest]
    BY <2>1, <2>2, ManifestPath DEF Types
  <2>4. pc[b] \notin Rendering /\ inventory' = inventory
    BY <1>3, <1>r DEF WriteBase
  <2> QED BY <2>3, <2>4, <1>1
<1>4. CASE Finalize(b)
  <2>1. PICK made \in SUBSET (Extras \cup {Stray}) :
          dirs' = [dirs EXCEPT ![b] = [p \in Paths |-> IF p \in made THEN Compiled(b) ELSE @[p]]]
    BY <1>4 DEF Finalize
  <2>2. Manifest \notin made
    BY <2>1, ManifestPath DEF Claims
  <2>3. dirs'[b][Manifest] = dirs[b][Manifest]
    BY <2>1, <2>2, ManifestPath DEF Types
  <2>4. pc[b] \notin Rendering /\ inventory' = inventory
    BY <1>4, <1>r DEF Finalize
  <2> QED BY <2>3, <2>4, <1>1
<1>5. CASE Read(b)
  <2>1. pc[b] \notin Rendering /\ dirs' = dirs
    BY <1>5, <1>r DEF Read, fs
  <2> QED BY <2>1, <1>0 DEF Own
<1>6. CASE Reread(b)
  <2>1. dirs' = dirs /\ pc'[b] \in {"cleaning", "rereading", "comparing"}
    BY <1>6 DEF Reread, Types, fs, Fail, Goto
  <2>2. inventory'[b].before = inventory[b].before
    <3>1. \/ inventory' = inventory
          \/ \E p \in todo[b] : inventory' = [inventory EXCEPT ![b].after[p] = dirs[b][p]]
      BY <1>6, Zenon DEF Reread
    <3> QED BY <3>1 DEF Types
  <2> QED BY <2>1, <2>2, <1>1, <1>r
<1>7. CASE WriteEvidence(b)
  <2>1. pc[b] \notin Rendering /\ inventory' = inventory
    BY <1>7, <1>r DEF WriteEvidence
  <2>2. dirs'[b][Manifest] = dirs[b][Manifest]
    BY <1>7, ManifestPath DEF WriteEvidence, Types
  <2> QED BY <2>1, <2>2, <1>1
<1>8. CASE WriteManifest(b)
  <2>1. pc'[b] = "rescanning" /\ inventory' = inventory
    BY <1>8 DEF WriteManifest, Goto, Types
  <2>2. dirs'[b][Manifest] = Rendered(b)
    BY <1>8, ManifestPath DEF WriteManifest, Types
  <2> QED BY <2>1, <2>2, <1>r DEF Own, Rendered
<1>9. CASE Scan(b) \/ Mint(b) \/ Rescan(b) \/ Compare(b) \/ CheckEvidence(b)
  <2>1. Kept /\ (pc[b] \in Rendering => pc'[b] \in Rendering)
    BY <1>9, <1>r DEF Types, fs, Goto, Fail, Scan, Mint, Rescan, Compare, CheckEvidence
  <2> QED BY <2>1, <1>1
<1>10. CASE Recheck(b) \/ Rename(b) \/ Throw(b) \/ Clean(b) \/ CleanFails(b) \/ Crash(b)
  <2>1. Kept /\ (pc[b] \in Rendering => pc'[b] \in Rendering)
    BY <1>10, <1>r DEF Types, fs, Goto, Fail, Recheck, Rename, Throw, Clean, CleanFails, Crash
  <2> QED BY <2>1, <1>1
<1> QED BY <1>2, <1>3, <1>4, <1>5, <1>6, <1>7, <1>8, <1>9, <1>10, Zenon DEF Build

(* Every step, another process's included, keeps it so.                    *)
LEMMA OwnNext ==
  ASSUME Types, OwnManifests, [Next]_vars
  PROVE  OwnManifests'
<1>1. ASSUME UNCHANGED <<pc, dirs, inventory>>
      PROVE  OwnManifests'
  BY <1>1 DEF OwnManifests
<1>2. ASSUME NEW b \in Builds, Build(b)
      PROVE  OwnManifests'
  <2>1. ASSUME NEW c \in Builds
        PROVE  Own(c, pc'[c], dirs'[c][Manifest], inventory'[c])
    <3>1. CASE c = b
      BY <3>1, <1>2, OwnStep
    <3>2. CASE c # b
      <4>1. Own(c, pc[c], dirs[c][Manifest], inventory[c])
        BY DEF OwnManifests
      <4> QED BY <4>1, <3>2, <1>2, OthersKept
    <3> QED BY <3>1, <3>2
  <2> QED BY <2>1 DEF OwnManifests
<1>3. ASSUME WriteInside, UNCHANGED <<pc, inventory>>
      PROVE  OwnManifests'
  <2>1. PICK b \in Builds, p \in Paths, v \in {Other, Absent} :
          dirs' = [dirs EXCEPT ![b][p] = v]
    BY <1>3, Zenon DEF WriteInside
  <2>2. ASSUME NEW c \in Builds
        PROVE  dirs'[c][Manifest] = dirs[c][Manifest] \/ dirs'[c][Manifest] \in {Other, Absent}
    BY <2>1, ManifestPath DEF Types
  <2> QED BY <2>2, <1>3 DEF OwnManifests, Own
<1>4. CASE OtherProcess
  BY <1>4, <1>1, <1>3 DEF OtherProcess, PlaceDestination, RemoveDestination
<1>5. CASE UNCHANGED vars
  BY <1>5, <1>1 DEF vars
<1> QED BY <1>2, <1>4, <1>5 DEF Next

(* A build that published stays published and its scans stay as they were; *)
(* its files change only by another process.                               *)
LEMMA PublishedStays ==
  ASSUME Types, [Next]_vars, NEW b \in Builds, pc[b] = "published"
  PROVE  /\ pc'[b] = "published" /\ inventory'[b] = inventory[b]
         /\ ~OtherProcess => dirs'[b] = dirs[b] /\ late'[b] = late[b]
<1>1. ASSUME NEW c \in Builds, Build(c)
      PROVE  c # b
  BY <1>1 DEF Build, InTry, CheckDestination, Refuse, CreateStaging, NextAttempt, NoStaging,
     WriteBase, Finalize, Scan, Read, Mint, WriteEvidence, WriteManifest, Rescan, Reread,
     Compare, CheckEvidence, Recheck, Rename, Throw, Clean, CleanFails, Crash
<1>2. CASE \E c \in Builds : Build(c)
  BY <1>1, <1>2, OthersKept
<1>3. CASE OtherProcess
  BY <1>3 DEF OtherProcess
<1>4. CASE UNCHANGED vars
  BY <1>4 DEF vars
<1> QED BY <1>2, <1>3, <1>4 DEF Next

-----------------------------------------------------------------------------
(* What an accepted inspection read *)

(* The manifest read, if it parses, is one build's that published it.      *)
ManifestRead ==
  view.manifest \notin {Other, Absent} =>
    \E b \in Builds : pc[b] = "published" /\ view.manifest = Rendered(b)

(* What has been established at each step of the inspection.               *)
Established ==
  /\ view = [manifest |-> view.manifest, evidence |-> view.evidence, files |-> view.files]
  /\ step \in {"walking", "reading", "comparing", "accepted"} => SidecarsAgree
  /\ step = "accepted" => InventoryMatches

(* A step of the builds or of another process leaves both true.            *)
LEMMA ReadKept ==
  ASSUME Types, ManifestRead, Established, [Next]_vars, UNCHANGED inspection
  PROVE  ManifestRead' /\ Established'
<1>1. view' = view /\ step' = step
  BY DEF inspection
<1>2. Established'
  BY <1>1 DEF Established, SidecarsAgree, InventoryMatches
<1>3. ManifestRead'
  <2> SUFFICES ASSUME view.manifest \notin {Other, Absent}
               PROVE  \E b \in Builds : pc'[b] = "published" /\ view.manifest = Rendered(b)'
    BY <1>1 DEF ManifestRead
  <2>1. PICK b \in Builds : pc[b] = "published" /\ view.manifest = Rendered(b)
    BY DEF ManifestRead
  <2>2. pc'[b] = "published" /\ inventory'[b] = inventory[b]
    BY <2>1, PublishedStays
  <2> QED BY <2>1, <2>2 DEF Rendered
<1> QED BY <1>2, <1>3

(* Each step of the inspection keeps both.                                 *)
LEMMA ReadStep ==
  ASSUME TypeOK, OwnManifests, ManifestRead, Established, Inspect, UNCHANGED vars
  PROVE  ManifestRead' /\ Established'
<1>v. pc' = pc /\ inventory' = inventory /\ dirs' = dirs /\ entry' = entry
  BY DEF vars
<1>1. CASE ReadManifest
  <2>1. view' = [view EXCEPT !.manifest = At(Manifest)] /\ step' \in {"rejected", "evidence"}
    BY <1>1 DEF ReadManifest
  <2>2. view' = [manifest |-> At(Manifest), evidence |-> view.evidence, files |-> view.files]
    BY <2>1 DEF Established
  <2>3. Established'
    BY <2>1, <2>2 DEF Established
  <2>4. ASSUME At(Manifest) \notin {Other, Absent}
        PROVE  \E b \in Builds : pc[b] = "published" /\ At(Manifest) = Rendered(b)
    <3>1. entry[Destination] \in Builds
      BY <2>4 DEF At
    <3>2. pc[entry[Destination]] = "published"
      BY <3>1 DEF TypeOK, Placed
    <3>3. At(Manifest) = Rendered(entry[Destination])
      BY <2>4, <3>1 DEF At, OwnManifests, Own, Rendered
    <3> QED BY <3>1, <3>2, <3>3
  <2>5. ManifestRead'
    BY <2>2, <2>4, <1>v DEF ManifestRead, Rendered
  <2> QED BY <2>3, <2>5
<1>2. ASSUME view'.manifest = view.manifest
      PROVE  ManifestRead'
  BY <1>2, <1>v DEF ManifestRead, Rendered
<1>3. CASE ReadEvidence
  <2>1. view' = [view EXCEPT !.evidence = At(Evidence)] /\ step' \in {"rejected", "validating"}
    BY <1>3 DEF ReadEvidence
  <2>2. view' = [manifest |-> view.manifest, evidence |-> At(Evidence), files |-> view.files]
    BY <2>1 DEF Established
  <2> QED BY <2>1, <2>2, <1>2 DEF Established
<1>4. CASE Validate
  <2>1. view' = view /\ (step' = "rejected" \/ (step' = "walking" /\ SidecarsAgree))
    BY <1>4 DEF Validate
  <2> QED BY <2>1, <1>2 DEF Established, SidecarsAgree
<1>5. CASE Walk
  <2>1. view' = view /\ step = "walking" /\ step' \in {"rejected", "reading"}
    BY <1>5 DEF Walk
  <2> QED BY <2>1, <1>2 DEF Established, SidecarsAgree
<1>6. CASE ReadFile
  <2>1. /\ step = "reading" /\ step' \in {"rejected", "comparing", "reading"}
        /\ \/ view' = view
           \/ \E p \in unread : view' = [view EXCEPT !.files[p] = At(p)]
    BY <1>6, Zenon DEF ReadFile
  <2>2. /\ view'.manifest = view.manifest /\ view'.evidence = view.evidence
        /\ view' = [manifest |-> view'.manifest, evidence |-> view'.evidence,
                    files |-> view'.files]
    <3>1. CASE view' = view
      BY <3>1 DEF Established
    <3>2. ASSUME NEW p \in unread, view' = [view EXCEPT !.files[p] = At(p)]
          PROVE  view' = [manifest |-> view.manifest, evidence |-> view.evidence,
                          files |-> [view.files EXCEPT ![p] = At(p)]]
      BY <3>2 DEF Established
    <3> QED BY <2>1, <3>1, <3>2
  <2> QED BY <2>1, <2>2, <1>2 DEF Established, SidecarsAgree
<1>7. CASE Verdict
  <2>1. /\ view' = view /\ step = "comparing"
        /\ step' = "rejected" \/ (step' = "accepted" /\ InventoryMatches)
    BY <1>7 DEF Verdict
  <2> QED BY <2>1, <1>2 DEF Established, SidecarsAgree, InventoryMatches
<1> QED BY <1>1, <1>3, <1>4, <1>5, <1>6, <1>7 DEF Inspect

(* AcceptedIsOneBuild: whatever other builds and processes do to the       *)
(* destination between two reads, an accepted inspection has read one      *)
(* build's manifest, that build's evidence, and the files its scan found.  *)
THEOREM AcceptedIsOneBuildCorrect == InspectSpec => []AcceptedIsOneBuild
<1> DEFINE Inv == OwnManifests /\ ManifestRead /\ Established
<1>1. InspectInit => Inv
  BY OwnInit DEF InspectInit, ManifestRead, Established
<1>2. TypeOK /\ Inv /\ [InspectNext]_<<vars, inspection>> => Inv'
  <2> SUFFICES ASSUME TypeOK, Inv, [InspectNext]_<<vars, inspection>>
               PROVE  Inv'
    OBVIOUS
  <2>1. Types /\ [Next]_vars
    BY Zenon DEF InspectNext, TypeOK
  <2>2. OwnManifests'
    BY <2>1, OwnNext
  <2>3. CASE UNCHANGED inspection
    BY <2>1, <2>2, <2>3, ReadKept
  <2>4. CASE Inspect /\ UNCHANGED vars
    BY <2>2, <2>4, ReadStep
  <2> QED BY <2>3, <2>4 DEF InspectNext
<1>3. Inv => AcceptedIsOneBuild
  <2> SUFFICES ASSUME Inv, step = "accepted"
               PROVE  \E b \in Builds :
                        /\ pc[b] = "published"
                        /\ view = [manifest |-> Rendered(b), evidence |-> b,
                                   files |-> inventory[b].before]
    BY DEF AcceptedIsOneBuild
  <2>1. SidecarsAgree /\ InventoryMatches
    BY DEF Established
  <2>2. PICK b \in Builds : pc[b] = "published" /\ view.manifest = Rendered(b)
    BY <2>1 DEF SidecarsAgree, ManifestRead
  <2>3. view.evidence = b /\ view.files = inventory[b].before
    BY <2>1, <2>2 DEF SidecarsAgree, InventoryMatches, Rendered
  <2> QED BY <2>2, <2>3 DEF Established
<1> QED BY <1>1, <1>2, <1>3, Publishing, PTL DEF InspectSpec

-----------------------------------------------------------------------------
(* An inspection nobody disturbs *)

(* How far the inspection of build b's untouched output is.                *)
Following(b) ==
  /\ entry[Destination] = b /\ late[b] = {}
  /\ step \in {"evidence", "validating", "walking", "reading", "comparing", "accepted"}
  /\ view.manifest = Rendered(b)
  /\ step # "evidence" => view.evidence = b
  /\ unread \subseteq Claims
  /\ view.files \in [Claims -> Contents]
  /\ step \in {"reading", "comparing"} =>
       \A p \in Claims \ unread : view.files[p] = inventory[b].before[p]
  /\ step = "comparing" => unread = {}

(* While nobody has meddled since an inspection of an untouched output     *)
(* began, every read so far found what the build left.                     *)
Undisturbed ==
  /\ step = "idle" => ~begun.untouched /\ unread = {} /\ view.files = NoInventory
  /\ begun.untouched =>
       /\ begun.meddles \in Int /\ begun.meddles <= meddles
       /\ meddles = begun.meddles => \E b \in Builds : Following(b)

(* What a published output that nobody wrote to late holds.                *)
LEMMA UntouchedHolds ==
  ASSUME TypeOK, Records, NEW b \in Builds, entry[Destination] = b, late[b] = {}
  PROVE  /\ \A p \in Paths : At(p) = dirs[b][p]
         /\ At(Manifest) = Rendered(b) /\ Rendered(b) \notin {Absent, Other}
         /\ At(Evidence) = b /\ b # Absent
         /\ \A p \in Claims : At(p) = inventory[b].before[p] /\ At(p) # Absent
                             /\ At(p) \in Contents
         /\ Present(dirs[b]) = Claims \cup Sidecars
         /\ pc[b] = "published"
<1>1. /\ dirs[b][Manifest] = Rendered(b) /\ dirs[b][Stray] = Absent /\ dirs[b][Evidence] = b
      /\ \A p \in Claims : dirs[b][p] = inventory[b].before[p] /\ dirs[b][p] # Absent
  BY KnownWhenPublished
<1>2. \A p : At(p) = dirs[b][p]
  BY DEF At
<1>3. Rendered(b) \in Manifests
  BY DEF TypeOK, Types, Rendered, Manifests
<1>4. Rendered(b) \notin {Absent, Other} /\ b # Absent
  BY <1>3, ManifestsAssumption, ValuesAssumption
<1>5. Present(dirs[b]) = Claims \cup Sidecars
  BY <1>1, <1>4 DEF Present, Paths, Sidecars
<1>6. \A p \in Claims : dirs[b][p] \in Contents
  BY ManifestPath DEF TypeOK, Types
<1>7. pc[b] = "published"
  BY DEF TypeOK, Placed
<1> QED BY <1>1, <1>2, <1>4, <1>5, <1>6, <1>7

(* A step of the builds or of another process.                             *)
LEMMA UndisturbedKept ==
  ASSUME TypeOK, Undisturbed, [Next]_vars, UNCHANGED inspection
  PROVE  Undisturbed'
<1>1. step' = step /\ view' = view /\ unread' = unread /\ begun' = begun
  BY DEF inspection
<1>2. CASE OtherProcess
  <2>1. meddles \in Int /\ meddles' = meddles + 1
    BY <1>2 DEF OtherProcess, TypeOK, Types
  <2>2. begun.untouched => /\ begun'.meddles \in Int /\ begun'.meddles <= meddles'
                           /\ meddles' # begun'.meddles
    BY <1>1, <2>1 DEF Undisturbed
  <2> QED BY <1>1, <2>2 DEF Undisturbed, NoInventory
<1>3. CASE ~OtherProcess
  <2>1. meddles' = meddles
    BY <1>3, RestMoves DEF vars
  <2>2. ASSUME NEW b \in Builds, Following(b)
        PROVE  Following(b)'
    <3>1. entry[Destination] = b /\ pc[b] = "published" /\ b \notin {Nothing, EmptyDir}
      BY <2>2, ValuesAssumption DEF Following, TypeOK, Placed
    <3>2. entry'[Destination] = b
      BY <1>3, <3>1, TakesAway, StagingNames DEF vars
    <3>3. inventory'[b] = inventory[b] /\ late'[b] = late[b]
      BY <1>3, <3>1, PublishedStays DEF TypeOK
    <3> QED BY <2>2, <1>1, <3>2, <3>3 DEF Following, Rendered
  <2>3. (\E b \in Builds : Following(b)) => \E b \in Builds : Following(b)'
    BY <2>2
  <2> QED BY <1>1, <2>1, <2>3 DEF Undisturbed, NoInventory
<1> QED BY <1>2, <1>3

(* A step of the inspection: of a published output nobody touched, each    *)
(* read finds what is expected and each test passes.                       *)
LEMMA UndisturbedStep ==
  ASSUME TypeOK, Records, Undisturbed, Established, Inspect, UNCHANGED vars
  PROVE  Undisturbed'
<1>v. /\ entry' = entry /\ late' = late /\ inventory' = inventory /\ dirs' = dirs
      /\ meddles' = meddles /\ meddles \in Int
  BY DEF vars, TypeOK, Types
<1>1. CASE ReadManifest
  <2>1. /\ step = "idle" /\ unread' = unread
        /\ begun' = [meddles |-> meddles, untouched |-> Untouched]
        /\ view' = [view EXCEPT !.manifest = At(Manifest)]
        /\ step' = IF At(Manifest) = Absent THEN "rejected" ELSE "evidence"
    BY <1>1 DEF ReadManifest
  <2>2. view'.manifest = At(Manifest) /\ view'.files = NoInventory /\ unread' = {}
    BY <2>1 DEF Established, Undisturbed
  <2>3. ASSUME Untouched
        PROVE  \E b \in Builds : Following(b)'
    <3>1. PICK b \in Builds : entry[Destination] = b /\ late[b] = {}
      BY <2>3 DEF Untouched
    <3>2. At(Manifest) = Rendered(b) /\ Rendered(b) # Absent
      BY <3>1, UntouchedHolds
    <3>3. step' = "evidence"
      BY <2>1, <3>2
    <3>4. view'.manifest = Rendered(b)'
      BY <2>2, <3>2, <1>v DEF Rendered
    <3>5. view'.files \in [Claims -> Contents]
      BY <2>2 DEF NoInventory, Contents
    <3> QED BY <3>1, <3>3, <3>4, <3>5, <2>2, <1>v DEF Following
  <2> QED BY <2>1, <2>3, <1>v DEF Undisturbed
<1>2. ASSUME ~ReadManifest
      PROVE  step # "idle" /\ step' # "idle" /\ begun' = begun
  BY <1>2 DEF Inspect, ReadManifest, ReadEvidence, Validate, Walk, ReadFile, Verdict
<1>3. ASSUME ~ReadManifest, NEW b \in Builds, Following(b)
      PROVE  Following(b)'
  <2>f. /\ entry[Destination] = b /\ late[b] = {} /\ view.manifest = Rendered(b)
        /\ unread \subseteq Claims /\ view.files \in [Claims -> Contents]
        /\ step # "evidence" => view.evidence = b
    BY <1>3 DEF Following
  <2>u. /\ At(Evidence) = b /\ b # Absent /\ Rendered(b) \notin {Absent, Other}
        /\ \A p \in Claims : At(p) = inventory[b].before[p] /\ At(p) # Absent
                            /\ At(p) \in Contents
        /\ At(Manifest) # Absent
        /\ Present(dirs[b]) = Claims \cup Sidecars
    BY <2>f, UntouchedHolds
  <2>m. /\ view.manifest.evidence = b /\ view.manifest.files = inventory[b].before
        /\ DOMAIN view.manifest.files = Claims
        /\ Rendered(b)' = Rendered(b)
    BY <2>f, <1>v DEF Rendered, TypeOK, Types, Inventories
  <2>1. CASE ReadEvidence
    <3>1. /\ view' = [manifest |-> view.manifest, evidence |-> b, files |-> view.files]
          /\ step' = "validating" /\ unread' = unread
      BY <2>1, <2>u DEF ReadEvidence, Established
    <3> QED BY <3>1, <2>f, <2>m, <1>v DEF Following
  <2>2. CASE Validate
    <3>1. step = "validating" /\ SidecarsAgree
      BY <2>2, <2>f, <2>u, <2>m DEF Validate, SidecarsAgree
    <3>2. step' = "walking" /\ view' = view /\ unread' = unread
      BY <2>2, <3>1 DEF Validate
    <3> QED BY <3>1, <3>2, <2>f, <2>m, <1>v DEF Following
  <2>3. CASE Walk
    <3>1. Closed(entry[Destination], Leaves(view.manifest))
      BY <2>f, <2>u, <2>m DEF Closed, Leaves
    <3>2. step = "walking" /\ step' = "reading" /\ view' = view /\ unread' = Claims
      BY <2>3, <3>1, <2>f, <2>m DEF Walk
    <3> QED BY <3>2, <2>f, <2>m, <1>v DEF Following
  <2>4. CASE ReadFile
    <3>1. PICK p \in unread :
            IF At(p) = Absent
            THEN step' = "rejected" /\ UNCHANGED <<unread, view>>
            ELSE /\ view' = [view EXCEPT !.files[p] = At(p)]
                 /\ unread' = unread \ {p}
                 /\ step' = IF unread = {p} THEN "comparing" ELSE "reading"
      BY <2>4 DEF ReadFile
    <3>2. p \in Claims /\ At(p) = inventory[b].before[p] /\ At(p) # Absent /\ At(p) \in Contents
      BY <2>f, <2>u
    <3>3. /\ step = "reading"
          /\ view' = [manifest |-> view.manifest, evidence |-> view.evidence,
                      files |-> [view.files EXCEPT ![p] = At(p)]]
          /\ unread' = unread \ {p}
          /\ step' \in {"comparing", "reading"}
          /\ step' = "comparing" => unread' = {}
      BY <2>4, <3>1, <3>2 DEF ReadFile, Established
    <3>4. view'.files \in [Claims -> Contents]
      BY <3>2, <3>3, <2>f
    <3>5. \A q \in Claims \ unread' : view'.files[q] = inventory[b].before[q]
      BY <1>3, <3>2, <3>3, <2>f DEF Following
    <3> QED BY <3>3, <3>4, <3>5, <2>f, <2>m, <1>v DEF Following
  <2>5. CASE Verdict
    <3>1. step = "comparing" /\ unread = {} /\ view' = view /\ unread' = unread
      BY <1>3, <2>5 DEF Verdict, Following
    <3>2. InventoryMatches
      <4>1. \A p \in Claims : view.files[p] = inventory[b].before[p]
        BY <1>3, <3>1 DEF Following
      <4>2. inventory[b].before \in [Claims -> Contents]
        BY DEF TypeOK, Types, Inventories
      <4> QED BY <4>1, <4>2, <2>f, <2>m DEF InventoryMatches
    <3>3. step' = "accepted"
      BY <2>5, <3>2, <2>u DEF Verdict, Sidecars
    <3> QED BY <3>1, <3>3, <2>f, <2>m, <1>v DEF Following
  <2> QED BY <1>3, <2>1, <2>2, <2>3, <2>4, <2>5 DEF Inspect
<1>4. ASSUME ~ReadManifest
      PROVE  (\E b \in Builds : Following(b)) => \E b \in Builds : Following(b)'
  BY <1>3, <1>4
<1>5. CASE ~ReadManifest
  BY <1>5, <1>2, <1>4, <1>v DEF Undisturbed
<1> QED BY <1>1, <1>5

(* NoFalseRejection: what a build published and nobody touched before or   *)
(* during an inspection is not rejected, so the publisher's layout and     *)
(* order of scans are the ones the inspector expects.                      *)
THEOREM NoFalseRejectionCorrect == InspectSpec => []NoFalseRejection
<1> DEFINE Inv == Undisturbed /\ ManifestRead /\ Established /\ OwnManifests
<1>1. InspectInit => Inv
  BY OwnInit DEF InspectInit, Undisturbed, ManifestRead, Established
<1>2. TypeOK /\ Records /\ Inv /\ [InspectNext]_<<vars, inspection>> => Inv'
  <2> SUFFICES ASSUME TypeOK, Records, Inv, [InspectNext]_<<vars, inspection>>
               PROVE  Inv'
    OBVIOUS
  <2>1. Types /\ [Next]_vars
    BY Zenon DEF InspectNext, TypeOK
  <2>2. OwnManifests'
    BY <2>1, OwnNext
  <2>3. CASE UNCHANGED inspection
    BY <2>1, <2>2, <2>3, ReadKept, UndisturbedKept
  <2>4. CASE Inspect /\ UNCHANGED vars
    BY <2>2, <2>4, ReadStep, UndisturbedStep
  <2> QED BY <2>3, <2>4 DEF InspectNext
<1>3. Inv => NoFalseRejection
  BY DEF Undisturbed, NoFalseRejection, Following
<1> QED BY <1>1, <1>2, <1>3, Publishing, PTL DEF InspectSpec


-----------------------------------------------------------------------------
(* Validation (OutputValidation).  A bundle has seven files.               *)
LEMMA BundleIsFinite ==
  ASSUME NEW interface, NEW mutate, NEW query
  PROVE  IsFiniteSet(NoirBundle(interface, mutate, query))
<1> DEFINE S == {"r0-init", mutate, query}
           f == [stem \in S |-> <<"relations", stem, "src", "main.nr">>]
           g == [stem \in S |-> <<"relations", stem, "Nargo.toml">>]
           F == {<<"relations", stem, "src", "main.nr">> : stem \in S}
           G == {<<"relations", stem, "Nargo.toml">> : stem \in S}
<1>1. IsFiniteSet({"r0-init"}) /\ IsFiniteSet({mutate}) /\ IsFiniteSet({query}) /\ IsFiniteSet({interface})
  BY FS_Singleton
<1>2. IsFiniteSet({"r0-init"} \cup {mutate})
  BY <1>1, FS_Union
<1>3. IsFiniteSet(({"r0-init"} \cup {mutate}) \cup {query})
  BY <1>1, <1>2, FS_Union
<1>4. S = ({"r0-init"} \cup {mutate}) \cup {query}
  OBVIOUS
<1>5. IsFiniteSet(S)
  BY <1>3, <1>4
<1>6. f \in Surjection(S, F) /\ g \in Surjection(S, G)
  BY DEF Surjection
<1> HIDE DEF f, g
<1>7. IsFiniteSet(F) /\ IsFiniteSet(G)
  <2> HIDE DEF S, F, G
  <2> QED BY <1>5, <1>6, FS_Surjection
<1>8. IsFiniteSet({interface} \cup F)
  <2> HIDE DEF S, F, G
  <2> QED BY <1>1, <1>7, FS_Union
<1>9. IsFiniteSet(({interface} \cup F) \cup G)
  <2> HIDE DEF S, F, G
  <2> QED BY <1>7, <1>8, FS_Union
<1> QED BY <1>9 DEF NoirBundle

(* The nine passes.                                                        *)
LEMMA PassTable ==
  /\ DOMAIN Passes = 1 .. 9 /\ Len(Passes) = 9
  /\ \A n \in 1 .. 3 :
       /\ Passes[n].steps = <<"find", "parse", "walk", "leaves", "evidence">>
       /\ ~Passes[n].named /\ Passes[n].program = "StateCell" /\ Passes[n].peers = {}
  /\ Passes[4].steps = <<"find", "parse", "walk", "leaves", "evidence", "compare">>
  /\ ~Passes[4].named /\ Passes[4].program = "StateCell" /\ Passes[4].peers = {}
  /\ Passes[6].steps = <<"find", "parse", "walk", "leaves", "evidence", "contract">>
  /\ Passes[6].named /\ Passes[6].program = "Accumulator" /\ Passes[6].peers = {}
  /\ \A n \in {5, 7, 8, 9} :
       /\ Passes[n].steps = <<"walk", "parse", "leaves", "evidence", "peers", "contract">>
       /\ Passes[n].named
  /\ Passes[5].program = "StateCell" /\ Passes[5].peers = {1, 2, 3}
  /\ Passes[7].program = "Accumulator" /\ Passes[7].peers = {6}
  /\ Passes[8].program = "Accumulator" /\ Passes[8].peers = {6, 7}
  /\ Passes[9].program = "Accumulator" /\ Passes[9].peers = {6, 7, 8}
<1>1. DOMAIN Passes = 1 .. 9 /\ Len(Passes) = 9
  BY DEF Passes
<1>2. /\ Passes[1] = LoadPass("evm", Loads) /\ Passes[2] = LoadPass("solana", Loads)
      /\ Passes[3] = LoadPass("near", Loads) /\ Passes[4] = LoadPass("noir", LoadsAndCompares)
  BY DEF Passes
<1>3. \A n \in 1 .. 3 :
       /\ Passes[n].steps = <<"find", "parse", "walk", "leaves", "evidence">>
       /\ ~Passes[n].named /\ Passes[n].program = "StateCell" /\ Passes[n].peers = {}
  <2>1. \A n \in 1 .. 3 : n = 1 \/ n = 2 \/ n = 3
    OBVIOUS
  <2> QED BY <1>2, <2>1 DEF LoadPass, Loads
<1>4. /\ Passes[4].steps = <<"find", "parse", "walk", "leaves", "evidence", "compare">>
      /\ ~Passes[4].named /\ Passes[4].program = "StateCell" /\ Passes[4].peers = {}
  BY <1>2 DEF LoadPass, LoadsAndCompares
<1>5. /\ Passes[6].steps = <<"find", "parse", "walk", "leaves", "evidence", "contract">>
      /\ Passes[6].named /\ Passes[6].program = "Accumulator" /\ Passes[6].peers = {}
  BY DEF Passes, ContractPass, Manifest1st
<1>6. /\ Passes[5].steps = Walk1st /\ Passes[5].named
      /\ Passes[5].program = "StateCell" /\ Passes[5].peers = {1, 2, 3}
  BY DEF Passes, ContractPass
<1>7. /\ Passes[7].steps = Walk1st /\ Passes[7].named
      /\ Passes[7].program = "Accumulator" /\ Passes[7].peers = {6}
  BY DEF Passes, ContractPass
<1>8. /\ Passes[8].steps = Walk1st /\ Passes[8].named
      /\ Passes[8].program = "Accumulator" /\ Passes[8].peers = {6, 7}
  BY DEF Passes, ContractPass
<1>9. /\ Passes[9].steps = Walk1st /\ Passes[9].named
      /\ Passes[9].program = "Accumulator" /\ Passes[9].peers = {6, 7, 8}
  BY DEF Passes, ContractPass
<1> QED BY <1>1, <1>3, <1>4, <1>5, <1>6, <1>7, <1>8, <1>9 DEF Walk1st

(* The files a contract fixes are finitely many.                           *)
LEMMA FixedIsFinite ==
  ASSUME NEW n \in 5 .. 9
  PROVE  IsFiniteSet(Passes[n].fixed)
<1>1. \A a, b, c : IsFiniteSet({a, b, c})
  <2> TAKE a, b, c
  <2>1. IsFiniteSet({a}) /\ IsFiniteSet({b}) /\ IsFiniteSet({c})
    BY FS_Singleton
  <2>2. IsFiniteSet({a} \cup {b})
    BY <2>1, FS_Union
  <2>3. IsFiniteSet(({a} \cup {b}) \cup {c})
    BY <2>1, <2>2, FS_Union
  <2>4. {a, b, c} = ({a} \cup {b}) \cup {c}
    OBVIOUS
  <2> QED BY <2>3, <2>4
<1>2. \A a, b : IsFiniteSet({a, b})
  <2> TAKE a, b
  <2>1. IsFiniteSet({a, b, b})
    BY <1>1
  <2>2. {a, b} = {a, b, b}
    OBVIOUS
  <2> QED BY <2>1, <2>2
<1>3. /\ IsFiniteSet(Passes[6].fixed) /\ IsFiniteSet(Passes[7].fixed) /\ IsFiniteSet(Passes[8].fixed)
  <2>1. Passes[6].fixed = {<<"Accumulator.yul">>, <<"Accumulator.abi.json">>, <<"Accumulator.bin">>}
    BY DEF Passes, ContractPass
  <2>2. Passes[7].fixed = {<<"Accumulator.sbpf-plan">>, <<"Accumulator.idl.json">>}
    BY DEF Passes, ContractPass
  <2>3. Passes[8].fixed = {<<"Accumulator.wat">>, <<"Accumulator.near-abi.json">>, <<"Accumulator.wasm">>}
    BY DEF Passes, ContractPass
  <2>4. /\ IsFiniteSet({<<"Accumulator.yul">>, <<"Accumulator.abi.json">>, <<"Accumulator.bin">>})
        /\ IsFiniteSet({<<"Accumulator.wat">>, <<"Accumulator.near-abi.json">>, <<"Accumulator.wasm">>})
    BY <1>1, Zenon
  <2>5. IsFiniteSet({<<"Accumulator.sbpf-plan">>, <<"Accumulator.idl.json">>})
    BY <1>2, Zenon
  <2> QED BY <2>1, <2>2, <2>3, <2>4, <2>5
<1>4. IsFiniteSet(Passes[5].fixed) /\ IsFiniteSet(Passes[9].fixed)
  <2>1. /\ Passes[5].fixed = NoirBundle(<<"StateCell.noir-relations.json">>, "r1-increment", "r2-get")
        /\ Passes[9].fixed = NoirBundle(<<"Accumulator.noir-relations.json">>, "r1-add", "r2-current")
    BY DEF Passes, ContractPass
  <2> QED BY <2>1, BundleIsFinite
<1>5. n = 5 \/ n = 6 \/ n = 7 \/ n = 8 \/ n = 9
  OBVIOUS
<1> QED BY <1>3, <1>4, <1>5

(* Every path a contract fixes has a length.                               *)
LEMMA FixedAreLists ==
  ASSUME NEW n \in 5 .. 9, NEW p \in Passes[n].fixed
  PROVE  Len(p) \in Nat
<1>1. ASSUME NEW i, NEW v, NEW w, Len(i) \in Nat, NEW q \in NoirBundle(i, v, w)
      PROVE  Len(q) \in Nat
  BY <1>1 DEF NoirBundle
<1>2. CASE n = 5
  <2>1. Passes[5].fixed = NoirBundle(<<"StateCell.noir-relations.json">>, "r1-increment", "r2-get")
    BY DEF Passes, ContractPass
  <2>2. Len(<<"StateCell.noir-relations.json">>) \in Nat
    OBVIOUS
  <2> QED BY <1>1, <1>2, <2>1, <2>2
<1>3. CASE n = 9
  <2>1. Passes[9].fixed = NoirBundle(<<"Accumulator.noir-relations.json">>, "r1-add", "r2-current")
    BY DEF Passes, ContractPass
  <2>2. Len(<<"Accumulator.noir-relations.json">>) \in Nat
    OBVIOUS
  <2> QED BY <1>1, <1>3, <2>1, <2>2
<1>4. CASE n \in {6, 7, 8}
  <2>1. /\ Passes[6].fixed = {<<"Accumulator.yul">>, <<"Accumulator.abi.json">>, <<"Accumulator.bin">>}
        /\ Passes[7].fixed = {<<"Accumulator.sbpf-plan">>, <<"Accumulator.idl.json">>}
        /\ Passes[8].fixed = {<<"Accumulator.wat">>, <<"Accumulator.near-abi.json">>, <<"Accumulator.wasm">>}
    BY DEF Passes, ContractPass
  <2> QED BY <1>4, <2>1
<1>5. n = 5 \/ n = 9 \/ n \in {6, 7, 8}
  OBVIOUS
<1> QED BY <1>2, <1>3, <1>4, <1>5

(* A path in a directory is one name longer than the directory.            *)
LEMMA ParentIsShorter ==
  ASSUME NEW p \in Seq(STRING), p # <<>>
  PROVE  Len(p) \in Nat /\ Len(p) >= 1 /\ Len(Parent(p)) = Len(p) - 1
<1>1. Len(p) \in Nat \ {0} /\ \A i \in 1 .. Len(p) - 1 : p[i] \in STRING
  BY EmptySeq, ElementOfSeq
<1>2. Len(SubSeq(p, 1, Len(p) - 1)) = IF 1 <= Len(p) - 1 THEN (Len(p) - 1) - 1 + 1 ELSE 0
  BY <1>1, SubSeqProperties
<1>3. Len(Parent(p)) = IF 1 <= Len(p) - 1 THEN (Len(p) - 1) - 1 + 1 ELSE 0
  BY <1>2, Zenon DEF Parent
<1>4. \A k \in Nat \ {0} : (IF 1 <= k - 1 THEN (k - 1) - 1 + 1 ELSE 0) = k - 1 /\ k >= 1 /\ k \in Nat
  OBVIOUS
<1> QED BY <1>1, <1>3, <1>4, Zenon

(* The directories that must be there are not the directory itself, and    *)
(* they are finitely many.                                                 *)
LEMMA ExpectedDirsAre ==
  ASSUME NEW files, \A p \in files : Len(p) \in Nat
  PROVE  /\ \A d \in ExpectedDirs(files) : d # <<>>
         /\ IsFiniteSet(files) => IsFiniteSet(ExpectedDirs(files))
<1>1. ASSUME NEW p \in files, NEW i \in 1 .. Len(p) - 1
      PROVE  SubSeq(p, 1, i) # <<>>
  <2> DEFINE S == {p[j] : j \in 1 .. i}
  <2>1. Len(SubSeq(p, 1, i)) = IF 1 <= i THEN i - 1 + 1 ELSE 0
    <3>1. \A j \in 1 .. i : p[j] \in S
      OBVIOUS
    <3>2. i \in Int
      OBVIOUS
    <3> HIDE DEF S
    <3> QED BY <3>1, <3>2, SubSeqProperties
  <2>2. Len(<<>>) = 0
    OBVIOUS
  <2> QED BY <2>1, <2>2
<1>2. ASSUME NEW d \in ExpectedDirs(files)
      PROVE  d # <<>>
  <2>1. PICK p \in files : d \in ParentDirPrefixes(p)
    BY DEF ExpectedDirs
  <2> QED BY <1>1, <2>1 DEF ParentDirPrefixes
<1>3. ASSUME IsFiniteSet(files)
      PROVE  IsFiniteSet(ExpectedDirs(files))
  <2> DEFINE All == {ParentDirPrefixes(p) : p \in files}
             f == [p \in files |-> ParentDirPrefixes(p)]
  <2>1. f \in Surjection(files, All)
    BY DEF Surjection
  <2>2. IsFiniteSet(All)
    <3> HIDE DEF All, f
    <3> QED BY <1>3, <2>1, FS_Surjection
  <2>3. ASSUME NEW p \in files
        PROVE  IsFiniteSet(ParentDirPrefixes(p))
    <3> DEFINE I == 1 .. Len(p) - 1
               g == [i \in I |-> SubSeq(p, 1, i)]
    <3>1. g \in Surjection(I, ParentDirPrefixes(p))
      BY DEF Surjection, ParentDirPrefixes
    <3>2. IsFiniteSet(I)
      <4>1. Len(p) - 1 \in Int
        OBVIOUS
      <4> QED BY <4>1, FS_Interval
    <3> HIDE DEF I, g
    <3> QED BY <3>1, <3>2, FS_Surjection
  <2>4. \A T \in All : IsFiniteSet(T)
    BY <2>3
  <2>5. IsFiniteSet(UNION All)
    <3> HIDE DEF All
    <3> QED BY <2>2, <2>4, FS_UNION
  <2> QED BY <2>5 DEF ExpectedDirs
<1> QED BY <1>2, <1>3

(* What holds of 0 and passes from each number to the next holds of all.   *)
LEMMA UpFromZero ==
  ASSUME NEW G, 0 \in G, \A n \in Nat : n \in G => n + 1 \in G
  PROVE  Nat \subseteq G
<1> DEFINE Wrong == {n \in Nat : n \notin G}
           R == OpToRel(<, Nat)
<1>1. ASSUME Wrong # {} PROVE FALSE
  <2>1. PICK x \in Wrong : \A y \in Wrong : ~(<<y, x>> \in R)
    <3>1. Wrong \in SUBSET Nat
      OBVIOUS
    <3> HIDE DEF Wrong, R
    <3> QED BY <1>1, <3>1, NatLessThanWellFounded, WFMin DEF R
  <2> HIDE DEF R
  <2>2. x \in Nat /\ x # 0 /\ x - 1 \in Nat
    BY <2>1
  <2>3. <<x - 1, x>> \in R
    <3> USE DEF R
    <3>1. R = {ss \in Nat \X Nat : ss[1] < ss[2]}
      BY DEF OpToRel
    <3> HIDE DEF R
    <3> QED BY <2>2, <3>1
  <2>4. x - 1 \in G
    BY <2>1, <2>2, <2>3
  <2>5. (x - 1) + 1 = x
    BY <2>2
  <2> QED BY <2>1, <2>2, <2>4, <2>5
<1> QED BY <1>1
(* The directories a walk has read.                                        *)
DirsRead(w) == ({<<>>} \cup w.dirs) \ w.todo

(* What a walk of the tree t knows, with the files it expects.             *)
Walked(t, files, w) ==
  /\ <<>> \in DOMAIN t /\ t[<<>>].kind = "dir"
  /\ \A p \in w.files : p \in files /\ p # <<>> /\ IsSingle(t, p)
  /\ \A p \in w.dirs :
        p \in ExpectedDirs(files) /\ p # <<>> /\ p \in DOMAIN t /\ t[p].kind = "dir"
  /\ w.todo \subseteq {<<>>} \cup w.dirs
  /\ \A d \in DirsRead(w) : ChildrenIn(t, d) \subseteq w.files \cup w.dirs
  /\ \A p \in w.dirs : Parent(p) \in DirsRead(w)
  /\ w.visits = Cardinality(DirsRead(w))

(* The walk starts at the directory itself, having met nothing.            *)
LEMMA WalkBegins ==
  ASSUME NEW t, NEW files, <<>> \in DOMAIN t, t[<<>>].kind = "dir"
  PROVE  Walked(t, files, [NoWalk EXCEPT !.todo = {<<>>}])
<1> DEFINE w == [NoWalk EXCEPT !.todo = {<<>>}]
<1>1. w.todo = {<<>>} /\ w.files = {} /\ w.dirs = {} /\ w.visits = 0
  BY DEF NoWalk
<1> HIDE DEF w
<1>2. DirsRead(w) = {}
  BY <1>1 DEF DirsRead
<1>3. Cardinality({}) = 0
  BY FS_EmptySet
<1>4. Walked(t, files, w)
  BY <1>1, <1>2, <1>3 DEF Walked
<1> QED BY <1>4 DEF w

(* A walk has read at most the expected directories and the top one.       *)
LEMMA WalkIsFinite ==
  ASSUME NEW t, NEW files, NEW w, Walked(t, files, w),
         IsFiniteSet(ExpectedDirs(files))
  PROVE  /\ IsFiniteSet(DirsRead(w)) /\ Cardinality(DirsRead(w)) \in Nat
         /\ Cardinality(DirsRead(w)) <= Cardinality(ExpectedDirs(files)) + 1
<1> DEFINE D == ExpectedDirs(files)
<1>1. IsFiniteSet(D \cup {<<>>}) /\ Cardinality(D) \in Nat
      /\ Cardinality(D \cup {<<>>}) <= Cardinality(D) + 1
  <2> HIDE DEF D
  <2>1. IsFiniteSet(D)
    BY DEF D
  <2>2. Cardinality(D) \in Nat
    BY <2>1, FS_CardinalityType
  <2>3. /\ IsFiniteSet(D \cup {<<>>})
        /\ Cardinality(D \cup {<<>>}) = IF <<>> \in D THEN Cardinality(D) ELSE Cardinality(D) + 1
    BY <2>1, FS_AddElement, Zenon
  <2> QED BY <2>2, <2>3
<1>2. DirsRead(w) \in SUBSET (D \cup {<<>>})
  BY DEF Walked, DirsRead
<1> HIDE DEF D
<1>3. IsFiniteSet(DirsRead(w)) /\ Cardinality(DirsRead(w)) <= Cardinality(D \cup {<<>>})
  BY <1>1, <1>2, FS_Subset
<1>4. Cardinality(DirsRead(w)) \in Nat /\ Cardinality(D \cup {<<>>}) \in Nat
  BY <1>1, <1>3, FS_CardinalityType
<1> QED BY <1>1, <1>3, <1>4 DEF D

(* A turn of the work list that refuses nothing keeps the walk right.      *)
LEMMA WalkGoesOn ==
  ASSUME NEW t, NEW files, NEW w, NEW v, Walked(t, files, w), IsTree(t),
         IsFiniteSet(ExpectedDirs(files)), \A p \in files : Len(p) \in Nat,
         NEW d \in w.todo, \A p \in ChildrenIn(t, d) : ~Unexpected(t, files, p),
         v.todo = (w.todo \ {d}) \cup DirsIn(t, d), v.visits = w.visits + 1,
         v.files = w.files \cup FilesIn(t, d), v.dirs = w.dirs \cup DirsIn(t, d)
  PROVE  Walked(t, files, v)
<1>1. \A p \in ChildrenIn(t, d) : p \in DOMAIN t /\ p # <<>> /\ Parent(p) = d
  BY DEF ChildrenIn
<1>2. \A p \in FilesIn(t, d) : p \in files /\ p # <<>> /\ IsSingle(t, p)
  BY <1>1 DEF FilesIn, Unexpected, IsSingle, IsRegular
<1>3. \A p \in DirsIn(t, d) :
        p \in ExpectedDirs(files) /\ p # <<>> /\ p \in DOMAIN t /\ t[p].kind = "dir" /\ Parent(p) = d
  BY <1>1 DEF DirsIn, Unexpected
<1>4. ChildrenIn(t, d) \subseteq FilesIn(t, d) \cup DirsIn(t, d)
  BY DEF FilesIn, DirsIn, Unexpected
<1>5. d \notin DirsRead(w) /\ d \in {<<>>} \cup w.dirs
  BY DEF Walked, DirsRead
<1>6. ASSUME NEW p \in DirsIn(t, d)
      PROVE  p \notin w.dirs /\ p # <<>> /\ p # d
  <2>1. p \notin w.dirs
    BY <1>3, <1>5 DEF Walked
  <2>2. p # d
    <3>1. p \in Seq(STRING) /\ p # <<>> /\ Parent(p) = d
      BY <1>3 DEF IsTree
    <3>2. Len(p) \in Nat /\ Len(d) = Len(p) - 1
      BY <3>1, ParentIsShorter
    <3> QED BY <3>2
  <2> QED BY <1>3, <2>1, <2>2
<1>7. DirsRead(v) = DirsRead(w) \cup {d}
  BY <1>5, <1>6 DEF DirsRead
<1>8. Cardinality(DirsRead(w) \cup {d}) = Cardinality(DirsRead(w)) + 1
  <2>1. IsFiniteSet(DirsRead(w))
    BY WalkIsFinite
  <2>2. Cardinality(DirsRead(w) \cup {d})
          = IF d \in DirsRead(w) THEN Cardinality(DirsRead(w)) ELSE Cardinality(DirsRead(w)) + 1
    BY <2>1, FS_AddElement, Zenon
  <2> QED BY <1>5, <2>2, Zenon
<1>9. <<>> \in DOMAIN t /\ t[<<>>].kind = "dir"
  BY DEF Walked
<1>10. \A p \in v.files : p \in files /\ p # <<>> /\ IsSingle(t, p)
  BY <1>2 DEF Walked
<1>11. \A p \in v.dirs :
         p \in ExpectedDirs(files) /\ p # <<>> /\ p \in DOMAIN t /\ t[p].kind = "dir"
  BY <1>3 DEF Walked
<1>12. v.todo \subseteq {<<>>} \cup v.dirs
  BY DEF Walked
<1>13. \A e \in DirsRead(v) : ChildrenIn(t, e) \subseteq v.files \cup v.dirs
  <2> TAKE e \in DirsRead(v)
  <2>1. CASE e \in DirsRead(w)
    BY <2>1 DEF Walked
  <2>2. CASE e = d
    BY <2>2, <1>4
  <2> QED BY <1>7, <2>1, <2>2
<1>14. \A p \in v.dirs : Parent(p) \in DirsRead(v)
  BY <1>3, <1>7 DEF Walked
<1>15. v.visits = Cardinality(DirsRead(v))
  BY <1>7, <1>8 DEF Walked
<1> QED BY <1>9, <1>10, <1>11, <1>12, <1>13, <1>14, <1>15 DEF Walked

(* When the work list is empty, every path of the tree was found.          *)
LEMMA AllIsFound ==
  ASSUME NEW t, NEW files, NEW w, Walked(t, files, w), IsTree(t), w.todo = {}
  PROVE  DOMAIN t \subseteq {<<>>} \cup w.files \cup w.dirs
<1> DEFINE Found == {<<>>} \cup w.files \cup w.dirs
           G == {k \in Nat : \A p \in DOMAIN t : Len(p) = k => p \in Found}
<1>1. \A p \in DOMAIN t : p \in Seq(STRING)
  BY DEF IsTree
<1>2. 0 \in G
  <2>1. \A p \in DOMAIN t : Len(p) = 0 => p = <<>>
    BY <1>1, EmptySeq
  <2> QED BY <2>1
<1>3. ASSUME NEW k \in Nat, k \in G
      PROVE  k + 1 \in G
  <2>1. ASSUME NEW p \in DOMAIN t, Len(p) = k + 1
        PROVE  p \in Found
    <3>1. p # <<>>
      <4>1. Len(<<>>) = 0
        OBVIOUS
      <4> QED BY <2>1, <4>1
    <3>2. Parent(p) \in DOMAIN t /\ t[Parent(p)].kind = "dir"
      BY <3>1 DEF IsTree
    <3>3. Len(Parent(p)) = k
      <4>1. Len(Parent(p)) = Len(p) - 1
        BY <1>1, <3>1, ParentIsShorter
      <4> QED BY <2>1, <4>1
    <3>4. Parent(p) \in Found
      BY <1>3, <3>2, <3>3
    <3>5. Parent(p) \in DirsRead(w)
      BY <3>2, <3>4 DEF DirsRead, Walked, IsSingle, IsRegular
    <3>6. p \in ChildrenIn(t, Parent(p))
      BY <3>1 DEF ChildrenIn
    <3>7. ChildrenIn(t, Parent(p)) \subseteq w.files \cup w.dirs
      BY <3>5 DEF Walked
    <3> QED BY <3>6, <3>7
  <2> QED BY <2>1
<1>4. Nat \subseteq G
  <2> HIDE DEF G
  <2> QED BY <1>2, <1>3, UpFromZero
<1>5. ASSUME NEW p \in DOMAIN t PROVE p \in Found
  <2>1. Len(p) \in Nat
    BY <1>1, LenProperties
  <2> QED BY <1>4, <2>1
<1> QED BY <1>5

(* A walk with nothing left to do has met all there is: the tree is exact. *)
LEMMA WalkEnds ==
  ASSUME NEW t, NEW files, NEW w, Walked(t, files, w), IsTree(t), w.todo = {},
         \A p \in files : Len(p) \in Nat
  PROVE  Exact(t, files) <=> files \subseteq w.files /\ ExpectedDirs(files) \subseteq w.dirs
<1>1. DOMAIN t \subseteq {<<>>} \cup w.files \cup w.dirs
  BY AllIsFound
<1>2. ASSUME Exact(t, files)
      PROVE  files \subseteq w.files /\ ExpectedDirs(files) \subseteq w.dirs
  <2>1. ASSUME NEW p \in files PROVE p \in w.files
    <3>1. p \in DOMAIN t /\ t[p].kind = "file"
      BY <1>2 DEF Exact, IsSingle, IsRegular
    <3>2. p # <<>> /\ p \notin w.dirs
      BY <3>1 DEF Walked
    <3> QED BY <1>1, <3>1, <3>2
  <2>2. ASSUME NEW p \in ExpectedDirs(files) PROVE p \in w.dirs
    <3>1. p \in DOMAIN t /\ t[p].kind = "dir" /\ p # <<>>
      BY <1>2, ExpectedDirsAre DEF Exact
    <3>2. p \notin w.files
      BY <3>1 DEF Walked, IsSingle, IsRegular
    <3> QED BY <1>1, <3>1, <3>2
  <2> QED BY <2>1, <2>2
<1>3. ASSUME files \subseteq w.files, ExpectedDirs(files) \subseteq w.dirs
      PROVE  Exact(t, files)
  <2>1. DOMAIN t \subseteq {<<>>} \cup files \cup ExpectedDirs(files)
    BY <1>1 DEF Walked
  <2>2. {<<>>} \cup files \cup ExpectedDirs(files) \subseteq DOMAIN t
    BY <1>3 DEF Walked, IsSingle, IsRegular
  <2>3. \A p \in files : IsSingle(t, p)
    BY <1>3 DEF Walked
  <2>4. \A p \in {<<>>} \cup ExpectedDirs(files) : t[p].kind = "dir"
    BY <1>3 DEF Walked
  <2> QED BY <2>1, <2>2, <2>3, <2>4 DEF Exact
<1> QED BY <1>2, <1>3

(* Of a tree that is exact the walk refuses no directory.                  *)
LEMMA ExactIsNotRefused ==
  ASSUME NEW t, NEW files, NEW d, Exact(t, files), IsFiniteSet(files),
         \A p \in files : Len(p) \in Nat
  PROVE  /\ \A p \in ChildrenIn(t, d) : ~Unexpected(t, files, p)
         /\ Cardinality(ChildrenIn(t, d)) <= ExpectedDirectChildCount(d, files) + MaxDirEntrySlack
<1>1. ASSUME NEW p \in ChildrenIn(t, d)
      PROVE  p \in files \cup ExpectedDirs(files) /\ ~Unexpected(t, files, p) /\ Parent(p) = d
  BY DEF ChildrenIn, Exact, Unexpected, IsSingle, IsRegular
<1> DEFINE F == {p \in files : Parent(p) = d}
           D == {p \in ExpectedDirs(files) : Parent(p) = d}
           C == ChildrenIn(t, d)
<1>2. IsFiniteSet(F) /\ IsFiniteSet(D)
  <2>1. IsFiniteSet(ExpectedDirs(files))
    BY ExpectedDirsAre
  <2>2. F \in SUBSET files /\ D \in SUBSET ExpectedDirs(files)
    OBVIOUS
  <2> HIDE DEF F, D
  <2> QED BY <2>1, <2>2, FS_Subset
<1>3. C \in SUBSET (F \cup D)
  BY <1>1
<1>4. Cardinality(C) <= Cardinality(F) + Cardinality(D)
  <2> HIDE DEF F, D, C
  <2>1. /\ IsFiniteSet(F \cup D)
        /\ Cardinality(F \cup D) = Cardinality(F) + Cardinality(D) - Cardinality(F \cap D)
    BY <1>2, FS_Union
  <2>2. IsFiniteSet(F \cap D)
    BY <1>2, FS_Intersection
  <2>3. Cardinality(F) \in Nat /\ Cardinality(D) \in Nat /\ Cardinality(F \cap D) \in Nat
        /\ Cardinality(F \cup D) \in Nat
    BY <1>2, <2>1, <2>2, FS_CardinalityType
  <2>4. IsFiniteSet(C) /\ Cardinality(C) <= Cardinality(F \cup D)
    BY <1>3, <2>1, FS_Subset
  <2>5. Cardinality(C) \in Nat
    BY <2>4, FS_CardinalityType
  <2> QED BY <2>1, <2>3, <2>4, <2>5
<1>5. Cardinality(F) \in Nat /\ Cardinality(D) \in Nat /\ Cardinality(C) \in Nat
  <2> HIDE DEF F, D, C
  <2>1. IsFiniteSet(F \cup D)
    BY <1>2, FS_Union
  <2>2. IsFiniteSet(C)
    BY <1>3, <2>1, FS_Subset
  <2> QED BY <1>2, <2>2, FS_CardinalityType
<1>6. ExpectedDirectChildCount(d, files) = Cardinality(F) + Cardinality(D)
  BY Zenon DEF ExpectedDirectChildCount
<1>7. MaxDirEntrySlack \in Nat
  BY OutputsAssumption
<1>8. Cardinality(C) <= ExpectedDirectChildCount(d, files) + MaxDirEntrySlack
  <2> HIDE DEF F, D, C
  <2> QED BY <1>4, <1>5, <1>6, <1>7
<1> QED BY <1>1, <1>8
StepNames == {"find", "parse", "walk", "leaves", "evidence", "peers", "contract", "compare"}

(* Where the steps stand.  A manifest is parsed in the second step of      *)
(* every pass, and used only later.                                        *)
LEMMA StepsAre ==
  ASSUME NEW n \in 1 .. 9
  PROVE  /\ Len(Passes[n].steps) \in 5 .. 6 /\ DOMAIN Passes[n].steps = 1 .. Len(Passes[n].steps)
         /\ \A k \in 1 .. Len(Passes[n].steps) :
              /\ Passes[n].steps[k] \in StepNames
              /\ Passes[n].steps[k] = "parse" <=> k = 2
              /\ Passes[n].steps[k] \in StepNames \ {"find", "parse", "walk"} => k >= 3
              /\ Passes[n].steps[k] = "walk" /\ ~Passes[n].named => k = 3
              /\ Passes[n].steps[k] = "compare" => n = 4
         /\ \A q \in Passes[n].peers : q \in 1 .. 9 /\ q < n
         /\ Passes[n].named <=> n >= 5
<1>1. CASE n \in 1 .. 3
  <2>1. Passes[n].steps = <<"find", "parse", "walk", "leaves", "evidence">>
    BY <1>1, PassTable
  <2>2. Passes[n].peers = {} /\ ~Passes[n].named
    BY <1>1, PassTable
  <2> QED BY <1>1, <2>1, <2>2 DEF StepNames
<1>2. CASE n = 4
  <2>1. Passes[n].steps = <<"find", "parse", "walk", "leaves", "evidence", "compare">>
    BY <1>2, PassTable
  <2>2. Passes[n].peers = {} /\ ~Passes[n].named
    BY <1>2, PassTable
  <2> QED BY <1>2, <2>1, <2>2 DEF StepNames
<1>3. CASE n = 6
  <2>1. Passes[n].steps = <<"find", "parse", "walk", "leaves", "evidence", "contract">>
    BY <1>3, PassTable
  <2>2. Passes[n].peers = {} /\ Passes[n].named
    BY <1>3, PassTable
  <2> QED BY <1>3, <2>1, <2>2 DEF StepNames
<1>4. CASE n \in {5, 7, 8, 9}
  <2>1. Passes[n].steps = <<"walk", "parse", "leaves", "evidence", "peers", "contract">>
    BY <1>4, PassTable
  <2>2. Passes[n].named /\ \A q \in Passes[n].peers : q \in 1 .. 9 /\ q < n
    BY <1>4, PassTable
  <2> QED BY <1>4, <2>1, <2>2 DEF StepNames
<1> QED BY <1>1, <1>2, <1>3, <1>4

(* Every step that matters is made.                                        *)
LEMMA StepsAreMade ==
  ASSUME NEW n \in 1 .. 9, NEW G,
         \A k \in 1 .. Len(Passes[n].steps) : Passes[n].steps[k] \in G
  PROVE  /\ "parse" \in G /\ "walk" \in G /\ "leaves" \in G /\ "evidence" \in G
         /\ n >= 5 => "contract" \in G
         /\ n \in {5, 7, 8, 9} => "peers" \in G
         /\ n = 4 => "compare" \in G
<1> DEFINE s == Passes[n].steps
<1>1. CASE n \in 1 .. 3
  <2>1. s = <<"find", "parse", "walk", "leaves", "evidence">>
    BY <1>1, PassTable
  <2>2. Len(s) = 5 /\ s[2] = "parse" /\ s[3] = "walk" /\ s[4] = "leaves" /\ s[5] = "evidence"
    BY <2>1
  <2> HIDE DEF s
  <2> QED BY <1>1, <2>2 DEF s
<1>2. CASE n = 4
  <2>1. s = <<"find", "parse", "walk", "leaves", "evidence", "compare">>
    BY <1>2, PassTable
  <2>2. Len(s) = 6 /\ s[2] = "parse" /\ s[3] = "walk" /\ s[4] = "leaves" /\ s[5] = "evidence"
        /\ s[6] = "compare"
    BY <2>1
  <2> HIDE DEF s
  <2> QED BY <1>2, <2>2 DEF s
<1>3. CASE n = 6
  <2>1. s = <<"find", "parse", "walk", "leaves", "evidence", "contract">>
    BY <1>3, PassTable
  <2>2. Len(s) = 6 /\ s[2] = "parse" /\ s[3] = "walk" /\ s[4] = "leaves" /\ s[5] = "evidence"
        /\ s[6] = "contract"
    BY <2>1
  <2> HIDE DEF s
  <2> QED BY <1>3, <2>2 DEF s
<1>4. CASE n \in {5, 7, 8, 9}
  <2>1. s = <<"walk", "parse", "leaves", "evidence", "peers", "contract">>
    BY <1>4, PassTable
  <2>2. Len(s) = 6 /\ s[2] = "parse" /\ s[1] = "walk" /\ s[3] = "leaves" /\ s[4] = "evidence"
        /\ s[5] = "peers" /\ s[6] = "contract"
    BY <2>1
  <2> HIDE DEF s
  <2> QED BY <1>4, <2>2 DEF s
<1> QED BY <1>1, <1>2, <1>3, <1>4

-----------------------------------------------------------------------------
(* What a step's success says of the root, whenever it is made.            *)
Wanted(n) == Beside \cup IF Passes[n].named THEN Passes[n].fixed ELSE PathsOf(ManifestIn(n))

Agreeing ==
  /\ \A n, k \in 1 .. 4 : ManifestIn(n).hashes = ManifestIn(k).hashes
  /\ MeetsContract(1, ManifestIn(1)) /\ MeetsContract(3, ManifestIn(3))
  /\ ManifestIn(1).deployable /\ ManifestIn(3).deployable
  /\ ~ManifestIn(2).deployable /\ ~ManifestIn(4).deployable

Says(n, s) ==
  /\ s = "find" => IsRegular(Tree(n), ManifestJson)
  /\ s = "parse" => HasManifest(n) /\ ValidManifest(n, ManifestIn(n))
  /\ s = "walk" => Exact(Tree(n), Wanted(n))
  /\ s = "leaves" =>
       \A i \in DOMAIN ManifestIn(n).files : LeafMatches(Tree(n), ManifestIn(n).files[i])
  /\ s = "evidence" => EvidenceMatches(Tree(n), ManifestIn(n))
  /\ s = "peers" => \A q \in Passes[n].peers : ManifestIn(q).hashes = ManifestIn(n).hashes
  /\ s = "contract" => MeetsContract(n, ManifestIn(n))
  /\ s = "compare" => Agreeing

(* A valid root makes every step succeed.                                  *)
LEMMA ValidSaysAll ==
  ASSUME ValidRoot, NEW n \in 1 .. 9, NEW s
  PROVE  Says(n, s)
<1> DEFINE m == ManifestIn(n)
<1>1. /\ HasManifest(n) /\ ValidManifest(n, m)
      /\ Exact(Tree(n), PathsOf(m) \cup Beside)
      /\ \A i \in DOMAIN m.files : LeafMatches(Tree(n), m.files[i])
      /\ EvidenceMatches(Tree(n), m) /\ MeetsContract(n, m)
  BY PassTable, Zenon DEF ValidRoot
<1>2. IsRegular(Tree(n), ManifestJson)
  BY <1>1, Zenon DEF HasManifest
<1>3. Exact(Tree(n), Wanted(n))
  <2>1. Passes[n].named => PathsOf(m) = Passes[n].fixed
    BY <1>1, Zenon DEF ValidManifest, Identified
  <2>2. Wanted(n) = PathsOf(m) \cup Beside
    <3>1. CASE Passes[n].named
      <4>1. Wanted(n) = Beside \cup Passes[n].fixed
        BY <3>1, Zenon DEF Wanted
      <4> HIDE DEF m
      <4> QED BY <2>1, <3>1, <4>1
    <3>2. CASE ~Passes[n].named
      <4>1. Wanted(n) = Beside \cup PathsOf(m)
        BY <3>2, Zenon DEF Wanted
      <4> HIDE DEF m
      <4> QED BY <4>1
    <3> QED BY <3>1, <3>2
  <2> QED BY <1>1, <2>2, Zenon
<1>6. \A k, q \in 1 .. 9 :
        Passes[k].program = Passes[q].program => ManifestIn(k).hashes = ManifestIn(q).hashes
  <2>1. DOMAIN Passes = 1 .. 9
    BY PassTable
  <2> QED BY <2>1, Zenon DEF ValidRoot
<1>4. \A q \in Passes[n].peers : ManifestIn(q).hashes = ManifestIn(n).hashes
  <2>1. \A q \in Passes[n].peers : q \in 1 .. 9 /\ Passes[q].program = Passes[n].program
    BY PassTable
  <2> QED BY <1>6, <2>1, Zenon
<1>5. Agreeing
  <2>1. \A k \in 1 .. 4 : k \in 1 .. 9 /\ Passes[k].program = "StateCell"
    BY PassTable
  <2>2. \A k, q \in 1 .. 4 : ManifestIn(k).hashes = ManifestIn(q).hashes
    BY <1>6, <2>1, Zenon
  <2>3. 1 \in 1 .. 9 /\ 3 \in 1 .. 9
    OBVIOUS
  <2>4. MeetsContract(1, ManifestIn(1)) /\ MeetsContract(3, ManifestIn(3))
    BY <2>3, PassTable, Zenon DEF ValidRoot
  <2>5. \A k \in 1 .. 4 : ManifestIn(k).deployable <=> k \in {1, 3}
    BY DEF ValidRoot
  <2>6. /\ ManifestIn(1).deployable <=> 1 \in {1, 3}
        /\ ManifestIn(2).deployable <=> 2 \in {1, 3}
        /\ ManifestIn(3).deployable <=> 3 \in {1, 3}
        /\ ManifestIn(4).deployable <=> 4 \in {1, 3}
    <3>1. 1 \in 1 .. 4 /\ 2 \in 1 .. 4 /\ 3 \in 1 .. 4 /\ 4 \in 1 .. 4
      OBVIOUS
    <3> QED BY <2>5, <3>1, Zenon
  <2>7. 1 \in {1, 3} /\ 2 \notin {1, 3} /\ 3 \in {1, 3} /\ 4 \notin {1, 3}
    OBVIOUS
  <2> QED BY <2>2, <2>4, <2>6, <2>7, Zenon DEF Agreeing
<1> QED BY <1>1, <1>2, <1>3, <1>4, <1>5, Zenon DEF Says
(* A root of which every step succeeds is valid.                           *)
LEMMA SaidAllIsValid ==
  ASSUME \A n \in 1 .. 9 : \A k \in 1 .. Len(Passes[n].steps) : Says(n, Passes[n].steps[k])
  PROVE  ValidRoot
<1>1. ASSUME NEW n \in 1 .. 9
      PROVE  /\ Says(n, "parse") /\ Says(n, "walk") /\ Says(n, "leaves") /\ Says(n, "evidence")
             /\ n >= 5 => Says(n, "contract")
             /\ n \in {5, 7, 8, 9} => Says(n, "peers")
             /\ n = 4 => Says(n, "compare")
  <2> DEFINE G == {s \in StepNames : Says(n, s)}
  <2>1. \A k \in 1 .. Len(Passes[n].steps) : Passes[n].steps[k] \in StepNames
    BY StepsAre
  <2>2. \A k \in 1 .. Len(Passes[n].steps) : Passes[n].steps[k] \in G
    BY <2>1
  <2>3. \A s : s \in G => Says(n, s)
    OBVIOUS
  <2> HIDE DEF G
  <2>4. /\ "parse" \in G /\ "walk" \in G /\ "leaves" \in G /\ "evidence" \in G
        /\ n >= 5 => "contract" \in G
        /\ n \in {5, 7, 8, 9} => "peers" \in G
        /\ n = 4 => "compare" \in G
    BY <2>2, StepsAreMade
  <2> QED BY <2>3, <2>4, Zenon
<1>2. Agreeing
  <2>1. 4 \in 1 .. 9
    OBVIOUS
  <2>2. Says(4, "compare")
    BY <1>1, <2>1, Zenon
  <2> QED BY <2>2, Zenon DEF Says
<1>3. ASSUME NEW n \in 1 .. 9
      PROVE  /\ HasManifest(n) /\ ValidManifest(n, ManifestIn(n))
             /\ Exact(Tree(n), PathsOf(ManifestIn(n)) \cup Beside)
             /\ \A i \in DOMAIN ManifestIn(n).files : LeafMatches(Tree(n), ManifestIn(n).files[i])
             /\ EvidenceMatches(Tree(n), ManifestIn(n))
             /\ MeetsContract(n, ManifestIn(n))
  <2>1. HasManifest(n) /\ ValidManifest(n, ManifestIn(n))
    BY <1>1, Zenon DEF Says
  <2>2. Exact(Tree(n), PathsOf(ManifestIn(n)) \cup Beside)
    <3> DEFINE L == PathsOf(ManifestIn(n))
    <3>1. Exact(Tree(n), Wanted(n))
      BY <1>1, Zenon DEF Says
    <3>2. Passes[n].named => L = Passes[n].fixed
      BY <2>1, Zenon DEF ValidManifest, Identified
    <3>3. Wanted(n) = Beside \cup IF Passes[n].named THEN Passes[n].fixed ELSE L
      BY Zenon DEF Wanted
    <3> HIDE DEF L
    <3>4. Wanted(n) = L \cup Beside
      BY <3>2, <3>3
    <3> QED BY <3>1, <3>4, Zenon DEF L
  <2>3. /\ \A i \in DOMAIN ManifestIn(n).files : LeafMatches(Tree(n), ManifestIn(n).files[i])
        /\ EvidenceMatches(Tree(n), ManifestIn(n))
    BY <1>1, Zenon DEF Says
  <2>4. MeetsContract(n, ManifestIn(n))
    <3>1. CASE n >= 5
      BY <1>1, <3>1, Zenon DEF Says
    <3>2. CASE n = 1 \/ n = 3
      BY <1>2, <3>2, Zenon DEF Agreeing
    <3>3. CASE n = 2 \/ n = 4
      BY <3>3, OutputsAssumption DEF MeetsContract
    <3>4. n >= 5 \/ n = 1 \/ n = 3 \/ n = 2 \/ n = 4
      OBVIOUS
    <3> QED BY <3>1, <3>2, <3>3, <3>4
  <2> QED BY <2>1, <2>2, <2>3, <2>4
<1>4. ASSUME NEW n \in 1 .. 9, NEW k \in 1 .. 9, Passes[n].program = Passes[k].program
      PROVE  ManifestIn(n).hashes = ManifestIn(k).hashes
  <2>1. \A p, q \in 1 .. 4 : ManifestIn(p).hashes = ManifestIn(q).hashes
    BY <1>2, Zenon DEF Agreeing
  <2>2. /\ 5 \in 1 .. 9 /\ 7 \in 1 .. 9 /\ 8 \in 1 .. 9 /\ 9 \in 1 .. 9
        /\ 5 \in {5, 7, 8, 9} /\ 7 \in {5, 7, 8, 9} /\ 8 \in {5, 7, 8, 9} /\ 9 \in {5, 7, 8, 9}
    OBVIOUS
  <2>3. Says(5, "peers") /\ Says(7, "peers") /\ Says(8, "peers") /\ Says(9, "peers")
    BY <1>1, <2>2, Zenon
  <2>4. /\ \A q \in Passes[5].peers : ManifestIn(q).hashes = ManifestIn(5).hashes
        /\ \A q \in Passes[7].peers : ManifestIn(q).hashes = ManifestIn(7).hashes
        /\ \A q \in Passes[8].peers : ManifestIn(q).hashes = ManifestIn(8).hashes
        /\ \A q \in Passes[9].peers : ManifestIn(q).hashes = ManifestIn(9).hashes
    BY <2>3, Zenon DEF Says
  <2>5. /\ ManifestIn(1).hashes = ManifestIn(5).hashes
        /\ ManifestIn(6).hashes = ManifestIn(7).hashes
        /\ ManifestIn(6).hashes = ManifestIn(8).hashes
        /\ ManifestIn(6).hashes = ManifestIn(9).hashes
    <3>1. 1 \in Passes[5].peers /\ 6 \in Passes[7].peers /\ 6 \in Passes[8].peers /\ 6 \in Passes[9].peers
      BY PassTable
    <3> QED BY <2>4, <3>1, Zenon
  <2> DEFINE H(i) == ManifestIn(i).hashes
  <2>6. \A i \in 1 .. 5 : H(i) = H(1)
    <3>1. \A i \in 1 .. 4 : H(i) = H(1)
      <4>1. 1 \in 1 .. 4
        OBVIOUS
      <4> QED BY <2>1, <4>1, Zenon
    <3>2. H(5) = H(1)
      BY <2>5, Zenon
    <3> HIDE DEF H
    <3> QED BY <3>1, <3>2
  <2>7. \A i \in 6 .. 9 : H(i) = H(6)
    <3>1. H(7) = H(6) /\ H(8) = H(6) /\ H(9) = H(6)
      BY <2>5, Zenon
    <3> HIDE DEF H
    <3>2. \A i \in 6 .. 9 : i = 6 \/ i = 7 \/ i = 8 \/ i = 9
      OBVIOUS
    <3> QED BY <3>1, <3>2
  <2>8. /\ \A i \in 1 .. 5 : Passes[i].program = "StateCell"
        /\ \A i \in 6 .. 9 : Passes[i].program = "Accumulator"
    <3>1. \A i \in 1 .. 5 : i \in 1 .. 3 \/ i = 4 \/ i = 5
      OBVIOUS
    <3>2. \A i \in 6 .. 9 : i = 6 \/ i = 7 \/ i = 8 \/ i = 9
      OBVIOUS
    <3> QED BY <3>1, <3>2, PassTable
  <2>9. (n \in 1 .. 5 /\ k \in 1 .. 5) \/ (n \in 6 .. 9 /\ k \in 6 .. 9)
    <3>1. \A i \in 1 .. 9 : i \in 1 .. 5 \/ i \in 6 .. 9
      OBVIOUS
    <3> QED BY <1>4, <2>8, <3>1
  <2>10. H(n) = H(k)
    <3> HIDE DEF H
    <3> QED BY <2>6, <2>7, <2>9
  <2> QED BY <2>10
<1>5. \A n \in 1 .. 4 : ManifestIn(n).deployable <=> n \in {1, 3}
  <2>1. \A n \in 1 .. 4 : n = 1 \/ n = 2 \/ n = 3 \/ n = 4
    OBVIOUS
  <2>2. 1 \in {1, 3} /\ 2 \notin {1, 3} /\ 3 \in {1, 3} /\ 4 \notin {1, 3}
    OBVIOUS
  <2>3. /\ ManifestIn(1).deployable /\ ManifestIn(3).deployable
        /\ ~ManifestIn(2).deployable /\ ~ManifestIn(4).deployable
    BY <1>2, Zenon DEF Agreeing
  <2> QED BY <2>1, <2>2, <2>3, Zenon
<1>6. DOMAIN Passes = 1 .. 9
  BY PassTable
<1> QED BY <1>3, <1>4, <1>5, <1>6, Zenon DEF ValidRoot

(* What is looked for is finite, and made of paths.                        *)
LEMMA WantedIsFinite ==
  ASSUME NEW n \in 1 .. 9, root \in Outputs, Passes[n].named \/ HasManifest(n)
  PROVE  /\ IsTree(Tree(n))
         /\ IsFiniteSet(Wanted(n)) /\ \A p \in Wanted(n) : Len(p) \in Nat
         /\ IsFiniteSet(ExpectedDirs(Wanted(n)))
<1>1. IsTree(Tree(n))
  <2>1. Passes[n].dir \in Directories
    BY PassTable DEF Directories
  <2> QED BY <2>1, OutputsAssumption DEF Tree
<1>2. IsFiniteSet(Beside) /\ \A p \in Beside : Len(p) \in Nat
  <2>1. IsFiniteSet({ManifestJson}) /\ IsFiniteSet({EvidenceJson})
    BY FS_Singleton
  <2>2. IsFiniteSet({ManifestJson} \cup {EvidenceJson})
    BY <2>1, FS_Union
  <2>3. Beside = {ManifestJson} \cup {EvidenceJson}
    BY DEF Beside
  <2>4. Len(ManifestJson) = 1 /\ Len(EvidenceJson) = 1
    BY DEF ManifestJson, EvidenceJson
  <2>5. \A p \in Beside : p = ManifestJson \/ p = EvidenceJson
    BY DEF Beside
  <2>6. 1 \in Nat
    OBVIOUS
  <2>7. \A p \in Beside : Len(p) \in Nat
    BY <2>4, <2>5, <2>6, Zenon
  <2> QED BY <2>2, <2>3, <2>7
<1> DEFINE R == IF Passes[n].named THEN Passes[n].fixed ELSE PathsOf(ManifestIn(n))
<1>3. IsFiniteSet(R) /\ \A p \in R : Len(p) \in Nat
  <2>1. CASE Passes[n].named
    <3>1. n \in 5 .. 9
      BY <2>1, StepsAre
    <3>2. IsFiniteSet(Passes[n].fixed) /\ \A p \in Passes[n].fixed : Len(p) \in Nat
      BY <3>1, FixedIsFinite, FixedAreLists
    <3> QED BY <2>1, <3>2
  <2>2. CASE ~Passes[n].named
    <3> DEFINE listed == ManifestIn(n).files
               f == [i \in DOMAIN listed |-> listed[i].path]
    <3>1. Len(listed) \in Nat /\ DOMAIN listed = 1 .. Len(listed) /\ \A i \in DOMAIN listed : listed[i].path \in Seq(STRING)
      <4>1. ManifestJson \in DOMAIN Tree(n) /\ ManifestIn(n).is = "manifest"
        BY <2>2 DEF HasManifest, IsRegular, ManifestIn
      <4> QED BY <1>1, <4>1 DEF IsTree, ManifestIn
    <3>2. f \in Surjection(DOMAIN listed, PathsOf(ManifestIn(n)))
      BY DEF Surjection, PathsOf
    <3>3. IsFiniteSet(DOMAIN listed)
      <4> HIDE DEF listed
      <4> QED BY <3>1, FS_Interval
    <3>4. IsFiniteSet(PathsOf(ManifestIn(n)))
      <4> HIDE DEF f, listed
      <4> QED BY <3>2, <3>3, FS_Surjection
    <3>5. \A p \in PathsOf(ManifestIn(n)) : Len(p) \in Nat
      <4>1. \A p \in Seq(STRING) : Len(p) \in Nat
        BY LenProperties
      <4> QED BY <3>1, <4>1 DEF PathsOf
    <3> QED BY <2>2, <3>4, <3>5
  <2> QED BY <2>1, <2>2
<1>4. Wanted(n) = Beside \cup R
  BY Zenon DEF Wanted
<1>5. IsFiniteSet(Wanted(n)) /\ \A p \in Wanted(n) : Len(p) \in Nat
  <2> HIDE DEF R
  <2>1. IsFiniteSet(Beside \cup R)
    BY <1>2, <1>3, FS_Union
  <2> QED BY <1>2, <1>3, <1>4, <2>1
<1> QED BY <1>1, <1>5, ExpectedDirsAre

(* Nothing writes to the root.                                             *)
LEMMA RootStays ==
  ASSUME root' = root
  PROVE  /\ \A n : Tree(n)' = Tree(n) /\ ManifestIn(n)' = ManifestIn(n) /\ Wanted(n)' = Wanted(n)
         /\ \A n : HasManifest(n)' <=> HasManifest(n)
         /\ \A n, s : Says(n, s)' <=> Says(n, s)
         /\ ValidRoot' <=> ValidRoot
<1>1. \A n : Tree(n)' = Tree(n) /\ ManifestIn(n)' = ManifestIn(n)
  BY Zenon DEF Tree, ManifestIn
<1>2. \A n : HasManifest(n)' <=> HasManifest(n)
  BY Zenon DEF Tree, HasManifest
<1>3. \A n : Wanted(n)' = Wanted(n)
  BY <1>1, Zenon DEF Wanted
<1>4. \A n : MeetsContract(n, ManifestIn(n))' <=> MeetsContract(n, ManifestIn(n))
  BY <1>1 DEF MeetsContract
<1>5. Agreeing' <=> Agreeing
  BY <1>1, <1>4 DEF Agreeing
<1>6. \A n, s : Says(n, s)' <=> Says(n, s)
  BY <1>1, <1>2, <1>3, <1>4, <1>5 DEF Says
<1>7. ValidRoot' <=> ValidRoot
  BY <1>1, <1>2, <1>4 DEF ValidRoot
<1> QED BY <1>1, <1>2, <1>3, <1>6, <1>7
-----------------------------------------------------------------------------
InPlace ==
  /\ root \in Outputs /\ pass \in 1 .. 9 /\ at \in 1 .. Len(Passes[pass].steps)
  /\ ruling \in {"none", "ok", "differs", "limit"} /\ DOMAIN parsed = 1 .. 9

Before(n, k, p, a) == n < p \/ (n = p /\ k < a)

(* The manifests that were parsed are the ones in the root.                *)
ParsedRight == \A n \in 1 .. 9 : Before(n, 2, pass, at) => parsed[n] = ManifestIn(n)

(* Every step that is behind was right to go on.                           *)
Behind ==
  \A n \in 1 .. 9 : \A k \in 1 .. Len(Passes[n].steps) :
    Before(n, k, pass, at) => Says(n, Passes[n].steps[k])

WalkRight ==
  walk # NoWalk => Passes[pass].steps[at] = "walk" /\ Walked(Tree(pass), Wanted(pass), walk)

Verdicts == (ruling = "ok" => ValidRoot) /\ (ruling = "differs" => ~ValidRoot)

ValidationInv == InPlace /\ ParsedRight /\ Behind /\ WalkRight /\ Verdicts

(* Once its manifest is parsed a pass compares with it.                    *)
LEMMA ManifestIsUsed ==
  ASSUME ValidationInv, at > 2
  PROVE  parsed[pass] = ManifestIn(pass) /\ HasManifest(pass)
<1>1. pass \in 1 .. 9 /\ at \in 1 .. Len(Passes[pass].steps)
  BY DEF ValidationInv, InPlace
<1>2. Before(pass, 2, pass, at)
  BY DEF Before
<1>3. parsed[pass] = ManifestIn(pass)
  BY <1>1, <1>2, Zenon DEF ValidationInv, ParsedRight
<1>4. 2 \in 1 .. Len(Passes[pass].steps) /\ Passes[pass].steps[2] = "parse"
  <2>1. 2 \in 1 .. Len(Passes[pass].steps)
    <3>1. Len(Passes[pass].steps) \in 5 .. 6
      BY <1>1, StepsAre, Zenon
    <3>2. \A l \in 5 .. 6 : 2 \in 1 .. l
      OBVIOUS
    <3> QED BY <3>1, <3>2, Zenon
  <2>2. 2 = 2
    OBVIOUS
  <2> QED BY <1>1, <2>1, <2>2, StepsAre, Zenon
<1>5. Says(pass, "parse")
  <2>1. Says(pass, Passes[pass].steps[2])
    BY <1>1, <1>2, <1>4, Zenon DEF ValidationInv, Behind
  <2> QED BY <1>4, <2>1
<1> QED BY <1>3, <1>5, Zenon DEF Says

(* A walk looks for what the manifest in the root, or the contract, lists. *)
LEMMA WalkedIsWanted ==
  ASSUME ValidationInv, Passes[pass].steps[at] = "walk"
  PROVE  /\ ExpectedFiles(pass) = Wanted(pass) /\ IsTree(Tree(pass))
         /\ IsFiniteSet(Wanted(pass)) /\ \A p \in Wanted(pass) : Len(p) \in Nat
         /\ IsFiniteSet(ExpectedDirs(Wanted(pass)))
<1>1. pass \in 1 .. 9 /\ at \in 1 .. Len(Passes[pass].steps) /\ root \in Outputs
  BY DEF ValidationInv, InPlace
<1>2. ~Passes[pass].named => parsed[pass] = ManifestIn(pass) /\ HasManifest(pass)
  <2>1. ~Passes[pass].named => at = 3
    BY <1>1, StepsAre, Zenon
  <2> QED BY <2>1, ManifestIsUsed
<1>3. ExpectedFiles(pass) = Wanted(pass)
  BY <1>2 DEF ExpectedFiles, Wanted
<1> QED BY <1>1, <1>2, <1>3, WantedIsFinite, Zenon

(* A step that was right goes on to the next, to the next pass, or to the  *)
(* verdict that the root is valid.                                         *)
LEMMA GoesOn ==
  ASSUME ValidationInv, ruling = "none", Proceed, root' = root, DOMAIN parsed' = 1 .. 9,
         \A n \in 1 .. 9 : n < pass \/ (n = pass /\ at >= 2) => parsed'[n] = ManifestIn(n),
         walk' = NoWalk, Says(pass, Passes[pass].steps[at])
  PROVE  ValidationInv'
<1>1. pass \in 1 .. 9 /\ at \in 1 .. Len(Passes[pass].steps) /\ root \in Outputs
  BY DEF ValidationInv, InPlace
<1>2. \A n \in 1 .. 9 : Len(Passes[n].steps) \in 5 .. 6
  BY StepsAre
<1>3. Len(Passes) = 9
  BY PassTable
<1> DEFINE L == Len(Passes[pass].steps)
<1>l. L \in 5 .. 6 /\ at \in 1 .. L
  BY <1>1, <1>2, Zenon
<1>4. \/ at < L /\ at' = at + 1 /\ pass' = pass /\ ruling' = "none"
      \/ at = L /\ pass < 9 /\ pass' = pass + 1 /\ at' = 1 /\ ruling' = "none"
      \/ at = L /\ pass = 9 /\ pass' = pass /\ at' = at /\ ruling' = "ok"
  <2>1. \/ at < L /\ at' = at + 1 /\ UNCHANGED <<pass, ruling>>
        \/ ~(at < L) /\ pass < 9 /\ pass' = pass + 1 /\ at' = 1 /\ UNCHANGED ruling
        \/ ~(at < L) /\ ~(pass < 9) /\ ruling' = "ok" /\ UNCHANGED <<pass, at>>
    BY <1>3, Zenon DEF Proceed
  <2> HIDE DEF L
  <2> QED BY <1>1, <1>l, <2>1
<1>5. InPlace'
  <2>1. pass' \in 1 .. 9 /\ at' \in Nat /\ at' >= 1
    <3> HIDE DEF L
    <3> QED BY <1>1, <1>l, <1>4
  <2>2. at' \in 1 .. Len(Passes[pass'].steps)
    <3>1. CASE pass' = pass
      <4>1. at' <= L
        <5> HIDE DEF L
        <5> QED BY <1>1, <1>l, <1>4, <3>1
      <4>2. Len(Passes[pass'].steps) = L
        BY <3>1
      <4> HIDE DEF L
      <4> QED BY <1>l, <2>1, <4>1, <4>2
    <3>2. CASE at' = 1
      <4>1. Len(Passes[pass'].steps) \in 5 .. 6
        BY <1>2, <2>1, Zenon
      <4>2. \A l \in 5 .. 6 : 1 \in 1 .. l
        OBVIOUS
      <4> QED BY <3>2, <4>1, <4>2, Zenon
    <3> QED BY <1>4, <3>1, <3>2
  <2>3. ruling' \in {"none", "ok", "differs", "limit"}
    BY <1>4
  <2> QED BY <1>1, <2>1, <2>2, <2>3, Zenon DEF InPlace
<1>6. ASSUME NEW n \in 1 .. 9, NEW k \in 1 .. Len(Passes[n].steps), n < pass \/ (n = pass /\ k <= at)
      PROVE  Says(n, Passes[n].steps[k])
  <2>1. CASE Before(n, k, pass, at)
    BY <2>1, Zenon DEF ValidationInv, Behind
  <2>2. CASE n = pass /\ k = at
    BY <2>2
  <2>3. Before(n, k, pass, at) \/ (n = pass /\ k = at)
    BY <1>1, <1>2, <1>6 DEF Before
  <2> QED BY <2>1, <2>2, <2>3
<1>7. ASSUME NEW n \in 1 .. 9, NEW k \in 1 .. Len(Passes[n].steps), Before(n, k, pass', at')
      PROVE  Says(n, Passes[n].steps[k])
  <2>1. n < pass \/ (n = pass /\ k <= at)
    BY <1>1, <1>2, <1>4, <1>7 DEF Before
  <2> QED BY <1>6, <2>1, Zenon
<1>8. Behind'
  BY <1>7, RootStays DEF Behind
<1>9. ParsedRight'
  <2>1. ASSUME NEW n \in 1 .. 9, Before(n, 2, pass', at')
        PROVE  parsed'[n] = ManifestIn(n)
    <3>1. n < pass \/ (n = pass /\ at >= 2)
      <4> HIDE DEF L
      <4> QED BY <1>1, <1>l, <1>4, <2>1 DEF Before
    <3> QED BY <3>1
  <2> QED BY <2>1, RootStays DEF ParsedRight
<1>10. WalkRight'
  BY DEF WalkRight, NoWalk
<1>11. ruling' = "ok" => ValidRoot
  <2>1. ASSUME ruling' = "ok"
        PROVE  \A n \in 1 .. 9 : \A k \in 1 .. Len(Passes[n].steps) : Says(n, Passes[n].steps[k])
    <3> SUFFICES ASSUME NEW n \in 1 .. 9, NEW k \in 1 .. Len(Passes[n].steps)
                 PROVE  n < pass \/ (n = pass /\ k <= at)
      BY <1>6, Zenon
    <3> QED BY <1>2, <1>4, <2>1
  <2> QED BY <2>1, SaidAllIsValid
<1>12. Verdicts'
  BY <1>4, <1>11, RootStays DEF Verdicts
<1> QED BY <1>5, <1>8, <1>9, <1>10, <1>12 DEF ValidationInv

(* A ruling is right if it says "limit", or "differs" of a root of which   *)
(* some step would fail.                                                   *)
LEMMA RulesRightly ==
  ASSUME ValidationInv, NEW r \in {"differs", "limit"}, Rule(r),
         r = "differs" => ~Says(pass, Passes[pass].steps[at])
  PROVE  ValidationInv'
<1>1. UNCHANGED <<root, pass, at, parsed, walk>> /\ ruling' = r
  BY DEF Rule
<1>2. r = "differs" => ~ValidRoot
  BY ValidSaysAll DEF ValidationInv, InPlace
<1>3. InPlace'
  BY <1>1 DEF ValidationInv, InPlace
<1>4. ParsedRight' /\ Behind'
  BY <1>1, RootStays DEF ValidationInv, ParsedRight, Behind
<1>5. WalkRight'
  BY <1>1, RootStays DEF ValidationInv, WalkRight, NoWalk
<1>6. Verdicts'
  BY <1>1, <1>2, RootStays DEF Verdicts
<1> QED BY <1>3, <1>4, <1>5, <1>6 DEF ValidationInv

(* A step of a walk that goes on.                                          *)
LEMMA WalksOn ==
  ASSUME ValidationInv, UNCHANGED <<root, pass, at, parsed, ruling>>,
         Passes[pass].steps[at] = "walk", Walked(Tree(pass), Wanted(pass), walk')
  PROVE  ValidationInv'
<1>1. InPlace'
  BY DEF ValidationInv, InPlace
<1>2. ParsedRight' /\ Behind'
  BY RootStays DEF ValidationInv, ParsedRight, Behind
<1>3. WalkRight'
  BY RootStays DEF WalkRight
<1>4. Verdicts'
  BY RootStays DEF ValidationInv, Verdicts
<1> QED BY <1>1, <1>2, <1>3, <1>4 DEF ValidationInv
(* The steps that only compare.                                            *)
LEMMA ComparesRightly ==
  ASSUME ValidationInv, NEW s \in StepNames \ {"parse", "walk"}, NEW holds \in BOOLEAN,
         Compares(s, holds), holds <=> Says(pass, s)
  PROVE  ValidationInv'
<1>1. ruling = "none" /\ Passes[pass].steps[at] = s
  BY Zenon DEF Compares, Now
<1>2. walk = NoWalk
  BY <1>1 DEF ValidationInv, WalkRight
<1>3. pass \in 1 .. 9 /\ at \in 1 .. Len(Passes[pass].steps) /\ DOMAIN parsed = 1 .. 9
  BY DEF ValidationInv, InPlace
<1>4. CASE holds
  <2>1. Proceed /\ UNCHANGED <<root, parsed, walk>>
    BY <1>4, Zenon DEF Compares
  <2>2. at # 2
    <3>1. Passes[pass].steps[at] = "parse" <=> at = 2
      BY <1>3, StepsAre, Zenon
    <3> QED BY <1>1, <3>1
  <2>3. ASSUME NEW n \in 1 .. 9, n < pass \/ (n = pass /\ at >= 2)
        PROVE  parsed'[n] = ManifestIn(n)
    <3>1. at \in Int
      BY <1>3
    <3>2. Before(n, 2, pass, at)
      BY <2>2, <2>3, <3>1 DEF Before
    <3> QED BY <2>1, <3>2 DEF ValidationInv, ParsedRight
  <2> QED BY <1>1, <1>2, <1>3, <1>4, <2>1, <2>3, GoesOn
<1>5. CASE ~holds
  <2>1. Rule("differs")
    BY <1>5, Zenon DEF Compares
  <2> QED BY <1>1, <1>5, <2>1, RulesRightly
<1> QED BY <1>4, <1>5

(* After the second step the manifests of the pass and of those before it  *)
(* are at hand.                                                            *)
LEMMA AtHand ==
  ASSUME ValidationInv, Passes[pass].steps[at] \in StepNames \ {"find", "parse", "walk"}
  PROVE  /\ at > 2 /\ parsed[pass] = ManifestIn(pass)
         /\ \A n \in 1 .. 9 : n <= pass => parsed[n] = ManifestIn(n)
<1>1. pass \in 1 .. 9 /\ at \in 1 .. Len(Passes[pass].steps)
  BY DEF ValidationInv, InPlace
<1>2. at >= 3
  BY <1>1, StepsAre, Zenon
<1>3. at \in Int /\ at > 2
  BY <1>1, <1>2
<1>4. ASSUME NEW n \in 1 .. 9, n <= pass PROVE parsed[n] = ManifestIn(n)
  <2>1. Before(n, 2, pass, at)
    BY <1>1, <1>3, <1>4 DEF Before
  <2> QED BY <2>1 DEF ValidationInv, ParsedRight
<1> QED BY <1>1, <1>3, <1>4

(* The step that looks for a manifest keeps the invariant.                 *)
LEMMA FindManifestRight ==
  ASSUME ValidationInv, FindManifest
  PROVE  ValidationInv'
<1>1. IsRegular(Tree(pass), ManifestJson) <=> Says(pass, "find")
  BY Zenon DEF Says
<1>2. IsRegular(Tree(pass), ManifestJson) \in BOOLEAN
  BY DEF IsRegular
<1> QED BY <1>1, <1>2, ComparesRightly DEF FindManifest, StepNames

(* The steps that only compare keep the invariant.                         *)
LEMMA ComparisonsRight ==
  ASSUME ValidationInv,
         CheckLeaves \/ CheckEvidenceHash \/ CheckPeers \/ CheckContract \/ CompareTargets
  PROVE  ValidationInv'
<1>1. pass \in 1 .. 9 /\ at \in 1 .. Len(Passes[pass].steps)
  BY DEF ValidationInv, InPlace
<1>2. CASE CheckLeaves
  <2> DEFINE h == \A i \in DOMAIN parsed[pass].files : LeafMatches(Tree(pass), parsed[pass].files[i])
  <2>1. Compares("leaves", h) /\ Passes[pass].steps[at] = "leaves"
    BY <1>2, Zenon DEF CheckLeaves, Compares, Now
  <2>2. parsed[pass] = ManifestIn(pass)
    BY <2>1, AtHand DEF StepNames
  <2>3. h <=> Says(pass, "leaves")
    BY <2>2 DEF Says
  <2> QED BY <2>1, <2>3, ComparesRightly DEF StepNames
<1>3. CASE CheckEvidenceHash
  <2> DEFINE h == EvidenceMatches(Tree(pass), parsed[pass])
  <2>1. Compares("evidence", h) /\ Passes[pass].steps[at] = "evidence"
    BY <1>3, Zenon DEF CheckEvidenceHash, Compares, Now
  <2>2. parsed[pass] = ManifestIn(pass)
    BY <2>1, AtHand DEF StepNames
  <2>3. h <=> Says(pass, "evidence")
    BY <2>2 DEF Says
  <2>4. h \in BOOLEAN
    BY DEF EvidenceMatches
  <2> QED BY <2>1, <2>3, <2>4, ComparesRightly DEF StepNames
<1>4. CASE CheckPeers
  <2> DEFINE h == PeersAgree(pass, parsed[pass])
  <2>1. Compares("peers", h) /\ Passes[pass].steps[at] = "peers"
    BY <1>4, Zenon DEF CheckPeers, Compares, Now
  <2>2. parsed[pass] = ManifestIn(pass) /\ \A n \in 1 .. 9 : n <= pass => parsed[n] = ManifestIn(n)
    BY <2>1, AtHand DEF StepNames
  <2>3. \A q \in Passes[pass].peers : q \in 1 .. 9 /\ q < pass
    BY <1>1, StepsAre, Zenon
  <2>4. \A q \in Passes[pass].peers : parsed[q] = ManifestIn(q)
    BY <1>1, <2>2, <2>3
  <2>5. h <=> Says(pass, "peers")
    BY <2>2, <2>4 DEF PeersAgree, Says
  <2>6. h \in BOOLEAN
    BY DEF PeersAgree
  <2> QED BY <2>1, <2>5, <2>6, ComparesRightly DEF StepNames
<1>5. CASE CheckContract
  <2> DEFINE h == MeetsContract(pass, parsed[pass])
  <2>1. Compares("contract", h) /\ Passes[pass].steps[at] = "contract"
    BY <1>5, Zenon DEF CheckContract, Compares, Now
  <2>2. parsed[pass] = ManifestIn(pass)
    BY <2>1, AtHand DEF StepNames
  <2>3. h <=> Says(pass, "contract")
    BY <2>2 DEF Says
  <2>4. h \in BOOLEAN
    BY DEF MeetsContract
  <2> QED BY <2>1, <2>3, <2>4, ComparesRightly DEF StepNames
<1>6. CASE CompareTargets
  <2>1. Compares("compare", TargetsAgree) /\ Passes[pass].steps[at] = "compare"
    BY <1>6, Zenon DEF CompareTargets, Compares, Now
  <2>2. \A n \in 1 .. 9 : n <= pass => parsed[n] = ManifestIn(n)
    BY <2>1, AtHand DEF StepNames
  <2>3. pass = 4
    BY <1>1, <2>1, StepsAre, Zenon
  <2>4. \A n \in 1 .. 4 : parsed[n] = ManifestIn(n)
    BY <2>2, <2>3
  <2>5. TargetsAgree <=> Agreeing
    BY <2>4 DEF TargetsAgree, Agreeing
  <2>6. TargetsAgree <=> Says(pass, "compare")
    BY <2>5 DEF Says
  <2>7. TargetsAgree \in BOOLEAN
    BY DEF TargetsAgree
  <2> QED BY <2>1, <2>6, <2>7, ComparesRightly DEF StepNames
<1> QED BY <1>2, <1>3, <1>4, <1>5, <1>6
(* Reading a manifest, or refusing it, keeps the invariant.                *)
LEMMA ParsingRight ==
  ASSUME ValidationInv, ParseManifest \/ RefuseManifest \/ LimitManifest
  PROVE  ValidationInv'
<1>1. pass \in 1 .. 9 /\ at \in 1 .. Len(Passes[pass].steps) /\ DOMAIN parsed = 1 .. 9
  BY DEF ValidationInv, InPlace
<1>2. ruling = "none" /\ Passes[pass].steps[at] = "parse"
  BY Zenon DEF ParseManifest, RefuseManifest, LimitManifest, Now
<1>3. Says(pass, "parse") <=> HasManifest(pass) /\ ValidManifest(pass, ManifestIn(pass))
  BY DEF Says
<1>4. CASE ParseManifest
  <2>1. /\ HasManifest(pass) /\ ValidManifest(pass, ManifestIn(pass)) /\ Proceed
        /\ parsed' = [parsed EXCEPT ![pass] = ManifestIn(pass)] /\ UNCHANGED <<root, walk>>
    BY <1>4, Zenon DEF ParseManifest
  <2>2. walk' = NoWalk
    BY <1>2, <2>1 DEF ValidationInv, WalkRight
  <2>3. ASSUME NEW n \in 1 .. 9, n < pass \/ (n = pass /\ at >= 2)
        PROVE  parsed'[n] = ManifestIn(n)
    <3>1. CASE n = pass
      BY <1>1, <2>1, <3>1
    <3>2. CASE n # pass
      <4>1. Before(n, 2, pass, at)
        BY <2>3, <3>2 DEF Before
      <4> QED BY <1>1, <2>1, <3>2, <4>1 DEF ValidationInv, ParsedRight
    <3> QED BY <3>1, <3>2
  <2>4. DOMAIN parsed' = 1 .. 9
    BY <1>1, <2>1
  <2> QED BY <1>2, <1>3, <2>1, <2>2, <2>3, <2>4, GoesOn
<1>5. CASE RefuseManifest
  <2>1. Rule("differs") /\ ~Says(pass, "parse")
    BY <1>3, <1>5, Zenon DEF RefuseManifest
  <2> QED BY <1>2, <2>1, RulesRightly
<1>6. CASE LimitManifest
  <2>1. Rule("limit")
    BY <1>6, Zenon DEF LimitManifest
  <2> QED BY <2>1, RulesRightly
<1> QED BY <1>4, <1>5, <1>6

(* Every step of the walk keeps the invariant.                             *)
LEMMA WalkingRight ==
  ASSUME ValidationInv, Walking
  PROVE  ValidationInv'
<1> DEFINE t == Tree(pass)
           F == Wanted(pass)
<1>1. ruling = "none" /\ Passes[pass].steps[at] = "walk"
  BY Zenon DEF Walking, BeginWalk, RefuseEntry, LimitEntry, VisitDirectory, EndWalk, Visiting, Now
<1>2. /\ ExpectedFiles(pass) = F /\ IsTree(t)
      /\ IsFiniteSet(F) /\ \A p \in F : Len(p) \in Nat
      /\ IsFiniteSet(ExpectedDirs(F))
  BY <1>1, WalkedIsWanted
<1>3. Says(pass, "walk") <=> Exact(t, F)
  BY DEF Says
<1>4. pass \in 1 .. 9 /\ at \in 1 .. Len(Passes[pass].steps) /\ DOMAIN parsed = 1 .. 9
  BY DEF ValidationInv, InPlace
<1>5. CASE BeginWalk
  <2>1. CASE Rule("limit")
    BY <2>1, RulesRightly
  <2>2. CASE /\ <<>> \in DOMAIN t /\ t[<<>>].kind = "dir"
             /\ walk' = [NoWalk EXCEPT !.todo = {<<>>}] /\ UNCHANGED <<root, pass, at, parsed, ruling>>
    <3>1. Walked(t, F, walk')
      BY <2>2, WalkBegins
    <3> QED BY <1>1, <2>2, <3>1, WalksOn
  <2>3. CASE ~(<<>> \in DOMAIN t /\ t[<<>>].kind = "dir") /\ Rule("differs")
    <3>1. ~Exact(t, F)
      BY <2>3 DEF Exact
    <3> QED BY <1>1, <1>3, <2>3, <3>1, RulesRightly
  <2> QED BY <1>5, <2>1, <2>2, <2>3, Zenon DEF BeginWalk
<1>6. ASSUME NEW d \in walk.todo
      PROVE  Walked(t, F, walk) /\ ~Runaway
  <2>1. walk # NoWalk
    BY DEF NoWalk
  <2>2. Walked(t, F, walk)
    BY <2>1, Zenon DEF ValidationInv, WalkRight
  <2>3. /\ Cardinality(DirsRead(walk)) \in Nat
        /\ Cardinality(DirsRead(walk)) <= Cardinality(ExpectedDirs(F)) + 1
    BY <1>2, <2>2, WalkIsFinite
  <2>4. walk.visits = Cardinality(DirsRead(walk))
    BY <2>2, Zenon DEF Walked
  <2>5. Cardinality(F) \in Nat /\ Cardinality(ExpectedDirs(F)) \in Nat
    <3> HIDE DEF F
    <3> QED BY <1>2, FS_CardinalityType
  <2>6. ~(walk.visits + 1 > Cardinality(ExpectedDirs(F)) + Cardinality(F) + 8)
    <3> HIDE DEF F
    <3> QED BY <2>3, <2>4, <2>5
  <2>7. ~Runaway
    BY <1>2, <2>6, Zenon DEF Runaway
  <2> QED BY <2>2, <2>7
<1>7. CASE RefuseEntry
  <2>1. PICK d \in walk.todo : (Runaway \/ Crowded(d) \/ HasUnexpected(d))
                              /\ Rule(IF Runaway THEN "runaway" ELSE "differs")
    BY <1>7, Zenon DEF RefuseEntry
  <2>2. ~Runaway
    BY <1>6
  <2>3. Rule("differs") /\ (Crowded(d) \/ HasUnexpected(d))
    BY <2>1, <2>2
  <2>4. ASSUME Exact(t, F) PROVE FALSE
    <3>1. /\ \A p \in ChildrenIn(t, d) : ~Unexpected(t, F, p)
          /\ Cardinality(ChildrenIn(t, d)) <= ExpectedDirectChildCount(d, F) + MaxDirEntrySlack
      BY <1>2, <2>4, ExactIsNotRefused
    <3>2. ~HasUnexpected(d)
      BY <1>2, <3>1, Zenon DEF HasUnexpected
    <3>3. Cardinality(ChildrenIn(t, d)) > ExpectedDirectChildCount(d, F) + MaxDirEntrySlack
      BY <1>2, <2>3, <3>2, Zenon DEF Crowded
    <3>4. Cardinality(ChildrenIn(t, d)) \in Int /\ ExpectedDirectChildCount(d, F) + MaxDirEntrySlack \in Int
      <4>1. ChildrenIn(t, d) \in SUBSET DOMAIN t /\ IsFiniteSet(DOMAIN t)
        BY <1>2 DEF ChildrenIn, IsTree
      <4>2. IsFiniteSet(ChildrenIn(t, d))
        <5> HIDE DEF t
        <5> QED BY <4>1, FS_Subset
      <4>3. Cardinality(ChildrenIn(t, d)) \in Nat
        <5> HIDE DEF t
        <5> QED BY <4>2, FS_CardinalityType
      <4>4. ExpectedDirectChildCount(d, F) \in Nat
        <5> DEFINE A == {p \in F : Parent(p) = d}
                   B == {p \in ExpectedDirs(F) : Parent(p) = d}
        <5>1. A \in SUBSET F /\ B \in SUBSET ExpectedDirs(F)
          OBVIOUS
        <5>2. ExpectedDirectChildCount(d, F) = Cardinality(A) + Cardinality(B)
          BY Zenon DEF ExpectedDirectChildCount
        <5> HIDE DEF A, B, F
        <5>3. IsFiniteSet(A) /\ IsFiniteSet(B)
          BY <1>2, <5>1, FS_Subset
        <5>4. Cardinality(A) \in Nat /\ Cardinality(B) \in Nat
          BY <5>3, FS_CardinalityType
        <5> QED BY <5>2, <5>4
      <4>5. MaxDirEntrySlack \in Nat
        BY OutputsAssumption
      <4> HIDE DEF t, F
      <4> QED BY <4>3, <4>4, <4>5
    <3> HIDE DEF t, F
    <3> QED BY <3>1, <3>3, <3>4
  <2> QED BY <1>1, <1>3, <2>3, <2>4, RulesRightly
<1>8. CASE LimitEntry
  <2>1. Rule("limit")
    BY <1>8, Zenon DEF LimitEntry
  <2> QED BY <2>1, RulesRightly
<1>9. CASE VisitDirectory
  <2>1. PICK d \in walk.todo :
          /\ ~HasUnexpected(d)
          /\ walk' = [todo |-> (walk.todo \ {d}) \cup DirsIn(Tree(pass), d),
                      visits |-> walk.visits + 1,
                      files |-> walk.files \cup FilesIn(Tree(pass), d),
                      dirs |-> walk.dirs \cup DirsIn(Tree(pass), d),
                      total |-> TotalAfter(Tree(pass), d)]
          /\ UNCHANGED <<root, pass, at, parsed, ruling>>
    BY <1>9, Zenon DEF VisitDirectory
  <2>2. /\ walk'.todo = (walk.todo \ {d}) \cup DirsIn(t, d) /\ walk'.visits = walk.visits + 1
        /\ walk'.files = walk.files \cup FilesIn(t, d) /\ walk'.dirs = walk.dirs \cup DirsIn(t, d)
    BY <2>1
  <2>3. \A p \in ChildrenIn(t, d) : ~Unexpected(t, F, p)
    BY <1>2, <2>1, Zenon DEF HasUnexpected
  <2>4. Walked(t, F, walk)
    BY <1>6
  <2>5. Walked(t, F, walk')
    <3> HIDE DEF t, F
    <3> QED BY <1>2, <2>2, <2>3, <2>4, WalkGoesOn
  <2> QED BY <1>1, <2>1, <2>5, WalksOn
<1>10. CASE EndWalk
  <2>1. walk # NoWalk /\ walk.todo = {}
    BY <1>10, Zenon DEF EndWalk
  <2>2. Walked(t, F, walk)
    BY <2>1, Zenon DEF ValidationInv, WalkRight
  <2>3. Exact(t, F) <=> F \subseteq walk.files /\ ExpectedDirs(F) \subseteq walk.dirs
    <3> HIDE DEF t, F
    <3> QED BY <1>2, <2>1, <2>2, WalkEnds
  <2>4. NothingMissing <=> Exact(t, F)
    BY <1>2, <2>3, Zenon DEF NothingMissing
  <2>5. CASE NothingMissing
    <3>1. walk' = NoWalk /\ Proceed /\ UNCHANGED <<root, parsed>>
      BY <1>10, <2>5, Zenon DEF EndWalk
    <3>2. ASSUME NEW n \in 1 .. 9, n < pass \/ (n = pass /\ at >= 2)
          PROVE  parsed'[n] = ManifestIn(n)
      <4>1. at # 2 /\ at \in Int
        <5>1. Passes[pass].steps[at] = "parse" <=> at = 2
          BY <1>4, StepsAre, Zenon
        <5> QED BY <1>1, <1>4, <5>1
      <4>2. Before(n, 2, pass, at)
        BY <3>2, <4>1 DEF Before
      <4> QED BY <3>1, <4>2 DEF ValidationInv, ParsedRight
    <3>3. Says(pass, Passes[pass].steps[at])
      BY <1>1, <1>3, <2>4, <2>5
    <3> QED BY <1>1, <1>4, <3>1, <3>2, <3>3, GoesOn
  <2>6. CASE ~NothingMissing
    <3>1. Rule("differs")
      BY <1>10, <2>6, Zenon DEF EndWalk
    <3> QED BY <1>1, <1>3, <2>4, <2>6, <3>1, RulesRightly
  <2> QED BY <2>5, <2>6
<1> QED BY <1>5, <1>7, <1>8, <1>9, <1>10, Zenon DEF Walking

(* scripts/validate_artifacts.py, for every staging root: main() says "ok" *)
(* only of a root that is valid and "differs" only of one that is not, and *)
(* the bound on the visits of the work list is never what stops it.        *)
THEOREM RulingIsRightCorrect == ValidateSpec => []RulingIsRight
<1>1. ValidateInit => ValidationInv
  <2> SUFFICES ASSUME ValidateInit PROVE ValidationInv
    OBVIOUS
  <2>1. root \in Outputs /\ pass = 1 /\ at = 1 /\ DOMAIN parsed = 1 .. 9 /\ walk = NoWalk /\ ruling = "none"
    BY PassTable DEF ValidateInit
  <2>2. \A n \in 1 .. 9 : \A k \in Nat : k >= 1 => ~Before(n, k, pass, at)
    BY <2>1 DEF Before
  <2>3. InPlace
    <3>1. 1 \in 1 .. 9
      OBVIOUS
    <3>2. Len(Passes[1].steps) \in 5 .. 6
      BY <3>1, StepsAre, Zenon
    <3>3. \A l \in 5 .. 6 : 1 \in 1 .. l
      OBVIOUS
    <3>4. 1 \in 1 .. Len(Passes[1].steps)
      BY <3>2, <3>3, Zenon
    <3> QED BY <2>1, <3>1, <3>4 DEF InPlace
  <2>4. Behind /\ ParsedRight
    BY <2>2 DEF Behind, ParsedRight
  <2>5. WalkRight /\ Verdicts
    BY <2>1 DEF WalkRight, Verdicts
  <2> QED BY <2>3, <2>4, <2>5 DEF ValidationInv
<1>2. ValidationInv /\ [ValidateNext]_validateVars => ValidationInv'
  <2> SUFFICES ASSUME ValidationInv, [ValidateNext]_validateVars PROVE ValidationInv'
    OBVIOUS
  <2>1. CASE UNCHANGED validateVars
    <3>1. UNCHANGED <<root, pass, at, parsed, walk, ruling>>
      BY <2>1 DEF validateVars
    <3>2. InPlace'
      BY <3>1 DEF ValidationInv, InPlace
    <3>3. ParsedRight' /\ Behind'
      BY <3>1, RootStays DEF ValidationInv, ParsedRight, Behind
    <3>4. WalkRight' /\ Verdicts'
      BY <3>1, RootStays DEF ValidationInv, WalkRight, Verdicts, NoWalk
    <3> QED BY <3>2, <3>3, <3>4 DEF ValidationInv
  <2> QED BY <2>1, FindManifestRight, ParsingRight, WalkingRight, ComparisonsRight, Zenon DEF ValidateNext
<1>3. ValidationInv => RulingIsRight
  BY DEF ValidationInv, Verdicts, InPlace, RulingIsRight
<1> QED BY <1>1, <1>2, <1>3, PTL DEF ValidateSpec
=============================================================================
