------------------------- MODULE ToolInstall_proofs -------------------------
(***************************************************************************)
(* Proofs about ToolInstall, for every set of runs, every archive and      *)
(* every number of download attempts.                                      *)
(*                                                                         *)
(* TypeOK is inductive once every run's tree is known to be complete when  *)
(* it is published; Own says that, and what else a run holds under a       *)
(* temporary name at each place.  NothingTorn and NoResidue follow.        *)
(* ReportStands needs more: Working (what a run's place says of its tool   *)
(* and of its reports), Overlap (runs under way together have met) and     *)
(* Kept (a claimed path is sound and no stranger is about to unlink it, or *)
(* it is a gap of the company).  Every step is shown to be Lawful once; the*)
(* induction on Kept uses only that.  AloneInv is about a run that has met *)
(* no other: it clears the tool root (Cleared) and, if nothing outside     *)
(* fails it, meets everything as it left it (Undisturbed).  AloneSucceeds  *)
(* and DoctorAgrees follow from the two invariants together.               *)
(***************************************************************************)
EXTENDS ToolInstall, TLAPS

(* The archive has a first member, and every member has a path.            *)
LEMMA MembersFacts ==
  /\ Len(Members) \in Nat \ {0} /\ DOMAIN Members = 1 .. Len(Members)
  /\ 1 \in DOMAIN Members
  /\ \A i \in DOMAIN Members : Members[i] \in MemberPaths /\ Members[i] \in Paths
  /\ Source \in Paths /\ Source \notin MemberPaths
<1>1. Members \in Seq(MemberPaths) /\ Members # << >> /\ Source \notin MemberPaths
  BY InstallAssumption
<1>2. Len(Members) \in Nat \ {0} /\ DOMAIN Members = 1 .. Len(Members)
  BY <1>1, SMT
<1>3. \A i \in DOMAIN Members : Members[i] \in MemberPaths
  BY DEF MemberPaths
<1> QED BY <1>1, <1>2, <1>3 DEF Paths

-----------------------------------------------------------------------------
(* Types                                                                   *)

(* The path of the member a run works on.                                  *)
LEMMA MemberIsPath ==
  ASSUME NEW r \in Runs, TypeOK
  PROVE  /\ Member(r) \in MemberPaths /\ Member(r) \in Paths
         /\ idx[r] \in 1 .. Len(Members)
<1>1. idx[r] \in DOMAIN Members
  BY DEF TypeOK, RunsType
<1> QED BY <1>1, MembersFacts DEF Member

(* Initially every variable is in its range.                               *)
LEMMA TypeInit == Init => TypeOK
<1> SUFFICES ASSUME Init PROVE TypeOK
  OBVIOUS
<1>1. RunsType
  BY MembersFacts, InstallAssumption, SMT DEF Init, RunsType, Places, Tools
<1>2. FilesType
  <2>1. root \in [Paths -> {"absent", "old", "torn", "good"}]
    <3>1. CASE made
      BY <3>1, SMT DEF Init
    <3>2. CASE ~made
      BY <3>2, SMT DEF Init
    <3> QED BY <3>1, <3>2
  <2>2. temp \in [Runs -> [path : Paths, holds : {"none", "torn", "good"}]]
    BY MembersFacts, SMT DEF Init, NoTemp
  <2>3. made \in BOOLEAN /\ retired \in BOOLEAN
    BY DEF Init
  <2>4. /\ part \in [Runs -> {"none", "torn", "wrong", "good"}]
        /\ stage \in [Runs -> {"none", "partial", "whole"}]
    BY SMT DEF Init
  <2> QED BY <2>1, <2>2, <2>3, <2>4 DEF Init, FilesType
<1>3. HistoryType
  BY SMT DEF Init, HistoryType
<1> QED BY <1>1, <1>2, <1>3 DEF TypeOK

(* A run that only moves keeps the types.                                  *)
LEMMA MovesTypes ==
  ASSUME NEW r \in Runs, TypeOK, NEW p \in Places, Moves(r, p)
  PROVE  TypeOK'
BY SMT DEF Moves, Goto, TypeOK, RunsType, FilesType, HistoryType, plan, call, place, cache, history

(* A step that moves the index of a run keeps the types.                   *)
LEMMA StepsTypes ==
  ASSUME NEW r \in Runs, TypeOK, NEW p \in Places, NEW i \in DOMAIN Members, Steps(r, p, i)
  PROVE  TypeOK'
BY SMT DEF Steps, Goto, TypeOK, RunsType, FilesType, HistoryType, plan, place, cache, history

(* Removing the temporary names of a run keeps the types of the files.     *)
LEMMA TidyTypes ==
  ASSUME NEW r \in Runs, TypeOK, Tidy(r), UNCHANGED <<made, root, retired, blob, tree>>
  PROVE  FilesType'
<1>1. temp' \in [Runs -> [path : Paths, holds : {"none", "torn", "good"}]]
  BY MembersFacts, SMT DEF Tidy, NoTemp, TypeOK, FilesType
<1> QED BY <1>1, SMT DEF Tidy, TypeOK, FilesType

(* The locals of a call that returned are in their ranges.                 *)
LEMMA ForgetsTypes ==
  ASSUME NEW r \in Runs, TypeOK, Forgets(r)
  PROVE  /\ idx' \in [Runs -> DOMAIN Members] /\ attempt' \in [Runs -> 1 .. Attempts]
         /\ listed' \in [Runs -> SUBSET Nodes]
         /\ stale' \in [Runs -> BOOLEAN]
BY MembersFacts, InstallAssumption, SMT DEF Forgets, TypeOK, RunsType

(* A report of one tool keeps the type of the reports.                     *)
LEMMA StatusTypes ==
  ASSUME NEW r \in Runs, TypeOK, NEW t \in Tools,
         NEW s \in {"none", "skipped", "installed", "failed"}, status' = [status EXCEPT ![r][t] = s]
  PROVE  status' \in [Runs -> [Tools -> {"none", "skipped", "installed", "failed"}]]
<1>1. [status[r] EXCEPT ![t] = s] \in [Tools -> {"none", "skipped", "installed", "failed"}]
  BY DEF TypeOK, RunsType
<1> QED BY <1>1 DEF TypeOK, RunsType

(* A tool that fails keeps the types.                                      *)
LEMMA FailToolTypes ==
  ASSUME NEW r \in Runs, TypeOK, FailTool(r), UNCHANGED history \/ Blamed(r)
  PROVE  TypeOK'
<1>1. tool[r] \in Tools
  BY DEF TypeOK, RunsType
<1>2. status' \in [Runs -> [Tools -> {"none", "skipped", "installed", "failed"}]]
  BY <1>1, StatusTypes DEF FailTool
<1>3. RunsType'
  BY <1>2, ForgetsTypes, SMT DEF FailTool, Goto, TypeOK, RunsType, Places
<1>4. FilesType'
  BY TidyTypes DEF FailTool
<1>5. HistoryType'
  BY SMT DEF Blamed, history, TypeOK, HistoryType
<1> QED BY <1>3, <1>4, <1>5 DEF TypeOK

(* A run that aborts keeps the types.                                      *)
LEMMA AbortsTypes ==
  ASSUME NEW r \in Runs, TypeOK, Aborts(r), UNCHANGED history \/ Blamed(r)
  PROVE  TypeOK'
<1>1. RunsType'
  BY ForgetsTypes, SMT DEF Aborts, Goto, plan, TypeOK, RunsType, Places
<1>2. FilesType'
  BY TidyTypes DEF Aborts
<1>3. HistoryType'
  BY SMT DEF Blamed, history, TypeOK, HistoryType
<1> QED BY <1>1, <1>2, <1>3 DEF TypeOK

(* A tool that is reported keeps the types.                                *)
LEMMA SettlesTypes ==
  ASSUME NEW r \in Runs, TypeOK, NEW s \in {"skipped", "installed"}, Settles(r, s)
  PROVE  TypeOK'
<1>1. tool[r] \in Tools /\ Reported(r, s) \in {"none", "skipped", "installed", "failed"}
  BY DEF TypeOK, RunsType, Reported
<1>2. status' \in [Runs -> [Tools -> {"none", "skipped", "installed", "failed"}]]
  BY <1>1, StatusTypes DEF Settles
<1>3. RunsType'
  BY <1>2, ForgetsTypes, SMT DEF Settles, Goto, TypeOK, RunsType, Places
<1>4. FilesType' /\ HistoryType'
  BY SMT DEF Settles, place, cache, history, TypeOK, FilesType, HistoryType
<1> QED BY <1>3, <1>4 DEF TypeOK

(* Unlinking a path keeps the types.                                       *)
LEMMA UnlinkAtTypes ==
  ASSUME NEW r \in Runs, TypeOK, NEW p \in Paths, NEW n \in Places, UnlinkAt(r, p, n)
  PROVE  TypeOK'
<1>1. RunsType'
  BY SMT DEF UnlinkAt, Goto, plan, call, TypeOK, RunsType
<1>2. FilesType'
  BY SMT DEF UnlinkAt, cache, TypeOK, FilesType
<1>3. gap' \in [Runs -> SUBSET Paths]
  <2>1. gap[r] \cup {p} \in SUBSET Paths
    BY DEF TypeOK, HistoryType
  <2> QED BY <2>1 DEF UnlinkAt, TypeOK, HistoryType
<1> QED BY <1>1, <1>2, <1>3 DEF UnlinkAt, TypeOK, HistoryType

(* Creating a temporary file keeps the types.                              *)
LEMMA CreateTempTypes ==
  ASSUME NEW r \in Runs, TypeOK, NEW p \in Paths, NEW n \in Places, CreateTemp(r, p, n)
  PROVE  TypeOK'
<1>1. RunsType' /\ HistoryType'
  BY SMT DEF CreateTemp, Goto, plan, call, history, TypeOK, RunsType, HistoryType
<1>2. temp' \in [Runs -> [path : Paths, holds : {"none", "torn", "good"}]]
  BY SMT DEF CreateTemp, TypeOK, FilesType
<1> QED BY <1>1, <1>2, SMT DEF CreateTemp, cache, TypeOK, FilesType

(* Filling a temporary file, or failing to, keeps the types.               *)
LEMMA FillTempTypes ==
  ASSUME NEW r \in Runs, TypeOK, NEW n \in Places, FillTemp(r, n)
  PROVE  TypeOK'
<1>1. CASE Breaks(r)
  BY <1>1, FailToolTypes DEF Breaks
<1>2. CASE ~Breaks(r)
  <2>1. RunsType' /\ HistoryType'
    BY <1>2, SMT DEF FillTemp, Goto, plan, call, history, TypeOK, RunsType, HistoryType
  <2>2. temp[r].path \in Paths /\ temp[r].holds \in {"none", "torn", "good"}
    BY DEF TypeOK, FilesType
  <2>3. temp' \in [Runs -> [path : Paths, holds : {"none", "torn", "good"}]]
    BY <1>2, <2>2, SMT DEF FillTemp, TypeOK, FilesType
  <2> QED BY <1>2, <2>1, <2>3, SMT DEF FillTemp, cache, TypeOK, FilesType
<1> QED BY <1>1, <1>2

(* Giving a path its new file keeps the types of what it changes.          *)
LEMMA ReplaceAtTypes ==
  ASSUME NEW r \in Runs, TypeOK, NEW p \in Paths, ~Gone(r), ReplaceAt(r, p)
  PROVE  /\ root' \in [Paths -> {"absent", "old", "torn", "good"}]
         /\ temp' \in [Runs -> [path : Paths, holds : {"none", "torn", "good"}]]
         /\ gap' \in [Runs -> SUBSET Paths]
<1>1. temp[r].holds \in {"none", "torn", "good"} /\ gap[r] \ {p} \in SUBSET Paths
  BY DEF TypeOK, FilesType, HistoryType
<1>2. temp' \in [Runs -> [path : Paths, holds : {"none", "torn", "good"}]]
  BY MembersFacts, SMT DEF ReplaceAt, NoTemp, TypeOK, FilesType
<1>3. root' \in [Paths -> {"absent", "old", "torn", "good"}]
  BY <1>1, SMT DEF ReplaceAt, Gone, TypeOK, FilesType
<1> QED BY <1>1, <1>2, <1>3 DEF ReplaceAt, TypeOK, HistoryType


(* A step that only moves a run keeps the types of the runs and of the       *)
(* history.                                                                *)
LEMMA GotoTypes ==
  ASSUME NEW r \in Runs, TypeOK, NEW p \in Places, Goto(r, p)
  PROVE  /\ pc' \in [Runs -> Places]
         /\ UNCHANGED <<plan, call>> => RunsType'
         /\ UNCHANGED history => HistoryType'
<1>1. pc' \in [Runs -> Places]
  BY DEF Goto, TypeOK, RunsType
<1>2. ASSUME UNCHANGED <<plan, call>> PROVE RunsType'
  BY <1>1, <1>2 DEF plan, call, TypeOK, RunsType
<1>3. ASSUME UNCHANGED history PROVE HistoryType'
  BY <1>3 DEF history, TypeOK, HistoryType
<1> QED BY <1>1, <1>2, <1>3

(* Every step of a run keeps the types.                                    *)
LEMMA TypeOfTheRun ==
  ASSUME NEW r \in Runs, TypeOK,
         \/ Start(r) \/ EnsureRoot(r) \/ MakeRoot(r) \/ ScanRoot(r) \/ VisitNodes(r) \/ Prune(r)
         \/ NextTool(r) \/ Kill(r)
  PROVE  TypeOK'
<1>1. CASE Start(r)
  <2>1. RunsType'
    BY <1>1, SMT DEF Start, Goto, call, TypeOK, RunsType, Places
  <2>2. FilesType'
    BY <1>1, SMT DEF Start, place, cache, TypeOK, FilesType
  <2>3. met' \in [Runs -> SUBSET Runs]
    BY <1>1, SMT DEF Start, TypeOK, HistoryType
  <2> QED BY <1>1, <2>1, <2>2, <2>3 DEF Start, TypeOK, HistoryType
<1>2. CASE EnsureRoot(r)
  BY <1>2, MovesTypes, SMT DEF EnsureRoot, Places
<1>3. CASE MakeRoot(r)
  <2>1. CASE made
    BY <1>3, <2>1, AbortsTypes DEF MakeRoot
  <2>2. CASE ~made
    <3>1. RunsType' /\ HistoryType'
      BY <1>3, <2>2, SMTT(40) DEF MakeRoot, Goto, plan, call, history, TypeOK, RunsType, HistoryType, Places
    <3>2. FilesType'
      BY <1>3, <2>2, SMT DEF MakeRoot, cache, TypeOK, FilesType
    <3> QED BY <3>1, <3>2 DEF TypeOK
  <2> QED BY <2>1, <2>2
<1>4. CASE ScanRoot(r)
  <2>1. Names \in SUBSET Nodes
    BY SMT DEF Names, Unlocked, LockedNames, Nodes, TypeOK, FilesType
  <2>2. RunsType'
    BY <1>4, <2>1, SMT DEF ScanRoot, Goto, plan, TypeOK, RunsType, Places
  <2>3. FilesType' /\ HistoryType'
    BY <1>4, SMT DEF ScanRoot, place, cache, history, TypeOK, FilesType, HistoryType
  <2> QED BY <2>2, <2>3 DEF TypeOK
<1>8. CASE VisitNodes(r)
  <2>1. CASE Aborts(r) /\ UNCHANGED history
    BY <2>1, AbortsTypes
  <2>2. CASE ~(Aborts(r) /\ UNCHANGED history)
    <3>1. /\ Goto(r, "prune") /\ listed' = [listed EXCEPT ![r] = ToPrune(@)]
          /\ UNCHANGED <<plan, idx, attempt, stale, place, cache, history>>
      BY <1>8, <2>2 DEF VisitNodes
    <3>2. ToPrune(listed[r]) \in SUBSET Nodes
      BY DEF ToPrune, TypeOK, RunsType
    <3>3. RunsType'
      BY <3>1, <3>2, SMT DEF Goto, plan, TypeOK, RunsType, Places
    <3>4. FilesType' /\ HistoryType'
      BY <3>1, SMT DEF place, cache, history, TypeOK, FilesType, HistoryType
    <3> QED BY <3>3, <3>4 DEF TypeOK
  <2> QED BY <2>1, <2>2
<1>5. CASE Prune(r)
  <2>1. CASE Moves(r, "next")
    BY <2>1, MovesTypes, SMT DEF Places
  <2>2. ASSUME NEW n \in listed[r], PruneNode(r, n) PROVE TypeOK'
    <3>1. CASE Aborts(r) /\ UNCHANGED history
      BY <3>1, AbortsTypes
    <3>2. CASE ~(Aborts(r) /\ UNCHANGED history)
      <4>1. listed[r] \ {n} \in SUBSET Nodes
        BY DEF TypeOK, RunsType
      <4>2. /\ listed' = [listed EXCEPT ![r] = @ \ {n}]
            /\ retired' = (retired /\ n[1] # Retired)
            /\ temp' = [q \in Runs |-> IF q = n[1] THEN NoTemp ELSE temp[q]]
            /\ UNCHANGED <<pc, plan, idx, attempt, stale, made, root, cache, history>>
        BY <2>2, <3>2 DEF PruneNode
      <4>3. RunsType' /\ HistoryType'
        <5>1. listed' \in [Runs -> SUBSET Nodes]
          BY <4>1, <4>2 DEF TypeOK, RunsType
        <5> QED BY <4>2, <5>1 DEF plan, history, TypeOK, RunsType, HistoryType
      <4>4. temp' \in [Runs -> [path : Paths, holds : {"none", "torn", "good"}]]
        BY <4>2, MembersFacts, SMT DEF NoTemp, TypeOK, FilesType
      <4> QED BY <4>2, <4>3, <4>4 DEF cache, TypeOK, FilesType
    <3> QED BY <3>1, <3>2
  <2> QED BY <1>5, <2>1, <2>2 DEF Prune
<1>6. CASE NextTool(r)
  <2>1. CASE Moves(r, "done")
    BY <2>1, MovesTypes, SMT DEF Places
  <2>2. CASE ~Moves(r, "done")
    <3>1. PICK t \in todo[r] : /\ tool' = [tool EXCEPT ![r] = t]
                               /\ todo' = [todo EXCEPT ![r] = @ \ {t}]
                               /\ Goto(r, IF t = "archive" THEN "match" ELSE "present")
                               /\ UNCHANGED <<status, call, place, cache, history>>
      BY <1>6, <2>2 DEF NextTool
    <3>2. t \in Tools /\ todo[r] \ {t} \in SUBSET Tools
      BY DEF TypeOK, RunsType
    <3>3. RunsType'
      BY <3>1, <3>2, SMT DEF Goto, call, TypeOK, RunsType, Places
    <3>4. FilesType' /\ HistoryType'
      BY <3>1, SMT DEF place, cache, history, TypeOK, FilesType, HistoryType
    <3> QED BY <3>3, <3>4 DEF TypeOK
  <2> QED BY <2>1, <2>2
<1>7. CASE Kill(r)
  <2>1. RunsType'
    BY <1>7, ForgetsTypes, SMT DEF Kill, Goto, plan, TypeOK, RunsType, Places
  <2>2. FilesType' /\ HistoryType'
    BY <1>7, SMT DEF Kill, place, cache, history, TypeOK, FilesType, HistoryType
  <2> QED BY <2>1, <2>2 DEF TypeOK
<1> QED BY <1>1, <1>2, <1>3, <1>4, <1>5, <1>6, <1>7, <1>8

(* Every step on the archive keeps the types.                              *)
LEMMA TypeOfTheArchive ==
  ASSUME NEW r \in Runs, TypeOK, ArchiveStep(r)
  PROVE  TypeOK'
<1> USE MembersFacts, MemberIsPath
<1>0. \A i \in 1 .. Len(Members) : i < Len(Members) => i + 1 \in DOMAIN Members
  BY SMT
<1>1. CASE Match(r)
  <2>1. CASE Settles(r, "skipped")
    BY <2>1, SettlesTypes
  <2>2. CASE Steps(r, "look", 1)
    BY <2>2, StepsTypes, SMT DEF Places
  <2>3. CASE idx[r] < Len(Members) /\ Steps(r, "match", idx[r] + 1)
    BY <1>0, <2>3, StepsTypes DEF Places
  <2> QED BY <1>1, <2>1, <2>2, <2>3 DEF Match
<1>2. CASE Look(r)
  BY <1>2, MovesTypes DEF Look, Places
<1>3. CASE Fetch(r)
  <2>1. CASE Breaks(r)
    BY <2>1, FailToolTypes DEF Breaks
  <2>2. CASE ~Breaks(r)
    <3>1. CASE /\ part' = [part EXCEPT ![r] = "torn"] /\ Goto(r, "save")
               /\ attempt' = [attempt EXCEPT ![r] = 1]
               /\ UNCHANGED <<plan, idx, listed, stale, place, blob, tree, stage, history>>
      <4>1. attempt' \in [Runs -> 1 .. Attempts]
        BY <3>1, InstallAssumption, SMT DEF TypeOK, RunsType
      <4>2. pc' \in [Runs -> Places] /\ HistoryType'
        BY <3>1, GotoTypes DEF Places
      <4>3. RunsType'
        BY <3>1, <4>1, <4>2 DEF plan, TypeOK, RunsType
      <4>4. FilesType'
        BY <3>1, SMT DEF place, TypeOK, FilesType
      <4> QED BY <4>2, <4>3, <4>4 DEF TypeOK
    <3>2. CASE /\ TriesLeft(r) /\ attempt' = [attempt EXCEPT ![r] = @ + 1]
               /\ UNCHANGED <<pc, plan, idx, listed, stale, place, cache, history>>
      <4>1. attempt' \in [Runs -> 1 .. Attempts]
        BY <3>2, InstallAssumption, SMT DEF TriesLeft, TypeOK, RunsType
      <4> QED BY <3>2, <4>1 DEF plan, place, cache, history, TypeOK, RunsType, FilesType, HistoryType
    <3> QED BY <1>3, <2>2, <3>1, <3>2 DEF Fetch
  <2> QED BY <2>1, <2>2
<1>4. CASE Save(r)
  <2>1. CASE Breaks(r)
    BY <2>1, FailToolTypes DEF Breaks
  <2>2. CASE ~Breaks(r)
    <3>0. PICK bytes \in {"good", "wrong"} :
            /\ part' = [part EXCEPT ![r] = bytes] /\ Goto(r, "publish")
            /\ UNCHANGED <<plan, call, place, blob, tree, stage, history>>
      BY <1>4, <2>2 DEF Save
    <3>1. RunsType' /\ HistoryType'
      BY <3>0, GotoTypes DEF Places
    <3>2. FilesType'
      BY <3>0, SMT DEF place, TypeOK, FilesType
    <3> QED BY <3>1, <3>2 DEF TypeOK
  <2> QED BY <2>1, <2>2
<1>5. CASE Publish(r)
  <2>1. CASE Breaks(r)
    BY <2>1, FailToolTypes DEF Breaks
  <2>2. CASE ~Breaks(r)
    <3>0. /\ part[r] = "good" /\ Goto(r, "open")
          /\ blob' = part[r] /\ part' = [part EXCEPT ![r] = "none"]
          /\ stale' = [q \in Runs |-> stale[q] \/ pc[q] \in {"close", "reclose"}]
          /\ UNCHANGED <<plan, idx, attempt, listed, place, tree, stage, history>>
      BY <1>5, <2>2 DEF Publish, Verified
    <3>a. stale' \in [Runs -> BOOLEAN]
      BY <3>0
    <3>b. pc' \in [Runs -> Places] /\ HistoryType'
      BY <3>0, GotoTypes DEF Places
    <3>1. RunsType' /\ HistoryType'
      BY <3>0, <3>a, <3>b DEF plan, TypeOK, RunsType
    <3>2. FilesType'
      BY <3>0, SMT DEF place, TypeOK, FilesType
    <3> QED BY <3>1, <3>2 DEF TypeOK
  <2> QED BY <2>1, <2>2
<1>6. CASE Validate(r) \/ Reopen(r)
  <2>1. CASE Fails(r)
    BY <2>1, FailToolTypes DEF Fails
  <2>2. CASE \E p \in {"close", "compare", "reclose", "write"} : Moves(r, p)
    BY <2>2, MovesTypes DEF Places
  <2> QED BY <1>6, <2>1, <2>2 DEF Validate, Reopen, OpenBlob, CloseBlob
<1>7. CASE Compare(r)
  <2>1. CASE Moves(r, "exists")
    BY <2>1, MovesTypes DEF Places
  <2>2. CASE idx[r] < Len(Members) /\ Steps(r, "compare", idx[r] + 1)
    BY <1>0, <2>2, StepsTypes DEF Places
  <2>3. CASE Steps(r, "verify", 1)
    BY <2>3, StepsTypes DEF Places
  <2> QED BY <1>7, <2>1, <2>2, <2>3 DEF Compare
<1>8. CASE Exists(r)
  BY <1>8, MovesTypes DEF Exists, Places
<1>9. CASE Unlink(r)
  <2>1. CASE Fails(r)
    BY <2>1, FailToolTypes DEF Fails
  <2>2. CASE UnlinkAt(r, Member(r), "reopen")
    BY <2>2, UnlinkAtTypes DEF Places
  <2> QED BY <1>9, <2>1, <2>2 DEF Unlink
<1>10. CASE Write(r)
  BY <1>10, CreateTempTypes DEF Write, Places
<1>11. CASE Finish(r)
  BY <1>11, FillTempTypes DEF Finish, Places
<1>12. CASE Replace(r)
  <2>1. CASE Fails(r)
    BY <2>1, FailToolTypes DEF Fails
  <2>2. CASE ~Fails(r)
    <3>1. ~Gone(r) /\ ReplaceAt(r, Member(r))
      BY <1>12, <2>2 DEF Replace
    <3>2. UNCHANGED <<tool, todo, status, attempt, listed, stale, made, retired, cache, met, faulted>>
      BY <1>12, <2>2, <3>1 DEF Replace, ReplaceAt
    <3>3. pc' \in [Runs -> Places] /\ idx' \in [Runs -> DOMAIN Members]
      <4>1. CASE idx[r] = Len(Members)
        <5>1. Goto(r, "verify") /\ idx' = [idx EXCEPT ![r] = 1]
          BY <1>12, <2>2, <4>1 DEF Replace
        <5> QED BY <5>1, GotoTypes DEF Places, TypeOK, RunsType
      <4>2. CASE idx[r] # Len(Members)
        <5>1. Goto(r, "compare") /\ idx' = [idx EXCEPT ![r] = @ + 1]
          BY <1>12, <2>2, <4>2 DEF Replace
        <5>2. idx[r] + 1 \in DOMAIN Members
          BY <1>0, <4>2, SMT
        <5> QED BY <5>1, <5>2, GotoTypes DEF Places, TypeOK, RunsType
      <4> QED BY <4>1, <4>2
    <3>4. RunsType'
      BY <3>2, <3>3 DEF TypeOK, RunsType
    <3>5. FilesType' /\ HistoryType'
      <4>1. Member(r) \in Paths
        OBVIOUS
      <4> QED BY <3>1, <3>2, <4>1, ReplaceAtTypes DEF cache, TypeOK, FilesType, HistoryType
    <3> QED BY <3>4, <3>5 DEF TypeOK
  <2> QED BY <2>1, <2>2
<1>13. CASE Verify(r)
  <2>1. CASE Fails(r)
    BY <2>1, FailToolTypes DEF Fails
  <2>2. CASE idx[r] < Len(Members) /\ Steps(r, "verify", idx[r] + 1)
    BY <1>0, <2>2, StepsTypes DEF Places
  <2>3. CASE Settles(r, "installed")
    BY <2>3, SettlesTypes
  <2> QED BY <1>13, <2>1, <2>2, <2>3 DEF Verify
<1> QED BY <1>1, <1>2, <1>3, <1>4, <1>5, <1>6, <1>7, <1>8, <1>9, <1>10, <1>11, <1>12, <1>13
        DEF ArchiveStep

(* Every step on the program built from source keeps the types.            *)
LEMMA TypeOfTheSource ==
  ASSUME NEW r \in Runs, TypeOK, pc[r] = "swap" => stage[r] = "whole", SourceStep(r)
  PROVE  TypeOK'
<1> USE MembersFacts
<1>1. CASE Present(r)
  <2>1. CASE Settles(r, "skipped")
    BY <2>1, SettlesTypes
  <2>2. CASE ~Settles(r, "skipped")
    BY <1>1, <2>2, MovesTypes DEF Present, Places
  <2> QED BY <2>1, <2>2
<1>2. CASE Stage(r)
  <2>1. RunsType' /\ HistoryType'
    BY <1>2, SMT DEF Stage, Goto, plan, call, history, TypeOK, RunsType, HistoryType, Places
  <2>2. FilesType'
    BY <1>2, SMT DEF Stage, place, TypeOK, FilesType
  <2> QED BY <2>1, <2>2 DEF TypeOK
<1>3. CASE Build(r)
  <2>1. CASE Breaks(r)
    BY <2>1, FailToolTypes DEF Breaks
  <2>2. CASE Aborts(r) /\ Blamed(r)
    BY <2>2, AbortsTypes
  <2>3. CASE ~Breaks(r) /\ ~(Aborts(r) /\ Blamed(r))
    <3>0. /\ stage' = [stage EXCEPT ![r] = "whole"] /\ Goto(r, "clear")
          /\ UNCHANGED <<plan, call, place, blob, part, tree, history>>
      BY <1>3, <2>3 DEF Build
    <3>1. RunsType' /\ HistoryType'
      BY <3>0, GotoTypes DEF Places
    <3>2. FilesType'
      BY <3>0, SMT DEF place, TypeOK, FilesType
    <3> QED BY <3>1, <3>2 DEF TypeOK
  <2> QED BY <2>1, <2>2, <2>3
<1>4. CASE Clear(r)
  <2>1. CASE Moves(r, "swap")
    BY <2>1, MovesTypes DEF Places
  <2>2. CASE ~Moves(r, "swap")
    <3>0. /\ Goto(r, "clearing")
          /\ tree' \in {"torn"} \cup (IF Usable THEN {"crumbling"} ELSE {})
          /\ UNCHANGED <<plan, call, place, blob, part, stage, history>>
      BY <1>4, <2>2 DEF Clear
    <3>1. RunsType' /\ HistoryType'
      BY <3>0, GotoTypes DEF Places
    <3>2. tree' \in {"torn", "crumbling"}
      BY <3>0
    <3> QED BY <3>0, <3>1, <3>2 DEF place, TypeOK, FilesType
  <2> QED BY <2>1, <2>2
<1>5. CASE Clearing(r)
  <2>1. CASE Fails(r)
    BY <2>1, FailToolTypes DEF Fails
  <2>2. CASE ~Fails(r)
    <3>0. /\ tree' = "absent" /\ Goto(r, "swap")
          /\ stale' = [q \in Runs |-> stale[q] \/ (q # r /\ At(q, "clearing"))]
          /\ UNCHANGED <<plan, idx, attempt, listed, place, blob, part, stage, history>>
      BY <1>5, <2>2 DEF Clearing
    <3>a. stale' \in [Runs -> BOOLEAN]
      BY <3>0
    <3>b. pc' \in [Runs -> Places] /\ HistoryType'
      BY <3>0, GotoTypes DEF Places
    <3>1. RunsType' /\ HistoryType'
      BY <3>0, <3>a, <3>b DEF plan, TypeOK, RunsType
    <3>2. FilesType'
      BY <3>0, SMT DEF place, TypeOK, FilesType
    <3> QED BY <3>1, <3>2 DEF TypeOK
  <2> QED BY <2>1, <2>2
<1>6. CASE Swap(r)
  <2>1. CASE Fails(r)
    BY <2>1, FailToolTypes DEF Fails
  <2>2. CASE ~Fails(r)
    <3>0. /\ Goto(r, "confirm") /\ tree' = stage[r] /\ stage' = [stage EXCEPT ![r] = "none"]
          /\ UNCHANGED <<plan, call, place, blob, part, history>>
      BY <1>6, <2>2 DEF Swap
    <3>1. RunsType' /\ HistoryType'
      BY <3>0, GotoTypes DEF Places
    <3>2. tree' = "whole"
      BY <1>6, <3>0 DEF Swap, At
    <3>3. stage' \in [Runs -> {"none", "partial", "whole"}]
      BY <3>0 DEF TypeOK, FilesType
    <3> QED BY <3>0, <3>1, <3>2, <3>3 DEF place, TypeOK, FilesType
  <2> QED BY <2>1, <2>2
<1>7. CASE Confirm(r)
  <2>1. CASE Fails(r)
    BY <2>1, FailToolTypes DEF Fails
  <2>2. CASE Moves(r, "binary")
    BY <2>2, MovesTypes DEF Places
  <2> QED BY <1>7, <2>1, <2>2 DEF Confirm
<1>8. CASE OpenBinary(r)
  <2>1. CASE Fails(r)
    BY <2>1, FailToolTypes DEF Fails
  <2>2. CASE CreateTemp(r, Source, "fill")
    BY <2>2, CreateTempTypes DEF Places
  <2> QED BY <1>8, <2>1, <2>2 DEF OpenBinary
<1>9. CASE Fill(r)
  BY <1>9, FillTempTypes DEF Fill, Places
<1>10. CASE Sweep(r)
  <2>1. CASE Fails(r)
    BY <2>1, FailToolTypes DEF Fails
  <2>2. CASE ~Fails(r)
    BY <1>10, <2>2, MovesTypes DEF Sweep, Places
  <2> QED BY <2>1, <2>2
<1>11. CASE Unname(r)
  <2>1. CASE Fails(r)
    BY <2>1, FailToolTypes DEF Fails
  <2>2. CASE UnlinkAt(r, Source, "place")
    BY <2>2, UnlinkAtTypes DEF Places
  <2> QED BY <1>11, <2>1, <2>2 DEF Unname
<1>12. CASE Place(r)
  <2>1. CASE Fails(r)
    BY <2>1, FailToolTypes DEF Fails
  <2>2. CASE ~Fails(r)
    <3>1. ~Gone(r) /\ ReplaceAt(r, Source) /\ Goto(r, "next") /\ UNCHANGED idx
          /\ status' = [status EXCEPT ![r]["source"] = "installed"]
      BY <1>12, <2>2 DEF Place
    <3>2. status' \in [Runs -> [Tools -> {"none", "skipped", "installed", "failed"}]]
      BY <3>1, StatusTypes DEF Tools
    <3>a. UNCHANGED <<tool, todo, attempt, listed, stale, made, retired, cache, met, faulted>>
      BY <3>1 DEF ReplaceAt
    <3>b. pc' \in [Runs -> Places]
      BY <3>1, GotoTypes DEF Places
    <3>3. RunsType'
      BY <3>1, <3>a, <3>b, <3>2 DEF TypeOK, RunsType
    <3>4. FilesType' /\ HistoryType'
      BY <3>1, <3>a, ReplaceAtTypes DEF cache, TypeOK, FilesType, HistoryType
    <3> QED BY <3>3, <3>4 DEF TypeOK
  <2> QED BY <2>1, <2>2
<1> QED BY <1>1, <1>2, <1>3, <1>4, <1>5, <1>6, <1>7, <1>8, <1>9, <1>10, <1>11, <1>12
        DEF SourceStep


-----------------------------------------------------------------------------
(* What a run's temporary files hold                                       *)

\* The places at which a run may have a file, a download or a tree under a
\* temporary name; a killed run may have left any of them.
FilePlaces == {"finish", "replace", "fill", "sweep", "unname", "place", "killed"}
PartPlaces == {"save", "publish", "killed"}
StagePlaces == {"build", "clear", "clearing", "swap", "killed"}

\* A run has a temporary name only while it works on it, and what it is about
\* to give its final name is complete.
Own(r) ==
  /\ temp[r].holds # "none" => pc[r] \in FilePlaces
  /\ part[r] # "none" => pc[r] \in PartPlaces
  /\ stage[r] # "none" => pc[r] \in StagePlaces
  /\ pc[r] \in {"replace", "sweep", "unname", "place"} => temp[r].holds # "torn"
  /\ pc[r] \in {"clear", "clearing", "swap"} => stage[r] = "whole"

OwnInv == \A r \in Runs : Own(r)

\* A step of r leaves the other runs' names alone, but for a prune, which takes
\* away files in the tool root.
Apart(r) ==
  \A q \in Runs \ {r} :
    /\ pc'[q] = pc[q] /\ part'[q] = part[q] /\ stage'[q] = stage[q]
    /\ temp'[q] = temp[q] \/ temp'[q] = NoTemp

(* Initially no run has a temporary file.                                  *)
LEMMA OwnInit == Init => OwnInv
BY SMT DEF Init, OwnInv, Own, NoTemp

(* A run that only moves keeps what it holds.                              *)
LEMMA MovesOwn ==
  ASSUME NEW r \in Runs, TypeOK, Own(r), NEW p, Moves(r, p),
         pc[r] \notin FilePlaces \cup PartPlaces \cup StagePlaces,
         p \notin {"replace", "sweep", "unname", "place", "clear", "clearing", "swap"}
  PROVE  Own(r)' /\ Apart(r)
BY SMT DEF Moves, Goto, Own, Apart, TypeOK, RunsType, place, cache

(* A step that moves the index keeps what the run holds.                   *)
LEMMA StepsOwn ==
  ASSUME NEW r \in Runs, TypeOK, Own(r), NEW p, NEW i, Steps(r, p, i),
         pc[r] \notin FilePlaces \cup PartPlaces \cup StagePlaces,
         p \notin {"replace", "sweep", "unname", "place", "clear", "clearing", "swap"}
  PROVE  Own(r)' /\ Apart(r)
BY SMT DEF Steps, Goto, Own, Apart, TypeOK, RunsType, place, cache

(* A run that goes on or ends after its finally clauses holds nothing.     *)
LEMMA TidyOwn ==
  ASSUME NEW r \in Runs, TypeOK, Tidy(r), NEW p \in {"next", "aborted"}, Goto(r, p)
  PROVE  Own(r)' /\ Apart(r)
BY SMT DEF Tidy, Goto, Own, Apart, TypeOK, RunsType, FilesType, NoTemp

(* A tool that is reported leaves nothing under a temporary name.          *)
LEMMA SettlesOwn ==
  ASSUME NEW r \in Runs, TypeOK, Own(r), NEW s, Settles(r, s),
         pc[r] \notin FilePlaces \cup PartPlaces \cup StagePlaces
  PROVE  Own(r)' /\ Apart(r)
BY SMT DEF Settles, Goto, Own, Apart, TypeOK, RunsType, place, cache

(* A step of a run keeps what it holds and leaves the others apart.        *)
LEMMA OwnOfTheRun ==
  ASSUME NEW r \in Runs, TypeOK, Own(r),
         \/ Start(r) \/ EnsureRoot(r) \/ MakeRoot(r) \/ ScanRoot(r) \/ VisitNodes(r) \/ Prune(r)
         \/ NextTool(r) \/ Kill(r)
  PROVE  Own(r)' /\ Apart(r)
<1> USE DEF FilePlaces, PartPlaces, StagePlaces
<1>1. CASE Start(r)
  BY <1>1, SMT DEF Start, At, Goto, Own, Apart, TypeOK, RunsType, place, cache
<1>2. CASE EnsureRoot(r)
  BY <1>2, MovesOwn DEF EnsureRoot, At
<1>3. CASE MakeRoot(r)
  <2>1. CASE made
    BY <1>3, <2>1, TidyOwn DEF MakeRoot, Aborts
  <2>2. CASE ~made
    <3>1. At(r, "mkdir") /\ Goto(r, "scan") /\ UNCHANGED <<temp, cache>>
      BY <1>3, <2>2 DEF MakeRoot
    <3> QED BY <3>1, SMT DEF At, Goto, Own, Apart, TypeOK, RunsType, cache
  <2> QED BY <2>1, <2>2
<1>4. CASE ScanRoot(r)
  <2>1. At(r, "scan") /\ Goto(r, "visit") /\ UNCHANGED <<place, cache>>
    BY <1>4 DEF ScanRoot
  <2> QED BY <2>1, SMT DEF At, Goto, Own, Apart, TypeOK, RunsType, place, cache
<1>8. CASE VisitNodes(r)
  <2>1. CASE Aborts(r)
    BY <2>1, TidyOwn DEF Aborts
  <2>2. CASE ~Aborts(r)
    <3>1. At(r, "visit") /\ Goto(r, "prune") /\ UNCHANGED <<place, cache>>
      BY <1>8, <2>2 DEF VisitNodes
    <3> QED BY <3>1, SMT DEF At, Goto, Own, Apart, TypeOK, RunsType, place, cache
  <2> QED BY <2>1, <2>2
<1>5. CASE Prune(r)
  <2>0. pc[r] = "prune"
    BY <1>5 DEF Prune, At
  <2>1. CASE Moves(r, "next")
    BY <2>0, <2>1, MovesOwn
  <2>2. ASSUME NEW n \in listed[r], PruneNode(r, n) PROVE Own(r)' /\ Apart(r)
    <3>1. CASE Aborts(r)
      BY <3>1, TidyOwn DEF Aborts
    <3>2. CASE ~Aborts(r)
      <4>1. /\ temp' = [q \in Runs |-> IF q = n[1] THEN NoTemp ELSE temp[q]]
            /\ UNCHANGED <<pc, cache>>
        BY <2>2, <3>2 DEF PruneNode
      <4> QED BY <4>1, <2>0, SMT DEF Own, Apart, NoTemp, cache
    <3> QED BY <3>1, <3>2
  <2> QED BY <1>5, <2>1, <2>2 DEF Prune
<1>6. CASE NextTool(r)
  <2>0. pc[r] = "next"
    BY <1>6 DEF NextTool, At
  <2>1. CASE Moves(r, "done")
    BY <2>0, <2>1, MovesOwn
  <2>2. CASE ~Moves(r, "done")
    <3>1. \E t \in todo[r] : Goto(r, IF t = "archive" THEN "match" ELSE "present")
                             /\ UNCHANGED <<place, cache>>
      BY <1>6, <2>2 DEF NextTool
    <3> QED BY <2>0, <3>1, SMT DEF Goto, Own, Apart, TypeOK, RunsType, place, cache
  <2> QED BY <2>1, <2>2
<1>7. CASE Kill(r)
  <2>1. Goto(r, "killed") /\ UNCHANGED <<place, cache>>
    BY <1>7 DEF Kill
  <2> QED BY <2>1, SMT DEF Goto, Own, Apart, TypeOK, RunsType, place, cache
<1> QED BY <1>1, <1>2, <1>3, <1>4, <1>5, <1>6, <1>7, <1>8

(* A tool that fails leaves nothing under a temporary name.                *)
LEMMA FailToolOwn ==
  ASSUME NEW r \in Runs, TypeOK, FailTool(r)
  PROVE  Own(r)' /\ Apart(r)
BY TidyOwn DEF FailTool

(* A step on the archive keeps what the run holds.                         *)
LEMMA OwnOfTheArchive ==
  ASSUME NEW r \in Runs, TypeOK, Own(r), ArchiveStep(r)
  PROVE  Own(r)' /\ Apart(r)
<1> USE DEF FilePlaces, PartPlaces, StagePlaces
<1>0. ASSUME Fails(r) \/ Breaks(r) PROVE Own(r)' /\ Apart(r)
  BY <1>0, FailToolOwn DEF Fails, Breaks
<1>1. CASE Match(r)
  <2>0. pc[r] = "match"
    BY <1>1 DEF Match, At
  <2>1. CASE Settles(r, "skipped")
    BY <2>0, <2>1, SettlesOwn
  <2>2. CASE ~Settles(r, "skipped")
    BY <1>1, <2>0, <2>2, StepsOwn DEF Match
  <2> QED BY <2>1, <2>2
<1>2. CASE Look(r)
  BY <1>2, MovesOwn DEF Look, At
<1>3. CASE Fetch(r)
  <2>0. pc[r] = "fetch"
    BY <1>3 DEF Fetch, At
  <2>1. CASE Breaks(r)
    BY <2>1, <1>0
  <2>2. CASE part' = [part EXCEPT ![r] = "torn"] /\ Goto(r, "save") /\ UNCHANGED <<place, blob, tree, stage>>
    BY <2>0, <2>2, SMT DEF Goto, Own, Apart, TypeOK, RunsType, FilesType, place
  <2>3. CASE UNCHANGED <<pc, place, cache>>
    BY <2>3, SMT DEF Own, Apart, place, cache
  <2> QED BY <1>3, <2>1, <2>2, <2>3 DEF Fetch
<1>4. CASE Save(r)
  <2>0. pc[r] = "save"
    BY <1>4 DEF Save, At
  <2>1. CASE Breaks(r)
    BY <2>1, <1>0
  <2>2. CASE ~Breaks(r)
    <3>1. PICK bytes \in {"good", "wrong"} :
            part' = [part EXCEPT ![r] = bytes] /\ Goto(r, "publish") /\ UNCHANGED <<place, stage>>
      BY <1>4, <2>2 DEF Save
    <3> QED BY <2>0, <3>1, SMT DEF Goto, Own, Apart, TypeOK, RunsType, FilesType, place
  <2> QED BY <2>1, <2>2
<1>5. CASE Publish(r)
  <2>1. CASE Breaks(r)
    BY <2>1, <1>0
  <2>2. CASE ~Breaks(r)
    <3>1. pc[r] = "publish" /\ Goto(r, "open") /\ part' = [part EXCEPT ![r] = "none"]
          /\ UNCHANGED <<place, stage>>
      BY <1>5, <2>2 DEF Publish, At
    <3> QED BY <3>1, SMT DEF Goto, Own, Apart, TypeOK, RunsType, FilesType, place
  <2> QED BY <2>1, <2>2
<1>6. CASE Validate(r) \/ Reopen(r)
  <2>0. pc[r] \in {"open", "close", "reopen", "reclose"}
    BY <1>6 DEF Validate, Reopen, OpenBlob, CloseBlob, At
  <2>1. CASE Fails(r)
    BY <2>1, <1>0
  <2>2. CASE \E p \in {"close", "compare", "reclose", "write"} : Moves(r, p)
    BY <2>0, <2>2, MovesOwn
  <2> QED BY <1>6, <2>1, <2>2 DEF Validate, Reopen, OpenBlob, CloseBlob
<1>7. CASE Compare(r)
  <2>0. pc[r] = "compare"
    BY <1>7 DEF Compare, At
  <2> QED BY <1>7, <2>0, MovesOwn, StepsOwn DEF Compare
<1>8. CASE Exists(r)
  BY <1>8, MovesOwn DEF Exists, At
<1>9. CASE Unlink(r)
  <2>1. CASE Fails(r)
    BY <2>1, <1>0
  <2>2. CASE UnlinkAt(r, Member(r), "reopen")
    <3>1. pc[r] = "unlink" /\ Goto(r, "reopen") /\ UNCHANGED <<temp, cache>>
      BY <1>9, <2>2 DEF Unlink, UnlinkAt, At
    <3> QED BY <3>1, SMT DEF Goto, Own, Apart, TypeOK, RunsType, cache
  <2> QED BY <1>9, <2>1, <2>2 DEF Unlink
<1>10. CASE Write(r)
  <2>1. pc[r] = "write" /\ temp' = [temp EXCEPT ![r] = [path |-> Member(r), holds |-> "torn"]]
        /\ Goto(r, "finish") /\ UNCHANGED cache
    BY <1>10 DEF Write, CreateTemp, At
  <2> QED BY <2>1, SMT DEF Goto, Own, Apart, TypeOK, RunsType, FilesType, cache
<1>11. CASE Finish(r)
  <2>1. CASE Breaks(r)
    BY <2>1, <1>0
  <2>2. CASE ~Breaks(r)
    <3>1. /\ pc[r] = "finish" /\ Goto(r, "replace") /\ UNCHANGED cache
          /\ temp' = [temp EXCEPT ![r].holds = IF @ = "none" THEN "none" ELSE "good"]
      BY <1>11, <2>2 DEF Finish, FillTemp, At
    <3> QED BY <3>1, SMT DEF Goto, Own, Apart, TypeOK, RunsType, FilesType, cache
  <2> QED BY <2>1, <2>2
<1>12. CASE Replace(r)
  <2>1. CASE Fails(r)
    BY <2>1, <1>0
  <2>2. CASE ~Fails(r)
    <3>1. /\ pc[r] = "replace" /\ (Goto(r, "verify") \/ Goto(r, "compare"))
          /\ temp' = [temp EXCEPT ![r] = NoTemp] /\ UNCHANGED cache
      BY <1>12, <2>2 DEF Replace, ReplaceAt, At
    <3> QED BY <3>1, SMT DEF Goto, Own, Apart, NoTemp, TypeOK, RunsType, FilesType, cache
  <2> QED BY <2>1, <2>2
<1>13. CASE Verify(r)
  <2>0. pc[r] = "verify"
    BY <1>13 DEF Verify, At
  <2>1. CASE Fails(r)
    BY <2>1, <1>0
  <2>2. CASE Settles(r, "installed")
    BY <2>0, <2>2, SettlesOwn
  <2>3. CASE ~Fails(r) /\ ~Settles(r, "installed")
    BY <1>13, <2>0, <2>3, StepsOwn DEF Verify
  <2> QED BY <2>1, <2>2, <2>3
<1> QED BY <1>1, <1>2, <1>3, <1>4, <1>5, <1>6, <1>7, <1>8, <1>9, <1>10, <1>11, <1>12, <1>13
        DEF ArchiveStep

(* A step on the program built from source keeps what the run holds.       *)
LEMMA OwnOfTheSource ==
  ASSUME NEW r \in Runs, TypeOK, Own(r), SourceStep(r)
  PROVE  Own(r)' /\ Apart(r)
<1> USE DEF FilePlaces, PartPlaces, StagePlaces
<1>0. ASSUME Fails(r) \/ Breaks(r) PROVE Own(r)' /\ Apart(r)
  BY <1>0, FailToolOwn DEF Fails, Breaks
<1>1. CASE Present(r)
  <2>0. pc[r] = "present"
    BY <1>1 DEF Present, At
  <2>1. CASE Settles(r, "skipped")
    BY <2>0, <2>1, SettlesOwn
  <2>2. CASE ~Settles(r, "skipped")
    BY <1>1, <2>0, <2>2, MovesOwn DEF Present
  <2> QED BY <2>1, <2>2
<1>2. CASE Stage(r)
  <2>1. pc[r] = "stage" /\ Goto(r, "build") /\ stage' = [stage EXCEPT ![r] = "partial"]
        /\ UNCHANGED <<place, part>>
    BY <1>2 DEF Stage, At
  <2> QED BY <2>1, SMT DEF Goto, Own, Apart, TypeOK, RunsType, FilesType, place
<1>3. CASE Build(r)
  <2>1. CASE Breaks(r)
    BY <2>1, <1>0
  <2>2. CASE Aborts(r)
    BY <2>2, TidyOwn DEF Aborts
  <2>3. CASE ~Breaks(r) /\ ~Aborts(r)
    <3>1. pc[r] = "build" /\ Goto(r, "clear") /\ stage' = [stage EXCEPT ![r] = "whole"]
          /\ UNCHANGED <<place, part>>
      BY <1>3, <2>3 DEF Build, At
    <3> QED BY <3>1, SMT DEF Goto, Own, Apart, TypeOK, RunsType, FilesType, place
  <2> QED BY <2>1, <2>2, <2>3
<1>4. CASE Clear(r)
  <2>1. pc[r] = "clear" /\ (Goto(r, "swap") \/ Goto(r, "clearing"))
        /\ UNCHANGED <<place, part, stage>>
    BY <1>4 DEF Clear, Moves, At, cache
  <2> QED BY <2>1, SMT DEF Goto, Own, Apart, TypeOK, RunsType, place
<1>5. CASE Clearing(r)
  <2>1. CASE Fails(r)
    BY <2>1, <1>0
  <2>2. CASE ~Fails(r)
    <3>1. pc[r] = "clearing" /\ Goto(r, "swap") /\ UNCHANGED <<place, part, stage>>
      BY <1>5, <2>2 DEF Clearing, At
    <3> QED BY <3>1, SMT DEF Goto, Own, Apart, TypeOK, RunsType, place
  <2> QED BY <2>1, <2>2
<1>6. CASE Swap(r)
  <2>1. CASE Fails(r)
    BY <2>1, <1>0
  <2>2. CASE ~Fails(r)
    <3>1. pc[r] = "swap" /\ Goto(r, "confirm") /\ stage' = [stage EXCEPT ![r] = "none"]
          /\ UNCHANGED <<place, part>>
      BY <1>6, <2>2 DEF Swap, At
    <3> QED BY <3>1, SMT DEF Goto, Own, Apart, TypeOK, RunsType, FilesType, place
  <2> QED BY <2>1, <2>2
<1>7. CASE Confirm(r)
  BY <1>0, <1>7, MovesOwn DEF Confirm, At
<1>8. CASE OpenBinary(r)
  <2>1. CASE Fails(r)
    BY <2>1, <1>0
  <2>2. CASE ~Fails(r)
    <3>1. pc[r] = "binary" /\ temp' = [temp EXCEPT ![r] = [path |-> Source, holds |-> "torn"]]
          /\ Goto(r, "fill") /\ UNCHANGED cache
      BY <1>8, <2>2 DEF OpenBinary, CreateTemp, At
    <3> QED BY <3>1, SMT DEF Goto, Own, Apart, TypeOK, RunsType, FilesType, cache
  <2> QED BY <2>1, <2>2
<1>9. CASE Fill(r)
  <2>1. CASE Breaks(r)
    BY <2>1, <1>0
  <2>2. CASE ~Breaks(r)
    <3>1. /\ pc[r] = "fill" /\ Goto(r, "sweep") /\ UNCHANGED cache
          /\ temp' = [temp EXCEPT ![r].holds = IF @ = "none" THEN "none" ELSE "good"]
      BY <1>9, <2>2 DEF Fill, FillTemp, At
    <3> QED BY <3>1, SMT DEF Goto, Own, Apart, TypeOK, RunsType, FilesType, cache
  <2> QED BY <2>1, <2>2
<1>10. CASE Sweep(r)
  <2>1. CASE Fails(r)
    BY <2>1, <1>0
  <2>2. CASE ~Fails(r)
    <3>1. pc[r] = "sweep" /\ (Goto(r, "place") \/ Goto(r, "unname"))
          /\ UNCHANGED <<place, cache>>
      BY <1>10, <2>2 DEF Sweep, Moves, At
    <3> QED BY <3>1, SMT DEF Goto, Own, Apart, TypeOK, RunsType, place, cache
  <2> QED BY <2>1, <2>2
<1>11. CASE Unname(r)
  <2>1. CASE Fails(r)
    BY <2>1, <1>0
  <2>2. CASE ~Fails(r)
    <3>1. pc[r] = "unname" /\ Goto(r, "place") /\ UNCHANGED <<temp, cache>>
      BY <1>11, <2>2 DEF Unname, UnlinkAt, At
    <3> QED BY <3>1, SMT DEF Goto, Own, Apart, TypeOK, RunsType, cache
  <2> QED BY <2>1, <2>2
<1>12. CASE Place(r)
  <2>1. CASE Fails(r)
    BY <2>1, <1>0
  <2>2. CASE ~Fails(r)
    <3>1. Goto(r, "next") /\ temp' = [temp EXCEPT ![r] = NoTemp] /\ UNCHANGED cache /\ pc[r] = "place"
      BY <1>12, <2>2 DEF Place, ReplaceAt, At
    <3> QED BY <3>1, SMT DEF Goto, Own, Apart, NoTemp, TypeOK, RunsType, FilesType, cache
  <2> QED BY <2>1, <2>2
<1> QED BY <1>1, <1>2, <1>3, <1>4, <1>5, <1>6, <1>7, <1>8, <1>9, <1>10, <1>11, <1>12
        DEF SourceStep

(* Every step keeps the types and what each run holds.                     *)
LEMMA TypesNext == TypeOK /\ OwnInv /\ [Next]_vars => TypeOK' /\ OwnInv'
<1> SUFFICES ASSUME TypeOK, OwnInv, [Next]_vars PROVE TypeOK' /\ OwnInv'
  OBVIOUS
<1>1. CASE UNCHANGED vars
  <2>1. TypeOK'
    BY <1>1 DEF vars, plan, call, place, cache, history, TypeOK, RunsType, FilesType, HistoryType
  <2>2. OwnInv'
    BY <1>1 DEF vars, place, cache, OwnInv, Own
  <2> QED BY <2>1, <2>2
<1>2. ASSUME NEW r \in Runs, Start(r) \/ RunStep(r) \/ Kill(r) PROVE TypeOK' /\ OwnInv'
  <2>1. Own(r)
    BY DEF OwnInv
  <2>2. TypeOK'
    BY <1>2, <2>1, TypeOfTheRun, TypeOfTheArchive, TypeOfTheSource DEF RunStep, Own
  <2>3. Own(r)' /\ Apart(r)
    BY <1>2, <2>1, OwnOfTheRun, OwnOfTheArchive, OwnOfTheSource DEF RunStep
  <2>4. ASSUME NEW q \in Runs \ {r} PROVE Own(q)'
    <3>1. Own(q)
      BY DEF OwnInv
    <3> QED BY <2>3, <3>1, SMT DEF Apart, Own, NoTemp, FilePlaces
  <2> QED BY <2>2, <2>3, <2>4 DEF OwnInv
<1> QED BY <1>1, <1>2 DEF Next

(* The types and what each run holds are an inductive invariant.           *)
LEMMA TypesCorrect == Spec => [](TypeOK /\ OwnInv)
<1>1. Init => TypeOK /\ OwnInv
  BY TypeInit, OwnInit
<1> QED BY <1>1, TypesNext, PTL DEF Spec

(* TypeOK: every variable stays in its range, for any runs, archive and    *)
(* number of download attempts.                                            *)
THEOREM TypeOKCorrect == Spec => []TypeOK
BY TypesCorrect, PTL

(* NoResidue: no run that ended by itself leaves a temporary file, download *)
(* or tree: at "done" and "aborted" Own leaves it none.                    *)
THEOREM NoResidueCorrect == Spec => []NoResidue
<1>1. TypeOK /\ OwnInv => NoResidue
  BY SMT DEF OwnInv, Own, NoResidue, FilePlaces, PartPlaces, StagePlaces
<1> QED BY <1>1, TypesCorrect, PTL

(* The steps that fail, move or settle leave the final names alone.        *)
LEMMA QuietStep ==
  ASSUME NEW r \in Runs, NEW p, NEW s, NEW i,
         Fails(r) \/ Breaks(r) \/ Aborts(r) \/ Moves(r, p) \/ Settles(r, s) \/ Steps(r, p, i)
  PROVE  UNCHANGED <<root, blob, tree>>
BY DEF Fails, Breaks, FailTool, Aborts, Moves, Settles, Steps, place, cache

(* NothingTorn is kept: only a complete file, download or tree is given its *)
(* final name.                                                             *)
LEMMA NothingTornNext ==
  ASSUME TypeOK, OwnInv, NothingTorn, NEW r \in Runs, Start(r) \/ RunStep(r) \/ Kill(r)
  PROVE  NothingTorn'
<1>1. Own(r)
  BY DEF OwnInv
<1>2. CASE UNCHANGED <<root, blob, tree>>
  BY <1>2 DEF NothingTorn
<1>3. ASSUME NEW p \in Paths, NEW n, UnlinkAt(r, p, n) PROVE NothingTorn'
  BY <1>3, SMT DEF UnlinkAt, cache, NothingTorn, TypeOK, FilesType
<1>4. ASSUME NEW p \in Paths, ReplaceAt(r, p), temp[r].holds # "torn" PROVE NothingTorn'
  BY <1>4, SMT DEF ReplaceAt, cache, NothingTorn, TypeOK, FilesType
<1>5. CASE Start(r) \/ Kill(r) \/ EnsureRoot(r) \/ MakeRoot(r) \/ ScanRoot(r) \/ VisitNodes(r) \/ Prune(r) \/ NextTool(r)
  <2>1. UNCHANGED <<root, blob, tree>>
    BY <1>5, QuietStep DEF Start, Kill, EnsureRoot, MakeRoot, ScanRoot, VisitNodes, Prune, PruneNode,
         NextTool, place, cache
  <2> QED BY <1>2, <2>1
<1>6. CASE ArchiveStep(r)
  <2>1. CASE Match(r) \/ Look(r) \/ Validate(r) \/ Compare(r) \/ Exists(r) \/ Reopen(r) \/ Verify(r)
    <3>1. UNCHANGED <<root, blob, tree>>
      BY <2>1, QuietStep DEF Match, Look, Validate, Compare, Exists, Reopen, Verify, OpenBlob, CloseBlob
    <3> QED BY <1>2, <3>1
  <2>2. CASE Fetch(r) \/ Save(r) \/ Write(r) \/ Finish(r)
    <3>1. UNCHANGED <<root, blob, tree>>
      BY <2>2, QuietStep DEF Fetch, Save, Write, Finish, CreateTemp, FillTemp, place, cache
    <3> QED BY <1>2, <3>1
  <2>3. CASE Publish(r)
    <3>1. CASE Breaks(r)
      BY <1>2, <3>1, QuietStep
    <3>2. CASE ~Breaks(r)
      <4>1. blob' = "good" /\ UNCHANGED <<root, tree>>
        BY <2>3, <3>2 DEF Publish, Verified, place
      <4> QED BY <4>1 DEF NothingTorn
    <3> QED BY <3>1, <3>2
  <2>4. CASE Unlink(r)
    BY <1>2, <1>3, <2>4, MemberIsPath, QuietStep DEF Unlink
  <2>5. CASE Replace(r)
    <3>1. CASE Fails(r)
      BY <1>2, <3>1, QuietStep
    <3>2. CASE ~Fails(r)
      <4>1. ReplaceAt(r, Member(r)) /\ temp[r].holds # "torn"
        BY <1>1, <2>5, <3>2 DEF Replace, Own, At
      <4> QED BY <1>4, <4>1, MemberIsPath
    <3> QED BY <3>1, <3>2
  <2> QED BY <1>6, <2>1, <2>2, <2>3, <2>4, <2>5 DEF ArchiveStep
<1>7. CASE SourceStep(r)
  <2>1. CASE Present(r) \/ Stage(r) \/ Build(r) \/ Confirm(r) \/ OpenBinary(r) \/ Fill(r) \/ Sweep(r)
    <3>1. UNCHANGED <<root, blob, tree>>
      BY <2>1, QuietStep DEF Present, Stage, Build, Confirm, OpenBinary, Fill, Sweep, CreateTemp,
         FillTemp, place, cache
    <3> QED BY <1>2, <3>1
  <2>2. CASE Clear(r)
    <3>1. CASE Moves(r, "swap")
      BY <1>2, <3>1, QuietStep
    <3>2. CASE ~Moves(r, "swap")
      <4>1. tree' \in {"torn"} \cup (IF Usable THEN {"crumbling"} ELSE {}) /\ UNCHANGED <<root, blob>>
        BY <2>2, <3>2 DEF Clear, place
      <4> QED BY <4>1 DEF NothingTorn
    <3> QED BY <3>1, <3>2
  <2>3. CASE Clearing(r)
    <3>1. CASE Fails(r)
      BY <1>2, <3>1, QuietStep
    <3>2. CASE ~Fails(r)
      <4>1. tree' = "absent" /\ UNCHANGED <<root, blob>>
        BY <2>3, <3>2 DEF Clearing, place
      <4> QED BY <4>1 DEF NothingTorn
    <3> QED BY <3>1, <3>2
  <2>4. CASE Swap(r)
    <3>1. CASE Fails(r)
      BY <1>2, <3>1, QuietStep
    <3>2. CASE ~Fails(r)
      <4>1. tree' = "whole" /\ UNCHANGED <<root, blob>>
        BY <1>1, <2>4, <3>2 DEF Swap, Own, At, place
      <4> QED BY <4>1 DEF NothingTorn
    <3> QED BY <3>1, <3>2
  <2>5. CASE Unname(r)
    BY <1>2, <1>3, <2>5, MembersFacts, QuietStep DEF Unname
  <2>6. CASE Place(r)
    <3>1. CASE Fails(r)
      BY <1>2, <3>1, QuietStep
    <3>2. CASE ~Fails(r)
      <4>1. ReplaceAt(r, Source) /\ temp[r].holds # "torn"
        BY <1>1, <2>6, <3>2 DEF Place, Own, At
      <4> QED BY <1>4, <4>1, MembersFacts
    <3> QED BY <3>1, <3>2
  <2> QED BY <1>7, <2>1, <2>2, <2>3, <2>4, <2>5, <2>6 DEF SourceStep
<1> QED BY <1>5, <1>6, <1>7 DEF RunStep

(* NothingTorn: whatever runs are killed, pruned or raced, a final name     *)
(* never leads to bytes that were not completely written and compared.     *)
THEOREM NothingTornCorrect == Spec => []NothingTorn
<1>1. Init => NothingTorn
  BY SMT DEF Init, NothingTorn
<1>2. NothingTorn /\ TypeOK /\ OwnInv /\ [Next]_vars => NothingTorn'
  <2>1. ASSUME NothingTorn, UNCHANGED vars PROVE NothingTorn'
    BY <2>1 DEF vars, place, cache, NothingTorn
  <2> QED BY <2>1, NothingTornNext DEF Next
<1> QED BY <1>1, <1>2, TypesCorrect, PTL DEF Spec

-----------------------------------------------------------------------------
(* What a run reported stays                                               *)

ArchivePlaces ==
  {"match", "look", "fetch", "save", "publish", "open", "close", "compare", "exists", "unlink",
   "reopen", "reclose", "write", "finish", "replace", "verify"}
BuildPlaces ==
  {"stage", "build", "clear", "clearing", "swap", "confirm", "binary", "fill", "sweep", "unname"}
SourcePlaces == BuildPlaces \cup {"present", "place"}

\* A run's place says which tool it works on, and it has reported nothing of
\* that tool, nor of those it has not come to.
Working(r) ==
  /\ pc[r] \in ArchivePlaces =>
       tool[r] = "archive" /\ status[r]["archive"] = "none" /\ "archive" \notin todo[r]
  /\ pc[r] \in SourcePlaces =>
       tool[r] = "source" /\ status[r]["source"] = "none" /\ "source" \notin todo[r]
  /\ \A t \in todo[r] : status[r][t] = "none"
  /\ pc[r] \notin ArchivePlaces => idx[r] = 1
  /\ pc[r] = "idle" => todo[r] = Tools

\* Two runs under way have met.
Overlap ==
  /\ \A q, r \in Runs : q # r /\ Active(q) /\ Active(r) => q \in met[r]
  /\ \A r \in Runs : pc[r] = "idle" => met[r] = {}

\* What a reported path leads to.
Sound(p) == root[p] = "good" \/ (p = Source /\ root[p] = "old")

\* The paths a run has reported as installed or skipped, and the members it has
\* found in order on its way to that.
Claimed(r, p) ==
  \/ p \in MemberPaths /\ status[r]["archive"] \in {"installed", "skipped"}
  \/ p = Source /\ status[r]["source"] \in {"installed", "skipped"}
  \/ pc[r] \in {"match", "verify"} /\ \E j \in 1 .. (idx[r] - 1) : p = Members[j]

\* The path a run may be about to unlink.
Poised(r, p) ==
  \/ pc[r] \in {"exists", "unlink"} /\ p = Member(r)
  \/ pc[r] \in BuildPlaces /\ p = Source

Closed(S) == \A o \in S : met[o] \subseteq S

\* A claimed path is sound and no stranger to the run is about to unlink it, or
\* one of its company unlinked it and did not write it again.
Kept ==
  \A r \in Runs, p \in Paths, S \in SUBSET Runs :
    r \in S /\ Closed(S) /\ Claimed(r, p) =>
      \/ \E q \in S \ {r} : p \in gap[q]
      \/ Sound(p) /\ \A q \in Runs \ S : ~Poised(q, p)

(* What the step of r may do:                                               *)
\* it leaves the place and the reports of the others alone, and has begun;
Frame(r) ==
  /\ pc'[r] # "idle"
  /\ \A q \in Runs \ {r} :
       /\ pc'[q] = pc[q] /\ idx'[q] = idx[q] /\ tool'[q] = tool[q] /\ todo'[q] = todo[q]
       /\ status'[q] = status[q] /\ gap'[q] = gap[q]

\* it claims only what it finds, and is about to unlink only what is not sound;
Claims(r) ==
  \A p \in Paths : Claimed(r, p)' => Claimed(r, p) \/ (Active(r) /\ Sound(p)')
Poises(r) == \A p \in Paths : Poised(r, p)' => Poised(r, p) \/ ~Sound(p)

\* it unlinks only what it was about to unlink, and that is then its gap; and
\* closes its gaps by writing the path.
Roots(r) ==
  \A p \in Paths :
    \/ root'[p] = root[p] \/ root'[p] = "good"
    \/ Poised(r, p) /\ Active(r) /\ p \in gap'[r]
Gaps(r) == \A p \in gap[r] : p \in gap'[r] \/ (Active(r) /\ root'[p] = "good")

Lawful(r) == Frame(r) /\ Working(r)' /\ Claims(r) /\ Poises(r) /\ Roots(r) /\ Gaps(r)

\* A step that leaves the tool root and the gaps alone.
Quiet(r) == root' = root /\ UNCHANGED gap

(* A step that leaves the tool root and the gaps alone is lawful for them.  *)
LEMMA QuietFacts ==
  ASSUME NEW r \in Runs, Quiet(r)
  PROVE  /\ Roots(r) /\ Gaps(r)
         /\ \A p \in Paths : Sound(p)' <=> Sound(p)
BY DEF Quiet, Roots, Gaps, Sound

(* A run that moves from one place to another.                             *)
LEMMA MovesLawful ==
  ASSUME NEW r \in Runs, TypeOK, Working(r), NEW p, Moves(r, p), p \notin {"match", "verify", "idle"},
         p \in ArchivePlaces <=> pc[r] \in ArchivePlaces,
         p \in SourcePlaces => pc[r] \in SourcePlaces,
         Poises(r)
  PROVE  Lawful(r)
<1>1. pc' = [pc EXCEPT ![r] = p]
      /\ UNCHANGED <<tool, todo, status, idx, root, gap>>
  BY DEF Moves, Goto, plan, call, place, history
<1>2. pc'[r] = p /\ \A q \in Runs \ {r} : pc'[q] = pc[q]
  BY <1>1 DEF TypeOK, RunsType
<1>3. Frame(r) /\ Roots(r) /\ Gaps(r)
  BY <1>1, <1>2, QuietFacts DEF Frame, Quiet
<1>4. Working(r)'
  BY <1>1, <1>2 DEF Working, ArchivePlaces
<1>5. Claims(r)
  BY <1>1, <1>2 DEF Claims, Claimed
<1> QED BY <1>3, <1>4, <1>5 DEF Lawful

(* A tool that fails is lawful.                                            *)
LEMMA FailToolLawful ==
  ASSUME NEW r \in Runs, TypeOK, Working(r), FailTool(r), UNCHANGED history \/ Blamed(r),
         pc[r] \in ArchivePlaces \cup SourcePlaces
  PROVE  Lawful(r)
<1>1. /\ pc' = [pc EXCEPT ![r] = "next"] /\ idx' = [idx EXCEPT ![r] = 1]
      /\ status' = [status EXCEPT ![r][tool[r]] = "failed"]
      /\ UNCHANGED <<tool, todo, root, gap>>
  BY DEF FailTool, Goto, Forgets, history, Blamed
<1>2. /\ pc'[r] = "next" /\ idx'[r] = 1 /\ tool[r] \in Tools /\ tool[r] \notin todo[r]
      /\ status'[r] = [status[r] EXCEPT ![tool[r]] = "failed"]
      /\ \A q \in Runs \ {r} : pc'[q] = pc[q] /\ idx'[q] = idx[q] /\ status'[q] = status[q]
  BY <1>1 DEF TypeOK, RunsType, Working
<1>3. status'[r][tool[r]] = "failed"
      /\ \A t \in Tools : t # tool[r] => status'[r][t] = status[r][t]
  BY <1>2 DEF TypeOK, RunsType
<1>4. Frame(r) /\ Roots(r) /\ Gaps(r)
  BY <1>1, <1>2, QuietFacts DEF Frame, Quiet
<1>5. Working(r)'
  <2>1. todo[r] \subseteq Tools
    BY DEF TypeOK, RunsType
  <2> QED BY <1>1, <1>2, <1>3, <2>1 DEF Working, ArchivePlaces, SourcePlaces, BuildPlaces
<1>6. Claims(r)
  BY <1>1, <1>2, <1>3 DEF Claims, Claimed, Tools
<1>7. Poises(r)
  BY <1>2 DEF Poises, Poised, BuildPlaces
<1> QED BY <1>4, <1>5, <1>6, <1>7 DEF Lawful

(* A run that aborts or is killed.                                         *)
LEMMA EndsLawful ==
  ASSUME NEW r \in Runs, TypeOK, Working(r), Forgets(r), NEW p \in {"aborted", "killed"},
         Goto(r, p), UNCHANGED <<plan, root, gap>>
  PROVE  Lawful(r)
<1>1. /\ pc' = [pc EXCEPT ![r] = p] /\ idx' = [idx EXCEPT ![r] = 1]
      /\ UNCHANGED <<tool, todo, status, root, gap>>
  BY DEF Goto, Forgets, plan
<1>2. /\ pc'[r] = p /\ idx'[r] = 1
      /\ \A q \in Runs \ {r} : pc'[q] = pc[q] /\ idx'[q] = idx[q]
  BY <1>1 DEF TypeOK, RunsType
<1>4. Frame(r) /\ Roots(r) /\ Gaps(r)
  BY <1>1, <1>2, QuietFacts DEF Frame, Quiet
<1>5. Working(r)'
  BY <1>1, <1>2 DEF Working, ArchivePlaces, SourcePlaces, BuildPlaces
<1>6. Claims(r)
  BY <1>1, <1>2 DEF Claims, Claimed
<1>7. Poises(r)
  BY <1>2 DEF Poises, Poised, BuildPlaces
<1> QED BY <1>4, <1>5, <1>6, <1>7 DEF Lawful

(* A run that moves its index to a member.                                 *)
LEMMA StepsLawful ==
  ASSUME NEW r \in Runs, TypeOK, Working(r), NEW p \in {"match", "verify", "look", "compare"},
         NEW i \in DOMAIN Members, Steps(r, p, i), pc[r] \in ArchivePlaces,
         \/ i = 1
         \/ p = pc[r] /\ i = idx[r] + 1 /\ (p \in {"match", "verify"} => Sound(Member(r)))
  PROVE  Lawful(r)
<1>1. /\ pc' = [pc EXCEPT ![r] = p] /\ idx' = [idx EXCEPT ![r] = i]
      /\ UNCHANGED <<tool, todo, status, root, gap>>
  BY DEF Steps, Goto, plan, place, history
<1>2. /\ pc'[r] = p /\ idx'[r] = i
      /\ \A q \in Runs \ {r} : pc'[q] = pc[q] /\ idx'[q] = idx[q]
  BY <1>1 DEF TypeOK, RunsType
<1>3. /\ Frame(r) /\ Roots(r) /\ Gaps(r)
      /\ \A x \in Paths : Sound(x)' <=> Sound(x)
  BY <1>1, <1>2, QuietFacts DEF Frame, Quiet
<1>4. Working(r)'
  BY <1>1, <1>2 DEF Working, ArchivePlaces, SourcePlaces, BuildPlaces
<1>5. Claims(r)
  <2> SUFFICES ASSUME NEW x \in Paths, Claimed(r, x)' PROVE Claimed(r, x) \/ (Active(r) /\ Sound(x))
    BY <1>3 DEF Claims
  <2>1. CASE ~(p \in {"match", "verify"} /\ \E j \in 1 .. (i - 1) : x = Members[j])
    BY <1>1, <1>2, <2>1 DEF Claimed
  <2>2. CASE p \in {"match", "verify"} /\ \E j \in 1 .. (i - 1) : x = Members[j]
    <3>1. PICK j \in 1 .. (i - 1) : x = Members[j]
      BY <2>2
    <3>2. idx[r] \in Nat /\ i \in Nat
      BY MembersFacts, MemberIsPath, SMT
    <3>3. i = idx[r] + 1 /\ p = pc[r] /\ Sound(Member(r))
      BY <2>2, <3>1, SMT
    <3>4. j \in 1 .. (idx[r] - 1) \/ j = idx[r]
      BY <3>1, <3>2, <3>3, SMT
    <3>5. Active(r)
      BY <2>2, <3>3 DEF Active
    <3> QED BY <2>2, <3>1, <3>3, <3>4, <3>5 DEF Claimed, Member
  <2> QED BY <2>1, <2>2
<1>6. Poises(r)
  BY <1>2 DEF Poises, Poised, BuildPlaces
<1> QED BY <1>3, <1>4, <1>5, <1>6 DEF Lawful

(* A tool that is reported.                                                *)
LEMMA SettlesLawful ==
  ASSUME NEW r \in Runs, TypeOK, Working(r), NEW s \in {"skipped", "installed"}, Settles(r, s),
         pc[r] \in ArchivePlaces \cup SourcePlaces,
         \A p \in PathsOf(tool[r]) : Claimed(r, p) \/ Sound(p)
  PROVE  Lawful(r)
<1>1. /\ pc' = [pc EXCEPT ![r] = "next"] /\ idx' = [idx EXCEPT ![r] = 1]
      /\ status' = [status EXCEPT ![r][tool[r]] = Reported(r, s)]
      /\ UNCHANGED <<tool, todo, root, gap>>
  BY DEF Settles, Goto, Forgets, place, history
<1>2. /\ pc'[r] = "next" /\ idx'[r] = 1 /\ tool[r] \in Tools /\ tool[r] \notin todo[r]
      /\ status'[r] = [status[r] EXCEPT ![tool[r]] = Reported(r, s)]
      /\ \A q \in Runs \ {r} : pc'[q] = pc[q] /\ idx'[q] = idx[q] /\ status'[q] = status[q]
  BY <1>1 DEF TypeOK, RunsType, Working
<1>3. \A t \in Tools : t # tool[r] => status'[r][t] = status[r][t]
  BY <1>2 DEF TypeOK, RunsType
<1>4. /\ Frame(r) /\ Roots(r) /\ Gaps(r)
      /\ \A x \in Paths : Sound(x)' <=> Sound(x)
  BY <1>1, <1>2, QuietFacts DEF Frame, Quiet
<1>5. Working(r)'
  <2>1. todo[r] \subseteq Tools
    BY DEF TypeOK, RunsType
  <2> QED BY <1>1, <1>2, <1>3, <2>1 DEF Working, ArchivePlaces, SourcePlaces, BuildPlaces
<1>6. Claims(r)
  <2> SUFFICES ASSUME NEW x \in Paths, Claimed(r, x)' PROVE Claimed(r, x) \/ (Active(r) /\ Sound(x))
    BY <1>4 DEF Claims
  <2>1. Active(r)
    BY DEF Active, ArchivePlaces, SourcePlaces, BuildPlaces
  <2>2. CASE x \in PathsOf(tool[r])
    BY <2>1, <2>2
  <2>3. CASE x \notin PathsOf(tool[r])
    BY <1>2, <1>3, <2>3 DEF Claimed, PathsOf, Tools
  <2> QED BY <2>2, <2>3
<1>7. Poises(r)
  BY <1>2 DEF Poises, Poised, BuildPlaces
<1> QED BY <1>4, <1>5, <1>6, <1>7 DEF Lawful

(* A run that leaves the tool root and its place alone or moves within a    *)
(* tool, keeping its index.                                                *)
LEMMA WorksLawful ==
  ASSUME NEW r \in Runs, TypeOK, Working(r), NEW p, Goto(r, p) \/ (p = pc[r] /\ pc' = pc),
         UNCHANGED <<tool, todo, status, idx, root, gap>>, p \notin {"match", "verify", "idle"},
         p \in ArchivePlaces <=> pc[r] \in ArchivePlaces,
         p \in SourcePlaces => pc[r] \in SourcePlaces,
         p \in {"exists", "unlink"} => p = pc[r],
         p \in BuildPlaces => pc[r] \in BuildPlaces
  PROVE  Lawful(r)
<1>2. pc'[r] = p /\ \A q \in Runs \ {r} : pc'[q] = pc[q]
  BY DEF TypeOK, RunsType, Goto
<1>3. Frame(r) /\ Roots(r) /\ Gaps(r)
  BY <1>2, QuietFacts DEF Frame, Quiet
<1>4. Working(r)'
  BY <1>2 DEF Working
<1>5. Claims(r)
  BY <1>2 DEF Claims, Claimed
<1>6. Poises(r)
  BY <1>2 DEF Poises, Poised, Member
<1> QED BY <1>3, <1>4, <1>5, <1>6 DEF Lawful

(* A run that unlinks a path it was about to unlink.                       *)
LEMMA UnlinkAtLawful ==
  ASSUME NEW r \in Runs, TypeOK, Working(r), NEW x \in Paths, Poised(r, x),
         NEW p, UnlinkAt(r, x, p),
         \/ p = "reopen" /\ pc[r] \in ArchivePlaces
         \/ p = "place" /\ pc[r] \in BuildPlaces
  PROVE  Lawful(r)
<1> USE DEF ArchivePlaces, SourcePlaces, BuildPlaces
<1>1. /\ pc' = [pc EXCEPT ![r] = p] /\ root' = [root EXCEPT ![x] = "absent"]
      /\ gap' = [gap EXCEPT ![r] = @ \cup {x}]
      /\ UNCHANGED <<tool, todo, status, idx>>
  BY DEF UnlinkAt, Goto, plan, call
<1>2. /\ pc'[r] = p /\ gap'[r] = gap[r] \cup {x} /\ root'[x] = "absent"
      /\ \A q \in Runs \ {r} : pc'[q] = pc[q] /\ gap'[q] = gap[q]
      /\ \A y \in Paths : y # x => root'[y] = root[y]
  BY <1>1 DEF TypeOK, RunsType, FilesType, HistoryType
<1>3. Frame(r) /\ Roots(r) /\ Gaps(r)
  BY <1>1, <1>2 DEF Frame, Roots, Gaps, Active
<1>4. Working(r)'
  BY <1>1, <1>2 DEF Working, ArchivePlaces
<1>5. Claims(r) /\ Poises(r)
  BY <1>1, <1>2 DEF Claims, Claimed, Poises, Poised
<1> QED BY <1>3, <1>4, <1>5 DEF Lawful

(* A run that gives a path its new file.                                   *)
LEMMA ReplaceAtLawful ==
  ASSUME NEW r \in Runs, TypeOK, Own(r), Working(r), NEW x \in Paths, ReplaceAt(r, x), ~Gone(r),
         \/ /\ pc[r] = "replace" /\ UNCHANGED status
            /\ \/ Goto(r, "verify") /\ idx' = [idx EXCEPT ![r] = 1]
               \/ Goto(r, "compare") /\ \E i \in DOMAIN Members : idx' = [idx EXCEPT ![r] = i]
         \/ /\ pc[r] = "place" /\ x = Source /\ Goto(r, "next") /\ UNCHANGED idx
            /\ status' = [status EXCEPT ![r]["source"] = "installed"]
  PROVE  Lawful(r)
<1> USE DEF ArchivePlaces, SourcePlaces, BuildPlaces
<1>1. temp[r].holds = "good"
  BY DEF Gone, Own, TypeOK, FilesType
<1>2. /\ root' = [root EXCEPT ![x] = "good"] /\ gap' = [gap EXCEPT ![r] = @ \ {x}]
      /\ UNCHANGED <<tool, todo>>
  BY <1>1 DEF ReplaceAt
<1>3. /\ gap'[r] = gap[r] \ {x} /\ root'[x] = "good"
      /\ \A q \in Runs \ {r} : gap'[q] = gap[q]
      /\ \A y \in Paths : y # x => root'[y] = root[y]
  BY <1>2 DEF TypeOK, FilesType, HistoryType
<1>4. Active(r)
  BY DEF Active
<1>5. Roots(r) /\ Gaps(r)
  BY <1>3, <1>4 DEF Roots, Gaps
<1>6. CASE pc[r] = "replace"
  <2>1. UNCHANGED status /\ \E p \in {"verify", "compare"}, i \in DOMAIN Members :
          /\ pc' = [pc EXCEPT ![r] = p] /\ idx' = [idx EXCEPT ![r] = i]
          /\ p = "verify" => i = 1
    BY <1>6, MembersFacts DEF Goto
  <2>2. PICK p \in {"verify", "compare"}, i \in DOMAIN Members :
          /\ pc' = [pc EXCEPT ![r] = p] /\ idx' = [idx EXCEPT ![r] = i]
          /\ p = "verify" => i = 1
    BY <2>1
  <2>3. /\ pc'[r] = p /\ idx'[r] = i
        /\ \A q \in Runs \ {r} : pc'[q] = pc[q] /\ idx'[q] = idx[q]
    BY <2>2 DEF TypeOK, RunsType
  <2>4. Frame(r) /\ Working(r)'
    BY <1>2, <1>3, <1>6, <2>1, <2>3 DEF Frame, Working
  <2>5. Claims(r) /\ Poises(r)
    BY <2>1, <2>2, <2>3 DEF Claims, Claimed, Poises, Poised
  <2> QED BY <1>5, <2>4, <2>5 DEF Lawful
<1>7. CASE pc[r] = "place"
  <2>1. x = Source /\ Goto(r, "next") /\ UNCHANGED idx
        /\ status' = [status EXCEPT ![r]["source"] = "installed"]
    BY <1>7
  <2>2. /\ pc'[r] = "next" /\ status'[r] = [status[r] EXCEPT !["source"] = "installed"]
        /\ \A q \in Runs \ {r} : pc'[q] = pc[q] /\ status'[q] = status[q]
    BY <2>1 DEF Goto, TypeOK, RunsType
  <2>3. status'[r]["archive"] = status[r]["archive"]
        /\ \A t \in Tools : t # "source" => status'[r][t] = status[r][t]
    BY <2>2 DEF TypeOK, RunsType, Tools
  <2>4. Frame(r)
    BY <1>2, <1>3, <2>1, <2>2 DEF Frame
  <2>5. Working(r)'
    <3>1. todo[r] \subseteq Tools
      BY DEF TypeOK, RunsType
    <3> QED BY <1>2, <1>7, <2>1, <2>2, <2>3, <3>1 DEF Working
  <2>6. Sound(Source)'
    BY <1>3, <2>1 DEF Sound
  <2>7. Claims(r)
    BY <1>4, <2>2, <2>3, <2>6 DEF Claims, Claimed
  <2>8. Poises(r)
    BY <2>2 DEF Poises, Poised
  <2> QED BY <1>5, <2>4, <2>5, <2>7, <2>8 DEF Lawful
<1> QED BY <1>6, <1>7

(* Every step of a run is lawful.                                          *)
LEMMA LawOfTheRun ==
  ASSUME NEW r \in Runs, TypeOK, Working(r),
         \/ Start(r) \/ EnsureRoot(r) \/ MakeRoot(r) \/ ScanRoot(r) \/ VisitNodes(r) \/ Prune(r)
         \/ NextTool(r) \/ Kill(r)
  PROVE  Lawful(r)
<1> USE DEF ArchivePlaces, SourcePlaces, BuildPlaces
<1>1. CASE Start(r)
  <2>1. /\ pc[r] = "idle" /\ pc' = [pc EXCEPT ![r] = "ensure"]
        /\ \E wanted \in SUBSET Tools : todo' = [todo EXCEPT ![r] = wanted]
        /\ UNCHANGED <<tool, status, idx, root, gap>>
    BY <1>1 DEF Start, At, Goto, call, place
  <2>2. pc'[r] = "ensure" /\ todo'[r] \subseteq Tools
        /\ \A q \in Runs \ {r} : pc'[q] = pc[q] /\ todo'[q] = todo[q]
    BY <2>1 DEF TypeOK, RunsType
  <2>3. Frame(r) /\ Roots(r) /\ Gaps(r)
    BY <2>1, <2>2, QuietFacts DEF Frame, Quiet
  <2>4. Working(r)'
    BY <2>1, <2>2 DEF Working
  <2>5. Claims(r) /\ Poises(r)
    BY <2>1, <2>2 DEF Claims, Claimed, Poises, Poised
  <2> QED BY <2>3, <2>4, <2>5 DEF Lawful
<1>2. CASE EnsureRoot(r)
  <2>1. \E p \in {"scan", "mkdir"} : Goto(r, p)
        /\ pc[r] = "ensure" /\ UNCHANGED <<tool, todo, status, idx, root, gap>>
    BY <1>2 DEF EnsureRoot, Moves, At, plan, call, place, history
  <2> QED BY <2>1, WorksLawful
<1>3. CASE MakeRoot(r)
  <2>1. CASE made
    BY <1>3, <2>1, EndsLawful DEF MakeRoot, Aborts, history
  <2>2. CASE ~made
    <3>1. pc[r] = "mkdir" /\ Goto(r, "scan") /\ UNCHANGED <<tool, todo, status, idx, root, gap>>
      BY <1>3, <2>2 DEF MakeRoot, At, plan, call, history
    <3> QED BY <3>1, WorksLawful
  <2> QED BY <2>1, <2>2
<1>4. CASE ScanRoot(r)
  <2>1. pc[r] = "scan" /\ Goto(r, "visit") /\ UNCHANGED <<tool, todo, status, idx, root, gap>>
    BY <1>4 DEF ScanRoot, At, plan, place, history
  <2> QED BY <2>1, WorksLawful
<1>8. CASE VisitNodes(r)
  <2>1. CASE Aborts(r) /\ UNCHANGED history
    BY <1>8, <2>1, EndsLawful DEF VisitNodes, At, Aborts, history
  <2>2. CASE ~(Aborts(r) /\ UNCHANGED history)
    <3>1. pc[r] = "visit" /\ Goto(r, "prune") /\ UNCHANGED <<tool, todo, status, idx, root, gap>>
      BY <1>8, <2>2 DEF VisitNodes, At, plan, place, history
    <3> QED BY <3>1, WorksLawful
  <2> QED BY <2>1, <2>2
<1>5. CASE Prune(r)
  <2>0. pc[r] = "prune"
    BY <1>5 DEF Prune, At
  <2>1. CASE Moves(r, "next")
    <3>1. Goto(r, "next") /\ UNCHANGED <<tool, todo, status, idx, root, gap>>
      BY <2>1 DEF Moves, plan, call, place, history
    <3> QED BY <2>0, <3>1, WorksLawful
  <2>2. ASSUME NEW n \in listed[r], PruneNode(r, n) PROVE Lawful(r)
    <3>1. CASE n \notin Unlocked
      BY <2>2, <3>1, EndsLawful DEF PruneNode, Aborts, history
    <3>2. CASE n \in Unlocked
      <4>1. UNCHANGED <<pc, tool, todo, status, idx, root, gap>>
        BY <2>2, <3>2 DEF PruneNode, plan, history
      <4> QED BY <2>0, <4>1, WorksLawful
    <3> QED BY <3>1, <3>2
  <2> QED BY <1>5, <2>1, <2>2 DEF Prune
<1>6. CASE NextTool(r)
  <2>0. pc[r] = "next"
    BY <1>6 DEF NextTool, At
  <2>1. CASE Moves(r, "done")
    <3>1. Goto(r, "done") /\ UNCHANGED <<tool, todo, status, idx, root, gap>>
      BY <2>1 DEF Moves, plan, call, place, history
    <3> QED BY <2>0, <3>1, WorksLawful
  <2>2. CASE ~Moves(r, "done")
    <3>1. PICK t \in todo[r] :
            /\ tool' = [tool EXCEPT ![r] = t] /\ todo' = [todo EXCEPT ![r] = @ \ {t}]
            /\ pc' = [pc EXCEPT ![r] = IF t = "archive" THEN "match" ELSE "present"]
            /\ UNCHANGED <<status, idx, root, gap>>
      BY <1>6, <2>2 DEF NextTool, Goto, call, place, history
    <3>2. /\ tool'[r] = t /\ todo'[r] = todo[r] \ {t}
          /\ pc'[r] = IF t = "archive" THEN "match" ELSE "present"
          /\ \A q \in Runs \ {r} : pc'[q] = pc[q] /\ tool'[q] = tool[q] /\ todo'[q] = todo[q]
      BY <3>1 DEF TypeOK, RunsType
    <3>3. t \in {"archive", "source"} /\ idx[r] = 1 /\ status[r][t] = "none"
      BY <2>0 DEF Working, TypeOK, RunsType, Tools
    <3>4. Frame(r) /\ Roots(r) /\ Gaps(r)
      BY <3>1, <3>2, QuietFacts DEF Frame, Quiet
    <3>5. Working(r)'
      BY <3>1, <3>2, <3>3 DEF Working
    <3>6. Claims(r)
      <4>1. 1 .. (idx[r] - 1) = {}
        BY <3>3, SMT
      <4> QED BY <3>1, <3>2, <4>1 DEF Claims, Claimed
    <3>7. Poises(r)
      BY <3>2, <3>3 DEF Poises, Poised
    <3> QED BY <3>4, <3>5, <3>6, <3>7 DEF Lawful
  <2> QED BY <2>1, <2>2
<1>7. CASE Kill(r)
  BY <1>7, EndsLawful DEF Kill, place, history
<1> QED BY <1>1, <1>2, <1>3, <1>4, <1>5, <1>6, <1>7, <1>8

(* Every step on the archive is lawful.                                    *)
LEMMA LawOfTheArchive ==
  ASSUME NEW r \in Runs, TypeOK, Own(r), NothingTorn, Working(r), ArchiveStep(r)
  PROVE  Lawful(r)
<1> USE DEF ArchivePlaces, SourcePlaces, BuildPlaces
<1> DEFINE Same == UNCHANGED <<tool, todo, status, idx, root, gap>>
<1>a. ASSUME Fails(r) \/ Breaks(r), pc[r] \in ArchivePlaces PROVE Lawful(r)
  BY <1>a, FailToolLawful DEF Fails, Breaks
<1>b. ASSUME NEW p, Moves(r, p) PROVE Goto(r, p) /\ Same
  BY <1>b DEF Moves, plan, call, place, history
<1>c. Member(r) \in MemberPaths /\ Member(r) \in Paths /\ Source \notin MemberPaths
      /\ idx[r] \in 1 .. Len(Members) /\ Len(Members) \in Nat \ {0}
      /\ 1 \in DOMAIN Members /\ DOMAIN Members = 1 .. Len(Members)
  BY MembersFacts, MemberIsPath
<1>d. idx[r] < Len(Members) => idx[r] + 1 \in DOMAIN Members
  BY <1>c, SMT
<1>e. ASSUME pc[r] \in {"match", "verify"}, idx[r] = Len(Members), root[Member(r)] = "good",
             NEW s \in {"skipped", "installed"}, Settles(r, s)
      PROVE  Lawful(r)
  <2>1. tool[r] = "archive"
    BY <1>e DEF Working
  <2>2. ASSUME NEW p \in PathsOf(tool[r]) PROVE Claimed(r, p) \/ Sound(p)
    <3>1. PICK j \in 1 .. Len(Members) : p = Members[j]
      BY <1>c, <2>1, <2>2 DEF PathsOf, MemberPaths
    <3>a. j \in Nat /\ 1 <= j /\ j <= idx[r] /\ idx[r] \in Nat
      BY <1>c, <1>e
    <3>2. j \in 1 .. (idx[r] - 1) \/ j = idx[r]
      BY <3>a, SMT
    <3> QED BY <1>e, <3>1, <3>2 DEF Claimed, Sound, Member
  <2> QED BY <1>e, <2>2, SettlesLawful
<1>1. CASE Match(r)
  <2>0. pc[r] = "match"
    BY <1>1 DEF Match, At
  <2>1. CASE Steps(r, "look", 1)
    BY <1>c, <2>0, <2>1, StepsLawful
  <2>2. CASE Matches(r) /\ idx[r] < Len(Members) /\ Steps(r, "match", idx[r] + 1)
    <3>1. Sound(Member(r))
      BY <2>2 DEF Matches, Sound
    <3> QED BY <1>d, <2>0, <2>2, <3>1, StepsLawful
  <2>3. CASE Matches(r) /\ idx[r] = Len(Members) /\ Settles(r, "skipped")
    BY <1>e, <2>0, <2>3 DEF Matches
  <2> QED BY <1>1, <2>1, <2>2, <2>3 DEF Match
<1>2. CASE Look(r)
  <2>1. pc[r] = "look" /\ \E p \in {"fetch", "open"} : Goto(r, p) /\ Same
    BY <1>2, <1>b DEF Look, At
  <2> QED BY <2>1, WorksLawful
<1>3. CASE Fetch(r)
  <2>0. pc[r] = "fetch"
    BY <1>3 DEF Fetch, At
  <2>1. CASE Breaks(r)
    BY <1>a, <2>0, <2>1
  <2>2. CASE ~Breaks(r)
    <3>1. (Goto(r, "save") \/ pc' = pc) /\ Same
      BY <1>3, <2>2 DEF Fetch, plan, place, history
    <3> QED BY <2>0, <3>1, WorksLawful
  <2> QED BY <2>1, <2>2
<1>4. CASE Save(r)
  <2>0. pc[r] = "save"
    BY <1>4 DEF Save, At
  <2>1. CASE Breaks(r)
    BY <1>a, <2>0, <2>1
  <2>2. CASE ~Breaks(r)
    <3>1. Goto(r, "publish") /\ Same
      BY <1>4, <2>2 DEF Save, plan, call, place, history
    <3> QED BY <2>0, <3>1, WorksLawful
  <2> QED BY <2>1, <2>2
<1>5. CASE Publish(r)
  <2>0. pc[r] = "publish"
    BY <1>5 DEF Publish, At
  <2>1. CASE Breaks(r)
    BY <1>a, <2>0, <2>1
  <2>2. CASE ~Breaks(r)
    <3>1. Goto(r, "open") /\ Same
      BY <1>5, <2>2 DEF Publish, plan, place, history
    <3> QED BY <2>0, <3>1, WorksLawful
  <2> QED BY <2>1, <2>2
<1>6. CASE Validate(r) \/ Reopen(r)
  <2>0. pc[r] \in {"open", "close", "reopen", "reclose"}
    BY <1>6 DEF Validate, Reopen, OpenBlob, CloseBlob, At
  <2>1. CASE Fails(r)
    BY <1>a, <2>0, <2>1
  <2>2. CASE \E p \in {"close", "compare", "reclose", "write"} : Moves(r, p)
    BY <1>b, <2>0, <2>2, WorksLawful
  <2> QED BY <1>6, <2>1, <2>2 DEF Validate, Reopen, OpenBlob, CloseBlob
<1>7. CASE Compare(r)
  <2>0. pc[r] = "compare"
    BY <1>7 DEF Compare, At
  <2>1. CASE ~Matches(r) /\ Moves(r, "exists")
    <3>1. ~Sound(Member(r))
      BY <1>c, <2>1 DEF Matches, Sound
    <3>2. pc'[r] = "exists" /\ idx' = idx
      BY <1>b, <2>1 DEF Goto, TypeOK, RunsType
    <3>3. Poises(r)
      BY <3>1, <3>2 DEF Poises, Poised, Member
    <3> QED BY <2>0, <2>1, <3>3, MovesLawful
  <2>2. CASE idx[r] < Len(Members) /\ Steps(r, "compare", idx[r] + 1)
    BY <1>d, <2>0, <2>2, StepsLawful
  <2>3. CASE Steps(r, "verify", 1)
    BY <1>c, <2>0, <2>3, StepsLawful
  <2> QED BY <1>7, <2>1, <2>2, <2>3 DEF Compare
<1>8. CASE Exists(r)
  <2>0. pc[r] = "exists"
    BY <1>8 DEF Exists, At
  <2>1. PICK p \in {"reopen", "unlink"} : Moves(r, p)
    BY <1>8 DEF Exists
  <2>2. pc'[r] = p /\ idx' = idx
    BY <1>b, <2>1 DEF Goto, TypeOK, RunsType
  <2>3. Poises(r)
    BY <2>0, <2>2 DEF Poises, Poised, Member
  <2> QED BY <2>0, <2>1, <2>3, MovesLawful
<1>9. CASE Unlink(r)
  <2>0. pc[r] = "unlink"
    BY <1>9 DEF Unlink, At
  <2>1. CASE Fails(r)
    BY <1>a, <2>0, <2>1
  <2>2. CASE UnlinkAt(r, Member(r), "reopen")
    BY <1>c, <2>0, <2>2, UnlinkAtLawful DEF Poised
  <2> QED BY <1>9, <2>1, <2>2 DEF Unlink
<1>10. CASE Write(r)
  <2>1. pc[r] = "write" /\ Goto(r, "finish") /\ Same
    BY <1>10 DEF Write, CreateTemp, At, plan, call, history
  <2> QED BY <2>1, WorksLawful
<1>11. CASE Finish(r)
  <2>0. pc[r] = "finish"
    BY <1>11 DEF Finish, At
  <2>1. CASE Breaks(r)
    BY <1>a, <2>0, <2>1
  <2>2. CASE ~Breaks(r)
    <3>1. Goto(r, "replace") /\ Same
      BY <1>11, <2>2 DEF Finish, FillTemp, plan, call, history
    <3> QED BY <2>0, <3>1, WorksLawful
  <2> QED BY <2>1, <2>2
<1>12. CASE Replace(r)
  <2>0. pc[r] = "replace"
    BY <1>12 DEF Replace, At
  <2>1. CASE Fails(r)
    BY <1>a, <2>0, <2>1
  <2>2. CASE ~Fails(r)
    <3>1. ~Gone(r) /\ ReplaceAt(r, Member(r)) /\ UNCHANGED status
      BY <1>12, <2>2 DEF Replace
    <3>2. CASE idx[r] = Len(Members)
      <4>1. Goto(r, "verify") /\ idx' = [idx EXCEPT ![r] = 1]
        BY <1>12, <2>2, <3>2 DEF Replace
      <4> QED BY <1>c, <2>0, <3>1, <4>1, ReplaceAtLawful
    <3>3. CASE idx[r] # Len(Members)
      <4>1. Goto(r, "compare") /\ idx' = [idx EXCEPT ![r] = @ + 1]
        BY <1>12, <2>2, <3>3 DEF Replace
      <4>2. idx[r] + 1 \in DOMAIN Members
        BY <1>c, <3>3, SMT
      <4> QED BY <1>c, <2>0, <3>1, <4>1, <4>2, ReplaceAtLawful
    <3> QED BY <3>2, <3>3
  <2> QED BY <2>1, <2>2
<1>13. CASE Verify(r)
  <2>0. pc[r] = "verify"
    BY <1>13 DEF Verify, At
  <2>1. CASE Fails(r)
    BY <1>a, <2>0, <2>1
  <2>2. CASE ~Fails(r) /\ idx[r] < Len(Members) /\ Steps(r, "verify", idx[r] + 1)
    <3>1. Sound(Member(r))
      BY <1>13, <2>2 DEF Verify, Sound
    <3> QED BY <1>d, <2>0, <2>2, <3>1, StepsLawful
  <2>3. CASE ~Fails(r) /\ idx[r] = Len(Members) /\ Settles(r, "installed")
    <3>1. root[Member(r)] = "good"
      BY <1>13, <2>3 DEF Verify
    <3> QED BY <1>e, <2>0, <2>3, <3>1
  <2> QED BY <1>13, <2>1, <2>2, <2>3 DEF Verify
<1> QED BY <1>1, <1>2, <1>3, <1>4, <1>5, <1>6, <1>7, <1>8, <1>9, <1>10, <1>11, <1>12, <1>13
        DEF ArchiveStep

(* Every step on the program built from source is lawful.                  *)
LEMMA LawOfTheSource ==
  ASSUME NEW r \in Runs, TypeOK, Own(r), NothingTorn, Working(r), SourceStep(r)
  PROVE  Lawful(r)
<1> USE DEF ArchivePlaces, SourcePlaces, BuildPlaces
<1> DEFINE Same == UNCHANGED <<tool, todo, status, idx, root, gap>>
<1>a. ASSUME Fails(r) \/ Breaks(r), pc[r] \in SourcePlaces PROVE Lawful(r)
  BY <1>a, FailToolLawful DEF Fails, Breaks
<1>b. ASSUME NEW p, Moves(r, p) PROVE Goto(r, p) /\ Same
  BY <1>b DEF Moves, plan, call, place, history
<1>c. Source \in Paths /\ root[Source] \in {"absent", "old", "good"}
  BY MembersFacts DEF TypeOK, FilesType, NothingTorn
<1>1. CASE Present(r)
  <2>0. pc[r] = "present" /\ tool[r] = "source"
    BY <1>1 DEF Present, At, Working
  <2>1. CASE root[Source] # "absent" /\ Settles(r, "skipped")
    <3>1. \A p \in PathsOf(tool[r]) : Sound(p)
      BY <1>c, <2>0, <2>1 DEF PathsOf, Sound
    <3> QED BY <2>0, <2>1, <3>1, SettlesLawful
  <2>2. CASE root[Source] = "absent" /\ \E p \in {"binary", "stage"} : Moves(r, p)
    <3>1. ~Sound(Source)
      BY <2>2 DEF Sound
    <3>2. PICK p \in {"binary", "stage"} : Moves(r, p)
      BY <2>2
    <3>3. pc'[r] = p
      BY <3>2, <1>b DEF Goto, TypeOK, RunsType
    <3>4. Poises(r)
      BY <3>1, <3>3 DEF Poises, Poised
    <3> QED BY <2>0, <3>2, <3>4, MovesLawful
  <2> QED BY <1>1, <2>1, <2>2 DEF Present
<1>2. CASE Stage(r)
  <2>1. pc[r] = "stage" /\ Goto(r, "build") /\ Same
    BY <1>2 DEF Stage, At, plan, call, place, history
  <2> QED BY <2>1, WorksLawful
<1>3. CASE Build(r)
  <2>0. pc[r] = "build"
    BY <1>3 DEF Build, At
  <2>1. CASE Breaks(r)
    BY <1>a, <2>0, <2>1
  <2>2. CASE Aborts(r) /\ Blamed(r)
    BY <2>2, EndsLawful DEF Aborts, Blamed
  <2>3. CASE ~Breaks(r) /\ ~(Aborts(r) /\ Blamed(r))
    <3>1. Goto(r, "clear") /\ Same
      BY <1>3, <2>3 DEF Build, plan, call, place, history
    <3> QED BY <2>0, <3>1, WorksLawful
  <2> QED BY <2>1, <2>2, <2>3
<1>4. CASE Clear(r)
  <2>1. pc[r] = "clear" /\ (Goto(r, "swap") \/ Goto(r, "clearing")) /\ Same
    BY <1>4, <1>b DEF Clear, At, plan, call, place, history
  <2> QED BY <2>1, WorksLawful
<1>5. CASE Clearing(r)
  <2>0. pc[r] = "clearing"
    BY <1>5 DEF Clearing, At
  <2>1. CASE Fails(r)
    BY <1>a, <2>0, <2>1
  <2>2. CASE ~Fails(r)
    <3>1. Goto(r, "swap") /\ Same
      BY <1>5, <2>2 DEF Clearing, plan, place, history
    <3> QED BY <2>0, <3>1, WorksLawful
  <2> QED BY <2>1, <2>2
<1>6. CASE Swap(r)
  <2>0. pc[r] = "swap"
    BY <1>6 DEF Swap, At
  <2>1. CASE Fails(r)
    BY <1>a, <2>0, <2>1
  <2>2. CASE ~Fails(r)
    <3>1. Goto(r, "confirm") /\ Same
      BY <1>6, <2>2 DEF Swap, plan, call, place, history
    <3> QED BY <2>0, <3>1, WorksLawful
  <2> QED BY <2>1, <2>2
<1>7. CASE Confirm(r)
  <2>0. pc[r] = "confirm"
    BY <1>7 DEF Confirm, At
  <2>1. CASE Fails(r)
    BY <1>a, <2>0, <2>1
  <2>2. CASE Moves(r, "binary")
    BY <1>b, <2>0, <2>2, WorksLawful
  <2> QED BY <1>7, <2>1, <2>2 DEF Confirm
<1>8. CASE OpenBinary(r)
  <2>0. pc[r] = "binary"
    BY <1>8 DEF OpenBinary, At
  <2>1. CASE Fails(r)
    BY <1>a, <2>0, <2>1
  <2>2. CASE ~Fails(r)
    <3>1. Goto(r, "fill") /\ Same
      BY <1>8, <2>2 DEF OpenBinary, CreateTemp, plan, call, history
    <3> QED BY <2>0, <3>1, WorksLawful
  <2> QED BY <2>1, <2>2
<1>9. CASE Fill(r)
  <2>0. pc[r] = "fill"
    BY <1>9 DEF Fill, At
  <2>1. CASE Breaks(r)
    BY <1>a, <2>0, <2>1
  <2>2. CASE ~Breaks(r)
    <3>1. Goto(r, "sweep") /\ Same
      BY <1>9, <2>2 DEF Fill, FillTemp, plan, call, history
    <3> QED BY <2>0, <3>1, WorksLawful
  <2> QED BY <2>1, <2>2
<1>10. CASE Sweep(r)
  <2>0. pc[r] = "sweep"
    BY <1>10 DEF Sweep, At
  <2>1. CASE Fails(r)
    BY <1>a, <2>0, <2>1
  <2>2. CASE ~Fails(r)
    <3>1. (Goto(r, "place") \/ Goto(r, "unname")) /\ Same
      BY <1>10, <1>b, <2>2 DEF Sweep
    <3> QED BY <2>0, <3>1, WorksLawful
  <2> QED BY <2>1, <2>2
<1>11. CASE Unname(r)
  <2>0. pc[r] = "unname"
    BY <1>11 DEF Unname, At
  <2>1. CASE Fails(r)
    BY <1>a, <2>0, <2>1
  <2>2. CASE UnlinkAt(r, Source, "place")
    BY <1>c, <2>0, <2>2, UnlinkAtLawful DEF Poised
  <2> QED BY <1>11, <2>1, <2>2 DEF Unname
<1>12. CASE Place(r)
  <2>0. pc[r] = "place"
    BY <1>12 DEF Place, At
  <2>1. CASE Fails(r)
    BY <1>a, <2>0, <2>1
  <2>2. CASE ~Fails(r)
    <3>1. ~Gone(r) /\ ReplaceAt(r, Source) /\ Goto(r, "next") /\ UNCHANGED idx
          /\ status' = [status EXCEPT ![r]["source"] = "installed"]
      BY <1>12, <2>2 DEF Place
    <3> QED BY <1>c, <2>0, <3>1, ReplaceAtLawful
  <2> QED BY <2>1, <2>2
<1> QED BY <1>1, <1>2, <1>3, <1>4, <1>5, <1>6, <1>7, <1>8, <1>9, <1>10, <1>11, <1>12
        DEF SourceStep

(* A step of r other than its start changes neither what runs have met nor *)
(* which of the others are under way.                                      *)
LEMMA MetStays ==
  ASSUME NEW r \in Runs, RunStep(r) \/ Kill(r)
  PROVE  met' = met /\ Active(r)
<1>1. CASE EnsureRoot(r) \/ MakeRoot(r) \/ ScanRoot(r) \/ VisitNodes(r) \/ Prune(r) \/ NextTool(r) \/ Kill(r)
  BY <1>1 DEF EnsureRoot, MakeRoot, ScanRoot, VisitNodes, Prune, PruneNode, NextTool, Kill, Moves,
     Aborts, At, Active, history
<1>2. CASE ArchiveStep(r)
  <2>1. pc[r] \in ArchivePlaces
    BY <1>2 DEF ArchiveStep, ArchivePlaces, At, Match, Look, Fetch, Save, Publish, Validate, OpenBlob,
         CloseBlob, Compare, Exists, Unlink, Reopen, Write, Finish, Replace, Verify
  <2>2. ASSUME Fails(r) \/ Breaks(r) PROVE met' = met
    BY <2>2 DEF Fails, Breaks, Blamed, history
  <2>3. CASE Match(r) \/ Look(r) \/ Validate(r) \/ Compare(r) \/ Exists(r) \/ Reopen(r) \/ Verify(r)
    BY <2>1, <2>2, <2>3 DEF ArchivePlaces, Active, Match, Look, Validate, Compare, Exists, Reopen,
         Verify, OpenBlob, CloseBlob, Moves, Steps, Settles, history
  <2>4. CASE Fetch(r) \/ Save(r) \/ Publish(r) \/ Unlink(r) \/ Write(r) \/ Finish(r) \/ Replace(r)
    BY <2>1, <2>2, <2>4 DEF ArchivePlaces, Active, Fetch, Save, Publish, Unlink, UnlinkAt, Write,
         CreateTemp, Finish, FillTemp, Replace, ReplaceAt, history
  <2> QED BY <1>2, <2>3, <2>4 DEF ArchiveStep
<1>3. CASE SourceStep(r)
  <2>1. pc[r] \in SourcePlaces
    BY <1>3 DEF SourceStep, SourcePlaces, BuildPlaces, At, Present, Stage, Build, Clear, Clearing,
         Swap, Confirm, OpenBinary, Fill, Sweep, Unname, Place
  <2>2. ASSUME Fails(r) \/ Breaks(r) PROVE met' = met
    BY <2>2 DEF Fails, Breaks, Blamed, history
  <2>3. CASE Present(r) \/ Stage(r) \/ Build(r) \/ Clear(r) \/ Clearing(r) \/ Swap(r)
    BY <2>1, <2>2, <2>3 DEF SourcePlaces, BuildPlaces, Active, Present, Stage, Build, Clear, Clearing,
         Swap, Blamed, Moves, Settles, history
  <2>4. CASE Confirm(r) \/ OpenBinary(r) \/ Fill(r) \/ Sweep(r) \/ Unname(r) \/ Place(r)
    BY <2>1, <2>2, <2>4 DEF SourcePlaces, BuildPlaces, Active, Confirm, OpenBinary, Fill, Sweep,
         Unname, UnlinkAt, Place, ReplaceAt, CreateTemp, FillTemp, Moves, history
  <2> QED BY <1>3, <2>3, <2>4 DEF SourceStep
<1> QED BY <1>1, <1>2, <1>3 DEF RunStep

(* Runs under way have met after every step, and no run forgets whom it met. *)
LEMMA OverlapNext ==
  ASSUME TypeOK, Overlap, NEW r \in Runs, Start(r) \/ RunStep(r) \/ Kill(r), Lawful(r)
  PROVE  Overlap' /\ \A q \in Runs : met[q] \subseteq met'[q]
<1>1. \A q \in Runs \ {r} : pc'[q] = pc[q]
  BY DEF Lawful, Frame
<1>2. CASE Start(r)
  <2>1. /\ pc[r] = "idle" /\ pc'[r] = "ensure"
        /\ met'[r] = {o \in Runs : Active(o)}
        /\ \A q \in Runs \ {r} : met'[q] = IF Active(q) THEN met[q] \cup {r} ELSE met[q]
    BY <1>2 DEF Start, At, Goto, TypeOK, RunsType
  <2>2. ~Active(r) /\ \A q \in Runs \ {r} : Active(q)' <=> Active(q)
    BY <1>1, <2>1 DEF Active
  <2>3. ASSUME NEW p \in Runs, NEW q \in Runs, p # q, Active(p)', Active(q)'
        PROVE  p \in met'[q]
    <3>1. CASE q = r
      BY <2>1, <2>2, <2>3, <3>1
    <3>2. CASE q # r
      BY <2>1, <2>2, <2>3, <3>2 DEF Overlap
    <3> QED BY <3>1, <3>2
  <2>4. ASSUME NEW q \in Runs, pc'[q] = "idle" PROVE met'[q] = {}
    <3>1. q # r /\ pc[q] = "idle" /\ ~Active(q)
      BY <1>1, <2>1, <2>4 DEF Active
    <3> QED BY <2>1, <3>1 DEF Overlap
  <2>5. \A q \in Runs : met[q] \subseteq met'[q]
    BY <2>1 DEF Overlap
  <2> QED BY <2>3, <2>4, <2>5 DEF Overlap
<1>3. CASE RunStep(r) \/ Kill(r)
  <2>1. met' = met /\ Active(r)
    BY <1>3, MetStays
  <2>2. \A q \in Runs : Active(q)' => Active(q)
    BY <1>1, <2>1 DEF Active
  <2>3. \A q \in Runs : pc'[q] = "idle" => met[q] = {}
    <3>1. pc'[r] # "idle"
      BY DEF Lawful, Frame
    <3> QED BY <1>1, <3>1 DEF Overlap
  <2> QED BY <2>1, <2>2, <2>3 DEF Overlap
<1> QED BY <1>2, <1>3

(* Kept is kept: a claim a step begins is of a sound path while all that    *)
(* are under way are of the company; a claimed path is lost only to a run  *)
(* of the company, whose gap it then is; and a gap is closed by writing the *)
(* path, again while all that are under way are of the company.            *)
LEMMA KeptNext ==
  ASSUME TypeOK, Overlap, Kept, NEW a \in Runs, Working(a), Lawful(a),
         Overlap', \A q \in Runs : met[q] \subseteq met'[q],
         \A q \in Runs \ {a} : Active(q)' <=> Active(q)
  PROVE  Kept'
<1> SUFFICES ASSUME NEW r \in Runs, NEW p \in Paths, NEW S \in SUBSET Runs,
                    r \in S, Closed(S)', Claimed(r, p)'
             PROVE  \/ \E q \in S \ {r} : p \in gap'[q]
                    \/ Sound(p)' /\ \A q \in Runs \ S : ~Poised(q, p)'
  BY DEF Kept
<1>1. Closed(S)
  BY DEF Closed
<1>2. \A q \in Runs \ {a} : (Poised(q, p)' <=> Poised(q, p)) /\ (Claimed(q, p)' <=> Claimed(q, p))
  BY DEF Lawful, Frame, Poised, Claimed, Member
<1>3. \A q \in Runs : Poised(q, p)' => Poised(q, p) \/ (q = a /\ ~Sound(p))
  BY <1>2 DEF Lawful, Poises
<1>4. ASSUME NEW o \in S, Active(o), o = a PROVE \A q \in Runs \ S : ~Poised(q, p)'
  <2>1. \A q \in Runs \ S : q # a /\ ~Active(q)
    <3>1. \A q \in Runs \ S : q \notin met[o]
      BY <1>1 DEF Closed
    <3> QED BY <1>4, <3>1 DEF Overlap
  <2> QED BY <1>2, <2>1 DEF Poised, Active, BuildPlaces
<1>5. CASE Claimed(r, p)
  <2>1. CASE \E q \in S \ {r} : p \in gap[q]
    <3>1. PICK q \in S \ {r} : p \in gap[q]
      BY <2>1
    <3>2. CASE p \in gap'[q]
      BY <3>1, <3>2
    <3>3. CASE p \notin gap'[q]
      <4>1. q = a
        BY <3>1, <3>3 DEF Lawful, Frame
      <4>2. Active(a) /\ root'[p] = "good"
        BY <3>1, <3>3, <4>1 DEF Lawful, Gaps
      <4> QED BY <1>4, <3>1, <4>1, <4>2 DEF Sound
    <3> QED BY <3>2, <3>3
  <2>2. CASE Sound(p) /\ \A q \in Runs \ S : ~Poised(q, p)
    <3>1. CASE Sound(p)'
      BY <1>3, <2>2, <3>1
    <3>2. CASE ~Sound(p)'
      <4>1. Poised(a, p) /\ p \in gap'[a]
        BY <2>2, <3>2 DEF Lawful, Roots, Sound
      <4>2. a \in S
        BY <2>2, <4>1
      <4>3. ~Claimed(a, p)
        BY <4>1, MembersFacts, MemberIsPath DEF Poised, Claimed, Working,
             ArchivePlaces, SourcePlaces, BuildPlaces
      <4> QED BY <1>5, <4>1, <4>2, <4>3
    <3> QED BY <3>1, <3>2
  <2> QED BY <1>1, <1>5, <2>1, <2>2 DEF Kept
<1>6. CASE ~Claimed(r, p)
  <2>1. r = a /\ Active(a) /\ Sound(p)'
    BY <1>2, <1>6 DEF Lawful, Claims
  <2> QED BY <1>4, <2>1
<1> QED BY <1>5, <1>6

WorkingInv == \A r \in Runs : Working(r)
KeptInv == TypeOK /\ OwnInv /\ NothingTorn /\ WorkingInv /\ Overlap /\ Kept

(* KeptInv is an inductive invariant.                                      *)
LEMMA KeptInit == Init => KeptInv
<1> SUFFICES ASSUME Init PROVE KeptInv
  OBVIOUS
<1>1. TypeOK /\ OwnInv
  BY TypeInit, OwnInit
<1>2. NothingTorn
  BY SMT DEF Init, NothingTorn
<1>3. WorkingInv
  BY DEF Init, WorkingInv, Working, ArchivePlaces, SourcePlaces, BuildPlaces, Tools
<1>4. Overlap
  BY DEF Init, Overlap, Active
<1>5. Kept
  <2>1. \A r \in Runs, p \in Paths : ~Claimed(r, p)
    BY DEF Init, Claimed, Tools
  <2> QED BY <2>1 DEF Kept
<1> QED BY <1>1, <1>2, <1>3, <1>4, <1>5 DEF KeptInv

(* Every step keeps KeptInv.                                               *)
LEMMA KeptInvNext == KeptInv /\ [Next]_vars => KeptInv'
<1> SUFFICES ASSUME KeptInv, [Next]_vars PROVE KeptInv'
  OBVIOUS
<1> USE DEF KeptInv
<1>1. TypeOK' /\ OwnInv'
  BY TypesNext
<1>2. CASE UNCHANGED vars
  <2>1. NothingTorn'
    BY <1>2 DEF vars, place, cache, NothingTorn
  <2>2. WorkingInv'
    BY <1>2 DEF vars, plan, call, WorkingInv, Working
  <2>3. Overlap'
    BY <1>2 DEF vars, history, Overlap, Active
  <2>4. Kept'
    BY <1>2 DEF vars, plan, call, place, history, Kept, Closed, Claimed, Poised, Sound, Member
  <2> QED BY <1>1, <2>1, <2>2, <2>3, <2>4
<1>3. ASSUME NEW r \in Runs, Start(r) \/ RunStep(r) \/ Kill(r) PROVE KeptInv'
  <2>1. Own(r) /\ Working(r)
    BY DEF OwnInv, WorkingInv
  <2>2. Lawful(r)
    BY <1>3, <2>1, LawOfTheRun, LawOfTheArchive, LawOfTheSource DEF RunStep
  <2>3. NothingTorn'
    BY <1>3, NothingTornNext
  <2>4. WorkingInv'
    BY <2>2 DEF Lawful, Frame, WorkingInv, Working
  <2>5. Overlap' /\ \A q \in Runs : met[q] \subseteq met'[q]
    BY <1>3, <2>2, OverlapNext
  <2>6. \A q \in Runs \ {r} : Active(q)' <=> Active(q)
    BY <2>2 DEF Lawful, Frame, Active
  <2>7. Kept'
    BY <2>1, <2>2, <2>5, <2>6, KeptNext
  <2> QED BY <1>1, <2>3, <2>4, <2>5, <2>7
<1> QED BY <1>2, <1>3 DEF Next

(* The company of a run is closed under meeting.                           *)
LEMMA CompanyClosed ==
  ASSUME NEW r \in Runs, TypeOK
  PROVE  Company(r) \in SUBSET Runs /\ r \in Company(r) /\ Closed(Company(r))
<1>1. ASSUME NEW o \in Company(r), NEW q \in met[o] PROVE q \in Company(r)
  <2>1. q \in Runs
    BY <1>1 DEF Company, TypeOK, HistoryType
  <2>2. ASSUME NEW S \in SUBSET Runs, r \in S, \A z \in S : met[z] \subseteq S PROVE q \in S
    BY <1>1, <2>2 DEF Company
  <2> QED BY <2>1, <2>2 DEF Company
<1> QED BY <1>1 DEF Company, Closed

(* ReportStands: what a run reported as installed or skipped is still       *)
(* there, except for what a run of its company unlinked and could not      *)
(* write again, for any number of runs and members.                        *)
THEOREM ReportStandsCorrect == Spec => []ReportStands
<1>1. KeptInv => ReportStands
  <2> SUFFICES ASSUME KeptInv, NEW r \in Runs, NEW t \in Tools, pc[r] = "done",
                      status[r][t] \in {"installed", "skipped"}, NEW p \in PathsOf(t)
               PROVE  \/ root[p] = "good" \/ (t = "source" /\ root[p] = "old")
                      \/ \E q \in Company(r) \ {r} : p \in gap[q]
    BY DEF ReportStands
  <2>1. p \in Paths /\ Claimed(r, p)
    BY DEF PathsOf, Paths, Claimed, Tools
  <2>2. Sound(p) \/ \E q \in Company(r) \ {r} : p \in gap[q]
    BY <2>1, CompanyClosed DEF KeptInv, Kept
  <2>3. p = Source => t = "source"
    BY MembersFacts DEF PathsOf, Tools
  <2> QED BY <2>2, <2>3 DEF Sound
<1> QED BY <1>1, KeptInit, KeptInvNext, PTL DEF Spec

-----------------------------------------------------------------------------
(* A run alone                                                             *)

PastPrune(r) == Active(r) /\ pc[r] \notin {"ensure", "mkdir", "scan", "visit", "prune"}
BlobPlaces ==
  {"open", "close", "compare", "exists", "unlink", "reopen", "reclose", "write", "finish", "replace"}
HoldingPlaces == {"finish", "replace", "fill", "sweep", "unname", "place"}

\* A run that has the tool root to itself prunes exactly what is outside the
\* lock, and then nothing but its own temporary file is.
Cleared(r) ==
  /\ pc[r] = "visit" => listed[r] = Names
  /\ pc[r] = "prune" => listed[r] = Unlocked
  /\ PastPrune(r) => ~retired /\ \A q \in Others(r) : temp[q].holds = "none"

\* What a run that nothing disturbs and nothing outside fails can rely on: what
\* it looked at or made is still so, the members before its own are in order.
Undisturbed(r) ==
  /\ pc[r] # "aborted" /\ ~stale[r] /\ \A t \in Tools : status[r][t] # "failed"
  /\ pc[r] = "mkdir" => ~made
  /\ pc[r] \in BlobPlaces => blob = "good"
  /\ \A i \in 1 .. (idx[r] - 1) : root[Members[i]] = "good"
  /\ pc[r] = "verify" => \A p \in MemberPaths : root[p] = "good"
  /\ pc[r] \in {"exists", "unlink"} => root[Member(r)] # "good"
  /\ pc[r] = "unlink" => root[Member(r)] # "absent"
  /\ pc[r] = "unname" => root[Source] # "absent"
  /\ pc[r] \in HoldingPlaces => temp[r].holds # "none"
  /\ pc[r] = "swap" => tree = "absent"
  /\ pc[r] \in {"confirm", "binary"} => Usable

Alone(r) == Active(r) /\ met[r] = {}
Succeeds(r) == pc[r] = "done" /\ \A t \in Tools : status[r][t] # "failed"
AloneInv ==
  \A r \in Runs :
    /\ pc[r] = "idle" => ~stale[r]
    /\ Alone(r) => Cleared(r) /\ (r \notin faulted => Undisturbed(r))
    /\ pc[r] \in {"done", "aborted"} /\ met[r] = {} /\ r \notin faulted => Succeeds(r)

(* A run that only moves keeps what it can rely on, if its new place asks  *)
(* for no more.                                                            *)
LEMMA MovesCare ==
  ASSUME NEW r \in Runs, TypeOK, NEW p, Moves(r, p), Undisturbed(r),
         p # "aborted", p = "mkdir" => ~made, p \in BlobPlaces => blob = "good",
         p # "verify",
         p \in {"exists", "unlink"} => root[Member(r)] # "good",
         p = "unlink" => root[Member(r)] # "absent",
         p = "unname" => root[Source] # "absent",
         p \in HoldingPlaces => temp[r].holds # "none",
         p = "swap" => tree = "absent", p \in {"confirm", "binary"} => Usable
  PROVE  Undisturbed(r)'
<1>1. pc'[r] = p /\ UNCHANGED <<plan, call, place, cache>>
  BY DEF Moves, Goto, TypeOK, RunsType
<1> QED BY <1>1, SMT DEF Undisturbed, Member, Usable, plan, call, place, cache

(* A step through the members.                                             *)
LEMMA StepsCare ==
  ASSUME NEW r \in Runs, TypeOK, NEW p \in {"match", "look", "compare", "verify"},
         NEW i \in 1 .. Len(Members), Steps(r, p, i), Undisturbed(r),
         p = "compare" => blob = "good",
         \A j \in 1 .. (i - 1) : root[Members[j]] = "good",
         p = "verify" => \A q \in MemberPaths : root[q] = "good"
  PROVE  Undisturbed(r)'
<1>1. pc'[r] = p /\ idx'[r] = i /\ UNCHANGED <<plan, stale, place, cache>>
  BY DEF Steps, Goto, TypeOK, RunsType
<1> QED BY <1>1, SMT DEF Undisturbed, BlobPlaces, HoldingPlaces, plan, place, cache

(* A tool that ends well.                                                  *)
LEMMA SettlesCare ==
  ASSUME NEW r \in Runs, TypeOK, NEW s \in {"skipped", "installed"}, Settles(r, s), Undisturbed(r),
         tool[r] = "archive" => root[Members[1]] # "old"
  PROVE  Undisturbed(r)'
<1>1. Reported(r, s) = s
  BY DEF Reported
<1>2. /\ pc'[r] = "next" /\ idx'[r] = 1 /\ stale'[r] = FALSE /\ UNCHANGED <<place, cache>>
      /\ \A t \in Tools : status'[r][t] \in {status[r][t], s}
  BY <1>1 DEF Settles, Goto, Forgets, TypeOK, RunsType
<1>3. \A t \in Tools : status'[r][t] # "failed"
  BY <1>2 DEF Undisturbed
<1> QED BY <1>2, <1>3, SMT DEF Undisturbed, BlobPlaces, HoldingPlaces

(* A failure of network, build or disk is recorded.                        *)
LEMMA BlamedIsKnown ==
  ASSUME NEW r \in Runs, TypeOK, Blamed(r)
  PROVE  r \in faulted'
BY DEF Blamed

(* The steps of a run up to its tools.                                     *)
LEMMA CareOfTheRun ==
  ASSUME NEW r \in Runs, TypeOK, Undisturbed(r), Cleared(r),
         EnsureRoot(r) \/ MakeRoot(r) \/ ScanRoot(r) \/ VisitNodes(r) \/ Prune(r) \/ NextTool(r)
  PROVE  Undisturbed(r)'
<1>1. CASE EnsureRoot(r)
  BY <1>1, MovesCare DEF EnsureRoot, BlobPlaces, HoldingPlaces
<1>2. CASE MakeRoot(r)
  <2>1. pc[r] = "mkdir" /\ ~made
    BY <1>2 DEF MakeRoot, At, Undisturbed
  <2>2. pc'[r] = "scan" /\ UNCHANGED <<plan, call, root, temp, cache>>
    BY <1>2, <2>1 DEF MakeRoot, Goto, TypeOK, RunsType
  <2> QED BY <2>2, SMT DEF Undisturbed, BlobPlaces, HoldingPlaces, plan, call, cache
<1>3. CASE ScanRoot(r)
  <2>1. pc'[r] = "visit" /\ UNCHANGED <<plan, idx, stale, place, cache>>
    BY <1>3 DEF ScanRoot, Goto, TypeOK, RunsType
  <2> QED BY <2>1, SMT DEF Undisturbed, BlobPlaces, HoldingPlaces, plan, place, cache
<1>6. CASE VisitNodes(r)
  <2>1. listed[r] = Names
    BY <1>6 DEF VisitNodes, At, Cleared
  <2>2. pc'[r] = "prune" /\ UNCHANGED <<plan, idx, stale, place, cache>>
    BY <1>6, <2>1 DEF VisitNodes, Goto, TypeOK, RunsType
  <2> QED BY <2>2, SMT DEF Undisturbed, BlobPlaces, HoldingPlaces, plan, place, cache
<1>4. CASE Prune(r)
  <2>1. CASE Moves(r, "next")
    BY <2>1, MovesCare DEF BlobPlaces, HoldingPlaces
  <2>2. ASSUME NEW n \in listed[r], PruneNode(r, n) PROVE Undisturbed(r)'
    <3>1. pc[r] = "prune" /\ n \in Unlocked
      BY <1>4, <2>2 DEF Prune, At, Cleared
    <3>2. UNCHANGED <<pc, plan, idx, stale, made, root, cache>>
      BY <2>2, <3>1 DEF PruneNode
    <3> QED BY <3>1, <3>2, SMT DEF Undisturbed, BlobPlaces, HoldingPlaces, plan, cache
  <2> QED BY <1>4, <2>1, <2>2 DEF Prune
<1>5. CASE NextTool(r)
  <2>1. CASE Moves(r, "done")
    BY <2>1, MovesCare DEF BlobPlaces, HoldingPlaces
  <2>2. CASE ~Moves(r, "done")
    <3>1. pc'[r] \in {"match", "present"} /\ UNCHANGED <<status, call, place, cache>>
      BY <1>5, <2>2 DEF NextTool, Goto, TypeOK, RunsType
    <3> QED BY <3>1, SMT DEF Undisturbed, BlobPlaces, HoldingPlaces, call, place, cache
  <2> QED BY <2>1, <2>2
<1> QED BY <1>1, <1>2, <1>3, <1>4, <1>5, <1>6

(* The steps of a run on the archive.                                      *)
LEMMA CareOfTheArchive ==
  ASSUME NEW r \in Runs, TypeOK, Own(r), Working(r), NothingTorn, Undisturbed(r), ArchiveStep(r)
  PROVE  Undisturbed(r)' \/ r \in faulted'
<1>0. /\ idx[r] \in 1 .. Len(Members) /\ Member(r) \in MemberPaths /\ Member(r) \in Paths
      /\ Len(Members) \in Nat \ {0} /\ 1 \in DOMAIN Members /\ DOMAIN Members = 1 .. Len(Members)
  BY MemberIsPath, MembersFacts
<1>1. Breaks(r) => r \in faulted'
  BY BlamedIsKnown DEF Breaks
<1>2. ASSUME Matches(r) PROVE \A j \in 1 .. idx[r] : root[Members[j]] = "good"
  <2>1. \A j \in 1 .. idx[r] : j = idx[r] \/ j \in 1 .. (idx[r] - 1)
    BY <1>0, SMT
  <2> QED BY <1>2, <2>1 DEF Matches, Member, Undisturbed
<1>3. ASSUME Matches(r), idx[r] = Len(Members) PROVE \A p \in MemberPaths : root[p] = "good"
  BY <1>0, <1>2, <1>3 DEF MemberPaths
<1>4. Members[1] \in MemberPaths
  BY MembersFacts
<1>5. CASE Match(r)
  <2>1. CASE ~Matches(r) /\ Steps(r, "look", 1)
    BY <1>0, <2>1, StepsCare, SMT
  <2>2. CASE Matches(r) /\ idx[r] < Len(Members) /\ Steps(r, "match", idx[r] + 1)
    <3>1. idx[r] + 1 \in 1 .. Len(Members) /\ (idx[r] + 1) - 1 = idx[r]
      BY <1>0, <2>2, SMT
    <3> QED BY <1>2, <2>2, <3>1, StepsCare
  <2>3. CASE Matches(r) /\ idx[r] = Len(Members) /\ Settles(r, "skipped")
    BY <1>3, <1>4, <2>3, SettlesCare
  <2> QED BY <1>5, <2>1, <2>2, <2>3 DEF Match
<1>6. CASE Look(r)
  <2>1. blob # "absent" => blob = "good"
    BY DEF NothingTorn
  <2> QED BY <1>6, <2>1, MovesCare DEF Look, BlobPlaces, HoldingPlaces
<1>7. CASE Fetch(r)
  <2>1. CASE Breaks(r)
    BY <1>1, <2>1
  <2>2. CASE ~Breaks(r)
    <3>1. /\ pc[r] = "fetch" /\ pc'[r] \in {"fetch", "save"}
          /\ UNCHANGED <<plan, idx, stale, place, blob, tree>>
      BY <1>7, <2>2 DEF Fetch, At, Goto, cache, TypeOK, RunsType
    <3> QED BY <3>1, SMT DEF Undisturbed, BlobPlaces, HoldingPlaces, plan, place
  <2> QED BY <2>1, <2>2
<1>8. CASE Save(r)
  <2>1. CASE Breaks(r)
    BY <1>1, <2>1
  <2>2. CASE ~Breaks(r)
    <3>1. pc'[r] = "publish" /\ UNCHANGED <<plan, call, place, blob, tree>>
      BY <1>8, <2>2 DEF Save, Goto, TypeOK, RunsType
    <3> QED BY <3>1, SMT DEF Undisturbed, BlobPlaces, HoldingPlaces, plan, call, place
  <2> QED BY <2>1, <2>2
<1>9. CASE Publish(r)
  <2>1. CASE Breaks(r)
    BY <1>1, <2>1
  <2>2. CASE ~Breaks(r)
    <3>1. pc[r] = "publish" /\ part[r] = "good"
      BY <1>9, <2>2 DEF Publish, At, Verified
    <3>a. /\ pc' = [pc EXCEPT ![r] = "open"] /\ blob' = part[r]
          /\ stale' = [q \in Runs |-> stale[q] \/ pc[q] \in {"close", "reclose"}]
          /\ UNCHANGED <<plan, idx, place, tree>>
      BY <1>9, <2>2 DEF Publish, Goto
    <3>b. pc \in [Runs -> Places] /\ stale \in [Runs -> BOOLEAN]
      BY DEF TypeOK, RunsType
    <3>2. /\ pc'[r] = "open" /\ blob' = "good" /\ stale'[r] = stale[r]
          /\ UNCHANGED <<plan, idx, place, tree>>
      BY <3>a, <3>b, <3>1, ZenonT(30)
    <3> QED BY <3>2, SMT DEF Undisturbed, BlobPlaces, HoldingPlaces, plan, place
  <2> QED BY <2>1, <2>2
<1>10. ASSUME NEW here \in BlobPlaces, NEW next \in {"close", "reclose"}, OpenBlob(r, here, next)
       PROVE Undisturbed(r)'
  <2>1. blob = "good" /\ Moves(r, next)
    BY <1>10 DEF OpenBlob, At, Undisturbed
  <2> QED BY <2>1, MovesCare DEF HoldingPlaces
<1>11. ASSUME NEW here \in BlobPlaces, NEW next \in {"compare", "write"}, CloseBlob(r, here, next)
       PROVE Undisturbed(r)'
  <2>1. blob = "good" /\ Moves(r, next)
    BY <1>11 DEF CloseBlob, At, Undisturbed
  <2> QED BY <2>1, MovesCare DEF HoldingPlaces
<1>12. CASE Validate(r)
  BY <1>10, <1>11, <1>12 DEF Validate, BlobPlaces
<1>13. CASE Reopen(r)
  BY <1>10, <1>11, <1>13 DEF Reopen, BlobPlaces
<1>14. CASE Compare(r)
  <2>1. blob = "good"
    BY <1>14 DEF Compare, At, Undisturbed, BlobPlaces
  <2>2. CASE ~Matches(r) /\ Moves(r, "exists")
    BY <2>1, <2>2, MovesCare DEF Matches, HoldingPlaces
  <2>3. CASE Matches(r) /\ idx[r] < Len(Members) /\ Steps(r, "compare", idx[r] + 1)
    <3>1. idx[r] + 1 \in 1 .. Len(Members) /\ (idx[r] + 1) - 1 = idx[r]
      BY <1>0, <2>3, SMT
    <3> QED BY <1>2, <2>1, <2>3, <3>1, StepsCare
  <2>4. CASE Matches(r) /\ idx[r] = Len(Members) /\ Steps(r, "verify", 1)
    <3>1. 1 \in 1 .. Len(Members) /\ 1 .. (1 - 1) = {}
      BY <1>0, SMT
    <3> QED BY <1>3, <2>4, <3>1, StepsCare
  <2> QED BY <1>14, <2>2, <2>3, <2>4 DEF Compare
<1>15. CASE Exists(r)
  <2>1. blob = "good" /\ root[Member(r)] # "good"
    BY <1>15 DEF Exists, At, Undisturbed, BlobPlaces
  <2> QED BY <1>15, <2>1, MovesCare DEF Exists, HoldingPlaces
<1>16. CASE Unlink(r)
  <2>1. /\ pc[r] = "unlink" /\ root[Member(r)] \notin {"absent", "good"} /\ blob = "good"
        /\ UnlinkAt(r, Member(r), "reopen")
    BY <1>16 DEF Unlink, At, Undisturbed, BlobPlaces
  <2>2. /\ pc'[r] = "reopen" /\ UNCHANGED <<plan, call, made, temp, blob, tree>>
        /\ \A p \in Paths : root[p] = "good" => root'[p] = "good"
    BY <1>0, <2>1, SMT DEF UnlinkAt, Goto, TypeOK, RunsType, FilesType, cache
  <2>3. \A i \in 1 .. (idx[r] - 1) : root'[Members[i]] = "good"
    <3>1. \A i \in 1 .. (idx[r] - 1) : i \in DOMAIN Members
      BY <1>0, SMT
    <3> QED BY <2>2, <3>1, MembersFacts DEF Undisturbed
  <2> QED BY <2>1, <2>2, <2>3, SMT DEF Undisturbed, BlobPlaces, HoldingPlaces, plan, call
<1>17. CASE Write(r)
  <2>1. /\ pc[r] = "write" /\ pc'[r] = "finish" /\ temp'[r].holds = "torn"
        /\ UNCHANGED <<plan, call, made, root, cache>>
    BY <1>17 DEF Write, At, CreateTemp, Goto, TypeOK, RunsType, FilesType
  <2> QED BY <2>1, SMT DEF Undisturbed, BlobPlaces, HoldingPlaces, plan, call, cache
<1>18. CASE Finish(r)
  <2>1. CASE Breaks(r)
    BY <1>1, <2>1
  <2>2. CASE ~Breaks(r)
    <3>1. pc[r] = "finish" /\ temp[r].holds # "none"
      BY <1>18 DEF Finish, At, Undisturbed, HoldingPlaces
    <3>2. /\ pc'[r] = "replace" /\ temp'[r].holds = "good"
          /\ UNCHANGED <<plan, call, made, root, cache>>
      BY <1>18, <2>2, <3>1, SMT DEF Finish, FillTemp, Goto, TypeOK, RunsType, FilesType
    <3> QED BY <3>1, <3>2, SMT DEF Undisturbed, BlobPlaces, HoldingPlaces, plan, call, cache
  <2> QED BY <2>1, <2>2
<1>19. CASE Replace(r)
  <2>1. pc[r] = "replace" /\ temp[r].holds = "good" /\ ~Gone(r) /\ blob = "good"
    BY <1>19, SMT DEF Replace, At, Undisturbed, HoldingPlaces, BlobPlaces, Own, Gone, TypeOK, FilesType
  <2>2. /\ ReplaceAt(r, Member(r)) /\ UNCHANGED status
        /\ IF idx[r] = Len(Members)
           THEN pc'[r] = "verify" /\ idx'[r] = 1
           ELSE pc'[r] = "compare" /\ idx'[r] = idx[r] + 1
    BY <1>19, <2>1 DEF Replace, Goto, TypeOK, RunsType
  <2>3. /\ root'[Member(r)] = "good" /\ \A p \in Paths : root[p] = "good" => root'[p] = "good"
        /\ UNCHANGED <<stale, made, blob, tree>>
    BY <1>0, <2>1, <2>2, SMT DEF ReplaceAt, cache, TypeOK, FilesType
  <2>4. \A i \in 1 .. idx[r] : root'[Members[i]] = "good"
    <3>1. \A i \in 1 .. idx[r] : i \in DOMAIN Members /\ (i = idx[r] \/ i \in 1 .. (idx[r] - 1))
      BY <1>0, SMT
    <3> QED BY <2>3, <3>1, MembersFacts DEF Undisturbed, Member
  <2>5. CASE idx[r] = Len(Members)
    <3>1. \A p \in MemberPaths : root'[p] = "good"
      BY <1>0, <2>4, <2>5 DEF MemberPaths
    <3>2. 1 .. (1 - 1) = {}
      BY SMT
    <3> QED BY <2>1, <2>2, <2>3, <2>5, <3>1, <3>2, SMT DEF Undisturbed, BlobPlaces, HoldingPlaces
  <2>6. CASE idx[r] # Len(Members)
    <3>1. (idx[r] + 1) - 1 = idx[r]
      BY <1>0, SMT
    <3> QED BY <2>1, <2>2, <2>3, <2>4, <2>6, <3>1, SMT DEF Undisturbed, BlobPlaces, HoldingPlaces
  <2> QED BY <2>5, <2>6
<1>20. CASE Verify(r)
  <2>1. \A p \in MemberPaths : root[p] = "good"
    BY <1>20 DEF Verify, At, Undisturbed
  <2>2. CASE idx[r] < Len(Members) /\ Steps(r, "verify", idx[r] + 1)
    <3>1. idx[r] + 1 \in 1 .. Len(Members) /\ \A j \in 1 .. ((idx[r] + 1) - 1) : j \in DOMAIN Members
      BY <1>0, <2>2, SMT
    <3> QED BY <2>1, <2>2, <3>1, MembersFacts, StepsCare
  <2>3. CASE Settles(r, "installed")
    BY <1>4, <2>1, <2>3, SettlesCare
  <2> QED BY <1>0, <1>20, <2>1, <2>2, <2>3 DEF Verify
<1> QED BY <1>5, <1>6, <1>7, <1>8, <1>9, <1>12, <1>13, <1>14, <1>15, <1>16, <1>17, <1>18, <1>19, <1>20
        DEF ArchiveStep

(* The steps of a run on the built program, with no other run under way.   *)
LEMMA CareOfTheSource ==
  ASSUME NEW r \in Runs, TypeOK, Own(r), Working(r), NothingTorn, Undisturbed(r),
         \A q \in Others(r) : ~Active(q), SourceStep(r)
  PROVE  Undisturbed(r)' \/ r \in faulted'
<1>0. /\ Source \in Paths /\ Source \notin MemberPaths
      /\ \A i \in 1 .. (idx[r] - 1) : i \in DOMAIN Members /\ Members[i] \in Paths /\ Members[i] # Source
  <2>1. idx[r] \in 1 .. Len(Members)
    BY MemberIsPath
  <2>2. \A i \in 1 .. (idx[r] - 1) : i \in 1 .. Len(Members)
    BY <2>1, MembersFacts, SMT
  <2> QED BY <2>2, MembersFacts
<1>1. Breaks(r) => r \in faulted'
  BY BlamedIsKnown DEF Breaks
<1>2. CASE Present(r)
  <2>1. tool[r] = "source"
    BY <1>2 DEF Present, At, Working, SourcePlaces
  <2>2. CASE Settles(r, "skipped")
    BY <2>1, <2>2, SettlesCare
  <2>3. CASE ~Settles(r, "skipped")
    BY <1>2, <2>3, MovesCare DEF Present, BlobPlaces, HoldingPlaces
  <2> QED BY <2>2, <2>3
<1>3. CASE Stage(r)
  <2>1. pc'[r] = "build" /\ UNCHANGED <<plan, call, place, blob, tree>>
    BY <1>3 DEF Stage, Goto, TypeOK, RunsType
  <2> QED BY <2>1, SMT DEF Undisturbed, BlobPlaces, HoldingPlaces, plan, call, place
<1>4. CASE Build(r)
  <2>1. CASE Breaks(r) \/ Blamed(r)
    BY <1>1, <2>1, BlamedIsKnown
  <2>2. CASE ~(Breaks(r) \/ Blamed(r))
    <3>1. pc'[r] = "clear" /\ UNCHANGED <<plan, call, place, blob, tree>>
      BY <1>4, <2>2 DEF Build, Goto, TypeOK, RunsType
    <3> QED BY <3>1, SMT DEF Undisturbed, BlobPlaces, HoldingPlaces, plan, call, place
  <2> QED BY <2>1, <2>2
<1>5. CASE Clear(r)
  <2>1. CASE ~InTheWay
    BY <1>5, <2>1, MovesCare DEF Clear, InTheWay, BlobPlaces, HoldingPlaces
  <2>2. CASE InTheWay
    <3>1. pc'[r] = "clearing" /\ UNCHANGED <<plan, call, place, blob>>
      BY <1>5, <2>2 DEF Clear, Goto, TypeOK, RunsType
    <3> QED BY <3>1, SMT DEF Undisturbed, BlobPlaces, HoldingPlaces, plan, call, place
  <2> QED BY <2>1, <2>2
<1>6. CASE Clearing(r)
  <2>1. ~stale[r] /\ \A q \in Others(r) : ~At(q, "clearing")
    BY DEF Undisturbed, At, Active
  <2>2. pc'[r] = "swap" /\ tree' = "absent" /\ stale'[r] = stale[r] /\ UNCHANGED <<plan, idx, place, blob>>
    BY <1>6, <2>1, SMT DEF Clearing, Goto, TypeOK, RunsType
  <2> QED BY <2>2, SMT DEF Undisturbed, BlobPlaces, HoldingPlaces, plan, place
<1>7. CASE Swap(r)
  <2>1. pc[r] = "swap" /\ tree = "absent" /\ stage[r] = "whole"
    BY <1>7 DEF Swap, At, Undisturbed, Own
  <2>2. pc'[r] = "confirm" /\ tree' = "whole" /\ UNCHANGED <<plan, call, place, blob>>
    BY <1>7, <2>1 DEF Swap, Goto, TypeOK, RunsType
  <2> QED BY <2>2, SMT DEF Undisturbed, BlobPlaces, HoldingPlaces, Usable, plan, call, place
<1>8. CASE Confirm(r)
  <2>1. Usable /\ Moves(r, "binary")
    BY <1>8 DEF Confirm, At, Undisturbed
  <2> QED BY <2>1, MovesCare DEF BlobPlaces, HoldingPlaces
<1>9. CASE OpenBinary(r)
  <2>1. Usable /\ CreateTemp(r, Source, "fill")
    BY <1>9 DEF OpenBinary, At, Undisturbed
  <2>2. pc'[r] = "fill" /\ temp'[r].holds = "torn" /\ UNCHANGED <<plan, call, made, root, cache>>
    BY <2>1 DEF CreateTemp, Goto, TypeOK, RunsType, FilesType
  <2> QED BY <2>2, SMT DEF Undisturbed, BlobPlaces, HoldingPlaces, plan, call, cache
<1>10. CASE Fill(r)
  <2>1. CASE Breaks(r)
    BY <1>1, <2>1
  <2>2. CASE ~Breaks(r)
    <3>1. pc[r] = "fill" /\ temp[r].holds # "none"
      BY <1>10 DEF Fill, At, Undisturbed, HoldingPlaces
    <3>2. /\ pc'[r] = "sweep" /\ temp'[r].holds = "good"
          /\ UNCHANGED <<plan, call, made, root, cache>>
      BY <1>10, <2>2, <3>1, SMT DEF Fill, FillTemp, Goto, TypeOK, RunsType, FilesType
    <3> QED BY <3>2, SMT DEF Undisturbed, BlobPlaces, HoldingPlaces, plan, call, cache
  <2> QED BY <2>1, <2>2
<1>11. CASE Sweep(r)
  <2>1. temp[r].holds # "none" /\ ~Gone(r)
    BY <1>11 DEF Sweep, At, Undisturbed, HoldingPlaces, Gone
  <2> QED BY <1>11, <2>1, MovesCare DEF Sweep, BlobPlaces
<1>12. CASE Unname(r)
  <2>1. pc[r] = "unname" /\ temp[r].holds # "none" /\ UnlinkAt(r, Source, "place")
    BY <1>12 DEF Unname, At, Undisturbed, HoldingPlaces
  <2>2. /\ pc'[r] = "place" /\ UNCHANGED <<plan, call, made, temp, blob, tree>>
        /\ \A p \in Paths : p # Source => root'[p] = root[p]
    BY <1>0, <2>1, SMT DEF UnlinkAt, Goto, TypeOK, RunsType, FilesType, cache
  <2>3. \A i \in 1 .. (idx[r] - 1) : root'[Members[i]] = "good"
    BY <1>0, <2>2 DEF Undisturbed
  <2> QED BY <2>1, <2>2, <2>3, SMT DEF Undisturbed, BlobPlaces, HoldingPlaces, plan, call
<1>13. CASE Place(r)
  <2>1. pc[r] = "place" /\ ~Gone(r)
    BY <1>13 DEF Place, At, Undisturbed, HoldingPlaces, Gone
  <2>2. /\ ReplaceAt(r, Source) /\ pc'[r] = "next" /\ UNCHANGED idx
        /\ \A t \in Tools : status'[r][t] \in {status[r][t], "installed"}
    BY <1>13, <2>1, SMT DEF Place, Goto, TypeOK, RunsType, Tools
  <2>3. /\ \A p \in Paths : p # Source => root'[p] = root[p]
        /\ UNCHANGED <<stale, made, blob, tree>>
    BY <1>0, <2>2, SMT DEF ReplaceAt, cache, TypeOK, FilesType
  <2>4. \A i \in 1 .. (idx[r] - 1) : root'[Members[i]] = "good"
    BY <1>0, <2>3 DEF Undisturbed
  <2>5. \A t \in Tools : status'[r][t] # "failed"
    BY <2>2 DEF Undisturbed
  <2> QED BY <2>2, <2>3, <2>4, <2>5, SMT DEF Undisturbed, BlobPlaces, HoldingPlaces
<1> QED BY <1>2, <1>3, <1>4, <1>5, <1>6, <1>7, <1>8, <1>9, <1>10, <1>11, <1>12, <1>13 DEF SourceStep

(* A run alone prunes all that is outside the lock, and nothing more comes. *)
LEMMA ClearedNext ==
  ASSUME NEW r \in Runs, TypeOK, Own(r), Cleared(r), RunStep(r), Apart(r)
  PROVE  Cleared(r)'
<1>1. CASE EnsureRoot(r) \/ MakeRoot(r)
  <2>1. pc'[r] \in {"scan", "mkdir", "aborted"}
    BY <1>1 DEF EnsureRoot, MakeRoot, Moves, Aborts, Goto, TypeOK, RunsType
  <2> QED BY <2>1 DEF Cleared, PastPrune, Active
<1>2. CASE ScanRoot(r)
  <2>1. pc'[r] = "visit" /\ listed'[r] = Names /\ UNCHANGED <<temp, retired, root>>
    BY <1>2 DEF ScanRoot, Goto, place, TypeOK, RunsType
  <2>2. Names' = Names
    BY <2>1 DEF Names, LockedNames, Unlocked
  <2> QED BY <2>1, <2>2 DEF Cleared, PastPrune
<1>8. CASE VisitNodes(r)
  <2>1. listed[r] = Names
    BY <1>8 DEF VisitNodes, At, Cleared
  <2>2. pc'[r] = "prune" /\ listed'[r] = ToPrune(Names) /\ UNCHANGED <<temp, retired>>
    BY <1>8, <2>1 DEF VisitNodes, Goto, place, TypeOK, RunsType
  <2>3. ToPrune(Names) = Unlocked
    <3>1. \A n \in Unlocked : n[1] \notin Paths
      BY InstallAssumption DEF Unlocked
    <3>2. \A n \in LockedNames : n[1] \in Paths
      BY DEF LockedNames
    <3> QED BY <3>1, <3>2 DEF ToPrune, Names
  <2> QED BY <2>2, <2>3 DEF Cleared, PastPrune, Unlocked
<1>3. CASE Prune(r)
  <2>1. listed[r] = Unlocked
    BY <1>3 DEF Prune, At, Cleared
  <2>2. CASE listed[r] = {} /\ Moves(r, "next")
    <3>1. pc'[r] = "next" /\ UNCHANGED <<temp, retired>>
      BY <2>2 DEF Moves, Goto, place, TypeOK, RunsType
    <3>2. ~retired /\ \A q \in Runs : temp[q].holds = "none"
      BY <2>1, <2>2 DEF Unlocked
    <3> QED BY <3>1, <3>2 DEF Cleared, Others
  <2>3. ASSUME NEW n \in listed[r], PruneNode(r, n) PROVE Cleared(r)'
    <3>1. /\ pc'[r] = "prune" /\ listed'[r] = Unlocked \ {n}
          /\ retired' = (retired /\ n[1] # Retired)
          /\ temp' = [q \in Runs |-> IF q = n[1] THEN NoTemp ELSE temp[q]]
      BY <1>3, <2>1, <2>3 DEF Prune, At, PruneNode, TypeOK, RunsType
    <3>2. Unlocked' = Unlocked \ {n}
      <4>1. ASSUME NEW q \in Runs, n = <<q, temp[q].path>> PROVE Unlocked' = Unlocked \ {n}
        <5>1. n[1] = q /\ q # Retired
          BY <4>1, InstallAssumption
        <5>2. temp'[q].holds = "none" /\ \A o \in Runs \ {q} : temp'[o] = temp[o]
          BY <3>1, <5>1 DEF NoTemp
        <5>3. retired' = retired
          BY <3>1, <5>1 DEF TypeOK, FilesType
        <5>4. \A o \in Runs \ {q} : <<o, temp[o].path>> # n
          BY <4>1
        <5>5. <<Retired, Retired>> # n
          BY <4>1, <5>1
        <5> QED BY <4>1, <5>2, <5>3, <5>4, <5>5 DEF Unlocked
      <4>2. ASSUME n = <<Retired, Retired>>, retired PROVE Unlocked' = Unlocked \ {n}
        <5>1. n[1] = Retired /\ \A q \in Runs : q # Retired
          BY <4>2, InstallAssumption
        <5>2. ~retired' /\ \A q \in Runs : temp'[q] = temp[q]
          BY <3>1, <5>1
        <5>3. \A q \in Runs : <<q, temp[q].path>> # n
          BY <4>2, <5>1
        <5> QED BY <4>2, <5>2, <5>3 DEF Unlocked
      <4> QED BY <2>1, <2>3, <4>1, <4>2 DEF Unlocked
    <3> QED BY <3>1, <3>2 DEF Cleared, PastPrune
  <2> QED BY <1>3, <2>2, <2>3 DEF Prune
<1>4. CASE NextTool(r)
  <2>1. pc[r] = "next" /\ pc'[r] \in {"done", "match", "present"} /\ UNCHANGED <<temp, retired>>
    BY <1>4 DEF NextTool, At, Moves, Goto, place, TypeOK, RunsType
  <2> QED BY <2>1 DEF Cleared, PastPrune, Active, Others
<1>5. ASSUME PastPrune(r), retired' = retired, pc'[r] \notin {"visit", "prune"} PROVE Cleared(r)'
  <2>1. \A q \in Others(r) : temp'[q].holds = "none"
    BY <1>5 DEF Apart, Others, Cleared, NoTemp
  <2> QED BY <1>5, <2>1 DEF Cleared
<1>6. CASE ArchiveStep(r)
  <2>1. PastPrune(r)
    BY <1>6 DEF ArchiveStep, PastPrune, Active, At, Match, Look, Fetch, Save, Publish, Validate,
       OpenBlob, CloseBlob, Compare, Exists, Unlink, Reopen, Write, Finish, Replace, Verify
  <2>2. Fails(r) \/ Breaks(r) => retired' = retired /\ pc'[r] \notin {"visit", "prune"}
    BY DEF Fails, Breaks, FailTool, Goto, TypeOK, RunsType
  <2>3. CASE Match(r) \/ Look(r) \/ Validate(r) \/ Compare(r) \/ Exists(r) \/ Reopen(r) \/ Verify(r)
    <3>1. retired' = retired /\ pc'[r] \notin {"visit", "prune"}
      BY <2>2, <2>3 DEF Match, Look, Validate, Compare, Exists, Reopen, Verify, OpenBlob, CloseBlob,
         Moves, Steps, Settles, Goto, place, TypeOK, RunsType
    <3> QED BY <1>5, <2>1, <3>1
  <2>4. CASE Fetch(r) \/ Save(r) \/ Publish(r) \/ Unlink(r) \/ Write(r) \/ Finish(r) \/ Replace(r)
    <3>1. retired' = retired /\ pc'[r] \notin {"visit", "prune"}
      BY <2>2, <2>4 DEF Fetch, At, Save, Publish, Unlink, UnlinkAt, Write, CreateTemp, Finish, FillTemp,
         Replace, ReplaceAt, Goto, place, TypeOK, RunsType
    <3> QED BY <1>5, <2>1, <3>1
  <2> QED BY <1>6, <2>3, <2>4 DEF ArchiveStep
<1>7. CASE SourceStep(r)
  <2>1. PastPrune(r)
    BY <1>7 DEF SourceStep, PastPrune, Active, At, Present, Stage, Build, Clear, Clearing, Swap, Confirm,
       OpenBinary, Fill, Sweep, Unname, Place
  <2>2. Fails(r) \/ Breaks(r) \/ Aborts(r) => retired' = retired /\ pc'[r] \notin {"visit", "prune"}
    BY DEF Fails, Breaks, FailTool, Aborts, Goto, TypeOK, RunsType
  <2>3. CASE Present(r) \/ Stage(r) \/ Build(r) \/ Clear(r) \/ Clearing(r) \/ Swap(r)
    <3>1. retired' = retired /\ pc'[r] \notin {"visit", "prune"}
      BY <2>2, <2>3 DEF Present, Stage, Build, Clear, Clearing, Swap, Moves, Settles, Goto, place,
         TypeOK, RunsType
    <3> QED BY <1>5, <2>1, <3>1
  <2>4. CASE Confirm(r) \/ OpenBinary(r) \/ Fill(r) \/ Sweep(r) \/ Unname(r) \/ Place(r)
    <3>1. retired' = retired /\ pc'[r] \notin {"visit", "prune"}
      BY <2>2, <2>4 DEF Confirm, OpenBinary, CreateTemp, Fill, FillTemp, Sweep, Unname, UnlinkAt, Place,
         ReplaceAt, Moves, Goto, place, TypeOK, RunsType
    <3> QED BY <1>5, <2>1, <3>1
  <2> QED BY <1>7, <2>3, <2>4 DEF SourceStep
<1> QED BY <1>1, <1>2, <1>3, <1>4, <1>6, <1>7, <1>8 DEF RunStep

(* A step blames no run but its own, forgets no blame, and takes the name   *)
(* only from what a run under way holds open.                               *)
LEMMA Spared ==
  ASSUME NEW r \in Runs, TypeOK, Start(r) \/ RunStep(r) \/ Kill(r)
  PROVE  /\ faulted \subseteq faulted'
         /\ \A q \in Runs \ {r} : stale'[q] => stale[q] \/ Active(q)
<1>1. Fails(r) \/ Breaks(r) \/ Aborts(r) => \A q \in Runs \ {r} : stale'[q] = stale[q]
  BY DEF Fails, Breaks, FailTool, Aborts, Forgets, TypeOK, RunsType
<1>2. (Fails(r) \/ Breaks(r) => faulted \subseteq faulted') /\ (Blamed(r) => faulted \subseteq faulted')
  BY DEF Fails, Breaks, Blamed, history
<1>3. CASE Start(r) \/ Kill(r) \/ EnsureRoot(r) \/ MakeRoot(r) \/ ScanRoot(r) \/ VisitNodes(r) \/ Prune(r) \/ NextTool(r)
  BY <1>1, <1>3 DEF Start, Kill, EnsureRoot, MakeRoot, ScanRoot, VisitNodes, Prune, PruneNode, NextTool, Moves,
     Forgets, call, history, TypeOK, RunsType
<1>4. CASE Match(r) \/ Look(r) \/ Validate(r) \/ Compare(r) \/ Exists(r) \/ Reopen(r) \/ Verify(r)
  BY <1>1, <1>2, <1>4 DEF Match, Look, Validate, Compare, Exists, Reopen, Verify, OpenBlob, CloseBlob,
     Moves, Steps, Settles, Forgets, call, history, TypeOK, RunsType
<1>5. CASE Fetch(r) \/ Save(r) \/ Unlink(r) \/ Write(r) \/ Finish(r) \/ Replace(r)
  BY <1>1, <1>2, <1>5 DEF Fetch, Save, Unlink, UnlinkAt, Write, CreateTemp, Finish, FillTemp,
     Replace, ReplaceAt, call, history
<1>6. CASE Publish(r)
  BY <1>1, <1>2, <1>6 DEF Publish, Active, history
<1>7. CASE Present(r) \/ Stage(r) \/ Build(r) \/ Clear(r) \/ Swap(r) \/ Confirm(r)
  BY <1>1, <1>2, <1>7 DEF Present, Stage, Build, Clear, Swap, Confirm, Moves, Settles, Forgets, call,
     history, TypeOK, RunsType
<1>8. CASE Clearing(r)
  BY <1>1, <1>2, <1>8 DEF Clearing, At, Active, history
<1>9. CASE OpenBinary(r) \/ Fill(r) \/ Sweep(r) \/ Unname(r) \/ Place(r)
  BY <1>1, <1>2, <1>9 DEF OpenBinary, CreateTemp, Fill, FillTemp, Sweep, Unname, UnlinkAt, Place,
     ReplaceAt, Moves, call, history
<1> QED BY <1>3, <1>4, <1>5, <1>6, <1>7, <1>8, <1>9 DEF RunStep, ArchiveStep, SourceStep

(* Initially no run is under way.                                          *)
LEMMA AloneInit == Init => AloneInv
BY DEF Init, AloneInv, Alone, Active, Succeeds

(* No step takes a run back to its beginning.                              *)
LEMMA NotIdle ==
  ASSUME NEW r \in Runs, TypeOK, OwnInv, NothingTorn, WorkingInv, RunStep(r)
  PROVE  pc'[r] # "idle"
<1>1. Own(r) /\ Working(r)
  BY DEF OwnInv, WorkingInv
<1> QED BY <1>1, LawOfTheRun, LawOfTheArchive, LawOfTheSource DEF RunStep, Lawful, Frame

(* The step of a run keeps what AloneInv says of the run itself.            *)
LEMMA AloneOfTheStep ==
  ASSUME TypeOK, OwnInv, NothingTorn, WorkingInv, Overlap, AloneInv,
         NEW r \in Runs, Start(r) \/ RunStep(r) \/ Kill(r), Apart(r), faulted \subseteq faulted'
  PROVE  /\ pc'[r] # "idle"
         /\ Alone(r)' => Cleared(r)' /\ (r \notin faulted' => Undisturbed(r)')
         /\ pc'[r] \in {"done", "aborted"} /\ met'[r] = {} /\ r \notin faulted' => Succeeds(r)'
<1>1. CASE Start(r)
  <2>1. /\ pc[r] = "idle" /\ pc'[r] = "ensure"
        /\ UNCHANGED <<status, call, place, cache>>
    BY <1>1 DEF Start, At, Goto, TypeOK, RunsType
  <2>2. Cleared(r)'
    BY <2>1 DEF Cleared, PastPrune
  <2>3. idx[r] = 1 /\ ~stale[r] /\ \A t \in Tools : status[r][t] = "none"
    BY <2>1 DEF WorkingInv, Working, AloneInv, ArchivePlaces
  <2>4. Undisturbed(r)'
    BY <2>1, <2>3, SMT DEF Undisturbed, BlobPlaces, HoldingPlaces, call
  <2> QED BY <2>1, <2>2, <2>4
<1>2. CASE Kill(r)
  <2>1. pc'[r] = "killed"
    BY <1>2 DEF Kill, Goto, TypeOK, RunsType
  <2> QED BY <2>1 DEF Alone, Active
<1>3. CASE RunStep(r)
  <2>1. met' = met /\ Active(r)
    BY <1>3, MetStays
  <2>2. pc'[r] # "idle"
    BY <1>3, NotIdle
  <2>3. ASSUME met'[r] = {}
        PROVE  Cleared(r)' /\ (r \notin faulted' => Undisturbed(r)')
    <3>1. Alone(r) /\ Cleared(r) /\ (r \notin faulted => Undisturbed(r))
      BY <2>1, <2>3 DEF Alone, AloneInv
    <3>2. \A q \in Others(r) : ~Active(q)
      BY <2>1, <2>3 DEF Overlap, Others
    <3>3. Own(r) /\ Working(r)
      BY DEF OwnInv, WorkingInv
    <3>4. Cleared(r)'
      BY <1>3, <3>1, <3>3, ClearedNext
    <3>5. ASSUME r \notin faulted' PROVE Undisturbed(r)'
      <4>1. Undisturbed(r)
        BY <3>1, <3>5
      <4> QED BY <1>3, <3>1, <3>2, <3>3, <3>5, <4>1, CareOfTheRun, CareOfTheArchive, CareOfTheSource
              DEF RunStep
    <3> QED BY <3>4, <3>5
  <2>4. pc'[r] \in {"done", "aborted"} /\ Undisturbed(r)' => Succeeds(r)'
    BY DEF Undisturbed, Succeeds
  <2> QED BY <2>1, <2>2, <2>3, <2>4 DEF Alone
<1> QED BY <1>1, <1>2, <1>3

(* AloneInv is kept: no other run can take a step while a run is alone, but *)
(* to start, and then it is no longer alone.                               *)
LEMMA AloneNext == KeptInv /\ AloneInv /\ [Next]_vars => AloneInv'
<1> SUFFICES ASSUME KeptInv, AloneInv, [Next]_vars PROVE AloneInv'
  OBVIOUS
<1>1. CASE UNCHANGED vars
  BY <1>1 DEF vars, plan, call, place, cache, history, AloneInv, Alone, Active, Cleared, PastPrune,
     Names, LockedNames, Unlocked, Others, Undisturbed, Member, Usable, Succeeds
<1>2. ASSUME NEW a \in Runs, Start(a) \/ RunStep(a) \/ Kill(a) PROVE AloneInv'
  <2>1. TypeOK /\ OwnInv /\ NothingTorn /\ WorkingInv /\ Overlap /\ Own(a) /\ Working(a)
    BY DEF KeptInv, OwnInv, WorkingInv
  <2>2. Lawful(a)
    BY <1>2, <2>1, LawOfTheRun, LawOfTheArchive, LawOfTheSource DEF RunStep
  <2>3. Apart(a)
    BY <1>2, <2>1, OwnOfTheRun, OwnOfTheArchive, OwnOfTheSource DEF RunStep
  <2>4. \A q \in Runs : met[q] \subseteq met'[q]
    BY <1>2, <2>1, <2>2, OverlapNext
  <2>5. /\ faulted \subseteq faulted'
        /\ \A q \in Runs \ {a} : stale'[q] => stale[q] \/ Active(q)
    BY <1>2, <2>1, Spared
  <2>6. ASSUME NEW q \in Runs \ {a}
        PROVE  /\ pc'[q] = "idle" => ~stale'[q]
               /\ ~Alone(q)'
               /\ pc'[q] \in {"done", "aborted"} /\ met'[q] = {} /\ q \notin faulted' => Succeeds(q)'
    <3>1. pc'[q] = pc[q] /\ status'[q] = status[q]
      BY <2>2 DEF Lawful, Frame
    <3>2. pc'[q] = "idle" => ~stale'[q]
      BY <2>5, <3>1 DEF AloneInv, Active
    <3>3. ASSUME Active(q) PROVE met'[q] # {}
      <4>1. CASE Start(a)
        BY <3>3, <4>1 DEF Start
      <4>2. CASE RunStep(a) \/ Kill(a)
        <5>1. Active(a)
          BY <4>2, MetStays
        <5> QED BY <2>1, <2>4, <3>3, <5>1 DEF Overlap
      <4> QED BY <1>2, <4>1, <4>2
    <3>4. ~Alone(q)'
      BY <3>1, <3>3 DEF Alone, Active
    <3>5. ASSUME pc'[q] \in {"done", "aborted"}, met'[q] = {}, q \notin faulted' PROVE Succeeds(q)'
      <4>1. met[q] = {} /\ q \notin faulted
        BY <2>4, <2>5, <3>5
      <4> QED BY <3>1, <3>5, <4>1 DEF AloneInv, Succeeds
    <3> QED BY <3>2, <3>4, <3>5
  <2>7. /\ pc'[a] # "idle"
        /\ Alone(a)' => Cleared(a)' /\ (a \notin faulted' => Undisturbed(a)')
        /\ pc'[a] \in {"done", "aborted"} /\ met'[a] = {} /\ a \notin faulted' => Succeeds(a)'
    BY <1>2, <2>1, <2>3, <2>5, AloneOfTheStep
  <2> QED BY <2>6, <2>7 DEF AloneInv
<1> QED BY <1>1, <1>2 DEF Next

(* AloneSucceeds: a run that no other overlapped, and that met no failure of *)
(* network, build or disk, ends with every tool it was asked for, whatever  *)
(* killed or failed runs left.                                              *)
THEOREM AloneSucceedsCorrect == Spec => []AloneSucceeds
<1>1. Init => KeptInv /\ AloneInv
  BY KeptInit, AloneInit
<1>2. KeptInv /\ AloneInv /\ [Next]_vars => KeptInv' /\ AloneInv'
  BY KeptInvNext, AloneNext
<1>3. AloneInv => AloneSucceeds
  BY DEF AloneInv, AloneSucceeds, Succeeds
<1> QED BY <1>1, <1>2, <1>3, PTL DEF Spec

(* What a run that met no other reported is there, for its company is only  *)
(* itself.                                                                  *)
LEMMA AloneReports ==
  ASSUME KeptInv, NEW r \in Runs, met[r] = {}, NEW t \in Tools,
         status[r][t] \in {"installed", "skipped"}, NEW p \in PathsOf(t)
  PROVE  Inspect(p) = "ok"
<1>1. p \in Paths /\ Claimed(r, p)
  BY DEF PathsOf, Paths, Claimed, Tools
<1>2. {r} \in SUBSET Runs /\ r \in {r} /\ Closed({r})
  BY DEF Closed
<1>3. Sound(p)
  BY <1>1, <1>2 DEF KeptInv, Kept
<1> QED BY <1>3 DEF Sound, Inspect

(* A run ends well only when it has come to all its tools.                 *)
LEMMA OnlyNextEnds ==
  ASSUME NEW r \in Runs, TypeOK, Start(r) \/ RunStep(r) \/ Kill(r), pc[r] # "done", pc'[r] = "done"
  PROVE  NextTool(r) /\ Moves(r, "done")
<1>1. ASSUME NEW p, Goto(r, p) PROVE pc'[r] = p
  BY <1>1 DEF Goto, TypeOK, RunsType
<1>2. ~(Fails(r) \/ Breaks(r) \/ Aborts(r))
  BY <1>1 DEF Fails, Breaks, FailTool, Aborts
<1>3. ~(Start(r) \/ Kill(r) \/ EnsureRoot(r) \/ MakeRoot(r) \/ ScanRoot(r) \/ VisitNodes(r))
  BY <1>1, <1>2 DEF Start, Kill, EnsureRoot, MakeRoot, ScanRoot, VisitNodes, Moves
<1>4. ~Prune(r)
  BY <1>1, <1>2 DEF Prune, PruneNode, Moves
<1>5. ~(Match(r) \/ Look(r) \/ Validate(r) \/ Compare(r) \/ Exists(r) \/ Reopen(r) \/ Verify(r))
  BY <1>1, <1>2 DEF Match, Look, Validate, Compare, Exists, Reopen, Verify, OpenBlob, CloseBlob,
     Moves, Steps, Settles
<1>6. ~(Fetch(r) \/ Save(r) \/ Publish(r) \/ Unlink(r) \/ Write(r) \/ Finish(r) \/ Replace(r))
  BY <1>1, <1>2 DEF Fetch, Save, Publish, Unlink, UnlinkAt, Write, CreateTemp, Finish, FillTemp, Replace
<1>7. ~(Present(r) \/ Stage(r) \/ Build(r) \/ Clear(r) \/ Clearing(r) \/ Swap(r))
  BY <1>1, <1>2 DEF Present, Stage, Build, Clear, Clearing, Swap, Moves, Settles
<1>8. ~(Confirm(r) \/ OpenBinary(r) \/ Fill(r) \/ Sweep(r) \/ Unname(r) \/ Place(r))
  BY <1>1, <1>2 DEF Confirm, OpenBinary, CreateTemp, Fill, FillTemp, Sweep, Unname, UnlinkAt, Place, Moves
<1>9. NextTool(r)
  BY <1>3, <1>4, <1>5, <1>6, <1>7, <1>8 DEF RunStep, ArchiveStep, SourceStep
<1> QED BY <1>1, <1>9 DEF NextTool

(* DoctorAgrees: when a run that met no other ends, the doctor finds in     *)
(* order every tool it reported installed or skipped, and nothing outside   *)
(* the lock.                                                                *)
THEOREM DoctorAgreesCorrect == Spec => DoctorAgrees
<1>1. ASSUME KeptInv, AloneInv, Next,
             NEW r \in Runs, pc[r] # "done", pc'[r] = "done", met[r] = {},
             NEW t \in Tools, status[r][t] \in {"installed", "skipped"}
      PROVE  Diagnosis(t)' = "ok"
  <2>1. PICK a \in Runs : Start(a) \/ RunStep(a) \/ Kill(a)
    BY <1>1 DEF Next
  <2>2. TypeOK /\ OwnInv /\ NothingTorn /\ WorkingInv /\ Own(a) /\ Working(a)
    BY <1>1 DEF KeptInv, OwnInv, WorkingInv
  <2>3. Lawful(a)
    BY <2>1, <2>2, LawOfTheRun, LawOfTheArchive, LawOfTheSource DEF RunStep
  <2>4. a = r
    BY <1>1, <2>3 DEF Lawful, Frame
  <2>5. NextTool(r) /\ Moves(r, "done")
    BY <1>1, <2>1, <2>2, <2>4, OnlyNextEnds
  <2>6. met' = met /\ status' = status /\ UNCHANGED <<temp, retired>> /\ pc[r] = "next"
    BY <2>5 DEF NextTool, At, Moves, plan, place, history
  <2>7. Unlocked' = {}
    <3>1. Alone(r) /\ Cleared(r) /\ Own(r)
      BY <1>1, <2>2, <2>4, <2>6 DEF Alone, Active, AloneInv
    <3>2. ~retired /\ \A q \in Runs : temp[q].holds = "none"
      BY <2>6, <3>1 DEF Cleared, PastPrune, Active, Others, Own, FilePlaces
    <3> QED BY <2>6, <3>2 DEF Unlocked
  <2>8. \A p \in PathsOf(t) : Inspect(p)' = "ok"
    <3>1. \A p \in PathsOf(t) : Inspect(p) = "ok"
      BY <1>1, AloneReports
    <3>2. root' = root
      BY <2>5 DEF Moves, place
    <3> QED BY <3>1, <3>2 DEF Inspect
  <2> QED BY <2>7, <2>8 DEF Diagnosis, Unexpected, Aggregate
<1> DEFINE Agreed ==
      \A r \in Runs :
        pc[r] # "done" /\ pc'[r] = "done" /\ met[r] = {} =>
          \A t \in Tools : status[r][t] \in {"installed", "skipped"} => Diagnosis(t)' = "ok"
<1>2. KeptInv /\ AloneInv /\ [Next]_vars => [Agreed]_vars
  BY <1>1
<1> QED BY <1>2, KeptInit, KeptInvNext, AloneInit, AloneNext, PTL DEF Spec, DoctorAgrees

=============================================================================
