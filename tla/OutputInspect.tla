---------------------------- MODULE OutputInspect ----------------------------
(***************************************************************************)
(* `proof-forge inspect --output-dir`: inspectEngineeringOutputDirV1 of    *)
(* ProofForgeV2/CLI/Emit.lean, beside the builds of OutputPublish.  The    *)
(* inspection opens every file by its path through the destination's name, *)
(* so the directory can be removed, replaced by another build's, or        *)
(* written to between any two of its reads.                                *)
(***************************************************************************)
EXTENDS OutputPublish

(* A manifest another process wrote is not one a build wrote. *)
ASSUME ManifestsAssumption == {Absent, Other} \cap Manifests = {}

VARIABLES
  step,      \* how far the inspection is
  unread,    \* claimed files still to read
  view,      \* what it read
  begun      \* history: the destination's state when it began

inspection == <<step, unread, view, begun>>

(* What the destination's name leads to; no file of an entry that is not a *)
(* build's directory is a manifest this module could accept.               *)
At(p) == IF entry[Destination] \in Builds THEN dirs[entry[Destination]][p] ELSE Absent

(* The directory a build published, as the build left it. *)
Untouched == \E b \in Builds : entry[Destination] = b /\ late[b] = {}

InspectInit ==
  /\ Init
  /\ step = "idle"
  /\ unread = {}
  /\ view = [manifest |-> Absent, evidence |-> Absent, files |-> NoInventory]
  /\ begun = [meddles |-> 0, untouched |-> FALSE]

ReadManifest ==
  /\ step = "idle"
  /\ begun' = [meddles |-> meddles, untouched |-> Untouched]
  /\ view' = [view EXCEPT !.manifest = At(Manifest)]
  /\ step' = IF At(Manifest) = Absent THEN "rejected" ELSE "evidence"
  /\ UNCHANGED unread

ReadEvidence ==
  /\ step = "evidence"
  /\ view' = [view EXCEPT !.evidence = At(Evidence)]
  /\ step' = IF At(Evidence) = Absent THEN "rejected" ELSE "validating"
  /\ UNCHANGED <<unread, begun>>

(* Mutant: the evidence is parsed, its digest is not compared. *)
ManifestParses == view.manifest \notin {Other, Absent}

(* The manifest parses and its digests recompute; the evidence has the     *)
(* digest the manifest records.                                            *)
SidecarsAgree ==
  /\ view.manifest \notin {Other, Absent}
  /\ view.evidence = view.manifest.evidence

Validate ==
  /\ step = "validating"
  /\ step' = IF SidecarsAgree THEN "walking" ELSE "rejected"
  /\ UNCHANGED <<unread, view, begun>>

(* Mutant: the sidecars are not expected by the walk. *)
FilesOnly(manifest) == DOMAIN manifest.files

(* The leaves the walk expects: the manifest's files and the sidecars. *)
Leaves(manifest) == DOMAIN manifest.files \cup Sidecars

Walk ==
  /\ step = "walking"
  /\ IF entry[Destination] \in Builds /\ Closed(entry[Destination], Leaves(view.manifest))
     THEN step' = "reading" /\ unread' = DOMAIN view.manifest.files
     ELSE step' = "rejected" /\ UNCHANGED unread
  /\ UNCHANGED <<view, begun>>

ReadFile ==
  /\ step = "reading"
  /\ \E p \in unread :
       IF At(p) = Absent
       THEN step' = "rejected" /\ UNCHANGED <<unread, view>>
       ELSE /\ view' = [view EXCEPT !.files[p] = At(p)]
            /\ unread' = unread \ {p}
            /\ step' = IF unread = {p} THEN "comparing" ELSE "reading"
  /\ UNCHANGED begun

InventoryMatches == view.files = view.manifest.files

(* checkAuxLeafStableV1 of both sidecars, then the inventory. *)
Verdict ==
  /\ step = "comparing"
  /\ step' = IF (\A p \in Sidecars : At(p) # Absent) /\ InventoryMatches
             THEN "accepted" ELSE "rejected"
  /\ UNCHANGED <<unread, view, begun>>

Inspect ==
  ReadManifest \/ ReadEvidence \/ Validate \/ Walk \/ ReadFile \/ Verdict

InspectNext ==
  \/ Next /\ UNCHANGED inspection
  \/ Inspect /\ UNCHANGED vars

InspectSpec == InspectInit /\ [][InspectNext]_<<vars, inspection>>

-----------------------------------------------------------------------------
(* An accepted inspection read the whole output of one build: its          *)
(* manifest, its evidence and every file with the contents the build's     *)
(* scan recorded, although each was opened through the destination's name  *)
(* at a different time.                                                    *)
AcceptedIsOneBuild ==
  step = "accepted" =>
    \E b \in Builds :
      /\ pc[b] = "published"
      /\ view = [manifest |-> Rendered(b), evidence |-> b,
                 files |-> inventory[b].before]

(* The inspection accepts what a build published and nobody touched, from  *)
(* before it began until its verdict: the publisher's layout and order of  *)
(* scans and the inspector's expectations agree.                           *)
NoFalseRejection ==
  step = "rejected" /\ begun.untouched => meddles # begun.meddles

=============================================================================
