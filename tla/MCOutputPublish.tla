--------------------------- MODULE MCOutputPublish ---------------------------
(* An instance for TLC of OutputInspect, and with it of OutputPublish, and    *)
(* of OutputValidation.  A behaviour is one of builds beside an inspection,   *)
(* of two builds, one base file and one file of the target's tool; or one     *)
(* validation of a staging root.                                             *)
EXTENDS OutputInspect, OutputValidation, MCOutputValidation

CONSTANTS b1, b2, wat, wasm

VARIABLE gate

\* The builds run in two containers, or the second reuses a killed one's id.
SamePid == [b \in Builds |-> 1]

\* A build's files have one byte, another process's have three.
OneOrThree == [c \in Builds \cup {Other} |-> IF c = Other THEN 3 ELSE 1]
OneByte == [c \in Builds \cup Manifests |-> 1]

\* Nothing at the destination, nothing left by earlier builds, nobody at work.
Idle == InspectInit /\ \A p \in Names : entry[p] = Nothing
NoValidation ==
    root = <<>> /\ pass = 0 /\ at = 0 /\ parsed = <<>> /\ walk = NoWalk /\ ruling = "none"

OutputInit ==
    \/ gate = "publish" /\ InspectInit /\ NoValidation
    \/ gate = "validate" /\ Idle /\ ValidateInit

OutputNext ==
    \/ gate = "publish" /\ InspectNext /\ UNCHANGED <<gate, validateVars>>
    \/ gate = "validate" /\ ValidateNext /\ UNCHANGED <<gate, vars, inspection>>
=============================================================================
