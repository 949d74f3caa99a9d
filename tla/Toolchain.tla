------------------------------ MODULE Toolchain ------------------------------
(* scripts/toolchain_assets.py is one program: main() reads a command and    *)
(* runs it, either one about the locks, the host or the external tools        *)
(* (ToolRoot) or one about the Lean compiler (LeanRuntime).  The two halves   *)
(* share the process and nothing else: what the one keeps does not move while *)
(* the other runs.                                                           *)
EXTENDS ToolRoot, LeanRuntime

VARIABLE half   \* which half the command belongs to

allVars == <<half, vars, leanVars>>

\* The commands of the model are ones main() may be given.
ASSUME ToolchainAssumption == TasksAreSound /\ MaxChanges \in Nat /\ {} \notin {Tasks, Cases}

\* The half that does not run has some input that is never read: a task that
\* has not even a lock to read, if there is one.
Lockless == {t \in Tasks : t.command = "observe-host"}
AnyTask == CHOOSE t \in Tasks : Lockless # {} => t \in Lockless
AnyCase == CHOOSE c \in Cases : TRUE

MainInit ==
    /\ \/ half = "tools" /\ task \in Tasks /\ case = AnyCase
       \/ half = "lean" /\ task = AnyTask /\ case \in Cases
    /\ Started /\ LeanStarted

LeanCommand == half = "lean" /\ LeanNext /\ UNCHANGED <<half, vars>>
ToolCommand == half = "tools" /\ Next /\ UNCHANGED <<half, leanVars>>
MainNext == LeanCommand \/ ToolCommand
MainSpec == MainInit /\ [][MainNext]_allVars
=============================================================================
