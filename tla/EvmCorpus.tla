------------------------------ MODULE EvmCorpus ------------------------------
(* A full run of the EVM corpus (evm_corpus_runtime.sh around               *)
(* scripts/evm_corpus_v1.py): the runnable cases are checked, the directory *)
(* of observations is emptied, the Reference leg writes its observations    *)
(* and sidecars and counts them, the Anvil leg writes its own, and each     *)
(* case is closed on the files then found.  Runs share the default          *)
(* directory, may be killed at any step, and start again over what an       *)
(* earlier one left.                                                        *)
EXTENDS EvmCorpusTests

CONSTANTS
    Runs,           \* the runs that may be started
    Cases,          \* the runnable cases, a sequence in the order of their files
    Faults,         \* what an execution may do differently from the others
    MaxKills        \* how many runs may be killed

ASSUME CasesAssumption == IsList(Cases) /\ \A c \in Range(Cases) : IsCase(c)

VARIABLES
    files,      \* the directory: path -> {} while the file is being written, or {document}
    pc,         \* where each run is
    cursor,     \* how many items of its current phase a run is done with
    left,       \* the listed observations the closing of the current case has to read
    reads,      \* those it has read
    closed,     \* per run: the closed cases, with what was read of them
    fault,      \* the fault of this behaviour
    shared,     \* a run has started while another was under way
    kills

vars == <<files, pc, cursor, left, reads, closed, fault, shared, kills>>

----------------------------------------------------------------------------
(* What the legs write                                                      *)

\* <<case, leg, step>> for every step of the cases a leg runs.
PathsOf(leg, classes) ==
    UNION {{<<c.id, leg, s.index>> : s \in Range(c.steps)}
              : c \in {x \in Range(Cases) : x.class \in classes}}

ReferencePaths == PathsOf("reference", {"primitive"})
SidecarPaths == PathsOf("sidecar", {"primitive"})
AnvilPaths == PathsOf("pf-anvil", {"primitive", "adapter"})

Before(p, q) ==
    \/ p[2] # q[2] /\ p[2] = "pf-anvil"
    \/ p[2] = q[2] /\ p[1] = q[1] /\ p[3] < q[3]
    \/ p[2] = q[2] /\ p[1] # q[1] /\ p[1] = "statecell"
    \/ p[2] # q[2] /\ p[2] = "reference" /\ q[2] = "sidecar"
Sorted(paths) == SetToSortSeq(paths, Before)

CaseOf(id) == CHOOSE c \in Range(Cases) : c.id = id

\* What an execution of a step shows: every leg the same, but for the fault.
Execution(path) ==
    LET c == CaseOf(path[1])
        s == c.steps[path[3] + 1]
        o == [PassObs(c, path[2], path[3]) EXCEPT !.shared.status = s.status,
                                                 !.shared.state = [kind |-> "int", n |-> 1]]
    IN  IF fault.path # path THEN o
        ELSE CASE fault.how = "state" -> [o EXCEPT !.shared.state.n = 2]
               [] fault.how = "kind" -> [o EXCEPT !.shared.state.kind = "bool"]
               [] fault.how = "status" -> [o EXCEPT !.shared.status = "trap"]
               [] fault.how = "program" -> [o EXCEPT !.identity = 2]
               [] fault.how \in {"tool", "missing"} -> [o EXCEPT !.verdict = "skip", !.reason = {14}]
               [] OTHER -> o

Document(path) == IF path[2] = "sidecar" THEN Sidecar(path[3] + 1) ELSE Execution(path)

\* The paths a phase writes, in its order.
Phase(name) == Sorted(IF name = "reference" THEN ReferencePaths \cup SidecarPaths
                      ELSE AnvilPaths)

----------------------------------------------------------------------------
(* The run                                                                  *)

Goto(r, where) == pc' = [pc EXCEPT ![r] = where] /\ cursor' = [cursor EXCEPT ![r] = 0]

UnderWay(r) == pc[r] \in {"wipe", "reference", "anvil", "close"}

\* The other runs that are at one of some places.
RunsAt(r, places) == {q \in Runs \ {r} : pc[q] \in places}

Init ==
    /\ files = <<>>
    /\ pc = [r \in Runs |-> "idle"]
    /\ cursor = [r \in Runs |-> 0]
    /\ left = [r \in Runs |-> {}]
    /\ reads = [r \in Runs |-> <<>>]
    /\ closed = [r \in Runs |-> <<>>]
    /\ fault \in Faults
    /\ shared = FALSE
    /\ kills = 0

\* Steps 1 to 5: list-runnable-cases and safe-obs-root, before anything is
\* destroyed.
Start(r) ==
    /\ pc[r] = "idle"
    /\ LET listed == FirstFailure(ListRunnableChecks(Cases, {c.id : c \in Range(Cases)}))
       IN  Goto(r, IF listed = "ok" THEN "wipe" ELSE "died")
    /\ closed' = [closed EXCEPT ![r] = <<>>]
    /\ shared' = (shared \/ \E q \in Runs \ {r} : UnderWay(q))
    /\ UNCHANGED <<files, left, reads, fault, kills>>

\* A mutant: the directory is only made, never emptied.
KeepFiles(r) ==
    /\ pc[r] = "wipe"
    /\ Goto(r, "reference")
    /\ UNCHANGED <<files, left, reads, closed, fault, shared, kills>>

\* rm -rf takes the entries one by one, and ends when it finds none.  A file
\* another run makes in a directory already listed leaves it not empty: rm
\* fails, and the run with it.
Wipe(r) ==
    /\ pc[r] = "wipe"
    /\ \/ DOMAIN files = {} /\ Goto(r, "reference") /\ UNCHANGED files
       \/ /\ \E p \in DOMAIN files :
                  files' = [q \in DOMAIN files \ {p} |-> files[q]]
          /\ UNCHANGED <<pc, cursor>>
       \/ /\ RunsAt(r, {"reference", "anvil"}) # {}
          /\ Goto(r, "died") /\ UNCHANGED files
    /\ UNCHANGED <<left, reads, closed, fault, shared, kills>>

\* Each leg makes the directory of the case, then opens the file, which
\* truncates it or makes it, ...  The open fails, and ends the run, when the
\* rm -rf of another has removed the directory in between.
Truncate(r) ==
    /\ pc[r] \in {"reference", "anvil"}
    /\ cursor[r] \in 0..(2 * Len(Phase(pc[r])) - 1) /\ cursor[r] % 2 = 0
    /\ \/ /\ LET p == Phase(pc[r])[(cursor[r] \div 2) + 1]
             IN  files' = [q \in DOMAIN files \cup {p} |-> IF q = p THEN {} ELSE files[q]]
          /\ cursor' = [cursor EXCEPT ![r] = @ + 1] /\ UNCHANGED pc
       \/ RunsAt(r, {"wipe"}) # {} /\ Goto(r, "died") /\ UNCHANGED files
    /\ UNCHANGED <<left, reads, closed, fault, shared, kills>>

\* ... and then fills it, even if its name is gone.
Fill(r) ==
    /\ pc[r] \in {"reference", "anvil"}
    /\ cursor[r] % 2 = 1
    /\ LET p == Phase(pc[r])[(cursor[r] \div 2) + 1]
       IN  files' = IF p \in DOMAIN files
                    THEN [files EXCEPT ![p] = {Document(p)}] ELSE files
    /\ cursor' = [cursor EXCEPT ![r] = @ + 1]
    /\ UNCHANGED <<pc, left, reads, closed, fault, shared, kills>>

\* evm_corpus_reference.sh counts the Reference observations, refuses any of
\* another leg, and validates the tree of sidecars.
CountReference(r) ==
    /\ pc[r] = "reference"
    /\ cursor[r] = 2 * Len(Phase("reference"))
    /\ LET present(leg) == {p \in DOMAIN files : p[2] = leg}
           at(p) == IF p \in DOMAIN files /\ files[p] # {}
                    THEN CHOOSE d \in files[p] : TRUE ELSE NoSidecar
           tree == [id \in DOMAIN DigestSteps |->
                       {[n \in 0..(DigestSteps[id] - 1) |-> at(<<id, "sidecar", n>>)]}]
           good == /\ Cardinality(present("reference")) = Cardinality(ReferencePaths)
                   /\ present("pf-anvil") = {}
                   /\ FirstFailure(DigestTreeChecks(tree)) = "ok"
       IN  Goto(r, IF good THEN "anvil" ELSE "died")
    /\ UNCHANGED <<files, left, reads, closed, fault, shared, kills>>

AnvilDone(r) ==
    /\ pc[r] = "anvil"
    /\ cursor[r] = 2 * Len(Phase("anvil"))
    /\ Goto(r, "close")
    /\ UNCHANGED <<files, left, reads, closed, fault, shared, kills>>

\* The case the closing is at.
Current(r) == Cases[Len(closed[r]) + 1]

\* load_observations_dir: what the directory of a case holds; the sidecars are
\* no .json files.
Listing(id) == {p \in DOMAIN files : p[1] = id /\ p[2] # "sidecar"}

\* The listing, at cursor 0, then each file of it in the order of the names.  A
\* file listed and gone makes the read raise; one that is being written does
\* not decode.
ListObservations(r) ==
    /\ pc[r] = "close" /\ Len(closed[r]) < Len(Cases) /\ cursor[r] = 0
    /\ left' = [left EXCEPT ![r] = Listing(Current(r).id)]
    /\ cursor' = [cursor EXCEPT ![r] = 1]
    /\ UNCHANGED <<files, pc, reads, closed, fault, shared, kills>>

ReadObservation(r) ==
    /\ pc[r] = "close" /\ cursor[r] = 1
    /\ \E p \in left[r] :
          /\ \A q \in left[r] \ {p} : Before(p, q)
          /\ IF p \in DOMAIN files /\ \E o \in files[p] : LoadObservation(Wire(o, 700)) = "ok"
             THEN /\ reads' = [reads EXCEPT ![r] = Append(@, CHOOSE o \in files[p] : TRUE)]
                  /\ left' = [left EXCEPT ![r] = @ \ {p}]
                  /\ UNCHANGED <<pc, cursor>>
             ELSE Goto(r, "died") /\ UNCHANGED <<left, reads>>
    /\ UNCHANGED <<files, closed, fault, shared, kills>>

\* The sidecars beside the observations of a case, as they are now.
SidecarDir(c) ==
    {[n \in 0..(DigestSteps[c.id] - 1) |->
        IF <<c.id, "sidecar", n>> \in DOMAIN files /\ files[<<c.id, "sidecar", n>>] # {}
        THEN CHOOSE d \in files[<<c.id, "sidecar", n>>] : TRUE ELSE NoSidecar]
          : x \in {c.id} \cap DOMAIN DigestSteps}

\* close-case on what was read; a primitive case must pass, the adapter may
\* also be skipped.
Close(r) ==
    /\ pc[r] = "close" /\ cursor[r] = 1 /\ left[r] = {}
    /\ LET c == Current(r)
           result == CloseCase(c, reads[r], SidecarDir(c))
       IN  IF result = "pass" \/ (result = "skip" /\ c.class = "adapter")
           THEN /\ closed' = [closed EXCEPT ![r] = Append(@, [result |-> result, obs |-> reads[r]])]
                /\ Goto(r, IF Len(closed[r]) + 1 = Len(Cases) THEN "ok" ELSE "close")
           ELSE Goto(r, "died") /\ UNCHANGED closed
    /\ reads' = [reads EXCEPT ![r] = <<>>]
    /\ UNCHANGED <<files, left, fault, shared, kills>>

\* A run is killed, and may be started again.
Kill(r) ==
    /\ UnderWay(r)
    /\ kills < MaxKills
    /\ kills' = kills + 1
    /\ Goto(r, "idle")
    /\ left' = [left EXCEPT ![r] = {}]
    /\ reads' = [reads EXCEPT ![r] = <<>>]
    /\ closed' = [closed EXCEPT ![r] = <<>>]
    /\ UNCHANGED <<files, fault, shared>>

RunStep(r) ==
    \/ Start(r) \/ Wipe(r) \/ Truncate(r) \/ Fill(r) \/ CountReference(r)
    \/ AnvilDone(r) \/ ListObservations(r) \/ ReadObservation(r) \/ Close(r) \/ Kill(r)

Next == \E r \in Runs : RunStep(r)

Spec == Init /\ [][Next]_vars

----------------------------------------------------------------------------
(* Properties                                                               *)

\* What the documents of a closed case say when they agree: one observation
\* per step of each required leg, of the pinned program, passing with the
\* expected status, and for a primitive case equal ones.
Agreement(c, obs) ==
    LET at(leg, n) == {o \in Range(obs) : o.leg = leg /\ o.step = n} IN
    \A s \in Range(c.steps), leg \in Required(c) :
        /\ Cardinality({i \in DOMAIN obs : obs[i].leg = leg /\ obs[i].step = s.index}) = 1
        /\ \A o \in at(leg, s.index) :
              /\ o.identity = c.identity
              /\ o.verdict = "pass" /\ o.shared.status = s.status
              /\ c.class = "primitive" =>
                    \A other \in Required(c) : \A p \in at(other, s.index) :
                        SharedEq(o.shared, p.shared)

\* A case closed as a pass rests on executions of the pinned program that
\* agree, whatever other runs did to the directory meanwhile, whatever a run
\* that was killed left in it, and whatever one leg did differently
\* (close_case: the index, the verdicts, the statuses and the comparisons).
PassIsAgreement ==
    \A r \in Runs : \A i \in DOMAIN closed[r] :
        closed[r][i].result = "pass" => Agreement(Cases[i], closed[r][i].obs)

\* A run with the directory to itself, with legs that agree, is never refused,
\* even over what a killed run left half written (the rm -rf of the checked
\* directory, the exact counts of the Reference leg, load_observations_dir).
QuietRunCloses ==
    fault.how \in {"none", "kind", "tool"} /\ ~shared => \A r \in Runs : pc[r] # "died"

\* "Shared exact equality" of a primitive case, comparing JSON values as JSON
\* does, where true and 1 are different values.
SharedExactEquality ==
    \A r \in Runs : \A i \in DOMAIN closed[r] :
        Cases[i].class = "primitive" =>
            \A o, p \in Range(closed[r][i].obs) :
                o.step = p.step => o.shared = p.shared
============================================================================
