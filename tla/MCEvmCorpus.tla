---------------------------- MODULE MCEvmCorpus ----------------------------
(* The EVM corpus script on small instances: one behaviour is a set of runs *)
(* over the corpus, a check of the manifest, or a group of self-test probes. *)
EXTENDS EvmCorpus, EvmManifest

VARIABLES gate, probe

MCDigestSteps == [statecell |-> 2]

MCPrimitive ==
    [SkipPolicy(PrimitiveCase, <<>>) EXCEPT
        !.runner = "anvil-matrix", !.surface = RunnableSurface, !.tools = PrimitiveTools,
        !.steps = <<Call(0, "success"), Call(1, "revert")>>]

MCAdapter ==
    [OptionalAdapter EXCEPT !.runner = "anvil-matrix", !.surface = RunnableSurface]

RunSymmetry == Permutations(Runs)

MCCases == <<MCAdapter, MCPrimitive>>

MCFaults ==
    {[path |-> <<>>, how |-> "none"]}
    \cup {[path |-> <<"statecell", "pf-anvil", 1>>, how |-> how] :
             how \in {"state", "kind", "status", "program"}}
    \cup {[path |-> <<"statecell", "reference", 1>>, how |-> "program"]}
    \cup {[path |-> <<"token", "pf-anvil", 0>>, how |-> how] : how \in {"tool", "program"}}
    \cup {[path |-> <<"statecell", "pf-anvil", 0>>, how |-> "missing"]}

\* The lists and the trees of the probes, every one with every other, and a
\* second case listed, a wrong role, a case that is refused or misnamed, a
\* file of no role, no case at all, and bytes at the limit, beyond it, and not
\* those of the canonical form.
MCManifests ==
    LET committed == Listing1(CommittedPaths(FALSE)) IN
    {Wire(x.m, 4000) : x \in MutatedManifests}
    \cup {Wire(m, 4000) : m \in
             {Listing1(CommittedPaths(TRUE)),
              Listing1(CommittedPaths(FALSE) \ {"program"}),
              [committed EXCEPT !.files[1].role = "runner"],
              [committed EXCEPT !.files[3].role = "source"],
              Listing1({"stray"} \cup CommittedPaths(FALSE)),
              Listing1(CommittedPaths(FALSE) \ {"case1"})}}
    \cup {Wire(committed, MaxManifestBytes + n) : n \in {0, 1}}
    \cup {[Wire(committed, 4000) EXCEPT !.canonical = FALSE],
          [Wire(committed, 4000) EXCEPT !.parse = "DUPLICATE-KEY"]}

MCTrees ==
    LET t == CommittedTree(FALSE)
        Tree(f) == [tree |-> f, linked |-> {}]
    IN  {[tree |-> x.tree, linked |-> x.linked] : x \in MutatedTrees}
        \cup {Tree([t EXCEPT !["case1"] = {CaseFile([PrimitiveCase EXCEPT !.claims = {"abi"}],
                                                    "statecell", "example")}]),
              Tree([t EXCEPT !["case1"] = {CaseFile(PrimitiveCase, "other", "example")}]),
              Tree([t EXCEPT !["stray"] = {File(1)}]),
              Tree([t EXCEPT !["case1"] = {}])}

IdleRuns ==
    /\ Init
    /\ fault = CHOOSE f \in Faults : f.how = "none"

IdleCheck ==
    /\ tree = <<>> /\ manifest = <<>> /\ linked = {} /\ at = "idle" /\ held = {}
    /\ todo = {} /\ inventory = {} /\ sources = {} /\ opened = {}
    /\ verdict = "none" /\ edits = 0 /\ was = <<>>

MCInit ==
    \/ gate = "runs" /\ probe = "none" /\ Init /\ IdleCheck
    \/ gate = "manifest" /\ probe = "none" /\ IdleRuns /\ InitM
    \/ /\ gate = "probes" /\ IdleRuns /\ IdleCheck
       /\ probe \in {"cases", "case bounds", "observation bounds", "slots", "observations",
                     "required legs", "optional legs", "outcomes", "sidecars", "roots"}

MCNext ==
    \/ gate = "runs" /\ Next /\ UNCHANGED <<gate, probe, mvars>>
    \/ gate = "manifest" /\ NextM /\ UNCHANGED <<gate, probe, vars>>

\* Every probe of the script's self-test, on documents, on closings, on roots
\* and on manifests, is answered with the code the script expects
\* (run_self_tests and the functions it calls).
SelfTestsHold ==
    /\ gate = "probes" => \A t \in Probes(probe) : t.got = t.want
    /\ gate = "manifest" /\ at = "done" /\ edits = 0 =>
          \A t \in ManifestProbes :
             t.tree = tree /\ t.linked = linked /\ t.manifest = manifest => verdict = t.want

=============================================================================
