-------------------------- MODULE EvmCorpusTests --------------------------
(* The self-test of scripts/evm_corpus_v1.py as a table: the documents its  *)
(* builders make, the mutations its probes apply, and the code each probe   *)
(* must raise.  The tables of the script's own code paths are what the      *)
(* EvmCorpusCase operators are measured against.                            *)
EXTENDS EvmCorpusCase

----------------------------------------------------------------------------
(* The builders                                                             *)

\* _step: one call of "inc" by an actor.
Step(index, action, actor, status) ==
    [bad |-> {}, index |-> index, action |-> action, actor |-> actor,
     entry |-> action \in {"call", "view"}, status |-> status, logs |-> <<>>]

Call(index, status) == Step(index, "call", 1, status)

\* _skip: the only policy the schema admits.
SkipPolicy(c, optional) ==
    [c EXCEPT !.optional = optional, !.missingOptionalTool = "skip-leg",
              !.requiredToolFailure = "fail"]

\* make_primitive_case.  The program is 1, as the pins say.
PrimitiveCase ==
    [bad |-> {}, id |-> "statecell", class |-> "primitive", oz |-> FALSE,
     identity |-> 1, runner |-> "product-cli", surface |-> 0, actors |-> <<1>>,
     steps |-> <<Call(0, "success")>>,
     legs |-> <<"reference", "pf-anvil">>, compare |-> "shared", same |-> FALSE,
     optional |-> <<"pf-anvil">>, tools |-> <<1, 2>>,
     missingOptionalTool |-> "skip-leg", requiredToolFailure |-> "fail",
     claims |-> {}, adapter |-> {}, projection |-> {}, blocked |-> {}, oos |-> {}]

\* make_adapter_case.
AdapterCase ==
    [PrimitiveCase EXCEPT
        !.id = "token", !.class = "adapter", !.oz = TRUE, !.runner = "schema-only",
        !.actors = <<1, 2>>, !.legs = <<"pf-anvil", "oz-anvil">>,
        !.compare = "shared-projection", !.optional = <<>>, !.tools = <<1>>,
        !.adapter = {[bad |-> {}, retained |-> <<1, 2, 3>>, discarded |-> <<4, 5>>]}]

\* make_oz_behavior_case.
OzBehaviorCase ==
    [AdapterCase EXCEPT
        !.id = "ownable", !.class = "oz-behavior", !.adapter = {},
        !.steps = <<Step(0, "call", 2, "revert")>>,
        !.legs = <<"oz-anvil", "pf-anvil", "reference">>, !.claims = {"family"},
        !.projection = {[bad |-> {}, retained |-> <<1, 2, 3, 4, 5, 6>>,
                         discarded |-> <<7, 8>>]}]

\* make_abi_case.
AbiCase ==
    [AdapterCase EXCEPT
        !.id = "erc20", !.class = "abi", !.adapter = {}, !.actors = <<1>>,
        !.legs = <<"reference", "oz-anvil", "pf-anvil">>,
        !.compare = "full-evm", !.same = TRUE, !.tools = <<1, 2>>,
        !.claims = {"abi", "standard"}]

\* make_blocked_case.
BlockedCase ==
    [PrimitiveCase EXCEPT
        !.id = "ownableblocked", !.class = "blocked", !.runner = "lean-focused",
        !.steps = <<Step(0, "assert-blocked", 1, "blocked")>>,
        !.legs = <<"reference">>, !.compare = "none", !.optional = <<>>, !.tools = <<>>,
        !.blocked = {[bad |-> {}, reasonBytes |-> 44, patterns |-> <<1, 2>>,
                      patternBytes |-> 14, early |-> EarlyFailureOrder]}]

\* make_oos_case.
OosCase ==
    [PrimitiveCase EXCEPT
        !.id = "proxy", !.class = "oos", !.runner = "schema-only",
        !.steps = <<Step(0, "view", 1, "success")>>,
        !.legs = <<"reference">>, !.compare = "none", !.optional = <<>>, !.tools = <<>>,
        !.oos = {[bad |-> {}, status |-> "accepted"]}]

Text(n) == [kind |-> "text", n |-> n]

\* make_reference_observation.
ReferenceObservation ==
    [bad |-> {}, case |-> "statecell", leg |-> "reference", step |-> 0,
     identity |-> 1, verdict |-> "pass", reason |-> {},
     shared |-> [status |-> "revert", ret |-> {}, effects |-> <<>>,
                 state |-> [kind |-> "int", n |-> 0], rollback |-> TRUE],
     evm |-> {}]

EmptyEvm == [bad |-> {}, slots |-> <<>>, logs |-> <<>>, balances |-> <<>>]

\* make_pf_anvil_observation.
AnvilObservation ==
    [ReferenceObservation EXCEPT
        !.leg = "pf-anvil",
        !.evm = {[EmptyEvm EXCEPT !.slots = <<0>>, !.balances = <<1>>]}]

\* _mk_pass_obs.
PassObs(c, leg, step) ==
    [ReferenceObservation EXCEPT
        !.case = c.id, !.leg = leg, !.step = step,
        !.shared = [@ EXCEPT !.status = "success", !.state = Text(0)],
        !.evm = IF leg = "reference" THEN {} ELSE {EmptyEvm}]

\* The canonical bytes of a document of the given length.
Wire(doc, bytes) ==
    [bytes |-> bytes, bom |-> FALSE, utf8 |-> TRUE, parse |-> "ok",
     nodes |-> 50, depth |-> 4, canonical |-> TRUE, doc |-> doc]

----------------------------------------------------------------------------
(* The probes: what is called, and the verdict expected.                    *)

ACase(c, want) == [got |-> ValidateCase(c), want |-> want]
AnObs(o, want) == [got |-> ValidateObservation(o), want |-> want]
AClose(c, obs, dir, want) == [got |-> CloseCase(c, obs, dir), want |-> want]

\* One probe accepts, the next, one element longer, is refused.
Bound(docAt(_), n, validate(_)) ==
    {[got |-> validate(docAt(n)), want |-> "ok"],
     [got |-> validate(docAt(n + 1)), want |-> "LIMIT"]}

Repeat(x, n) == [i \in 1..n |-> x]
NullLog == [bad |-> {}, address |-> {}, topics |-> <<>>, data |-> {}]

BoundedCases(kind, n) ==
    LET b == CHOOSE b \in BlockedCase.blocked : TRUE IN
    CASE kind = "actors" -> [PrimitiveCase EXCEPT !.actors = [i \in 1..n |-> i]]
      [] kind = "steps" ->
           [PrimitiveCase EXCEPT !.steps = [i \in 1..n |-> Call(i - 1, "success")]]
      [] kind = "logs" -> [PrimitiveCase EXCEPT !.steps[1].logs = Repeat(NullLog, n)]
      [] kind = "topics" ->
           [PrimitiveCase EXCEPT
               !.steps[1].logs = <<[NullLog EXCEPT !.topics = Repeat(1, n)]>>]
      [] kind = "patterns" ->
           [BlockedCase EXCEPT !.blocked = {[b EXCEPT !.patterns = [i \in 1..n |-> i]]}]
      [] kind = "reason" -> [BlockedCase EXCEPT !.blocked = {[b EXCEPT !.reasonBytes = n]}]
      [] OTHER -> [BlockedCase EXCEPT !.blocked = {[b EXCEPT !.patternBytes = n]}]

Limits == [actors |-> MaxActors, steps |-> MaxSteps, logs |-> MaxLogs,
           topics |-> MaxTopics, patterns |-> MaxPatterns,
           reason |-> MaxTextBytes, pattern |-> MaxTextBytes]

\* _run_resource_boundary_tests, the cases.
CaseBoundTests ==
    UNION {LET At(n) == BoundedCases(kind, n) IN Bound(At, Limits[kind], ValidateCase)
             : kind \in DOMAIN Limits}

\* The same, for the bytes of documents and the lists of an observation.
ObservationBoundTests ==
    LET CaseOf(n) == Wire(PrimitiveCase, n)
        ObsOf(n) == Wire(ReferenceObservation, n)
        LogsOf(n) == [AnvilObservation EXCEPT
                         !.evm = {[EmptyEvm EXCEPT !.logs = Repeat(NullLog, n)]}]
        TopicsOf(n) ==
            [AnvilObservation EXCEPT
                !.evm = {[EmptyEvm EXCEPT
                             !.logs = <<[NullLog EXCEPT !.topics = Repeat(1, n)]>>]}]
    IN  Bound(CaseOf, MaxCaseBytes, LoadCase) \cup Bound(ObsOf, MaxObsBytes, LoadObservation)
        \cup Bound(LogsOf, MaxLogs, ValidateObservation)
        \cup Bound(TopicsOf, MaxTopics, ValidateObservation)

\* _run_storage_word_tests.
SlotTests ==
    LET Slots(bad, slots) ==
            [AnvilObservation EXCEPT !.evm = {[EmptyEvm EXCEPT !.bad = bad, !.slots = slots]}]
    IN  {AnObs(Slots({}, <<1, 2>>), "ok"), AnObs(Slots({"slots"}, <<1>>), "SCHEMA"),
         AnObs(Slots({}, <<2, 1>>), "INVARIANT")}

\* run_self_tests: the builders, and the case probes.
CaseTests ==
    LET Mutated(b, f(_)) == {f(x) : x \in b}
        Sorted(b) == [b EXCEPT !.early = <<1, 2, 3, 4>>]
        Draft(b) == [b EXCEPT !.status = "draft"]
    IN  {ACase(c, "ok") : c \in {PrimitiveCase, AdapterCase, OzBehaviorCase, AbiCase,
                                 BlockedCase, OosCase}}
        \cup
        {ACase([PrimitiveCase EXCEPT !.bad = {"keys"}], "SCHEMA"),
         ACase([PrimitiveCase EXCEPT !.actors = <<1, 1>>], "INVARIANT"),
         ACase([PrimitiveCase EXCEPT !.class = "unit"], "SCHEMA"),
         ACase([PrimitiveCase EXCEPT !.requiredToolFailure = "skip"], "INVARIANT"),
         ACase([PrimitiveCase EXCEPT !.bad = {"sourcePath"}], "PATH"),
         ACase([AdapterCase EXCEPT !.claims = {"family"}], "INVARIANT"),
         ACase([OzBehaviorCase EXCEPT !.projection = {}], "INVARIANT"),
         ACase([AbiCase EXCEPT !.same = FALSE], "INVARIANT"),
         ACase([BlockedCase EXCEPT !.blocked = {}], "INVARIANT"),
         ACase([BlockedCase EXCEPT !.blocked = Mutated(@, Sorted)], "INVARIANT"),
         ACase([OosCase EXCEPT !.oos = Mutated(@, Draft)], "INVARIANT")}

\* run_self_tests: the observation probes, and the probes of the bytes.
ObservationTests ==
    {AnObs(ReferenceObservation, "ok"), AnObs(AnvilObservation, "ok"),
     AnObs([ReferenceObservation EXCEPT !.evm = AnvilObservation.evm], "INVARIANT"),
     AnObs([ReferenceObservation EXCEPT !.bad = {"keys"}], "SCHEMA"),
     AnObs([ReferenceObservation EXCEPT !.bad = {"identity"}], "SCHEMA"),
     AnObs([ReferenceObservation EXCEPT !.reason = {21}], "INVARIANT"),
     [got |-> LoadCase([Wire(PrimitiveCase, 900) EXCEPT !.canonical = FALSE]),
      want |-> "CANONICAL"],
     [got |-> LoadCase([Wire(PrimitiveCase, 13) EXCEPT !.parse = "DUPLICATE-KEY"]),
      want |-> "DUPLICATE-KEY"]}

\* Both required legs of a step, agreeing.
Pair(c, n) == <<PassObs(c, "reference", n), PassObs(c, "pf-anvil", n)>>

\* The adapter probes: one optional leg.
OptionalAdapter ==
    [SkipPolicy(AdapterCase, <<"pf-anvil">>) EXCEPT
        !.legs = <<"pf-anvil">>, !.oz = FALSE, !.tools = <<>>]

Unrun(o, verdict) == [o EXCEPT !.verdict = verdict, !.reason = {9}]

\* _run_close_case_negative_tests: the required legs.  The script closes its
\* digest-listed case here without a directory.
RequiredLegTests(c) ==
    LET two == [c EXCEPT !.steps = <<Call(0, "success"), Call(1, "success")>>]
        ok == Pair(c, 0)
        Foreign(o) == [o EXCEPT !.identity = 2]
        Shared(o, n) == [o EXCEPT !.shared.state = Text(n)]
    IN  {AClose(c, ok, {}, "pass"),
         AClose(c, <<ok[2]>>, {}, "INVARIANT"),
         AClose(two, ok \o <<PassObs(c, "reference", 1)>>, {}, "INVARIANT"),
         AClose(c, ok \o <<ok[1]>>, {}, "INVARIANT"),
         AClose(c, ok \o <<PassObs(c, "reference", 1)>>, {}, "INVARIANT"),
         AClose(c, <<Shared(ok[1], 1), Shared(ok[2], 2)>>, {}, "INVARIANT"),
         AClose(c, <<ok[1], Foreign(ok[2])>>, {}, "INVARIANT"),
         AClose(c, <<Foreign(ok[1]), Foreign(ok[2])>>, {}, "INVARIANT"),
         AClose(c, <<Unrun(ok[1], "skip"), ok[2]>>, {}, "INVARIANT")}

\* _run_close_case_negative_tests: the optional leg.
OptionalLegTests ==
    LET c == OptionalAdapter
        two == [c EXCEPT !.steps = <<Call(0, "success"), Call(1, "success")>>]
        At(n, verdict) == Unrun(PassObs(c, "pf-anvil", n), verdict)
    IN  {AClose(c, <<At(0, "tool-blocked")>>, {}, "INVARIANT"),
         AClose(c, <<At(0, "proposal")>>, {}, "INVARIANT"),
         AClose(two, <<At(0, "skip"), At(1, "tool-blocked")>>, {}, "INVARIANT"),
         AClose(c, <<At(0, "skip")>>, {}, "skip")}

NoSidecar == [digest |-> {}, hex |-> {}]
Sidecar(hash) == [digest |-> {hash}, hex |-> {[form |-> "bytes", hash |-> hash, magic |-> TRUE]}]
Sidecars(n, s) == [i \in 0..(n - 1) |-> s]

\* _run_outcome_adapter_tests: projecting, minting, and closing on outcomes.
OutcomeTests ==
    LET success == PassObs(PrimitiveCase, "reference", 0).shared
        revert == [success EXCEPT !.status = "revert"]
        Project(s, want) == [got |-> FirstFailure(ProjectChecks(s)), want |-> want]
        Poison(o) == [o EXCEPT !.shared.status = "revert", !.shared.ret = {Text(1)}]
        digest == SkipPolicy(PrimitiveCase, <<>>)
        reverting == [digest EXCEPT !.steps = <<Call(0, "revert")>>]
        adapter == SkipPolicy(AdapterCase, <<>>)
        Moved(leg, n) == [PassObs(adapter, leg, 0) EXCEPT !.shared.state = Text(n)]
    IN  {Project([success EXCEPT !.ret = {Text(12)}], "ok"),
         Project(revert, "ok"),
         Project([success EXCEPT !.status = "blocked"], "OUTCOME"),
         Project([revert EXCEPT !.ret = {Text(1)}], "OUTCOME"),
         [got |-> TryMint(ReferenceObservation), want |-> "OUTCOME"],
         [got |-> TryMint([ReferenceObservation EXCEPT !.bad = {"keys"}]), want |-> "SCHEMA"],
         AClose(reverting, <<Poison(Pair(digest, 0)[1]), Poison(Pair(digest, 0)[2])>>, {},
                "OUTCOME"),
         AClose(adapter, <<Moved("pf-anvil", 1), Moved("oz-anvil", 2)>>, {}, "OUTCOME"),
         AClose(PrimitiveCase, Pair(PrimitiveCase, 0), {}, "OUTCOME")}

\* The same: the sidecars, one alone, the tree, and those of a closing case.
SidecarTests ==
    LET Tree(d) == [got |-> FirstFailure(DigestTreeChecks([id \in DOMAIN DigestSteps |-> d])),
                    want |-> "OUTCOME"]
        n == DigestSteps["statecell"]
        c == [SkipPolicy(PrimitiveCase, <<>>) EXCEPT
                 !.steps = [i \in 1..n |-> Call(i - 1, "success")]]
        obs == FlattenSeq([i \in 1..n |-> Pair(c, i - 1)])
        torn == [Sidecar(5) EXCEPT !.digest = {6}]
    IN  {[got |-> FirstFailure(SidecarChecks(torn)), want |-> "OUTCOME"],
         Tree({}), Tree({Sidecars(n, NoSidecar)}),
         AClose(c, obs, {Sidecars(n, NoSidecar)}, "OUTCOME"),
         AClose(c, obs, {Sidecars(n, Sidecar(7))}, "pass")}

\* _run_tool_lock_and_obs_root_tests: the directories a run may not destroy.
ObsRootTests ==
    LET Real(name) == [name |-> name, link |-> FALSE]
        Link(name) == [name |-> name, link |-> TRUE]
        Ask(build, inside, parts, want) ==
            [got |-> FirstFailure(SafeObsRootChecks(build, [inside |-> inside, parts |-> parts])),
             want |-> want]
    IN  {Ask("dir", TRUE, <<Real("build"), Real("v2"), Real("obs")>>, "ok"),
         Ask("dir", TRUE, <<Real("nope"), Real("child")>>, "PATH"),
         Ask("dir", FALSE, <<>>, "PATH"), Ask("dir", TRUE, <<>>, "PATH"),
         Ask("dir", TRUE, <<Real("build")>>, "PATH"),
         Ask("dir", TRUE, <<Real("outside")>>, "PATH"),
         Ask("dir", TRUE, <<Real("build"), Link("evil")>>, "PATH"),
         Ask("link", TRUE, <<Real("build"), Real("v2")>>, "PATH"),
         Ask("dir", TRUE, <<Real("build"), Link("sub"), Real("leaf")>>, "PATH")}

\* run_self_tests: the probes, by the function that makes them.
Probes(group) ==
    CASE group = "cases" -> CaseTests
      [] group = "case bounds" -> CaseBoundTests
      [] group = "observation bounds" -> ObservationBoundTests
      [] group = "slots" -> SlotTests
      [] group = "observations" -> ObservationTests
      [] group = "required legs" -> RequiredLegTests(SkipPolicy(PrimitiveCase, <<>>))
      [] group = "optional legs" -> OptionalLegTests
      [] group = "outcomes" -> OutcomeTests
      [] group = "sidecars" -> SidecarTests
      [] OTHER -> ObsRootTests

============================================================================
