--------------------------- MODULE EvmCorpusCase ---------------------------
(* The documents of the EVM corpus and what scripts/evm_corpus_v1.py makes   *)
(* of them: a case (a program pinned by its hashes, actors, steps, the legs  *)
(* to run and the policy for legs that cannot run), an observation (what one *)
(* leg saw at one step), the sidecars the Reference leg mints, and           *)
(* close_case, which joins a case with its observations.                     *)
(*                                                                           *)
(* Every validator raises on its first failing test, and the code it raises  *)
(* is what callers and the script's own tests look at.  A validator is       *)
(* therefore a sequence of checks <<code, condition>> in the order of the    *)
(* source, and its verdict the code of the first condition that is FALSE.    *)
(*                                                                           *)
(* A document is a record.  Leaves whose only property is to be well formed  *)
(* (hashes, versions, identifiers, the exact key set of an object) are       *)
(* abstracted to "bad", the set of the parts that hold a malformed one; names *)
(* that must be sorted are numbers; a nullable field is a set of at most one *)
(* element.                                                                  *)
EXTENDS Integers, Sequences, FiniteSets, Checks

CONSTANT
    DigestSteps     \* OUTCOME_DIGEST_CASE_STEPS: case id -> number of sidecars

ASSUME DigestStepsAssumption ==
    \A id \in DOMAIN DigestSteps : DigestSteps[id] \in Nat \ {0}

MaxActors == 8
MaxSteps == 32
MaxLogs == 32
MaxTopics == 4
MaxPatterns == 8
MaxTextBytes == 128
MaxCaseBytes == 65536
MaxObsBytes == 262144
MaxDepth == 64
MaxNodes == 100000

Legs == {"reference", "pf-anvil", "oz-anvil"}

\* The order of Python's sorted() on the names of the legs.
LegRank == [reference |-> 3] @@ ("pf-anvil" :> 2) @@ ("oz-anvil" :> 1)

\* OZ_PROJECTION_REQUIRED: the fields no projection may drop, as ranks.
SceneFields == 1..5

\* FORBIDDEN_EARLY_FAILURE: the contract's order, as the ASCII ranks of its
\* four words, which is not the sorted order.
EarlyFailureOrder == <<3, 2, 4, 1>>

----------------------------------------------------------------------------
(* JSON                                                                     *)

\* decode_canonical: the bytes of a document, "parse" standing for what
\* json.loads and the hooks make of the text ("ok" or the code they raise).
WireChecks(w, limit) ==
    << <<"LIMIT", w.bytes <= limit>>,
       <<"JSON", ~w.bom>>,
       <<"JSON", w.utf8>>,
       <<w.parse, w.parse = "ok">>,
       <<"LIMIT", w.nodes <= MaxNodes>>,
       <<"LIMIT", w.depth <= MaxDepth>>,
       <<"CANONICAL", w.canonical>> >>

\* A JSON scalar as Python holds it; == makes no difference between True and
\* 1, nor between False and 0.
PyEq(a, b) ==
    /\ a.n = b.n
    /\ a.kind = b.kind \/ {a.kind, b.kind} = {"bool", "int"}

\* == on a value that may be None.
OptionEq(a, b) ==
    (a = {} <=> b = {}) /\ \A x \in a, y \in b : PyEq(x, y)

----------------------------------------------------------------------------
(* Cases                                                                    *)

\* The arrays of a document are sequences.
IsList(s) == s \in Seq(Range(s))
IsCase(c) == IsList(c.legs) /\ IsList(c.steps) /\ \A s \in Range(c.steps) : IsList(s.logs)

PinsChecks(c) ==
    << <<"SCHEMA", Well(c, "pins")>>,
       <<"PATH", Well(c, "sourcePath")>>,
       <<"SCHEMA", Well(c, "hashes")>>,
       <<"INVARIANT", c.class \in {"oz-behavior", "abi"} => c.oz>>,
       <<"SCHEMA", Well(c, "ozCommit")>>,
       <<"INVARIANT", c.class \in {"primitive", "blocked"} => ~c.oz>>,
       <<"SCHEMA", Well(c, "versions")>> >>

ActorsChecks(c) ==
    << <<"INVARIANT", c.actors # <<>> >>,
       <<"LIMIT", Len(c.actors) <= MaxActors>>,
       <<"SCHEMA", Well(c, "actors")>>,
       <<"INVARIANT", Ascending(c.actors)>> >>

\* address and data may be null, a topic may not.
LogChecks(log) ==
    << <<"SCHEMA", Well(log, "address")>>,
       <<"LIMIT", Len(log.topics) <= MaxTopics>>,
       <<"SCHEMA", Well(log, "data")>> >>

StepChecks(c, i) ==
    LET s == c.steps[i]
        blocked == {s.action = "assert-blocked", s.status = "blocked"}
    IN  << <<"SCHEMA", Well(s, "keys")>>,
           <<"INVARIANT", s.index = i - 1>>,
           <<"SCHEMA", Well(s, "action")>>,
           <<"INVARIANT", s.actor \in Range(c.actors)>>,
           <<"SCHEMA", s.action \in {"call", "view"} => s.entry>>,
           <<"SCHEMA", Well(s, "args")>>,
           <<"LIMIT", Len(s.logs) <= MaxLogs>> >>
        \o ForEach(LogChecks, s.logs)
        \o << <<"INVARIANT", blocked = {c.class = "blocked"}>> >>

StepsChecks(c) ==
    << <<"INVARIANT", c.steps # <<>> >>, <<"LIMIT", Len(c.steps) <= MaxSteps>> >>
    \o FlattenSeq([i \in DOMAIN c.steps |-> StepChecks(c, i)])

\* What each class asks of the legs, of the comparison and of sameCallBytes.
OracleFits(c) ==
    LET legs == Range(c.legs) IN
    CASE c.class = "primitive" ->
           legs = {"reference", "pf-anvil"} /\ c.compare = "shared" /\ ~c.same
      [] c.class = "adapter" ->
           /\ "oz-anvil" \in legs => c.oz
           /\ c.compare \in {"shared", "shared-projection"} /\ ~c.same
      [] c.class = "oz-behavior" ->
           legs = Legs /\ c.compare = "shared-projection" /\ ~c.same
      [] c.class = "abi" -> legs = Legs /\ c.compare = "full-evm" /\ c.same
      [] c.class = "blocked" ->
           c.legs = <<"reference">> /\ c.compare = "none" /\ ~c.same
      [] OTHER -> c.compare = "none" /\ ~c.same

OracleChecks(c) ==
    << <<"INVARIANT", c.legs # <<>> >>,
       <<"SCHEMA", Range(c.legs) \subseteq Legs>>,
       <<"INVARIANT", Cardinality(Range(c.legs)) = Len(c.legs)>>,
       <<"SCHEMA", Well(c, "oracle")>>,
       <<"INVARIANT", OracleFits(c)>> >>

SkipPolicyChecks(c) ==
    << <<"SCHEMA", Range(c.optional) \subseteq Legs>>,
       <<"INVARIANT", Ascending([i \in DOMAIN c.optional |->
                                    LegRank[c.optional[i]]])>>,
       <<"INVARIANT", Range(c.optional) \subseteq Range(c.legs)>>,
       <<"SCHEMA", Well(c, "tools")>>,
       <<"INVARIANT", Ascending(c.tools)>>,
       <<"INVARIANT", c.missingOptionalTool = "skip-leg">>,
       <<"INVARIANT", c.requiredToolFailure = "fail">> >>

\* _validate_claims: the credits a class may claim.
ClaimsChecks(c) ==
    << <<"SCHEMA", Well(c, "claims")>>,
       <<"INVARIANT",
         c.claims \subseteq CASE c.class = "oz-behavior" -> {"family"}
                              [] c.class = "abi" -> {"abi", "standard"}
                              [] OTHER -> {} >> >>

\* _validate_field_name_list, twice, and the overlap of the two lists.
FieldListChecks(b) ==
    << <<"SCHEMA", Well(b, "keys")>>,
       <<"INVARIANT", b.retained # <<>> /\ Ascending(b.retained)>>,
       <<"INVARIANT", Ascending(b.discarded)>>,
       <<"INVARIANT", Range(b.retained) \cap Range(b.discarded) = {}>> >>

ProjectionChecks(b) ==
    << <<"SCHEMA", Well(b, "keys")>>,
       <<"INVARIANT", b.retained # <<>> /\ Ascending(b.retained)>>,
       <<"INVARIANT", Ascending(b.discarded)>>,
       <<"INVARIANT", SceneFields \subseteq Range(b.retained)>>,
       <<"INVARIANT", SceneFields \cap Range(b.discarded) = {}>>,
       <<"INVARIANT", Range(b.retained) \cap Range(b.discarded) = {}>> >>

\* The bounds are on UTF-8 bytes, whatever the number of characters.
BlockedChecks(b) ==
    << <<"SCHEMA", Well(b, "keys")>>,
       <<"LIMIT", b.reasonBytes <= MaxTextBytes>>,
       <<"SCHEMA", Well(b, "reasonKind")>>,
       <<"LIMIT", Len(b.patterns) <= MaxPatterns>>,
       <<"LIMIT", b.patternBytes <= MaxTextBytes>>,
       <<"INVARIANT", Ascending(b.patterns)>>,
       <<"INVARIANT", b.early = EarlyFailureOrder>> >>

OosChecks(b) ==
    << <<"SCHEMA", Well(b, "keys")>>,
       <<"INVARIANT", b.status = "accepted">>,
       <<"PATH", Well(b, "decisionRef")>> >>

\* A body is required for its own class and null for every other.
BodyChecks(c, class, body, checks(_)) ==
    << <<"INVARIANT", (c.class = class) = (body # {})>> >>
    \o IfAny(checks, body)

\* validate_case.
CaseChecks(c) ==
    << <<"SCHEMA", Well(c, "keys")>>,
       <<"SCHEMA", Well(c, "schema")>>,
       <<"SCHEMA", Well(c, "id")>>,
       <<"SCHEMA", c.class \in {"primitive", "adapter", "oz-behavior", "abi",
                                "blocked", "oos"}>> >>
    \o PinsChecks(c) \o ActorsChecks(c)
    \o << <<"SCHEMA", Well(c, "initialLogicalState")>> >>
    \o StepsChecks(c) \o OracleChecks(c) \o SkipPolicyChecks(c) \o ClaimsChecks(c)
    \o BodyChecks(c, "adapter", c.adapter, FieldListChecks)
    \o BodyChecks(c, "oz-behavior", c.projection, ProjectionChecks)
    \o BodyChecks(c, "blocked", c.blocked, BlockedChecks)
    \o BodyChecks(c, "oos", c.oos, OosChecks)

ValidateCase(c) == FirstFailure(CaseChecks(c))

LoadCase(w) == FirstFailure(WireChecks(w, MaxCaseBytes) \o CaseChecks(w.doc))

----------------------------------------------------------------------------
(* Observations                                                             *)

EvmChecks(e) ==
    << <<"SCHEMA", Well(e, "keys")>>,
       <<"SCHEMA", Well(e, "slots")>>,
       <<"INVARIANT", Ascending(e.slots)>>,
       <<"LIMIT", Len(e.logs) <= MaxLogs>> >>
    \o ForEach(LogChecks, e.logs)
    \o << <<"SCHEMA", Well(e, "calls")>>, <<"INVARIANT", Ascending(e.balances)>> >>

\* A mutant: a reason may come with any verdict.
ReasonIgnored(o) ==
    << <<"LIMIT", \A n \in o.reason : n <= MaxTextBytes>> >>

\* validate_observation's tests of skipReason against the verdict; a reason is
\* the number of its bytes.
ReasonChecks(o) ==
    IF o.verdict \in {"pass", "fail"}
    THEN << <<"INVARIANT", o.reason = {}>> >>
    ELSE << <<"SCHEMA", \E n \in o.reason : n > 0>>,
            <<"LIMIT", \A n \in o.reason : n <= MaxTextBytes>> >>

ObservationChecks(o) ==
    << <<"SCHEMA", Well(o, "keys")>>,
       <<"SCHEMA", o.leg \in Legs>>,
       <<"SCHEMA", o.step \in 0..(MaxSteps - 1)>>,
       <<"SCHEMA", Well(o, "identity")>>,
       <<"SCHEMA", o.verdict \in {"pass", "fail", "skip", "tool-blocked",
                                  "proposal"}>> >>
    \o ReasonChecks(o)
    \o << <<"SCHEMA", Well(o, "shared")>>,
          <<"INVARIANT", (o.leg = "reference") = (o.evm = {})>> >>
    \o IfAny(EvmChecks, o.evm)

ValidateObservation(o) == FirstFailure(ObservationChecks(o))

LoadObservation(w) ==
    FirstFailure(WireChecks(w, MaxObsBytes) \o ObservationChecks(w.doc))

\* == on two shared objects.
SharedEq(s, t) ==
    /\ s.status = t.status /\ s.rollback = t.rollback
    /\ OptionEq(s.ret, t.ret) /\ PyEq(s.state, t.state)
    /\ Len(s.effects) = Len(t.effects)
    /\ \A i \in DOMAIN s.effects : PyEq(s.effects[i], t.effects[i])

\* project_outcome_from_shared: a blocked step has no outcome, and only a
\* successful one may return a value.
ProjectChecks(s) ==
    << <<"OUTCOME", s.status # "blocked">>,
       <<"OUTCOME", s.status # "success" => s.ret = {}>> >>

\* outcome_projection_compare_key, compared.
ProjectionEq(s, t) ==
    /\ s.status = t.status /\ s.rollback = t.rollback
    /\ PyEq(s.state, t.state)
    /\ OptionEq(s.ret, t.ret)
    /\ (s.effects = <<>>) = (t.effects = <<>>)

\* try_mint_outcome_wire_from_observation never mints: an observation lacks
\* what an outcome holds.
TryMint(o) == FirstFailure(ObservationChecks(o) \o << <<"OUTCOME", FALSE>> >>)

----------------------------------------------------------------------------
(* Sidecars                                                                 *)

\* validate_reference_outcome_sidecar: a digest file and the hexadecimal text
\* of an envelope; the envelope is given by its hash.
SidecarChecks(s) ==
    << <<"OUTCOME", s.digest # {}>>,
       <<"OUTCOME", s.hex # {}>>,
       <<"SCHEMA", 0 \notin s.digest>>,
       <<"OUTCOME", \A e \in s.hex : e.form # "malformed">>,
       <<"OUTCOME", \A e \in s.hex : e.form # "empty">>,
       <<"OUTCOME", \A e \in s.hex : s.digest = {e.hash}>>,
       <<"OUTCOME", \A e \in s.hex : e.magic>> >>

\* The sidecars 0..n-1 of the directory of a case.
SidecarsChecks(dir, n) ==
    FlattenSeq([i \in 1..n |-> SidecarChecks(dir[i - 1])])

\* validate_outcome_digest_tree: every case of the list, present or not; the
\* order of the cases does not change a verdict, OUTCOME first or SCHEMA first
\* being told apart only inside one case.
DigestTreeChecks(tree) ==
    FlattenSeq(SetToSeq(
        {IF tree[id] = {} THEN << <<"OUTCOME", FALSE>> >>
         ELSE SidecarsChecks(CHOOSE d \in tree[id] : TRUE, DigestSteps[id])
           : id \in DOMAIN DigestSteps}))

----------------------------------------------------------------------------
(* close_case                                                               *)

StepIndices(c) == {c.steps[i].index : i \in DOMAIN c.steps}

\* The required legs, and the first of them.
Required(c) == Range(c.legs) \ Range(c.optional)
Lead(c) == c.legs[Min({i \in DOMAIN c.legs : c.legs[i] \in Required(c)})]

ExpectedKeys(c) == Range(c.legs) \X StepIndices(c)

KeyOf(o) == <<o.leg, o.step>>

\* A mutant: the index does not look at the program an observation is of.
CollectUnbound(c, obs, i) ==
    ObservationChecks(obs[i])
    \o << <<"INVARIANT", obs[i].case = c.id>>,
          <<"INVARIANT", \A j \in 1..(i - 1) : KeyOf(obs[j]) # KeyOf(obs[i])>>,
          <<"INVARIANT", KeyOf(obs[i]) \in ExpectedKeys(c)>> >>

\* The tests of one observation, and of those before it, as the index grows.
CollectChecks(c, obs, i) ==
    ObservationChecks(obs[i])
    \o << <<"INVARIANT", obs[i].case = c.id>>,
          <<"INVARIANT", obs[i].identity = c.identity>>,
          <<"INVARIANT", \A j \in 1..(i - 1) : KeyOf(obs[j]) # KeyOf(obs[i])>>,
          <<"INVARIANT", KeyOf(obs[i]) \in ExpectedKeys(c)>> >>

IndexChecks(c, obs) ==
    CaseChecks(c)
    \o FlattenSeq([i \in DOMAIN obs |-> CollectChecks(c, obs, i)])
    \o << <<"INVARIANT", ExpectedKeys(c) \subseteq {KeyOf(obs[i]) : i \in DOMAIN obs}>> >>

IndexOf(obs) ==
    [k \in {KeyOf(obs[i]) : i \in DOMAIN obs} |->
        CHOOSE o \in Range(obs) : KeyOf(o) = k]

LegVerdicts(c, index, leg) == {index[<<leg, n>>].verdict : n \in StepIndices(c)}

\* Required legs pass at every step; an optional leg passes or is skipped as a
\* whole.
VerdictChecks(c, index) ==
    << <<"INVARIANT", \A leg \in Required(c) :
                          LegVerdicts(c, index, leg) = {"pass"}>>,
       <<"INVARIANT", \A leg \in Range(c.optional) :
                          LegVerdicts(c, index, leg) \in {{"pass"}, {"skip"}}>> >>

\* _log_matches_expectation: a null address or data matches anything.
LogMatches(actual, expected) ==
    /\ expected.address \subseteq actual.address
    /\ actual.topics = expected.topics
    /\ expected.data \subseteq actual.data

\* The statuses of the legs that pass at step s, and the logs of pf-anvil.
StepOutcomeChecks(c, index, s) ==
    << <<"INVARIANT", \A leg \in Range(c.legs) :
                          index[<<leg, s.index>>].verdict = "pass" =>
                          index[<<leg, s.index>>].shared.status = s.status>>,
       <<"INVARIANT", \A o \in {index[k] : k \in ExpectedKeys(c)} :
                          o.leg = "pf-anvil" /\ o.step = s.index /\ o.verdict = "pass" =>
                          \A e \in o.evm :
                              /\ Len(e.logs) = Len(s.logs)
                              /\ \A i \in DOMAIN s.logs : LogMatches(e.logs[i], s.logs[i])>> >>

\* The shared object of a leg at step s.
SharedAt(index, leg, s) == index[<<leg, s.index>>].shared

\* "Primitive: shared exact equality across required legs per step."
PrimitiveChecks(c, index, s) ==
    << <<"INVARIANT", c.class = "primitive" =>
            \A leg \in Required(c) :
                SharedEq(SharedAt(index, leg, s), SharedAt(index, Lead(c), s))>> >>

\* Every required leg projects, and projects to the same key.
OutcomeChecks(c, index, s) ==
    << <<"OUTCOME", \A leg \in Required(c) :
              FirstFailure(ProjectChecks(SharedAt(index, leg, s))) = "ok">>,
       <<"OUTCOME", \A leg \in Required(c) :
              ProjectionEq(SharedAt(index, leg, s), SharedAt(index, Lead(c), s))>> >>

\* _close_outcome_digest_gate; dir is empty when no directory is given.
DigestGateChecks(c, index, dir) ==
    IF c.id \notin DOMAIN DigestSteps THEN <<>>
    ELSE << <<"OUTCOME", {"reference", "pf-anvil"} \subseteq Required(c)>> >>
         \o LET Gated(d) == << <<"OUTCOME", Len(c.steps) = DigestSteps[c.id]>> >>
                            \o SidecarsChecks(d, DigestSteps[c.id])
            IN  IfAny(Gated, dir)

\* What is left to test once the observations are indexed.
ClosureChecks(c, index) ==
    LET Outcome(s) == StepOutcomeChecks(c, index, s)
        Primitive(s) == PrimitiveChecks(c, index, s)
        Projected(s) == OutcomeChecks(c, index, s)
    IN  VerdictChecks(c, index)
        \o ForEach(Outcome, c.steps) \o ForEach(Primitive, c.steps)
        \o ForEach(Projected, c.steps)

\* Only when every leg is optional and skipped is the case itself skipped.
AllSkipped(c, index) ==
    /\ c.optional # <<>> /\ Required(c) = {}
    /\ \A leg \in Range(c.optional) : LegVerdicts(c, index, leg) = {"skip"}

\* close_case: "pass", "skip" or the code of the failure.
CloseCase(c, obs, dir) ==
    LET indexed == FirstFailure(IndexChecks(c, obs))
        index == IndexOf(obs)
        closed == FirstFailure(ClosureChecks(c, index))
        gated == FirstFailure(DigestGateChecks(c, index, dir))
    IN  IF indexed # "ok" THEN indexed
        ELSE IF closed # "ok" THEN closed
        ELSE IF AllSkipped(c, index) THEN "skip"
        ELSE IF gated = "ok" THEN "pass" ELSE gated

----------------------------------------------------------------------------
(* What a full run of the corpus may start from                             *)

\* PRIMITIVE_REQUIRED_TOOLS, as ranks.
PrimitiveTools == <<1, 2, 3, 4, 5, 6>>

\* RUNNABLE_PIN_EXPECT: the one surface of target, profile, hard fork, lock
\* digest and tool versions a runnable case may pin.
RunnableSurface == 1

Runnable(c) == c.class \in {"primitive", "adapter"} /\ c.runner = "anvil-matrix"

\* assert_case_pins.
PinJoinChecks(c) ==
    CaseChecks(c)
    \o << <<"INVARIANT", c.surface = RunnableSurface>>,
          <<"INVARIANT", c.class = "primitive" => c.tools = PrimitiveTools>>,
          <<"INVARIANT", c.class = "adapter" => c.tools = <<>> >> >>

\* _cmd_list_runnable: every file of the directory loads, the runnable ones
\* are exactly the expected ones, and each is pinned to the surface.
ListRunnableChecks(cases, expected) ==
    LET runnable == SelectSeq(cases, Runnable) IN
    ForEach(CaseChecks, cases)
    \o << <<"INVARIANT", {runnable[i].id : i \in DOMAIN runnable} = expected>>,
          <<"INVARIANT", Len(runnable) = Cardinality(expected)>> >>
    \o ForEach(PinJoinChecks, runnable)

\* require_safe_obs_root: a requested directory is the sequence of its
\* components below the repository, each a real name or a link, or leaves it
\* ("inside" is FALSE); "build" is what the repository holds at build/.
SafeObsRootChecks(build, request) ==
    LET parts == request.parts IN
    << <<"PATH", build # "link">>,
       <<"PATH", build # "file">>,
       <<"PATH", request.inside /\ parts # <<>> >>,
       <<"PATH", \A i \in DOMAIN parts : i = 1 => parts[i].name = "build">>,
       <<"PATH", Len(parts) > 1>>,
       <<"PATH", \A i \in DOMAIN parts : i > 1 => ~parts[i].link>> >>

============================================================================
