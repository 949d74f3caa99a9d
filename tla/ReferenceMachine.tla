---------------------------- MODULE ReferenceMachine ----------------------------
(***************************************************************************)
(* The reference machine of the Semantic layer                             *)
(* (src/ProofForgeV2/Semantic/ReferenceMachineV1.lean): the interpreter    *)
(* that gives every contract its meaning.  A host holds a contract's       *)
(* logical state and invokes the contract's callables; each invocation is  *)
(* answered with returned, reverted or trapped.  One action is one         *)
(* instruction, one terminator, one frame entry or exit, or one step of    *)
(* the packaging around them; a run between Start and Finalize is one call *)
(* of stepReferenceSliceV1.                                                *)
(*                                                                         *)
(* Control is kept: blocks, jumps, loop bounds, frames, occurrence         *)
(* counters, the response cursor, the vault, fuel and every early exit.    *)
(* Data is not: what a value instruction computes, which way a branch      *)
(* goes, and the amount or mint an instruction carries are chosen by \E.   *)
(***************************************************************************)
EXTENDS Integers, Sequences, FiniteSets

CONSTANTS
  Programs,        \* functions from callable names to callables
  Names,           \* the callable names an invocation may carry
  Slots, Values, Default, Malformed,  \* slots of the logical state, contents
  Effects,         \* static effect ids
  Amounts, Mints,  \* what the asset calls carry
  Seeds,           \* [native, tokens]: the vault a step starts from
  ResponseLists,   \* the external responses a host may supply
  MaxBalance,      \* UInt64.max in the code
  MaxOccurrence,   \* UInt32.max in the code
  Fuel,            \* 1000000 in the code
  MaxInvocations   \* bound of the model: invocations of one host

Kinds   == {"initializer", "entry", "view", "pureFn", "invariant"}
Callees == {"plain", "nativeDeposit", "nativeTransfer", "tokenTransfer",
            "nativeTransferAsync", "tokenTransferAsync"}
Effectful == {"emit", "externalCall", "schedule"}
OpNames == Effectful \cup {"value", "store", "assert", "pureCall"}
Leaves  == {"return", "revert", "trap"}
Ends    == Leaves \cup {"jump", "branch", "switch"}
TrapCodes == {"unreachable", "invalidExternalResponse", "resourceExhausted",
              "internalInvariant"}
Faults  == TrapCodes \cup {"none", "invalidInvocation", "invalidCore"}
ValueReasons == {"arithmetic", "invalidShift", "castOutOfRange", "indexOutOfBounds"}
ValueFaults  == {"invalidCore", "resourceExhausted", "internalInvariant"}
Reasons == ValueReasons \cup
           {"declared", "assertionFailed", "boundExceeded",
            "uninitialized", "alreadyInitialized", "externalCallReverted"}

\* One record shape serves every instruction; the fields it has no use for
\* hold arbitrary members of their sets.  result says whether the instruction
\* binds a value.
Instructions == [op : OpNames, slot : Slots, effect : Effects,
                 callee : Callees, result : {"void", "typed"}, fn : Names]

\* default says whether a switch has a default target.
Terminators(blocks) == [end : Ends, to : SUBSET blocks,
                        default : {"some", "none"}, fault : TrapCodes]

\* A callable is [kind, entry, blocks, bound]: blocks is the sequence of its
\* blocks, each with its instructions (body) and terminator (last), and bound
\* maps each back edge <<from, header>> to the iterations declared for it.
BlockShape(block, n) ==
  /\ block.body \in Seq(Instructions)
  /\ \A i \in DOMAIN block.body :
       /\ block.body[i].op \in {"value", "pureCall"} => block.body[i].result = "typed"
       /\ block.body[i].op \in {"store", "assert", "emit", "schedule"}
            => block.body[i].result = "void"
  /\ block.last \in Terminators(1..n)
  /\ block.last.end \in Leaves <=> block.last.to = {}
  /\ block.last.end = "jump"   => Cardinality(block.last.to) = 1
  /\ block.last.end = "branch" => Cardinality(block.last.to) <= 2

\* Blocks are numbered in preorder, so an edge goes back when it goes to a
\* block that is not later.
BackEdges(c) == {e \in (DOMAIN c.blocks) \X (DOMAIN c.blocks) :
                   e[2] \in c.blocks[e[1]].last.to /\ e[2] <= e[1]}

EffectSites(c) == {s \in UNION {{b} \X DOMAIN c.blocks[b].body : b \in DOMAIN c.blocks} :
                     c.blocks[s[1]].body[s[2]].op \in Effectful}
Before(s, t) == s[1] < t[1] \/ (s[1] = t[1] /\ s[2] < t[2])

MaxLoopIterations == 4096

CallableShape(c) ==
  /\ c.kind \in Kinds
  /\ Len(c.blocks) \in Nat \ {0} /\ DOMAIN c.blocks = 1..Len(c.blocks)
  /\ c.entry = 1
  /\ \A b \in DOMAIN c.blocks : BlockShape(c.blocks[b], Len(c.blocks))
  /\ DOMAIN c.bound = BackEdges(c)
  /\ \A e \in DOMAIN c.bound : c.bound[e] \in Nat /\ c.bound[e] <= MaxLoopIterations
  /\ \A s \in EffectSites(c) : c.blocks[s[1]].body[s[2]].effect =
                              Cardinality({t \in EffectSites(c) : Before(t, s)})

\* What the structure gate of the wire format has checked before admission:
\* every callable's shape, its loop bounds and the numbering of its effects, at
\* most one initializer, and that pure calls call pure functions.
WellFormed(p) ==
  /\ DOMAIN p \subseteq Names
  /\ \A f \in DOMAIN p : CallableShape(p[f])
  /\ \A f, g \in DOMAIN p :
       p[f].kind = "initializer" /\ p[g].kind = "initializer" => f = g
  /\ \A f \in DOMAIN p : \A b \in DOMAIN p[f].blocks :
       \A i \in DOMAIN p[f].blocks[b].body :
         p[f].blocks[b].body[i].op = "pureCall"
           => /\ p[f].blocks[b].body[i].fn \in DOMAIN p
              /\ p[p[f].blocks[b].body[i].fn].kind = "pureFn"

Bytes    == Values \cup {Malformed}
Contents == [Slots -> Bytes]
Blank    == [s \in Slots |-> Default]
Balances == 0..MaxBalance
Rows     == Mints \X Balances
Vaults   == [native : Balances, tokens : Seq(Rows)]
Responses == [effect : Effects, occ : Nat,
              disposition : {"returned", "reverted"},
              value : {"none", "typed", "noncanonical", "wrong"}]

ASSUME ProgramAssumption == \A p \in Programs : WellFormed(p)
ASSUME DataAssumption ==
  /\ Default \in Values /\ Malformed \notin Values
  /\ Amounts \subseteq Balances
  /\ Seeds \subseteq Vaults
  /\ ResponseLists \subseteq Seq(Responses)
ASSUME BoundAssumption ==
  /\ MaxBalance \in Nat /\ MaxOccurrence \in Nat /\ Fuel \in Nat
  /\ MaxInvocations \in Nat

VARIABLES
  program,         \* the contract, fixed
  status, contents,\* the logical state the host holds
  outbox,          \* effects the host has seen committed, in order
  outcome,         \* what the last invocation was answered with
  invocations,     \* how many invocations the host has made
  pc,              \* "host" between invocations, then "running", "halted"
  root,            \* the invoked callable
  at,              \* the active activation: callable, block, instruction, loops
  frames,          \* suspended callers of pure functions, innermost last
  overlay, effects,\* provisional state and effects of the step
  occ,             \* next occurrence of each static effect
  responses, cursor,
  seed,            \* the vault the step was started with
  native, tokens,  \* the vault
  fuel,
  cand             \* the candidate outcome a halted run carries

hostVars == <<program, status, contents, outbox, outcome, invocations>>
stepVars == <<overlay, effects, occ, cursor, native, tokens>>
vars == <<hostVars, pc, root, at, frames, stepVars, responses, seed, fuel, cand>>

Verdict(kind, why) == [kind |-> kind, why |-> why]
Pending == Verdict("none", "none")
Trapped(fault) == Verdict("trapped", fault)
Reverted(reason) == Verdict("reverted", reason)
Returned == Verdict("returned", "none")

-----------------------------------------------------------------------------
(* Admission and the invocation gate.                                      *)

PureUnchecked(kind, op) == kind = "view" => op \notin Effectful \cup {"store"}

\* Views and pure functions may neither write nor emit.
Allowed(kind, op) == kind \in {"view", "pureFn"} => op \notin Effectful \cup {"store"}

Admitted(p) ==
  \A f \in DOMAIN p : \A b \in DOMAIN p[f].blocks :
    \A i \in DOMAIN p[f].blocks[b].body :
      Allowed(p[f].kind, p[f].blocks[b].body[i].op)

HasInitializer(p) == \E f \in DOMAIN p : p[f].kind = "initializer"

\* The state a program starts from: defaults, live at once without initializer.
AtInitial == /\ contents = Blank
             /\ status = IF HasInitializer(program) THEN "fresh" ELSE "live"

Conforms == status = "live" /\ \A s \in Slots : contents[s] # Malformed

\* The gate's answer to invoking callable f; shape stands for the checks on
\* arguments and context.
Gate(f, shape) ==
  IF f \notin DOMAIN program \/ shape = "bad" THEN "invalidInvocation"
  ELSE CASE program[f].kind \in {"pureFn", "invariant"} -> "invalidInvocation"
         [] program[f].kind = "initializer" /\ AtInitial -> "ready"
         [] program[f].kind = "initializer" /\ ~AtInitial ->
              IF Conforms THEN "alreadyInitialized" ELSE "invalidInvocation"
         [] program[f].kind \in {"entry", "view"} /\ Conforms -> "ready"
         [] program[f].kind \in {"entry", "view"} /\ ~Conforms ->
              IF AtInitial THEN "uninitialized" ELSE "invalidInvocation"

-----------------------------------------------------------------------------
(* The machine: one step's provisional state, occurrence counters, cursor.  *)

Callable == program[at.fn]
Block    == Callable.blocks[at.block]
Instr    == Block.body[at.instr + 1]
NoCounts(f) == [e \in DOMAIN program[f].bound |-> 0]

\* A frame at the entry of f.  loops counts the back edges this activation
\* has taken; region is the counter a target keeps for the same loop, cleared
\* whenever the loop is entered from outside (Targets/Near/EmitIRV1.lean).
Enter(f) == [fn |-> f, block |-> program[f].entry, instr |-> 0,
             loops |-> NoCounts(f), region |-> NoCounts(f)]

Init == /\ program \in Programs
        /\ status \in {"fresh", "live"} /\ contents \in Contents
        /\ outbox = << >> /\ outcome = Pending /\ invocations = 0
        /\ pc = "host"
        /\ root \in DOMAIN program /\ at = Enter(root) /\ frames = << >>
        /\ overlay = contents /\ effects = << >>
        /\ occ = [e \in Effects |-> 0] /\ responses = << >> /\ cursor = 0
        /\ seed \in Seeds /\ native = seed.native /\ tokens = seed.tokens
        /\ fuel = 0 /\ cand = Pending

\* An answer given before any instruction ran.
Answer(verdict) ==
  /\ outcome' = verdict /\ invocations' = invocations + 1
  /\ UNCHANGED <<program, status, contents, outbox, pc, root, at, frames,
                 stepVars, responses, seed, fuel, cand>>

Free == pc = "host" /\ invocations < MaxInvocations

\* The facade's admission failed: the program is never run.
RefuseProgram == Free /\ ~Admitted(program) /\ Answer(Trapped("invalidCore"))

\* The gate refused the invocation's shape: responses are not looked at.
RefuseInvocation == \E f \in Names, shape \in {"good", "bad"} :
  /\ Free /\ Admitted(program)
  /\ Gate(f, shape) = "invalidInvocation"
  /\ Answer(Trapped("invalidInvocation"))

\* The life cycle refused it: any response at all is one too many.
RefuseLifecycle == \E f \in Names, supplied \in ResponseLists :
  /\ Free /\ Admitted(program)
  /\ Gate(f, "good") \in {"alreadyInitialized", "uninitialized"}
  /\ Answer(IF supplied # << >> THEN Trapped("invalidExternalResponse")
            ELSE Reverted(Gate(f, "good")))

Start == \E f \in Names, supplied \in ResponseLists, given \in Seeds :
  /\ Free /\ Admitted(program)
  /\ Gate(f, "good") = "ready"
  /\ pc' = "running" /\ root' = f /\ at' = Enter(f) /\ frames' = << >>
  /\ overlay' = contents /\ effects' = << >>
  /\ occ' = [e \in Effects |-> 0]
  /\ responses' = supplied /\ cursor' = 0
  /\ seed' = given /\ native' = given.native /\ tokens' = given.tokens
  /\ fuel' = Fuel /\ cand' = Pending
  /\ outcome' = Pending /\ invocations' = invocations + 1
  /\ UNCHANGED <<program, status, contents, outbox>>

\* The run ends with a candidate; what it has done so far stays visible.
Stop(verdict) == /\ pc' = "halted" /\ cand' = verdict /\ fuel' = 0
                 /\ UNCHANGED <<at, frames>>

\* Every step of the run costs one unit of fuel.
Go(next) == /\ at' = next /\ fuel' = fuel - 1
            /\ UNCHANGED <<pc, cand>>

Following(a) == [a EXCEPT !.instr = @ + 1]
Advance == Go(Following(at)) /\ UNCHANGED frames

Running == pc = "running" /\ fuel > 0
At(op)  == Running /\ at.instr < Len(Block.body) /\ Instr.op = op
Ending(end) == Running /\ at.instr >= Len(Block.body) /\ Block.last.end = end
Fixed == UNCHANGED <<hostVars, root, responses, seed>>

OutOfFuel == /\ pc = "running" /\ fuel = 0
             /\ Stop(Trapped("resourceExhausted"))
             /\ Fixed /\ UNCHANGED stepVars

\* Literals, loads, arithmetic, aggregates, casts, context and vault reads: a
\* value is bound; or a checked operation reverts; or an operand, an encoding or
\* the size of an aggregate is not what the operation needs, and it traps.
Value == /\ At("value")
         /\ \/ Advance
            \/ \E why \in ValueReasons : Stop(Reverted(why))
            \/ \E fault \in ValueFaults : Stop(Trapped(fault))
         /\ Fixed /\ UNCHANGED stepVars

Store == /\ At("store")
         /\ \E v \in Values : overlay' = [overlay EXCEPT ![Instr.slot] = v]
         /\ Advance /\ Fixed
         /\ UNCHANGED <<effects, occ, cursor, native, tokens>>

Assertion ==
  /\ At("assert")
  /\ Advance \/ \E why \in {"assertionFailed", "declared"} : Stop(Reverted(why))
  /\ Fixed /\ UNCHANGED stepVars

\* The identity of the next dynamic execution of a static effect.
Identity(e) == [effect |-> e, occ |-> occ[e]]
OccurrencesLeft(e) == occ[e] < MaxOccurrence

EffectRow(e, kind, callee, mint, amount) ==
  [id |-> Identity(e), kind |-> kind, callee |-> callee, mint |-> mint,
   amount |-> amount]

Uncounted(e) == occ

\* The counter of the effect that was just given its identity.
Counted(e) == [occ EXCEPT ![e] = @ + 1]

\* The effect joins the ordered buffer under its own occurrence.
Push(e, kind, callee, mint, amount) ==
  /\ occ' = Counted(e)
  /\ effects' = Append(effects, EffectRow(e, kind, callee, mint, amount))

\* emit, externalCall and schedule alike trap once their occurrences are used up.
OccurrencesExhausted ==
  /\ \E op \in Effectful : At(op)
  /\ ~OccurrencesLeft(Instr.effect)
  /\ Stop(Trapped("resourceExhausted"))
  /\ Fixed /\ UNCHANGED stepVars

Emit == /\ At("emit") /\ OccurrencesLeft(Instr.effect)
        /\ Push(Instr.effect, "event", "plain", "none", 0)
        /\ Advance /\ Fixed
        /\ UNCHANGED <<overlay, cursor, native, tokens>>

-----------------------------------------------------------------------------
(* The self-vault of the asset catalogue.                                  *)

\* Reading a mint takes its last row, an absent mint holds nothing.
RowsOf(vault, mint) == {j \in DOMAIN vault : vault[j][1] = mint}
LastRow(S) == CHOOSE j \in S : \A k \in S : k <= j

\* Every row of the mint must cover the amount; a mint without rows covers 0.
Covers(vault, mint, amount) ==
  IF RowsOf(vault, mint) = {} THEN amount = 0
  ELSE \A j \in RowsOf(vault, mint) : vault[j][2] >= amount

\* The loop of vaultTokenDebitV1 keeps its index at zero, so whatever row the
\* mint is in, the debited balance is written over the first row.
Debited(vault, mint, amount) ==
  IF RowsOf(vault, mint) = {} THEN vault
  ELSE [vault EXCEPT ![1] =
          <<mint, vault[LastRow(RowsOf(vault, mint))][2] - amount>>]

TransferUnchecked(callee, mint, amount) ==
  CASE callee = "nativeDeposit"  -> native + amount <= MaxBalance
    [] callee = "tokenTransfer"  -> Covers(tokens, mint, amount)
    [] OTHER -> TRUE

\* Whether a returned void call can be settled against the vault.
Settles(callee, mint, amount) ==
  CASE callee = "nativeDeposit"  -> native + amount <= MaxBalance
    [] callee = "nativeTransfer" -> amount <= native
    [] callee = "tokenTransfer"  -> Covers(tokens, mint, amount)
    [] OTHER -> TRUE

\* An asynchronous transfer the vault does not cover leaves it alone.
NativeAfter(callee, amount) ==
  CASE callee = "nativeDeposit" -> native + amount
    [] callee = "nativeTransfer" -> native - amount
    [] callee = "nativeTransferAsync" /\ amount <= native -> native - amount
    [] OTHER -> native

TokensAfter(callee, mint, amount) ==
  IF callee \in {"tokenTransfer", "tokenTransferAsync"} /\ Covers(tokens, mint, amount)
  THEN Debited(tokens, mint, amount) ELSE tokens

AsyncCallees == {"nativeTransferAsync", "tokenTransferAsync"}

Schedule ==
  /\ At("schedule") /\ OccurrencesLeft(Instr.effect)
  /\ \E mint \in Mints, amount \in Amounts :
       /\ Push(Instr.effect, "schedule", Instr.callee, mint, amount)
       /\ IF Instr.callee \in AsyncCallees
          THEN /\ native' = NativeAfter(Instr.callee, amount)
               /\ tokens' = TokensAfter(Instr.callee, mint, amount)
          ELSE UNCHANGED <<native, tokens>>
  /\ Advance /\ Fixed
  /\ UNCHANGED <<overlay, cursor>>

-----------------------------------------------------------------------------
(* External calls: one supplied response for each, in order.               *)

\* The next response exists and carries exactly the identity of this call.
Answered(e) == /\ cursor < Len(responses)
               /\ responses[cursor + 1].effect = e
               /\ responses[cursor + 1].occ = occ[e]

Response == responses[cursor + 1]
Consumed == cursor + 1

\* The call joins the buffer before its response is looked for.
Call(mint, amount) ==
  /\ At("externalCall") /\ OccurrencesLeft(Instr.effect)
  /\ Push(Instr.effect, "externalCall", Instr.callee, mint, amount)
  /\ Fixed /\ UNCHANGED overlay

CallUnanswered == \E mint \in Mints, amount \in Amounts :
  /\ Call(mint, amount) /\ ~Answered(Instr.effect)
  /\ Stop(Trapped("invalidExternalResponse"))
  /\ UNCHANGED <<cursor, native, tokens>>

CallReverted == \E mint \in Mints, amount \in Amounts :
  /\ Call(mint, amount) /\ Answered(Instr.effect)
  /\ Response.disposition = "reverted"
  /\ cursor' = Consumed
  /\ Stop(Reverted("externalCallReverted"))
  /\ UNCHANGED <<native, tokens>>

\* A call that binds a result needs a returned value of the declared type, and
\* in its canonical encoding; the vault is not consulted for it.
CallForValue == \E mint \in Mints, amount \in Amounts :
  /\ Call(mint, amount) /\ Answered(Instr.effect)
  /\ Response.disposition = "returned" /\ Instr.result = "typed"
  /\ cursor' = Consumed
  /\ CASE Response.value = "typed"        -> Advance
       [] Response.value = "noncanonical" -> Stop(Trapped("invalidCore"))
       [] OTHER                           -> Stop(Trapped("invalidExternalResponse"))
  /\ UNCHANGED <<native, tokens>>

\* A void call discards any value.  A returned deposit or transfer is settled
\* against the vault, which may still turn the answer into a failure.
CallForEffect == \E mint \in Mints, amount \in Amounts :
  /\ Call(mint, amount) /\ Answered(Instr.effect)
  /\ Response.disposition = "returned" /\ Instr.result = "void"
  /\ cursor' = Consumed
  /\ IF Settles(Instr.callee, mint, amount)
     THEN /\ Advance
          /\ native' = NativeAfter(Instr.callee, amount)
          /\ tokens' = TokensAfter(Instr.callee, mint, amount)
     ELSE /\ Stop(IF Instr.callee = "nativeDeposit" THEN Trapped("invalidCore")
                  ELSE Reverted("externalCallReverted"))
          /\ UNCHANGED <<native, tokens>>

-----------------------------------------------------------------------------
(* Pure calls and terminators.                                             *)

PureCall == /\ At("pureCall")
            /\ frames' = Append(frames, Following(at))
            /\ Go(Enter(Instr.fn))
            /\ Fixed /\ UNCHANGED stepVars

RestartedCaller == [frames[Len(frames)] EXCEPT !.loops = [e \in DOMAIN @ |-> 0]]
Caller == frames[Len(frames)]

\* Returning from a pure function resumes its caller where it was suspended,
\* with the loop counts the caller had.
ReturnToCaller == /\ Ending("return") /\ frames # << >>
                  /\ Go(Caller)
                  /\ frames' = SubSeq(frames, 1, Len(frames) - 1)
                  /\ Fixed /\ UNCHANGED stepVars

ReturnToHost == /\ Ending("return") /\ frames = << >>
                /\ Stop(Returned)
                /\ Fixed /\ UNCHANGED stepVars

\* A revert or a trap ends the whole run, from a pure function too.
Revert == /\ Ending("revert") /\ Stop(Reverted("declared"))
          /\ Fixed /\ UNCHANGED stepVars

Trap == /\ Ending("trap") /\ Stop(Trapped(Block.last.fault))
        /\ Fixed /\ UNCHANGED stepVars

\* No case of the switch matches and it has no default.
SwitchMiss == /\ Ending("switch") /\ Block.last.default = "none"
              /\ Stop(Trapped("unreachable"))
              /\ Fixed /\ UNCHANGED stepVars

IsBackEdge(e) == e \in DOMAIN Callable.bound

\* The back edge has already been taken as often as it was declared for.
Exhausted(e) == at.loops[e] >= Callable.bound[e]

\* Entering a header from outside clears its region counters only.
Entered(to) == [at EXCEPT !.block = to, !.instr = 0,
                          !.region = [e \in DOMAIN @ |-> IF e[2] = to THEN 0 ELSE @[e]]]

Repeated(e) == [at EXCEPT !.block = e[2], !.instr = 0,
                          !.loops[e] = @ + 1, !.region[e] = @ + 1]

Jump == \E to \in Block.last.to :
  /\ \E end \in {"jump", "branch", "switch"} : Ending(end)
  /\ LET e == <<at.block, to>> IN
       \/ IsBackEdge(e) /\ Exhausted(e) /\ Stop(Reverted("boundExceeded"))
       \/ IsBackEdge(e) /\ ~Exhausted(e) /\ Go(Repeated(e)) /\ UNCHANGED frames
       \/ ~IsBackEdge(e) /\ Go(Entered(to)) /\ UNCHANGED frames
  /\ Fixed /\ UNCHANGED stepVars

-----------------------------------------------------------------------------
(* Packaging the outcome.                                                  *)

TrailingIgnored == cand

\* A response nobody consumed overrides whatever the run ended with.
Final == IF cursor # Len(responses) THEN Trapped("invalidExternalResponse") ELSE cand

CommitAlways(verdict) == TRUE

\* Only a returned run publishes its overlay and its effects.
Commits(verdict) == verdict.kind = "returned"

\* The overlay of a returned run is encoded anew, which may fail.
Endings == {Final} \cup (IF Final.kind = "returned"
                        THEN {Trapped("internalInvariant")} ELSE {})

Finalize ==
  /\ pc = "halted"
  /\ pc' = "host" /\ outcome' \in Endings
  /\ IF Commits(outcome')
     THEN /\ status' = IF status = "live" \/ program[root].kind = "initializer"
                       THEN "live" ELSE "fresh"
          /\ contents' = overlay
          /\ outbox' = outbox \o effects
     ELSE UNCHANGED <<status, contents, outbox>>
  /\ UNCHANGED <<program, invocations, root, at, frames, stepVars, responses,
                 seed, fuel, cand>>

ExternalCall == CallUnanswered \/ CallReverted \/ CallForValue \/ CallForEffect

Step == \/ OutOfFuel \/ Value \/ Store \/ Assertion \/ OccurrencesExhausted
        \/ Emit \/ Schedule \/ ExternalCall
        \/ PureCall \/ ReturnToCaller \/ ReturnToHost \/ Revert \/ Trap
        \/ SwitchMiss \/ Jump

Next == \/ RefuseProgram \/ RefuseInvocation \/ RefuseLifecycle \/ Start
        \/ Step \/ Finalize

Spec == Init /\ [][Next]_vars

-----------------------------------------------------------------------------
(* Correctness.                                                            *)

EffectRows == [id : [effect : Effects, occ : 0..MaxOccurrence],
               kind : {"event", "externalCall", "schedule"},
               callee : Callees, mint : Mints \cup {"none"}, amount : Nat]
Verdicts == [kind : {"none", "returned", "reverted", "trapped"},
             why : Faults \cup Reasons]

\* An activation stands in a block of its own callable and counts the back
\* edges of that callable.
Activation(f) == [fn : {f}, block : DOMAIN program[f].blocks, instr : Nat,
                  loops : [DOMAIN program[f].bound -> Nat],
                  region : [DOMAIN program[f].bound -> Nat]]
Active(a) == a.fn \in DOMAIN program /\ a \in Activation(a.fn)

HostType == /\ program \in Programs
            /\ status \in {"fresh", "live"} /\ contents \in Contents
            /\ outbox \in Seq(EffectRows) /\ outcome \in Verdicts
            /\ invocations \in 0..MaxInvocations
RunType  == /\ pc \in {"host", "running", "halted"}
            /\ root \in DOMAIN program
            /\ Active(at) /\ \A i \in DOMAIN frames : Active(frames[i])
            /\ fuel \in 0..Fuel /\ cand \in Verdicts
StepType == /\ overlay \in Contents /\ effects \in Seq(EffectRows)
            /\ occ \in [Effects -> 0..MaxOccurrence]
            /\ responses \in ResponseLists \cup {<< >>} /\ cursor \in 0..Len(responses)
VaultType == /\ seed \in Seeds
             /\ native \in Balances /\ tokens \in Seq(Rows)

\* Type correctness: the cursor never passes the responses, no balance leaves
\* its width, and every frame stands in a block of its own callable.
TypeOK == HostType /\ RunType /\ StepType /\ VaultType

\* Two dynamic executions of one static effect never share an identity, and
\* their identities grow in execution order (nextOccurrence).
EffectIdentity ==
  \A i, j \in DOMAIN effects :
    i < j /\ effects[i].id.effect = effects[j].id.effect
      => effects[i].id.occ < effects[j].id.occ

\* The calls among the first i effects.
CallsUpTo(i) == {j \in 1..i : effects[j].kind = "externalCall"}

\* Whether the run just answered was a run at all and not refused by the gate.
Ran == outcome.kind \in {"returned", "reverted"}
       /\ outcome.why \notin {"uninitialized", "alreadyInitialized"}

\* A run that returned or reverted consumed every response, the k-th one for
\* the k-th call it made and under that call's identity; all but the last of
\* them had returned, and in a run that returned the last one had too.
ResponsesConsumed ==
  Ran =>
    /\ Cardinality(CallsUpTo(Len(effects))) = Len(responses)
    /\ \A i \in CallsUpTo(Len(effects)) :
         LET k == Cardinality(CallsUpTo(i)) IN
           /\ responses[k].effect = effects[i].id.effect
           /\ responses[k].occ = effects[i].id.occ
           /\ k < Len(responses) \/ outcome.kind = "returned"
                => responses[k].disposition = "returned"

\* What the settled calls of a step have moved, after each of its effects: a
\* call is settled while the run goes on or once it has returned, and only one
\* without a result is settled at all.
VoidCalls(c) ==
  {c.blocks[s[1]].body[s[2]].effect :
     s \in {t \in EffectSites(c) : c.blocks[t[1]].body[t[2]].result = "void"}}
Settled(row, void, callee, mints) ==
  /\ row.kind = "externalCall" /\ row.callee = callee
  /\ row.id.effect \in void /\ row.mint \in mints
Sums(rows, void, callee, mints) ==
  LET sum[i \in 0..Len(rows)] ==
        IF i = 0 THEN 0
        ELSE sum[i - 1] + (IF Settled(rows[i], void, callee, mints) THEN rows[i].amount ELSE 0)
  IN  sum
Moved(callee, mints) ==
  Sums(effects, VoidCalls(program[root]), callee, mints)[Len(effects)]
InForce == pc = "running" \/ cand = Returned

\* The native vault never pays out more than it was seeded with and was
\* given: what vaultDepositIn and vaultTransferOut check call by call.
NativeNoOverdraft ==
  InForce => Moved("nativeTransfer", Mints) <= seed.native + Moved("nativeDeposit", Mints)

\* A pure function leaves no trace but its value: while one is on top of its
\* caller no state, effect, response or balance moves.
PureFramesInert == [][frames # << >> => UNCHANGED stepVars \/ pc = "host"]_vars

\* The counter a target's lowered loop keeps never runs ahead of the
\* reference's, in the active frame and in every suspended one: whatever loop
\* a target stops, the reference has stopped as well.
LoopsWithin(a) == \A e \in DOMAIN a.loops :
  a.region[e] <= a.loops[e] /\ a.loops[e] <= program[a.fn].bound[e]
LoopsCovered == LoopsWithin(at) /\ \A i \in DOMAIN frames : LoopsWithin(frames[i])

\* The converse, which the loop lowering of the targets states ("matching
\* reference noteBackEdge semantics", Targets/Solana/EmitIRV1.lean:94): where
\* the reference stops a loop the target's counter is used up too.
TargetsStopToo ==
  cand = Reverted("boundExceeded") =>
    \E to \in Block.last.to :
      /\ IsBackEdge(<<at.block, to>>)
      /\ at.region[<<at.block, to>>] >= Callable.bound[<<at.block, to>>]

\* The machine implements the atomic life cycle of a contract: refused and
\* failed invocations leave no trace, views leave none, initializers and
\* entries publish state and effects together, once, when they return.
HostAnswer == IF outcome.kind = "none" THEN "pending"
             ELSE IF outcome.kind = "returned" THEN "returned" ELSE "failed"
Lifecycle == INSTANCE ContractLifecycle WITH
  asked <- IF pc = "host" THEN "nothing" ELSE program[root].kind,
  answer <- HostAnswer
LifecycleSpec == Lifecycle!Spec
=============================================================================
