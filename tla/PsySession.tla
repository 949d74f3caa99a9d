------------------------------ MODULE PsySession ------------------------------
(* scripts/psy_dpn_session.py: the methods of one compiled package are called *)
(* one after another on shared storage.  A method is a list of definitions,   *)
(* each binding one wire, and a list of state commands, each with the         *)
(* definition before which it is to run.  A definition that takes the result  *)
(* of a command runs the command first, and a command that reads runs the     *)
(* earlier commands that write and can run, ahead of the definitions they are *)
(* listed at.  The program takes no rollback: a call that fails ends it.      *)
(*                                                                           *)
(* A wire is <<data type, index>>; a reference to a target wire without a     *)
(* target is taken as one to the Bool or U32 wire of the same index.  A        *)
(* definition of one input takes its literal as the second operand.  An       *)
(* optional field is a set of at most one.                                    *)
EXTENDS Integers, Sequences, FiniteSets, SequencesExt

CONSTANTS
    Packages,       \* packages: the name of each method, and the method
    Arguments,      \* the argument lists of a call
    MaxCalls,       \* the calls of one session
    U64, U32        \* the two moduli values are reduced by

VARIABLES
    pkg,            \* the package
    psyPc,          \* "idle", the phase of the call, or how the program ended
    fn, arguments,  \* the method and its arguments
    psyStep,        \* the next definition
    v,              \* the wires bound so far: [wire -> value]
    hashes,         \* the hash wires' limbs: [index -> limbs]
    running,        \* the command that is to run, or 0
    ran,            \* the commands that have run, in this order
    cmdRes,         \* [command -> limbs]
    world,          \* the storage: slots and the keyed store
    psyLog,         \* what the commands of the call read, wrote and invoked
    results,        \* of the finished calls
    before          \* the storage when the call began

call == <<fn, arguments, psyStep, v, hashes, running, ran, cmdRes, psyLog, before>>
psyVars == <<pkg, psyPc, call, world, results>>

HashLimbs == 4
UserId == 1
ContractId == 1
Empty == [slots |-> <<>>, imt |-> <<>>]

----------------------------------------------------------------------------
(* Wires                                                                    *)

\* The wires a reference may mean, in the order they are looked for.
Candidates(w) ==
    IF w[1] = "target" THEN <<w, <<"bool", w[2]>>, <<"u32", w[2]>> >> ELSE <<w>>
IsBound(e, w) == \E i \in DOMAIN Candidates(w) : Candidates(w)[i] \in DOMAIN e
Resolve(e, w) ==
    LET c == Candidates(w)
    IN  e[c[CHOOSE i \in DOMAIN c : c[i] \in DOMAIN e /\ \A j \in 1..(i - 1) : c[j] \notin DOMAIN e]]
AllBound(e, refs) == \A i \in DOMAIN refs : IsBound(e, refs[i])
Values(e, refs) == [i \in DOMAIN refs |-> Resolve(e, refs[i])]
OrElse(e, w, other) == IF IsBound(e, w) THEN Resolve(e, w) ELSE other

\* The literal of a constant target wire: the first definition of its index.
Literal(f, w) ==
    LET at == {i \in DOMAIN f.defs : f.defs[i].wire = w}
        d == f.defs[CHOOSE i \in at : \A j \in at : i <= j]
    IN  IF w[1] = "target" /\ at # {} /\ d.op = "const" THEN {d.lit} ELSE {}
SlotRef(f, w) == IF Literal(f, w) = {} THEN w[2] ELSE CHOOSE n \in Literal(f, w) : TRUE

\* package_physical_leaves: a reference that carries a data type and is no
\* constant is a leaf as it is written, which is no slot.
Unslotted == -1
LeafOf(f, w) == IF Literal(f, w) = {} /\ w[1] # "target" THEN Unslotted ELSE SlotRef(f, w)
Leaves(p) ==
    UNION {UNION {IF c.sub = {} THEN c.slot ELSE {LeafOf(p[m], w) : w \in c.sub}
                     : c \in ToSet(p[m].cmds)} : m \in DOMAIN p}

\* physical_slot_from_cmd: what is no constant is slot 0 in a package that only
\* has the leaves 0 and 1.  A command without a wire may name its slot.
Slot(p, f, c) ==
    IF c.sub = {} THEN IF c.slot = {} THEN 0 ELSE CHOOSE n \in c.slot : TRUE
    ELSE LET w == CHOOSE x \in c.sub : TRUE
         IN  IF Literal(f, w) = {} /\ Leaves(p) \subseteq {0, 1} THEN 0 ELSE SlotRef(f, w)

----------------------------------------------------------------------------
(* State commands                                                           *)

Writes == {"SetSlot", "SetHash", "SetKey", "Invoke"}
Reads == {"GetSlot", "GetHash", "GetKey", "HasKey"}
IsSet(c) == c.kind \in Writes
IsGet(c) == c.kind \in Reads

\* _set_ready: not the contract or user a read of another one names.
Ready(e, c) ==
    /\ \A w \in c.cond \cup c.offset \cup c.capacity : IsBound(e, w)
    /\ AllBound(e, c.value) /\ AllBound(e, c.key) /\ AllBound(e, c.args)

Padded(limbs) ==
    [i \in 1..HashLimbs |-> IF i \in DOMAIN limbs THEN limbs[i] ELSE 0]
SlotValue(w, s) == IF s \in DOMAIN w.slots THEN w.slots[s] ELSE <<0>>
KeyValue(w, k) == IF k \in DOMAIN w.imt THEN w.imt[k] ELSE Padded(<<>>)
Put(f, x, y) == [z \in DOMAIN f \cup {x} |-> IF z = x THEN y ELSE f[z]]

\* Whose keyed store a command is about: the user's and contract's own, or those
\* the command names.
Owner(e, c) ==
    <<IF c.user = {} THEN UserId ELSE Resolve(e, CHOOSE w \in c.user : TRUE),
      IF c.contract = {} THEN ContractId ELSE Resolve(e, CHOOSE w \in c.contract : TRUE)>>
OwnedKey(e, c) == <<Owner(e, c), Padded(Values(e, c.key))>>

Skipped(e, c) == \E w \in c.cond : Resolve(e, w) = 0
Failed == [ok |-> FALSE]
Did(w, limbs, entry) == [ok |-> TRUE, world |-> w, limbs |-> limbs, entries |-> <<entry>>]
ReadEntry(at, limbs) == [is |-> "read", at |-> at, new |-> limbs]
WriteEntry(at, old, new) == [is |-> "write", at |-> at, old |-> old, new |-> new]

GetSlot(w, s) == Did(w, SlotValue(w, s), ReadEntry(s, SlotValue(w, s)))
SetSlot(w, s, limbs) ==
    Did([w EXCEPT !.slots = Put(@, s, limbs)], limbs, WriteEntry(s, SlotValue(w, s), limbs))
GetKey(w, k) == Did(w, KeyValue(w, k), ReadEntry(k, KeyValue(w, k)))
HasKey(w, k) ==
    LET there == <<IF KeyValue(w, k) = Padded(<<>>) THEN 0 ELSE 1>> IN Did(w, there, ReadEntry(k, there))
\* The result of a keyed write is the old value and the new one.
SetKey(w, k, limbs) ==
    Did([w EXCEPT !.imt = Put(@, k, limbs)], KeyValue(w, k) \o limbs, WriteEntry(k, KeyValue(w, k), limbs))

\* An invocation is only noted.
Invoke(w, e, c) ==
    Did(w, <<>>, [is |-> "invoke", at |-> 0, new |-> [i \in DOMAIN c.args |-> OrElse(e, c.args[i], c.args[i][2])]])

\* _cmd on bound wires; a condition of 0 skips what a command would do.
Perform(p, f, w, e, c) ==
    IF c.kind \in Writes /\ Skipped(e, c)
    THEN [ok |-> TRUE, world |-> w, limbs |-> <<>>, entries |-> <<>>]
    ELSE CASE c.kind \in {"GetSlot", "GetHash"} -> GetSlot(w, Slot(p, f, c))
           [] c.kind \in {"SetSlot", "SetHash"} -> SetSlot(w, Slot(p, f, c), Values(e, c.value))
           [] c.kind = "GetKey" -> GetKey(w, OwnedKey(e, c))
           [] c.kind = "HasKey" -> HasKey(w, OwnedKey(e, c))
           [] c.kind = "SetKey" -> SetKey(w, OwnedKey(e, c), Padded(Values(e, c.value)))
           [] c.kind = "Invoke" -> Invoke(w, e, c)

\* A command of another kind, or one that needs a wire that is not bound, fails.
\* A read does not look at a condition.
Wanting(e, c) ==
    CASE IsSet(c) -> ~Ready(e, c)
      [] c.kind \in {"GetKey", "HasKey"} ->
            ~AllBound(e, c.key) \/ \E u \in c.user \cup c.contract : ~IsBound(e, u)
      [] OTHER -> c.kind \notin Reads
Effect(p, f, w, e, c) == IF Wanting(e, c) THEN Failed ELSE Perform(p, f, w, e, c)

----------------------------------------------------------------------------
(* Definitions                                                              *)

Truth(b) == IF b THEN 1 ELSE 0
Places(modulus) == {k \in 0..modulus : 2^k < modulus}
Bit(x, k) == (x \div 2^k) % 2
FromBits(bits) == MapThenSumSet(LAMBDA k : 2^k, bits)
Shift(y) == 2^(y % Cardinality(Places(U32)))
Arithmetic ==
    {"add", "sub", "mul", "div", "mod", "bitand", "bitor", "bitxor", "shiftleft", "shiftright"}
Compute(op, x, y) ==
    CASE op = "add" -> x + y
      [] op = "sub" -> x - y
      [] op = "mul" -> x * y
      [] op = "div" -> x \div y
      [] op = "mod" -> x % y
      [] op = "bitand" -> FromBits({k \in Places(U64) : Bit(x, k) = 1 /\ Bit(y, k) = 1})
      [] op = "bitor" -> FromBits({k \in Places(U64) : Bit(x, k) = 1 \/ Bit(y, k) = 1})
      [] op = "bitxor" -> FromBits({k \in Places(U64) : Bit(x, k) # Bit(y, k)})
      [] op = "shiftleft" -> x * Shift(y)
      [] op = "shiftright" -> (x % U32) \div Shift(y)
Tests == {"and", "or", "nor", "eq", "le", "ge", "gt", "lt"}
TestOf(op, x, y) ==
    CASE op = "and" -> x # 0 /\ y # 0
      [] op = "or" -> x # 0 \/ y # 0
      [] op = "nor" -> x = 0 /\ y = 0
      [] op = "eq" -> x = y
      [] op = "le" -> x <= y
      [] op = "ge" -> x >= y
      [] op = "gt" -> x > y
      [] op = "lt" -> x < y

\* Whether the wires a definition looks at are bound: some are not looked at.
Ignored(d, x) ==
    CASE d.op = "and" /\ x = 0 -> {2}
      [] d.op \in {"or", "nor"} /\ x # 0 -> {2}
      [] d.op = "select" -> {IF x # 0 THEN 3 ELSE 2}
      [] OTHER -> {}
Enough(d, e) ==
    d.ins # <<>> =>
        /\ IsBound(e, d.ins[1])
        /\ \A i \in DOMAIN d.ins \ Ignored(d, Resolve(e, d.ins[1])) : IsBound(e, d.ins[i])

\* The value a definition binds, or none when it fails.
Value(d, e, h, args) ==
    LET x == Resolve(e, d.ins[1])
        y == IF Len(d.ins) = 1 THEN d.lit ELSE Resolve(e, d.ins[2])
    IN  IF d.op = "limb"
        THEN \* targetAt, of a hash wire or of a plain one
             IF ~IsBound(e, d.ins[2]) THEN {}
             ELSE IF d.ins[1][2] \in DOMAIN h THEN {h[d.ins[1][2]][1 + (y % HashLimbs)]}
             ELSE IF d.ins[1][1] = "hash" THEN {0}
             ELSE IF IsBound(e, d.ins[1]) THEN {x} ELSE {}
        ELSE IF ~Enough(d, e) THEN {}
        ELSE CASE d.op = "input" -> IF d.lit < Len(args) THEN {args[d.lit + 1]} ELSE {}
               [] d.op \in {"const", "context"} -> {d.lit}
               [] d.op \in Arithmetic -> IF d.op \in {"div", "mod"} /\ y = 0 THEN {} ELSE {Compute(d.op, x, y)}
               [] d.op \in Tests -> {Truth(TestOf(d.op, x, y))}
               [] d.op = "not" -> {Truth(x = 0)}
               [] d.op = "neg" -> {0 - x}
               [] d.op = "cast" -> {x}
               [] d.op = "select" -> {IF x # 0 THEN y ELSE Resolve(e, d.ins[3])}
               [] OTHER -> {}

Reduced(d, n) ==
    CASE d.width = "u64" -> n % U64
      [] d.width = "u32" -> n % U32
      [] d.width = "bool" -> Truth(n # 0)

\* A definition that takes limbs binds its wire to the first of them; a hash
\* wire keeps them all.  A hash of the context is all zero.
FirstLimb(limbs) == IF limbs = <<>> THEN 0 ELSE limbs[1]
Kept(d, h, limbs) ==
    IF d.op = "hash" \/ d.wire[1] = "hash" THEN Put(h, d.wire[2], Padded(limbs)) ELSE h
ContextHash(d, h) == IF d.op = "context" THEN Kept(d, h, <<>>) ELSE h
TakesResult(d) == d.op \in {"result", "hash"}

----------------------------------------------------------------------------
(* A call                                                                   *)

Started(p) ==
    /\ pkg = p
    /\ psyPc = "idle" /\ world = Empty /\ results = <<>>
    /\ fn = <<>> /\ arguments = <<>> /\ psyStep = 0 /\ v = <<>> /\ hashes = <<>>
    /\ running = 0 /\ ran = <<>> /\ cmdRes = <<>> /\ psyLog = <<>> /\ before = Empty
PsyInit == \E p \in Packages : Started(p)

Fail == psyPc' = "failed" /\ UNCHANGED <<pkg, call, world, results>>

\* The circuit inputs are bound, the last of two that are the same wire wins.
BoundInputs(f, args) ==
    [w \in ToSet(f.inputs) |->
        args[CHOOSE i \in DOMAIN f.inputs : f.inputs[i] = w /\ \A j \in DOMAIN f.inputs : f.inputs[j] = w => j <= i] % U64]

\* The next call; a method the package does not have ends the program.
Unknown ==
    /\ psyPc = "idle" /\ Len(results) < MaxCalls
    /\ psyPc' = "unknown" /\ UNCHANGED <<pkg, call, world, results>>
StartCall ==
    /\ psyPc = "idle" /\ Len(results) < MaxCalls
    /\ \E m \in DOMAIN pkg, args \in Arguments :
         /\ fn' = pkg[m] /\ arguments' = args
         /\ IF Len(args) = Len(pkg[m].inputs) /\ Len(pkg[m].res) = Len(pkg[m].cmds)
            THEN /\ psyPc' = "define" /\ v' = BoundInputs(pkg[m], args)
            ELSE /\ psyPc' = "failed" /\ v' = <<>>
    /\ psyStep' = 0 /\ hashes' = <<>> /\ running' = 0 /\ ran' = <<>> /\ cmdRes' = <<>> /\ psyLog' = <<>>
    /\ before' = world
    /\ UNCHANGED <<pkg, world, results>>

done == ToSet(ran)
NotDone == {i \in DOMAIN fn.cmds : i \notin done}

\* run_cmds_at_step: the first command listed here that has not run.
Due == {i \in NotDone : fn.res[i] = psyStep}
Least(S) == CHOOSE i \in S : \A j \in S : i <= j
StartDue ==
    /\ psyPc = "define" /\ running = 0 /\ Due # {}
    /\ running' = Least(Due)
    /\ UNCHANGED <<pkg, psyPc, fn, arguments, psyStep, v, hashes, ran, cmdRes, world, psyLog, results, before>>

\* run_cmd: before a command that reads, the earlier ones that write and can.
\* Mutant: a read also runs the writes listed after it.
Others(i) == {j \in NotDone : IsSet(fn.cmds[j]) /\ Ready(v, fn.cmds[j])}
Earlier(i) == {j \in NotDone : j < i /\ IsSet(fn.cmds[j]) /\ Ready(v, fn.cmds[j])}
RunsNext ==
    IF IsGet(fn.cmds[running]) /\ Earlier(running) # {} THEN Least(Earlier(running)) ELSE running
RunCommand ==
    /\ psyPc \in {"define", "rest"} /\ running # 0
    /\ LET i == RunsNext
           effect == Effect(pkg, fn, world, v, fn.cmds[i])
       IN  IF ~effect.ok THEN Fail
           ELSE /\ world' = effect.world
                /\ cmdRes' = Put(cmdRes, i, effect.limbs)
                /\ psyLog' = psyLog \o effect.entries
                /\ ran' = Append(ran, i)
                /\ running' = IF i = running THEN 0 ELSE running
                /\ UNCHANGED <<pkg, psyPc, fn, arguments, psyStep, v, hashes, results, before>>

\* A definition that takes the result of a command that has not run.
Definition == fn.defs[psyStep + 1]
StartTaken ==
    /\ psyPc = "define" /\ running = 0 /\ Due = {} /\ psyStep < Len(fn.defs)
    /\ TakesResult(Definition) /\ Definition.lit \in NotDone
    /\ running' = Definition.lit
    /\ UNCHANGED <<pkg, psyPc, fn, arguments, psyStep, v, hashes, ran, cmdRes, world, psyLog, results, before>>

TakeResult ==
    /\ psyPc = "define" /\ running = 0 /\ Due = {} /\ psyStep < Len(fn.defs)
    /\ TakesResult(Definition) /\ Definition.lit \notin NotDone
    /\ IF Definition.lit \notin DOMAIN fn.cmds THEN Fail
       ELSE /\ v' = Put(v, Definition.wire, Reduced(Definition, FirstLimb(cmdRes[Definition.lit])))
            /\ hashes' = Kept(Definition, hashes, cmdRes[Definition.lit])
            /\ psyStep' = psyStep + 1
            /\ UNCHANGED <<pkg, psyPc, fn, arguments, running, ran, cmdRes, world, psyLog, results, before>>

Define ==
    /\ psyPc = "define" /\ running = 0 /\ Due = {} /\ psyStep < Len(fn.defs)
    /\ ~TakesResult(Definition)
    /\ LET value == Value(Definition, v, hashes, arguments)
       IN  IF value = {} THEN Fail
           ELSE /\ v' = Put(v, Definition.wire, Reduced(Definition, CHOOSE n \in value : TRUE))
                /\ hashes' = ContextHash(Definition, hashes)
                /\ psyStep' = psyStep + 1
                /\ UNCHANGED <<pkg, psyPc, fn, arguments, running, ran, cmdRes, world, psyLog, results, before>>

\* After the last definition: its commands, then all that can run and have not.
Defined ==
    /\ psyPc = "define" /\ running = 0 /\ Due = {} /\ psyStep = Len(fn.defs)
    /\ psyPc' = "rest"
    /\ UNCHANGED <<pkg, call, world, results>>
Late == {i \in NotDone : Ready(v, fn.cmds[i])}
StartLate ==
    /\ psyPc = "rest" /\ running = 0 /\ Late # {}
    /\ running' = Least(Late)
    /\ UNCHANGED <<pkg, psyPc, fn, arguments, psyStep, v, hashes, ran, cmdRes, world, psyLog, results, before>>

\* The assertions, the events whose condition holds, and the outputs.
AssertsHold(f, e) ==
    \A i \in DOMAIN f.asserts :
        /\ AllBound(e, f.asserts[i])
        /\ Resolve(e, f.asserts[i][1]) = Resolve(e, f.asserts[i][2])
Emitted(f, e) ==
    LET told == SelectSeq(f.events, LAMBDA ev : IsBound(e, ev.cond) /\ Resolve(e, ev.cond) # 0)
    IN  [i \in DOMAIN told |-> [j \in DOMAIN told[i].data |-> OrElse(e, told[i].data[j], told[i].data[j][2])]]
Result(f, e, entries) ==
    [outputs |-> Values(e, f.outputs), events |-> Emitted(f, e), log |-> entries]
Return ==
    /\ psyPc = "rest" /\ running = 0 /\ Late = {}
    /\ IF AssertsHold(fn, v) /\ AllBound(v, fn.outputs)
       THEN /\ psyPc' = "idle" /\ results' = Append(results, Result(fn, v, psyLog))
            /\ UNCHANGED <<pkg, call, world>>
       ELSE Fail

PsyNext == \/ StartCall \/ Unknown \/ StartDue \/ RunCommand \/ StartTaken
           \/ TakeResult \/ Define \/ Defined \/ StartLate \/ Return
PsySpec == PsyInit /\ [][PsyNext]_psyVars

----------------------------------------------------------------------------
(* What the schedule says                                                   *)

\* A method's commands, places and definitions are lists (run).
IsSequence(s) == Len(s) \in Nat /\ DOMAIN s = 1..Len(s)
IsMethod(f) == IsSequence(f.cmds) /\ IsSequence(f.res) /\ IsSequence(f.defs)
PackagesAreLists == \A p \in Packages : \A m \in DOMAIN p : IsMethod(p[m])

\* What the compiler emits (LowerPlanV1, emitStateLoad and emitStateStore): the
\* commands are listed in the order they run in, each at a definition or after
\* the last, and a result is taken from a command listed no later.
Scheduled(f) ==
    /\ Len(f.res) = Len(f.cmds)
    /\ \A i, j \in DOMAIN f.res : i <= j => f.res[i] <= f.res[j]
    /\ \A i \in DOMAIN f.res : f.res[i] \in 0..Len(f.defs)
    /\ \A i \in DOMAIN f.defs : TakesResult(f.defs[i]) =>
          f.defs[i].lit \in DOMAIN f.cmds /\ f.res[f.defs[i].lit] < i

\* The simulator the script stands in for: before each definition the commands
\* listed there, in their order, and nothing else.
OfficialStart(f, args, w0) ==
    [ok |-> TRUE, v |-> BoundInputs(f, args), h |-> <<>>, world |-> w0, res |-> <<>>, log |-> <<>>]
OfficialRun(p, f, s, i) ==
    LET effect == Effect(p, f, s.world, s.v, f.cmds[i])
    IN  IF ~s.ok \/ ~effect.ok THEN Failed
        ELSE [ok |-> TRUE, v |-> s.v, h |-> s.h, world |-> effect.world,
              res |-> Put(s.res, i, effect.limbs), log |-> s.log \o effect.entries]
\* After each command of those listed at n.
OfficialListed(p, f, s, n) ==
    LET after[i \in 0..Len(f.cmds)] ==
          IF i = 0 THEN s
          ELSE IF f.res[i] = n THEN OfficialRun(p, f, after[i - 1], i) ELSE after[i - 1]
    IN  after
OfficialBind(f, args, s, n) ==
    LET d == f.defs[n]
        value == IF TakesResult(d) THEN {FirstLimb(s.res[d.lit])} ELSE Value(d, s.v, s.h, args)
    IN  IF ~s.ok \/ value = {} THEN Failed
        ELSE [ok |-> TRUE, v |-> Put(s.v, d.wire, Reduced(d, CHOOSE x \in value : TRUE)),
              h |-> IF TakesResult(d) THEN Kept(d, s.h, s.res[d.lit]) ELSE ContextHash(d, s.h),
              world |-> s.world, res |-> s.res, log |-> s.log]
\* After each definition.
OfficialBound(p, f, args, w0) ==
    LET after[n \in 0..Len(f.defs)] ==
          IF n = 0 THEN OfficialStart(f, args, w0)
          ELSE OfficialBind(f, args, OfficialListed(p, f, after[n - 1], n - 1)[Len(f.cmds)], n)
    IN  after
Official(p, f, args, w0) ==
    LET end == OfficialListed(p, f, OfficialBound(p, f, args, w0)[Len(f.defs)], Len(f.defs))[Len(f.cmds)]
    IN  IF end.ok /\ AssertsHold(f, end.v) /\ AllBound(end.v, f.outputs)
        THEN [ok |-> TRUE, world |-> end.world, result |-> Result(f, end.v, end.log)]
        ELSE Failed

----------------------------------------------------------------------------
(* Properties                                                               *)

\* On the methods the compiler emits, running commands ahead of their turn and
\* after the last definition (run_cmd, run) changes nothing: a call ends as the
\* simulator's does, with the same outputs, events, reads, writes and storage, or
\* fails when it fails.
AsOfficial ==
    /\ psyPc = "idle" /\ results # <<>> /\ Scheduled(fn) =>
         Official(pkg, fn, arguments, before) = [ok |-> TRUE, world |-> world, result |-> Last(results)]
    /\ psyPc = "failed" /\ Scheduled(fn) /\ Len(arguments) = Len(fn.inputs) =>
         ~Official(pkg, fn, arguments, before).ok

\* On such a method the commands run in the order they are listed in, none twice
\* and none ahead of its definition, and all have run when the call returns
\* (run_cmd, run_cmds_at_step).
RunsInOrder ==
    psyPc \in {"define", "rest"} /\ Scheduled(fn) =>
        /\ ran = [i \in 1..Len(ran) |-> i]
        /\ \A i \in DOMAIN ran : fn.res[i] <= psyStep
        /\ \A i \in DOMAIN fn.cmds : fn.res[i] < psyStep => i \in 1..Len(ran)
        /\ psyPc = "rest" => Len(ran) = Len(fn.cmds)
=============================================================================
