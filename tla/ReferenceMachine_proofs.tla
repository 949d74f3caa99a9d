------------------------- MODULE ReferenceMachine_proofs -------------------------
(***************************************************************************)
(* Proofs about ReferenceMachine, for every program, every response list   *)
(* and every bound: where a run stands, what it may touch there, the life  *)
(* cycle of its state, how it uses the responses it was given and the      *)
(* types of everything it holds.                                           *)
(*                                                                         *)
(* ResponsesConsumed follows from Heard, which relates the cursor to the   *)
(* number of calls in the effect buffer while the run is still going, and  *)
(* Delivered, which ties the host's answer to the candidate of the run.    *)
(* NativeNoOverdraft follows from Solvent, about sums over the buffer.     *)
(***************************************************************************)
EXTENDS ReferenceMachine, SequenceTheorems, FiniteSetTheorems, WellFoundedInduction, TLAPS

-----------------------------------------------------------------------------
(* Where a run stands.                                                     *)

\* The activations a program's callables can have.
ActivationsOf(p) ==
  UNION {[fn : {f}, block : DOMAIN p[f].blocks, instr : Nat,
          loops : [DOMAIN p[f].bound -> Nat],
          region : [DOMAIN p[f].bound -> Nat]] : f \in DOMAIN p}

Place == /\ program \in Programs
         /\ pc \in {"host", "running", "halted"}
         /\ root \in DOMAIN program
         /\ at \in ActivationsOf(program)
         /\ frames \in Seq(ActivationsOf(program))

\* An activation of the program is a record over one of its callables.
LEMMA ActivationParts ==
  ASSUME NEW p, NEW a \in ActivationsOf(p)
  PROVE  /\ a.fn \in DOMAIN p
         /\ a \in [fn : {a.fn}, block : DOMAIN p[a.fn].blocks, instr : Nat,
                   loops : [DOMAIN p[a.fn].bound -> Nat],
                   region : [DOMAIN p[a.fn].bound -> Nat]]
<1>1. PICK f \in DOMAIN p :
        a \in [fn : {f}, block : DOMAIN p[f].blocks, instr : Nat,
               loops : [DOMAIN p[f].bound -> Nat],
               region : [DOMAIN p[f].bound -> Nat]]
  BY DEF ActivationsOf
<1>2. a.fn = f
  BY <1>1
<1>3. QED
  BY <1>1, <1>2

\* The converse.
LEMMA PartsActivation ==
  ASSUME NEW p, NEW f \in DOMAIN p,
         NEW a \in [fn : {f}, block : DOMAIN p[f].blocks, instr : Nat,
                    loops : [DOMAIN p[f].bound -> Nat],
                    region : [DOMAIN p[f].bound -> Nat]]
  PROVE  a \in ActivationsOf(p)
  BY DEF ActivationsOf

\* Moving on within a block stays within the callable.
LEMMA FollowingPlace ==
  ASSUME NEW p, NEW a \in ActivationsOf(p)
  PROVE  /\ Following(a) \in ActivationsOf(p)
         /\ Following(a).fn = a.fn
<1>1. /\ a.fn \in DOMAIN p
      /\ a \in [fn : {a.fn}, block : DOMAIN p[a.fn].blocks, instr : Nat,
                loops : [DOMAIN p[a.fn].bound -> Nat],
                region : [DOMAIN p[a.fn].bound -> Nat]]
  BY ActivationParts
<1>2. /\ Following(a) \in [fn : {a.fn}, block : DOMAIN p[a.fn].blocks, instr : Nat,
                loops : [DOMAIN p[a.fn].bound -> Nat],
                region : [DOMAIN p[a.fn].bound -> Nat]]
      /\ Following(a).fn = a.fn
  BY <1>1 DEF Following
<1>3. QED
  BY <1>1, <1>2, PartsActivation

\* What is used of the structure gate, one callable at a time.
LEMMA ShapeOf ==
  ASSUME program \in Programs, NEW f \in DOMAIN program
  PROVE  /\ program[f].kind \in Kinds
         /\ program[f].entry \in DOMAIN program[f].blocks
         /\ \A b \in DOMAIN program[f].blocks :
              /\ program[f].blocks[b].body \in Seq(Instructions)
              /\ program[f].blocks[b].last \in Terminators(DOMAIN program[f].blocks)
         /\ \A e \in DOMAIN program[f].bound : program[f].bound[e] \in Nat
<1>1. CallableShape(program[f])
  BY ProgramAssumption DEF WellFormed
<1> DEFINE c == program[f]
<1>2. /\ c.kind \in Kinds /\ c.entry = 1
      /\ Len(c.blocks) \in Nat \ {0} /\ DOMAIN c.blocks = 1..Len(c.blocks)
      /\ \A b \in DOMAIN c.blocks : BlockShape(c.blocks[b], Len(c.blocks))
      /\ \A e \in DOMAIN c.bound : c.bound[e] \in Nat
  BY <1>1, Zenon DEF CallableShape
<1>3. ASSUME NEW b \in DOMAIN c.blocks
      PROVE  /\ c.blocks[b].body \in Seq(Instructions)
             /\ c.blocks[b].last \in Terminators(DOMAIN c.blocks)
  <2>1. BlockShape(c.blocks[b], Len(c.blocks)) /\ DOMAIN c.blocks = 1..Len(c.blocks)
    BY <1>2
  <2>2. /\ c.blocks[b].body \in Seq(Instructions)
        /\ c.blocks[b].last \in Terminators(1..Len(c.blocks))
    BY <2>1, Zenon DEF BlockShape
  <2>3. QED
    BY <2>1, <2>2, Zenon
<1>4. c.entry \in DOMAIN c.blocks
  BY <1>2
<1>5. QED
  BY <1>2, <1>3, <1>4

\* Entering a callable of a well-formed program.
LEMMA EnterPlace ==
  ASSUME program \in Programs, NEW f \in DOMAIN program
  PROVE  /\ Enter(f) \in ActivationsOf(program)
         /\ Enter(f).fn = f
<1>1. program[f].entry \in DOMAIN program[f].blocks
  BY ShapeOf
<1>2. Enter(f) \in [fn : {f}, block : DOMAIN program[f].blocks, instr : Nat,
                    loops : [DOMAIN program[f].bound -> Nat],
                    region : [DOMAIN program[f].bound -> Nat]]
  BY <1>1 DEF Enter, NoCounts
<1>3. QED
  BY <1>2, PartsActivation DEF Enter

\* A jump stays within the callable, whichever kind of edge it takes.
LEMMA JumpPlace ==
  ASSUME Place, NEW to \in Block.last.to
  PROVE  /\ Entered(to) \in ActivationsOf(program)
         /\ Entered(to).fn = at.fn
         /\ IsBackEdge(<<at.block, to>>) =>
              /\ Repeated(<<at.block, to>>) \in ActivationsOf(program)
              /\ Repeated(<<at.block, to>>).fn = at.fn
<1>0. /\ at.fn \in DOMAIN program
      /\ at \in [fn : {at.fn}, block : DOMAIN program[at.fn].blocks, instr : Nat,
                 loops : [DOMAIN program[at.fn].bound -> Nat],
                 region : [DOMAIN program[at.fn].bound -> Nat]]
  BY ActivationParts DEF Place
<1>2. Block.last \in Terminators(DOMAIN Callable.blocks)
  BY <1>0, ShapeOf DEF Place, Block, Callable
<1>3. to \in DOMAIN Callable.blocks
  BY <1>2 DEF Terminators
<1>4. /\ Entered(to) \in [fn : {at.fn}, block : DOMAIN program[at.fn].blocks, instr : Nat,
                 loops : [DOMAIN program[at.fn].bound -> Nat],
                 region : [DOMAIN program[at.fn].bound -> Nat]]
      /\ Entered(to).fn = at.fn
  BY <1>0, <1>3 DEF Entered, Callable
<1>5. ASSUME IsBackEdge(<<at.block, to>>)
      PROVE  /\ Repeated(<<at.block, to>>) \in
                [fn : {at.fn}, block : DOMAIN program[at.fn].blocks, instr : Nat,
                 loops : [DOMAIN program[at.fn].bound -> Nat],
                 region : [DOMAIN program[at.fn].bound -> Nat]]
             /\ Repeated(<<at.block, to>>).fn = at.fn
  <2> DEFINE e == <<at.block, to>>
             D == DOMAIN program[at.fn].bound
             more(c) == [c EXCEPT ![e] = @ + 1]
  <2>1. /\ e \in D /\ e[2] = to
        /\ at.loops \in [D -> Nat] /\ at.region \in [D -> Nat]
    BY <1>0, <1>5 DEF IsBackEdge, Callable
  <2>2. ASSUME NEW c \in [D -> Nat] PROVE more(c) \in [D -> Nat]
    <3>1. c[e] + 1 \in Nat
      BY <2>1, <2>2
    <3>2. QED
      BY <2>1, <2>2, <3>1
  <2>3. /\ more(at.loops) \in [D -> Nat]
        /\ more(at.region) \in [D -> Nat]
    BY <2>1, <2>2
  <2>4. Repeated(e) = [[[[at EXCEPT !.block = to] EXCEPT !.instr = 0]
                        EXCEPT !.loops = more(at.loops)]
                        EXCEPT !.region = more(at.region)]
    BY <1>0, <2>1 DEF Repeated
  <2> HIDE DEF more, e, D
  <2>5. /\ Repeated(e) = [fn |-> at.fn, block |-> to, instr |-> 0,
                          loops |-> more(at.loops), region |-> more(at.region)]
    BY <1>0, <2>4
  <2>6. /\ Repeated(e) \in [fn : {at.fn}, block : DOMAIN program[at.fn].blocks,
                            instr : Nat, loops : [D -> Nat], region : [D -> Nat]]
        /\ Repeated(e).fn = at.fn
    BY <1>3, <2>3, <2>5 DEF Callable
  <2>7. QED
    BY <2>6 DEF D, e
<1>6. QED
  BY <1>0, <1>4, <1>5, PartsActivation

\* The instruction a running activation stands at.
LEMMA InstrPlace ==
  ASSUME Place, NEW op, At(op)
  PROVE  /\ Instr \in Instructions
         /\ at.block \in DOMAIN Callable.blocks
         /\ at.instr + 1 \in DOMAIN Block.body
         /\ at.fn \in DOMAIN program
<1>0. /\ at.fn \in DOMAIN program
      /\ at.block \in DOMAIN program[at.fn].blocks
      /\ at.instr \in Nat
  BY ActivationParts DEF Place
<1>2. Block.body \in Seq(Instructions)
  BY <1>0, ShapeOf DEF Place, Block, Callable
<1>3. at.instr + 1 \in 1..Len(Block.body)
  BY <1>0, <1>2 DEF At
<1>4. QED
  BY <1>0, <1>2, <1>3 DEF Instr, Callable

\* A pure call calls a pure function of the program.
LEMMA CalleePlace ==
  ASSUME Place, At("pureCall")
  PROVE  Instr.fn \in DOMAIN program /\ program[Instr.fn].kind = "pureFn"
<1>1. /\ at.fn \in DOMAIN program
      /\ at.block \in DOMAIN program[at.fn].blocks
      /\ at.instr + 1 \in DOMAIN program[at.fn].blocks[at.block].body
  BY InstrPlace DEF Callable, Block
<1>2. program[at.fn].blocks[at.block].body[at.instr + 1].op = "pureCall"
  BY DEF At, Instr, Block, Callable
<1>3. \A f \in DOMAIN program : \A b \in DOMAIN program[f].blocks :
        \A i \in DOMAIN program[f].blocks[b].body :
          program[f].blocks[b].body[i].op = "pureCall"
            => /\ program[f].blocks[b].body[i].fn \in DOMAIN program
               /\ program[program[f].blocks[b].body[i].fn].kind = "pureFn"
  BY ProgramAssumption, Zenon DEF Place, WellFormed
<1>4. QED
  BY <1>1, <1>2, <1>3 DEF Instr, Block, Callable

-----------------------------------------------------------------------------
(* The loop counts of an activation, and what moving does to them.         *)

\* LoopsWithin depends on the counts and the callable alone.
LEMMA WithinCounts ==
  ASSUME NEW a \in ActivationsOf(program), NEW b, LoopsWithin(a),
         b.fn = a.fn, b.loops = a.loops, b.region = a.region
  PROVE  LoopsWithin(b)
  BY DEF LoopsWithin

(* Going on to the next instruction keeps the loop counts covered.         *)
LEMMA FollowingWithin ==
  ASSUME NEW a \in ActivationsOf(program), LoopsWithin(a)
  PROVE  LoopsWithin(Following(a))
<1>1. /\ a.fn \in DOMAIN program
      /\ a \in [fn : {a.fn}, block : DOMAIN program[a.fn].blocks, instr : Nat,
                loops : [DOMAIN program[a.fn].bound -> Nat],
                region : [DOMAIN program[a.fn].bound -> Nat]]
  BY ActivationParts
<1>2. /\ Following(a).fn = a.fn /\ Following(a).loops = a.loops
      /\ Following(a).region = a.region
  BY <1>1 DEF Following
<1>3. QED
  BY <1>2, WithinCounts

(* A fresh activation's loop counts are covered.                           *)
LEMMA EnterWithin ==
  ASSUME program \in Programs, NEW f \in DOMAIN program
  PROVE  LoopsWithin(Enter(f))
<1>1. \A e \in DOMAIN program[f].bound : program[f].bound[e] \in Nat
  BY ShapeOf
<1>2. QED
  BY <1>1 DEF LoopsWithin, Enter, NoCounts

(* Both kinds of jump keep the loop counts covered.                        *)
LEMMA JumpWithin ==
  ASSUME Place, LoopsWithin(at), NEW to \in Block.last.to
  PROVE  /\ LoopsWithin(Entered(to))
         /\ LET e == <<at.block, to>> IN
              IsBackEdge(e) /\ ~Exhausted(e) => LoopsWithin(Repeated(e))
<1> DEFINE D == DOMAIN program[at.fn].bound
           B == program[at.fn].bound
<1>0. /\ at.fn \in DOMAIN program
      /\ at \in [fn : {at.fn}, block : DOMAIN program[at.fn].blocks, instr : Nat,
                 loops : [D -> Nat], region : [D -> Nat]]
  BY ActivationParts DEF Place
<1>1. \A d \in D : B[d] \in Nat
  BY <1>0, ShapeOf DEF Place
<1>2. \A d \in D : /\ at.loops[d] \in Nat /\ at.region[d] \in Nat
                   /\ at.region[d] <= at.loops[d] /\ at.loops[d] <= B[d]
  BY <1>0 DEF LoopsWithin
<1>3. LoopsWithin(Entered(to))
  <2> DEFINE cleared == [e \in DOMAIN at.region |-> IF e[2] = to THEN 0 ELSE at.region[e]]
  <2>1. /\ Entered(to).fn = at.fn /\ Entered(to).loops = at.loops
        /\ Entered(to).region = cleared
    BY <1>0 DEF Entered
  <2>2. \A d \in D : cleared[d] <= at.loops[d]
    BY <1>0, <1>2
  <2> HIDE DEF cleared
  <2>3. QED
    BY <1>0, <1>2, <2>1, <2>2 DEF LoopsWithin
<1>4. ASSUME IsBackEdge(<<at.block, to>>), ~Exhausted(<<at.block, to>>)
      PROVE  LoopsWithin(Repeated(<<at.block, to>>))
  <2> DEFINE e == <<at.block, to>>
             more(c) == [c EXCEPT ![e] = @ + 1]
             next == Repeated(e)
  <2>1. e \in D /\ ~(at.loops[e] >= B[e])
    BY <1>4 DEF IsBackEdge, Exhausted, Callable
  <2>2. Repeated(e) = [[[[at EXCEPT !.block = e[2]] EXCEPT !.instr = 0]
                        EXCEPT !.loops = more(at.loops)]
                        EXCEPT !.region = more(at.region)]
    BY <1>0, <2>1 DEF Repeated
  <2>3. next.fn = at.fn /\ next.loops = more(at.loops) /\ next.region = more(at.region)
    BY <1>0, <2>2
  <2>4. ASSUME NEW d \in D
        PROVE  more(at.region)[d] <= more(at.loops)[d] /\ more(at.loops)[d] <= B[d]
    <3>1. /\ more(at.region)[d] = IF d = e THEN at.region[e] + 1 ELSE at.region[d]
          /\ more(at.loops)[d] = IF d = e THEN at.loops[e] + 1 ELSE at.loops[d]
      BY <1>0, <2>1, <2>4
    <3> HIDE DEF more, e, B, D
    <3>2. QED
      BY <1>1, <1>2, <2>1, <2>4, <3>1
  <2>5. DOMAIN more(at.loops) = D
    BY <1>0
  <2> HIDE DEF more, next, e
  <2>6. LoopsWithin(next)
    BY <2>3, <2>4, <2>5 DEF LoopsWithin
  <2>7. QED
    BY <2>6 DEF next, e
<1>5. QED
  BY <1>3, <1>4

-----------------------------------------------------------------------------
(* The four ways a step of a run can move.                                 *)

Halts  == pc' = "halted" /\ at' = at /\ frames' = frames
Walks  == /\ pc' = pc /\ frames' = frames
          /\ at' \in ActivationsOf(program) /\ at'.fn = at.fn
          /\ LoopsWithin(at) => LoopsWithin(at')
Calls  == /\ pc' = pc /\ frames' = Append(frames, Following(at))
          /\ at' \in ActivationsOf(program) /\ program[at'.fn].kind = "pureFn"
          /\ LoopsWithin(at')
Resumes == /\ pc' = pc /\ frames # << >> /\ at' = frames[Len(frames)]
           /\ frames' = SubSeq(frames, 1, Len(frames) - 1)
Moves  == Halts \/ Walks \/ Calls \/ Resumes

(* Every step of a run halts it, or moves it in one of the other three     *)
(* ways.                                                                   *)
LEMMA StepMoves ==
  ASSUME Place, Step
  PROVE  /\ pc = "running"
         /\ program' = program /\ root' = root
         /\ Moves
<1> USE DEF Moves
<1>1. ASSUME Advance PROVE Walks
  BY <1>1, FollowingPlace, FollowingWithin DEF Advance, Go, Walks, Place
<1>2. ASSUME NEW v, Stop(v) PROVE Halts
  BY <1>2 DEF Stop, Halts
<1>a. ASSUME Fixed PROVE program' = program /\ root' = root
  BY <1>a DEF Fixed, hostVars
<1>3. CASE OutOfFuel
  BY <1>3, <1>1, <1>2, <1>a DEF OutOfFuel
<1>4. CASE Value
  BY <1>4, <1>1, <1>2, <1>a DEF Value, At, Running
<1>5. CASE Store
  BY <1>5, <1>1, <1>2, <1>a DEF Store, At, Running
<1>6. CASE Assertion
  BY <1>6, <1>1, <1>2, <1>a DEF Assertion, At, Running
<1>7. CASE OccurrencesExhausted
  BY <1>7, <1>1, <1>2, <1>a DEF OccurrencesExhausted, At, Running
<1>8. CASE Emit
  BY <1>8, <1>1, <1>2, <1>a DEF Emit, At, Running
<1>9. CASE Schedule
  BY <1>9, <1>1, <1>2, <1>a DEF Schedule, At, Running
<1>10. CASE CallUnanswered
  BY <1>10, <1>1, <1>2, <1>a DEF CallUnanswered, Call, At, Running
<1>11. CASE CallReverted
  BY <1>11, <1>1, <1>2, <1>a DEF CallReverted, Call, At, Running
<1>12. CASE CallForValue
  BY <1>12, <1>1, <1>2, <1>a DEF CallForValue, Call, At, Running
<1>13. CASE CallForEffect
  BY <1>13, <1>1, <1>2, <1>a DEF CallForEffect, Call, At, Running
<1>14. CASE ReturnToHost
  BY <1>14, <1>1, <1>2, <1>a DEF ReturnToHost, Ending, Running
<1>15. CASE Revert
  BY <1>15, <1>1, <1>2, <1>a DEF Revert, Ending, Running
<1>16. CASE Trap
  BY <1>16, <1>1, <1>2, <1>a DEF Trap, Ending, Running
<1>17. CASE SwitchMiss
  BY <1>17, <1>1, <1>2, <1>a DEF SwitchMiss, Ending, Running
<1>18. CASE PureCall
  <2>1. Instr.fn \in DOMAIN program /\ program[Instr.fn].kind = "pureFn"
    BY <1>18, CalleePlace DEF PureCall
  <2>2. /\ Enter(Instr.fn) \in ActivationsOf(program) /\ Enter(Instr.fn).fn = Instr.fn
        /\ LoopsWithin(Enter(Instr.fn))
    BY <2>1, EnterPlace, EnterWithin DEF Place
  <2>3. QED
    BY <1>18, <1>a, <2>1, <2>2 DEF PureCall, Go, Calls, At, Running
<1>19. CASE ReturnToCaller
  BY <1>19, <1>a DEF ReturnToCaller, Go, Caller, Resumes, Ending, Running
<1>20. CASE Jump
  <2>1. PICK to \in Block.last.to :
          LET e == <<at.block, to>> IN
            \/ IsBackEdge(e) /\ Exhausted(e) /\ Stop(Reverted("boundExceeded"))
            \/ IsBackEdge(e) /\ ~Exhausted(e) /\ Go(Repeated(e)) /\ UNCHANGED frames
            \/ ~IsBackEdge(e) /\ Go(Entered(to)) /\ UNCHANGED frames
    BY <1>20 DEF Jump
  <2>2. pc = "running" /\ Fixed
    BY <1>20 DEF Jump, Ending, Running
  <2>3. QED
    BY <1>2, <1>a, <2>1, <2>2, JumpPlace, JumpWithin DEF Go, Walks
<1>21. QED
  BY <1>3, <1>4, <1>5, <1>6, <1>7, <1>8, <1>9, <1>10, <1>11, <1>12, <1>13, <1>14, <1>15, <1>16, <1>17, <1>18, <1>19, <1>20 DEF Step, ExternalCall

-----------------------------------------------------------------------------
(* What a step of a run can do to the provisional state.                   *)

Pushes == \E e \in Effects, kind \in {"event", "externalCall", "schedule"},
             callee \in Callees, mint \in Mints \cup {"none"}, amount \in Nat :
            OccurrencesLeft(e) /\ Push(e, kind, callee, mint, amount)

Writes == \E s \in Slots, v \in Values : overlay' = [overlay EXCEPT ![s] = v]

\* Either nothing moves, or the instruction is one that views and pure
\* functions are not admitted with.
LEMMA StepWork ==
  ASSUME Place, Step
  PROVE  /\ Fixed
         /\ UNCHANGED <<effects, occ>> \/ Pushes
         /\ overlay' = overlay \/ Writes
         /\ UNCHANGED stepVars \/ \E op \in Effectful \cup {"store"} : At(op)
<1>a. Amounts \subseteq Nat
  BY DataAssumption, BoundAssumption DEF Balances
<1>b. ASSUME NEW op, At(op)
      PROVE  Instr.effect \in Effects /\ Instr.callee \in Callees /\ Instr.slot \in Slots
  BY <1>b, InstrPlace DEF Instructions
<1>1. CASE OutOfFuel
  BY <1>1 DEF OutOfFuel, stepVars
<1>2. CASE Value
  BY <1>2 DEF Value, stepVars
<1>3. CASE Store
  <2>1. Instr.slot \in Slots /\ At("store")
    BY <1>3, <1>b DEF Store
  <2>2. Fixed /\ UNCHANGED <<effects, occ>>
    BY <1>3 DEF Store
  <2>3. Writes
    BY <1>3, <2>1 DEF Store, Writes
  <2>4. QED
    BY <2>1, <2>2, <2>3 DEF Effectful
<1>4. CASE Assertion
  BY <1>4 DEF Assertion, stepVars
<1>5. CASE OccurrencesExhausted
  BY <1>5 DEF OccurrencesExhausted, stepVars
<1>6. CASE Emit
  <2>1. Instr.effect \in Effects /\ Instr.callee \in Callees /\ At("emit")
    BY <1>6, <1>b DEF Emit
  <2>2. OccurrencesLeft(Instr.effect) /\ Push(Instr.effect, "event", "plain", "none", 0)
    BY <1>6 DEF Emit
  <2>3. Pushes
    BY <2>1, <2>2 DEF Pushes, Callees
  <2>4. Fixed /\ overlay' = overlay
    BY <1>6 DEF Emit
  <2>5. QED
    BY <2>1, <2>3, <2>4 DEF Effectful
<1>7. CASE Schedule
  <2>1. Instr.effect \in Effects /\ Instr.callee \in Callees /\ At("schedule")
    BY <1>7, <1>b DEF Schedule
  <2>2. PICK mint \in Mints, amount \in Amounts :
          OccurrencesLeft(Instr.effect) /\ Push(Instr.effect, "schedule", Instr.callee, mint, amount)
    BY <1>7 DEF Schedule
  <2>3. Pushes
    BY <1>a, <2>1, <2>2 DEF Pushes
  <2>4. Fixed /\ overlay' = overlay
    BY <1>7 DEF Schedule
  <2>5. QED
    BY <2>1, <2>3, <2>4 DEF Effectful
<1>8. CASE CallUnanswered
  <2>1. Instr.effect \in Effects /\ Instr.callee \in Callees /\ At("externalCall")
    BY <1>8, <1>b DEF CallUnanswered, Call
  <2>2. PICK mint \in Mints, amount \in Amounts :
          OccurrencesLeft(Instr.effect) /\ Push(Instr.effect, "externalCall", Instr.callee, mint, amount)
    BY <1>8 DEF CallUnanswered, Call
  <2>3. Pushes
    BY <1>a, <2>1, <2>2 DEF Pushes
  <2>4. Fixed /\ overlay' = overlay
    BY <1>8 DEF CallUnanswered, Call
  <2>5. QED
    BY <2>1, <2>3, <2>4 DEF Effectful
<1>9. CASE CallReverted
  <2>1. Instr.effect \in Effects /\ Instr.callee \in Callees /\ At("externalCall")
    BY <1>9, <1>b DEF CallReverted, Call
  <2>2. PICK mint \in Mints, amount \in Amounts :
          OccurrencesLeft(Instr.effect) /\ Push(Instr.effect, "externalCall", Instr.callee, mint, amount)
    BY <1>9 DEF CallReverted, Call
  <2>3. Pushes
    BY <1>a, <2>1, <2>2 DEF Pushes
  <2>4. Fixed /\ overlay' = overlay
    BY <1>9 DEF CallReverted, Call
  <2>5. QED
    BY <2>1, <2>3, <2>4 DEF Effectful
<1>10. CASE CallForValue
  <2>1. Instr.effect \in Effects /\ Instr.callee \in Callees /\ At("externalCall")
    BY <1>10, <1>b DEF CallForValue, Call
  <2>2. PICK mint \in Mints, amount \in Amounts :
          OccurrencesLeft(Instr.effect) /\ Push(Instr.effect, "externalCall", Instr.callee, mint, amount)
    BY <1>10 DEF CallForValue, Call
  <2>3. Pushes
    BY <1>a, <2>1, <2>2 DEF Pushes
  <2>4. Fixed /\ overlay' = overlay
    BY <1>10 DEF CallForValue, Call
  <2>5. QED
    BY <2>1, <2>3, <2>4 DEF Effectful
<1>11. CASE CallForEffect
  <2>1. Instr.effect \in Effects /\ Instr.callee \in Callees /\ At("externalCall")
    BY <1>11, <1>b DEF CallForEffect, Call
  <2>2. PICK mint \in Mints, amount \in Amounts :
          OccurrencesLeft(Instr.effect) /\ Push(Instr.effect, "externalCall", Instr.callee, mint, amount)
    BY <1>11 DEF CallForEffect, Call
  <2>3. Pushes
    BY <1>a, <2>1, <2>2 DEF Pushes
  <2>4. Fixed /\ overlay' = overlay
    BY <1>11 DEF CallForEffect, Call
  <2>5. QED
    BY <2>1, <2>3, <2>4 DEF Effectful
<1>12. CASE PureCall
  BY <1>12 DEF PureCall, stepVars
<1>13. CASE ReturnToCaller
  BY <1>13 DEF ReturnToCaller, stepVars
<1>14. CASE ReturnToHost
  BY <1>14 DEF ReturnToHost, stepVars
<1>15. CASE Revert
  BY <1>15 DEF Revert, stepVars
<1>16. CASE Trap
  BY <1>16 DEF Trap, stepVars
<1>17. CASE SwitchMiss
  BY <1>17 DEF SwitchMiss, stepVars
<1>18. CASE Jump
  BY <1>18 DEF Jump, stepVars
<1>19. QED
  BY <1>1, <1>2, <1>3, <1>4, <1>5, <1>6, <1>7, <1>8, <1>9, <1>10, <1>11, <1>12, <1>13, <1>14, <1>15, <1>16, <1>17, <1>18 DEF Step, ExternalCall

-----------------------------------------------------------------------------
(* A run stays in its frames.                                              *)

\* The active frame is the invoked callable's or a pure function's; every
\* frame above the invoked callable's is a pure function's.
Nesting ==
  pc # "host" =>
    /\ Admitted(program)
    /\ program[root].kind \in {"initializer", "entry", "view"}
    /\ frames = << >> => at.fn = root
    /\ frames # << >> =>
         /\ program[at.fn].kind = "pureFn"
         /\ frames[1].fn = root
         /\ \A i \in 2..Len(frames) : program[frames[i].fn].kind = "pureFn"

(* A run that passes the gate is of an initializer of a fresh contract, or *)
(* of an entry or view.                                                    *)
LEMMA GateReady ==
  ASSUME program \in Programs, NEW f \in Names, Gate(f, "good") = "ready"
  PROVE  /\ f \in DOMAIN program
         /\ \/ program[f].kind = "initializer" /\ AtInitial
            \/ program[f].kind \in {"entry", "view"} /\ Conforms
<1>1. f \in DOMAIN program
  BY DEF Gate
<1>2. program[f].kind \in Kinds
  BY <1>1, ShapeOf
<1>3. QED
  BY <1>1, <1>2 DEF Gate, Kinds

(* A step of a run keeps the place and the nesting of the frames.          *)
LEMMA NestingStep ==
  ASSUME Place, Nesting, Step
  PROVE  Place' /\ Nesting'
<1> DEFINE A == ActivationsOf(program)
<1>1. pc = "running" /\ program' = program /\ root' = root /\ Moves
  BY StepMoves
<1>2. at \in A /\ frames \in Seq(A)
  BY DEF Place
<1>3. CASE Halts
  BY <1>1, <1>2, <1>3 DEF Halts, Place, Nesting
<1>4. CASE Walks
  BY <1>1, <1>2, <1>4 DEF Walks, Place, Nesting
<1>5. CASE Calls
  <2>1. Following(at) \in A /\ Following(at).fn = at.fn
    BY <1>2, FollowingPlace
  <2> DEFINE top == Following(at)
  <2> HIDE DEF A, top
  <2>2. /\ frames' = Append(frames, top) /\ top \in A /\ top.fn = at.fn
    BY <1>5, <2>1 DEF Calls, top, A
  <2>3. /\ frames' \in Seq(A) /\ frames' # << >>
        /\ Len(frames') = Len(frames) + 1
        /\ \A i \in 1..Len(frames) : frames'[i] = frames[i]
        /\ frames'[Len(frames) + 1] = top
    BY <1>2, <2>2
  <2>4. at' \in A /\ program[at'.fn].kind = "pureFn" /\ pc' = pc
    BY <1>5 DEF Calls, A
  <2>5. frames'[1].fn = root
    BY <1>1, <1>2, <2>2, <2>3 DEF Nesting
  <2>6. ASSUME NEW i \in 2..Len(frames')
        PROVE  program[frames'[i].fn].kind = "pureFn"
    BY <1>1, <1>2, <2>2, <2>3, <2>6 DEF Nesting
  <2>7. QED
    BY <1>1, <1>2, <2>3, <2>4, <2>5, <2>6 DEF Place, Nesting, A
<1>6. CASE Resumes
  <2> HIDE DEF A
  <2>1. /\ frames # << >> /\ at' = frames[Len(frames)] /\ pc' = pc
        /\ frames' = SubSeq(frames, 1, Len(frames) - 1)
    BY <1>6 DEF Resumes
  <2> DEFINE n == Len(frames) - 1
  <2>a. Len(frames) \in Nat \ {0}
    BY <1>2, <2>1
  <2>b. frames[Len(frames)] \in A
    BY <1>2, <2>a
  <2>c. n \in Nat /\ n + 1 = Len(frames)
    BY <2>a
  <2> HIDE DEF n
  <2>d. frames' = SubSeq(frames, 1, n)
    BY <2>1 DEF n
  <2>e. Len(frames') = n
    BY <1>2, <2>c, <2>d
  <2>f. \A i \in 1..n : frames'[i] = frames[i]
    BY <1>2, <2>c, <2>d
  <2>g. frames' \in Seq(A)
    BY <1>2, <2>c, <2>d
  <2>2. /\ frames' \in Seq(A) /\ Len(frames') = Len(frames) - 1
        /\ \A i \in 1..Len(frames') : frames'[i] = frames[i]
        /\ Len(frames) \in Nat \ {0} /\ frames[Len(frames)] \in A
    BY <2>a, <2>b, <2>c, <2>e, <2>f, <2>g
  <2>h. frames' = << >> => Len(frames) = 1
    <3>1. frames' = << >> => Len(frames') = 0
      OBVIOUS
    <3>2. QED
      BY <2>a, <2>2, <3>1
  <2>3. frames' = << >> => at'.fn = root
    <3>1. frames[1].fn = root
      BY <1>1, <2>1 DEF Nesting
    <3>2. QED
      BY <2>h, <2>1, <3>1
  <2>4. frames' # << >> => /\ Len(frames) >= 2
                           /\ program[at'.fn].kind = "pureFn"
                           /\ frames'[1].fn = root
    BY <1>1, <2>1, <2>2 DEF Nesting
  <2>5. \A i \in 2..Len(frames') : program[frames'[i].fn].kind = "pureFn"
    BY <1>1, <2>1, <2>2 DEF Nesting
  <2>6. QED
    BY <1>1, <1>2, <2>1, <2>2, <2>3, <2>4, <2>5 DEF Place, Nesting, A
<1>7. QED
  BY <1>1, <1>3, <1>4, <1>5, <1>6 DEF Moves

(* Between runs there is nothing to show.                                  *)
LEMMA NestingInit == Init => Place /\ Nesting
<1> SUFFICES ASSUME Init PROVE Place /\ Nesting
  OBVIOUS
<1>1. program \in Programs /\ root \in DOMAIN program
  BY DEF Init
<1>2. Enter(root) \in ActivationsOf(program)
  BY <1>1, EnterPlace
<1>3. QED
  BY <1>1, <1>2 DEF Init, Place, Nesting

(* Every step keeps the place and the nesting of the frames.               *)
LEMMA NestingNext == Place /\ Nesting /\ [Next]_vars => Place' /\ Nesting'
<1> SUFFICES ASSUME Place, Nesting, [Next]_vars PROVE Place' /\ Nesting'
  OBVIOUS
<1>1. CASE RefuseProgram
  BY <1>1 DEF RefuseProgram, Answer, Place, Nesting
<1>2. CASE RefuseInvocation
  BY <1>2 DEF RefuseInvocation, Answer, Place, Nesting
<1>3. CASE RefuseLifecycle
  BY <1>3 DEF RefuseLifecycle, Answer, Place, Nesting
<1>4. CASE Start
  <2>1. PICK f \in Names : /\ Admitted(program) /\ Gate(f, "good") = "ready"
                           /\ pc' = "running" /\ root' = f /\ at' = Enter(f)
                           /\ frames' = << >> /\ program' = program
    BY <1>4 DEF Start
  <2>2. f \in DOMAIN program /\ program[f].kind \in {"initializer", "entry", "view"}
    BY <2>1, GateReady DEF Place
  <2>3. Enter(f) \in ActivationsOf(program) /\ Enter(f).fn = f
    BY <2>2, EnterPlace DEF Place
  <2>4. QED
    BY <2>1, <2>2, <2>3 DEF Place, Nesting
<1>5. CASE Step
  BY <1>5, NestingStep
<1>6. CASE Finalize
  BY <1>6 DEF Finalize, Place, Nesting
<1>7. CASE UNCHANGED vars
  BY <1>7 DEF vars, hostVars, Place, Nesting
<1>8. QED
  BY <1>1, <1>2, <1>3, <1>4, <1>5, <1>6, <1>7 DEF Next

\* Every reachable state stands in the frames the invoked callable opened
\* (runMachine pushes a frame for a pure call and for nothing else).
THEOREM FramesNested == Spec => [](Place /\ Nesting)
  BY NestingInit, NestingNext, PTL DEF Spec

-----------------------------------------------------------------------------
(* Pure functions leave no trace.                                          *)

\* Admission covers the instruction a run stands at.
LEMMA AllowedHere ==
  ASSUME Place, Admitted(program), NEW op, At(op)
  PROVE  Allowed(program[at.fn].kind, op)
<1>1. /\ at.fn \in DOMAIN program
      /\ at.block \in DOMAIN program[at.fn].blocks
      /\ at.instr + 1 \in DOMAIN program[at.fn].blocks[at.block].body
  BY InstrPlace DEF Callable, Block
<1>2. program[at.fn].blocks[at.block].body[at.instr + 1].op = op
  BY DEF At, Instr, Block, Callable
<1>3. QED
  BY <1>1, <1>2 DEF Admitted

\* While a pure function runs, or a view, nothing provisional moves.
LEMMA QuietStep ==
  ASSUME Place, Nesting, Step, program[at.fn].kind \in {"view", "pureFn"}
  PROVE  UNCHANGED stepVars
<1>1. pc = "running"
  BY StepMoves
<1>2. ASSUME NEW op \in Effectful \cup {"store"}, At(op) PROVE FALSE
  BY <1>1, <1>2, AllowedHere DEF Nesting, Allowed
<1>3. QED
  BY <1>2, StepWork

(* A step inside a pure function changes none of the step's variables.     *)
LEMMA InertNext ==
  ASSUME Place, Nesting, [Next]_vars
  PROVE  [frames # << >> => UNCHANGED stepVars \/ pc = "host"]_vars
<1> SUFFICES ASSUME frames # << >>, pc # "host"
             PROVE  UNCHANGED stepVars
  OBVIOUS
<1>1. CASE RefuseProgram \/ RefuseInvocation \/ RefuseLifecycle \/ Start
  BY <1>1 DEF RefuseProgram, RefuseInvocation, RefuseLifecycle, Start, Free
<1>2. CASE Step
  BY <1>2, QuietStep DEF Nesting
<1>3. CASE Finalize
  BY <1>3 DEF Finalize
<1>4. CASE UNCHANGED vars
  BY <1>4 DEF vars
<1>5. QED
  BY <1>1, <1>2, <1>3, <1>4 DEF Next

\* For every admitted program, a step taken while a pure function is on top of
\* its caller moves no state, effect, response, counter or balance
\* (admitCallableBody and the frame discipline of runMachine).
THEOREM PureFramesInertCorrect == Spec => PureFramesInert
<1>1. Place /\ Nesting /\ [Next]_vars
        => [frames # << >> => UNCHANGED stepVars \/ pc = "host"]_vars
  BY InertNext
<1>2. QED
  BY <1>1, FramesNested, PTL DEF Spec, PureFramesInert

-----------------------------------------------------------------------------
(* Identities.                                                             *)

\* The buffer holds rows, and every identity in it is below its counter.
Identities ==
  /\ occ \in [Effects -> 0..MaxOccurrence]
  /\ effects \in Seq(EffectRows)
  /\ \A i \in DOMAIN effects : effects[i].id.occ < occ[effects[i].id.effect]

(* Pushing an effect under the next occurrence keeps identities distinct.  *)
LEMMA PushIdentities ==
  ASSUME Identities, EffectIdentity, Pushes
  PROVE  Identities' /\ EffectIdentity'
<1>1. PICK e \in Effects, kind \in {"event", "externalCall", "schedule"},
           callee \in Callees, mint \in Mints \cup {"none"}, amount \in Nat :
        OccurrencesLeft(e) /\ Push(e, kind, callee, mint, amount)
  BY DEF Pushes
<1> DEFINE row == EffectRow(e, kind, callee, mint, amount)
<1>2. /\ occ[e] \in 0..MaxOccurrence /\ occ[e] + 1 \in 0..MaxOccurrence
      /\ occ' = [occ EXCEPT ![e] = @ + 1]
      /\ effects' = Append(effects, row)
  BY <1>1, BoundAssumption DEF Identities, OccurrencesLeft, Push, Counted
<1>3. /\ row \in EffectRows /\ row.id.effect = e /\ row.id.occ = occ[e]
  BY <1>2 DEF EffectRow, EffectRows, Identity
<1> HIDE DEF row
<1>4. occ' \in [Effects -> 0..MaxOccurrence]
  BY <1>2 DEF Identities
<1>5. /\ occ'[e] = occ[e] + 1
      /\ \A d \in Effects : d # e => occ'[d] = occ[d]
  BY <1>2 DEF Identities
<1>6. /\ effects' \in Seq(EffectRows)
      /\ Len(effects') = Len(effects) + 1
      /\ \A i \in 1..Len(effects) : effects'[i] = effects[i]
      /\ effects'[Len(effects) + 1] = row
  BY <1>2, <1>3 DEF Identities
<1>7. \A i \in 1..Len(effects) :
        /\ effects[i].id.effect \in Effects /\ effects[i].id.occ \in Nat
        /\ effects[i].id.occ < occ[effects[i].id.effect]
  <2>1. \A r \in EffectRows : r.id.effect \in Effects /\ r.id.occ \in Nat
    BY DEF EffectRows
  <2>2. QED
    BY <2>1 DEF Identities
<1>8. Len(effects) \in Nat /\ DOMAIN effects' = 1..(Len(effects) + 1)
      /\ DOMAIN effects = 1..Len(effects)
  BY <1>6 DEF Identities
<1>9. ASSUME NEW i \in DOMAIN effects'
      PROVE  effects'[i].id.occ < occ'[effects'[i].id.effect]
  <2>1. CASE i = Len(effects) + 1
    BY <1>2, <1>3, <1>5, <1>6, <2>1
  <2>2. CASE i \in 1..Len(effects)
    <3>1. occ[effects[i].id.effect] \in Nat /\ occ[e] \in Nat
      BY <1>7, <2>2 DEF Identities
    <3>2. occ[effects[i].id.effect] <= occ'[effects[i].id.effect]
      BY <1>5, <1>7, <2>2, <3>1
    <3>3. QED
      BY <1>4, <1>6, <1>7, <2>2, <3>1, <3>2
  <2>3. QED
    BY <1>8, <2>1, <2>2
<1>10. ASSUME NEW i \in DOMAIN effects', NEW j \in DOMAIN effects',
              i < j, effects'[i].id.effect = effects'[j].id.effect
       PROVE  effects'[i].id.occ < effects'[j].id.occ
  <2>1. i \in 1..Len(effects) /\ effects'[i] = effects[i]
    BY <1>6, <1>8, <1>10
  <2>2. CASE j = Len(effects) + 1
    BY <1>3, <1>6, <1>7, <1>10, <2>1, <2>2
  <2>3. CASE j \in 1..Len(effects)
    BY <1>6, <1>8, <1>10, <2>1, <2>3 DEF EffectIdentity
  <2>4. QED
    BY <1>8, <2>2, <2>3
<1>11. QED
  BY <1>4, <1>6, <1>9, <1>10 DEF Identities, EffectIdentity

(* An empty effect buffer has distinct identities.                         *)
LEMMA IdentitiesInit == Init => Identities /\ EffectIdentity
<1> SUFFICES ASSUME Init PROVE Identities /\ EffectIdentity
  OBVIOUS
<1>1. effects = << >> /\ occ = [e \in Effects |-> 0]
  BY DEF Init
<1>2. occ \in [Effects -> 0..MaxOccurrence]
  BY <1>1, BoundAssumption
<1>3. QED
  BY <1>1, <1>2 DEF Identities, EffectIdentity

(* Every step keeps identities distinct.                                   *)
LEMMA IdentitiesNext ==
  Place /\ Identities /\ EffectIdentity /\ [Next]_vars
    => Identities' /\ EffectIdentity'
<1> SUFFICES ASSUME Place, Identities, EffectIdentity, [Next]_vars
             PROVE  Identities' /\ EffectIdentity'
  OBVIOUS
<1>1. ASSUME UNCHANGED <<effects, occ>> PROVE Identities' /\ EffectIdentity'
  BY <1>1 DEF Identities, EffectIdentity
<1>2. CASE RefuseProgram \/ RefuseInvocation \/ RefuseLifecycle
  BY <1>1, <1>2 DEF RefuseProgram, RefuseInvocation, RefuseLifecycle, Answer, stepVars
<1>3. CASE Start
  <2>1. effects' = << >> /\ occ' = [e \in Effects |-> 0]
    BY <1>3 DEF Start
  <2>2. occ' \in [Effects -> 0..MaxOccurrence]
    BY <2>1, BoundAssumption
  <2>3. QED
    BY <2>1, <2>2 DEF Identities, EffectIdentity
<1>4. CASE Step
  BY <1>1, <1>4, StepWork, PushIdentities
<1>5. CASE Finalize
  BY <1>1, <1>5 DEF Finalize, stepVars
<1>6. CASE UNCHANGED vars
  BY <1>1, <1>6 DEF vars, stepVars
<1>7. QED
  BY <1>2, <1>3, <1>4, <1>5, <1>6 DEF Next

\* No two dynamic executions of one static effect share an identity, whatever
\* the program and however often its loops run it (nextOccurrence).
THEOREM EffectIdentityCorrect == Spec => []EffectIdentity
<1>1. Init => Place /\ Nesting /\ Identities /\ EffectIdentity
  BY NestingInit, IdentitiesInit
<1>2. (Place /\ Nesting /\ Identities /\ EffectIdentity) /\ [Next]_vars
        => (Place /\ Nesting /\ Identities /\ EffectIdentity)'
  BY NestingNext, IdentitiesNext
<1>3. QED
  BY <1>1, <1>2, PTL DEF Spec

-----------------------------------------------------------------------------
(* The machine implements the contract life cycle.                         *)

\* What a run holds back, and which life cycle state it runs in: the strength
\* Finalize needs to be a single step of the life cycle.
HeldBack ==
  /\ status \in {"fresh", "live"}
  /\ contents \in Contents /\ overlay \in Contents
  /\ outbox \in Seq(EffectRows)
  /\ pc # "host" /\ program[root].kind # "initializer" => status = "live"
  /\ pc # "host" /\ program[root].kind = "view"
       => overlay = contents /\ effects = << >>
  /\ pc = "halted" => cand.kind \in {"returned", "reverted", "trapped"}

\* Running on, or halting with an answer.
LEMMA StepAnswers ==
  ASSUME Place, Step
  PROVE  pc' = "halted" => cand'.kind \in {"returned", "reverted", "trapped"}
<1>1. pc = "running"
  BY StepMoves
<1>2. ASSUME NEW v, Stop(v), v.kind \in {"returned", "reverted", "trapped"}
      PROVE  cand'.kind \in {"returned", "reverted", "trapped"}
  BY <1>2 DEF Stop
<1>3. ASSUME NEW why
      PROVE  /\ Trapped(why).kind = "trapped" /\ Reverted(why).kind = "reverted"
             /\ Returned.kind = "returned"
  BY DEF Trapped, Reverted, Returned, Verdict
<1>4. ASSUME NEW a, Go(a) PROVE pc' = pc
  BY <1>4 DEF Go
<1>5. ASSUME Advance PROVE pc' = pc
  BY <1>5 DEF Advance, Go
<1>6. CASE OutOfFuel
  BY <1>6, <1>2, <1>3 DEF OutOfFuel
<1>7. CASE Value
  BY <1>7, <1>1, <1>2, <1>3, <1>5 DEF Value
<1>8. CASE Store \/ Emit \/ Schedule
  BY <1>8, <1>1, <1>5 DEF Store, Emit, Schedule
<1>9. CASE Assertion
  BY <1>9, <1>1, <1>2, <1>3, <1>5 DEF Assertion
<1>10. CASE OccurrencesExhausted
  BY <1>10, <1>2, <1>3 DEF OccurrencesExhausted
<1>11. CASE CallUnanswered
  BY <1>11, <1>2, <1>3 DEF CallUnanswered
<1>12. CASE CallReverted
  BY <1>12, <1>2, <1>3 DEF CallReverted
<1>13. CASE CallForValue
  BY <1>13, <1>1, <1>2, <1>3, <1>5 DEF CallForValue
<1>14. CASE CallForEffect
  BY <1>14, <1>1, <1>2, <1>3, <1>5 DEF CallForEffect
<1>15. CASE PureCall \/ ReturnToCaller
  BY <1>15, <1>1, <1>4 DEF PureCall, ReturnToCaller
<1>16. CASE ReturnToHost
  BY <1>16, <1>2, <1>3 DEF ReturnToHost
<1>17. CASE Revert
  BY <1>17, <1>2, <1>3 DEF Revert
<1>18. CASE Trap
  BY <1>18, <1>2, <1>3 DEF Trap
<1>19. CASE SwitchMiss
  BY <1>19, <1>2, <1>3 DEF SwitchMiss
<1>20. CASE Jump
  BY <1>20, <1>1, <1>2, <1>3, <1>4 DEF Jump
<1>21. QED
  BY <1>6, <1>7, <1>8, <1>9, <1>10, <1>11, <1>12, <1>13, <1>14, <1>15, <1>16, <1>17, <1>18, <1>19, <1>20 DEF Step, ExternalCall

(* Initially nothing is held back.                                         *)
LEMMA HeldBackInit == Init => HeldBack
<1> SUFFICES ASSUME Init PROVE HeldBack
  OBVIOUS
<1>1. /\ status \in {"fresh", "live"} /\ contents \in Contents /\ overlay = contents
      /\ outbox = << >> /\ pc = "host"
  BY DEF Init
<1>2. QED
  BY <1>1 DEF HeldBack

\* A run leaves alone what the host holds, and a view what it was given.
LEMMA HeldBackStep ==
  ASSUME Place, Nesting, HeldBack, Step
  PROVE  HeldBack'
<1>1. /\ pc = "running" /\ program' = program /\ root' = root
  BY StepMoves
<1>2. UNCHANGED <<status, contents, outbox>>
  BY StepWork DEF Fixed, hostVars
<1>3. overlay' \in Contents
  <2>1. Values \subseteq Bytes
    BY DEF Bytes
  <2>2. QED
    BY <2>1, StepWork DEF HeldBack, Contents, Writes
<1>4. ASSUME program[root].kind = "view"
      PROVE  UNCHANGED <<overlay, effects>>
  <2>1. program[at.fn].kind \in {"view", "pureFn"}
    BY <1>1, <1>4 DEF Nesting
  <2>2. QED
    BY <2>1, QuietStep DEF stepVars
<1>5. pc' = "halted" => cand'.kind \in {"returned", "reverted", "trapped"}
  BY StepAnswers
<1>6. QED
  BY <1>1, <1>2, <1>3, <1>4, <1>5 DEF HeldBack

(* Every step keeps what a run changed apart from what is committed.       *)
LEMMA HeldBackNext ==
  Place /\ Nesting /\ Identities /\ HeldBack /\ [Next]_vars => HeldBack'
<1> SUFFICES ASSUME Place, Nesting, Identities, HeldBack, [Next]_vars
             PROVE  HeldBack'
  OBVIOUS
<1>1. CASE RefuseProgram \/ RefuseInvocation \/ RefuseLifecycle
  <2>1. UNCHANGED <<program, status, contents, outbox, overlay, effects, pc, root, cand>>
    BY <1>1 DEF RefuseProgram, RefuseInvocation, RefuseLifecycle, Answer, stepVars
  <2>2. QED
    BY <2>1 DEF HeldBack
<1>2. CASE Start
  <2>1. PICK f \in Names : /\ Gate(f, "good") = "ready" /\ root' = f
                           /\ pc' = "running" /\ overlay' = contents /\ effects' = << >>
                           /\ UNCHANGED <<program, status, contents, outbox>>
    BY <1>2 DEF Start
  <2>2. program[f].kind # "initializer" => status = "live"
    BY <2>1, GateReady DEF Place, Conforms
  <2>3. QED
    BY <2>1, <2>2 DEF HeldBack
<1>3. CASE Step
  BY <1>3, HeldBackStep
<1>4. CASE Finalize
  <2>1. pc' = "host" /\ overlay' = overlay
    BY <1>4 DEF Finalize, stepVars
  <2>2. status' \in {"fresh", "live"} /\ contents' \in Contents
    BY <1>4 DEF Finalize, HeldBack
  <2>3. outbox' \in Seq(EffectRows)
    <3>1. outbox' = outbox \/ outbox' = outbox \o effects
      BY <1>4 DEF Finalize
    <3>2. outbox \in Seq(EffectRows) /\ effects \in Seq(EffectRows)
      BY DEF HeldBack, Identities
    <3>3. outbox \o effects \in Seq(EffectRows)
      BY <3>2, ConcatProperties
    <3>4. QED
      BY <3>1, <3>2, <3>3
  <2>4. QED
    BY <2>1, <2>2, <2>3 DEF HeldBack
<1>5. CASE UNCHANGED vars
  BY <1>5 DEF vars, hostVars, stepVars, HeldBack
<1>6. QED
  BY <1>1, <1>2, <1>3, <1>4, <1>5 DEF Next

\* An initial state of the machine is one of the life cycle.
LEMMA LifecycleInit == Init => Lifecycle!Init
  BY DEF Init, Lifecycle!Init, HostAnswer, Pending, Verdict

\* A step of a run is invisible to the life cycle.
LEMMA RunHidden ==
  ASSUME Place, Step
  PROVE  UNCHANGED Lifecycle!vars
<1>1. /\ pc = "running" /\ program' = program /\ root' = root /\ pc' # "host"
  <2>1. pc = "running" /\ program' = program /\ root' = root /\ Moves
    BY StepMoves
  <2>2. QED
    BY <2>1 DEF Moves, Halts, Walks, Calls, Resumes
<1>2. UNCHANGED hostVars
  BY StepWork DEF Fixed
<1>3. QED
  BY <1>1, <1>2 DEF hostVars, Lifecycle!vars, HostAnswer

\* Packaging is the life cycle's failing, observing or publishing.
LEMMA FinalizeMaps ==
  ASSUME Place, Nesting, Identities, HeldBack, Finalize
  PROVE  Lifecycle!Fail \/ Lifecycle!Observe \/ Lifecycle!Publish
<1>1. /\ pc = "halted" /\ pc' = "host" /\ outcome' \in Endings
      /\ program' = program
  BY DEF Finalize
<1>2. outcome'.kind \in {"returned", "reverted", "trapped"}
  BY <1>1 DEF Endings, Final, HeldBack, Trapped, Verdict
<1>3. CASE outcome'.kind # "returned"
  <2>1. UNCHANGED <<status, contents, outbox>>
    BY <1>3 DEF Finalize, Commits
  <2>2. Lifecycle!Fail
    BY <1>1, <1>2, <1>3, <2>1 DEF Lifecycle!Fail, HostAnswer
  <2>3. QED
    BY <2>2
<1>4. CASE outcome'.kind = "returned"
  <2>1. /\ status' = IF status = "live" \/ program[root].kind = "initializer"
                     THEN "live" ELSE "fresh"
        /\ contents' = overlay /\ outbox' = outbox \o effects
    BY <1>4 DEF Finalize, Commits
  <2>2. status' = "live"
    BY <1>1, <2>1 DEF HeldBack
  <2>3. outbox \in Seq(EffectRows) /\ effects \in Seq(EffectRows)
    BY DEF HeldBack, Identities
  <2>4. CASE program[root].kind = "view"
    <3>1. outbox' = outbox /\ contents' = contents /\ status' = status
      BY <1>1, <2>1, <2>2, <2>3, <2>4 DEF HeldBack
    <3>2. Lifecycle!Observe
      BY <1>1, <1>4, <2>4, <3>1 DEF Lifecycle!Observe, HostAnswer
    <3>3. QED
      BY <3>2
  <2>5. CASE program[root].kind \in {"initializer", "entry"}
    <3>1. Len(outbox') >= Len(outbox) /\ SubSeq(outbox', 1, Len(outbox)) = outbox
      BY <2>1, <2>3
    <3>2. Lifecycle!Publish
      BY <1>1, <1>4, <2>1, <2>2, <2>5, <3>1
      DEF Lifecycle!Publish, HostAnswer, HeldBack
    <3>3. QED
      BY <3>2
  <2>6. QED
    BY <1>1, <2>4, <2>5 DEF Nesting
<1>5. QED
  BY <1>3, <1>4

(* Every step is a step of the life cycle, or none.                        *)
LEMMA LifecycleNext ==
  Place /\ Nesting /\ Identities /\ HeldBack /\ [Next]_vars
    => [Lifecycle!Next]_(Lifecycle!vars)
<1> SUFFICES ASSUME Place, Nesting, Identities, HeldBack, [Next]_vars
             PROVE  Lifecycle!Next \/ UNCHANGED Lifecycle!vars
  OBVIOUS
<1>1. ASSUME NEW v, Answer(v), v.kind \in {"trapped", "reverted"}, pc = "host"
      PROVE  Lifecycle!Fail
  BY <1>1 DEF Answer, Lifecycle!Fail, HostAnswer
<1>2. ASSUME NEW why PROVE Trapped(why).kind = "trapped" /\ Reverted(why).kind = "reverted"
  BY DEF Trapped, Reverted, Verdict
<1>3. CASE RefuseProgram
  BY <1>1, <1>2, <1>3 DEF RefuseProgram, Free, Lifecycle!Next
<1>4. CASE RefuseInvocation
  BY <1>1, <1>2, <1>4 DEF RefuseInvocation, Free, Lifecycle!Next
<1>5. CASE RefuseLifecycle
  BY <1>1, <1>2, <1>5 DEF RefuseLifecycle, Free, Lifecycle!Next
<1>6. CASE Start
  <2>1. PICK f \in Names : /\ Gate(f, "good") = "ready" /\ root' = f
                           /\ pc = "host" /\ pc' = "running" /\ outcome' = Pending
                           /\ UNCHANGED <<program, status, contents, outbox>>
    BY <1>6 DEF Start, Free
  <2>2. \/ program[f].kind = "initializer" /\ AtInitial
        \/ program[f].kind \in {"entry", "view"} /\ Conforms
    BY <2>1, GateReady DEF Place
  <2>3. program[f].kind = "initializer" => HasInitializer(program)
    BY <2>1, GateReady DEF Place, HasInitializer
  <2>4. Lifecycle!Ask
    BY <2>1, <2>2, <2>3
    DEF Lifecycle!Ask, HostAnswer, Pending, Verdict, AtInitial, Conforms
  <2>5. QED
    BY <2>4 DEF Lifecycle!Next
<1>7. CASE Step
  BY <1>7, RunHidden
<1>8. CASE Finalize
  BY <1>8, FinalizeMaps DEF Lifecycle!Next
<1>9. CASE UNCHANGED vars
  BY <1>9 DEF vars, hostVars, Lifecycle!vars, HostAnswer
<1>10. QED
  BY <1>3, <1>4, <1>5, <1>6, <1>7, <1>8, <1>9 DEF Next

\* For every program, state, response list and bound the machine implements the
\* atomic life cycle: what fails leaves no trace, views leave none, and state
\* and effects are published together (finalize, stepReferenceSliceV1).
THEOREM LifecycleImplemented == Spec => LifecycleSpec
<1>1. Init => /\ Place /\ Nesting /\ Identities /\ EffectIdentity /\ HeldBack
              /\ Lifecycle!Init
  BY NestingInit, IdentitiesInit, HeldBackInit, LifecycleInit
<1>2. (Place /\ Nesting /\ Identities /\ EffectIdentity /\ HeldBack) /\ [Next]_vars
        => (Place /\ Nesting /\ Identities /\ EffectIdentity /\ HeldBack)'
  BY NestingNext, IdentitiesNext, HeldBackNext
<1>3. (Place /\ Nesting /\ Identities /\ EffectIdentity /\ HeldBack) /\ [Next]_vars
        => [Lifecycle!Next]_(Lifecycle!vars)
  BY LifecycleNext
<1>4. QED
  BY <1>1, <1>2, <1>3, PTL DEF Spec, LifecycleSpec, Lifecycle!Spec

-----------------------------------------------------------------------------
(* The counters a target keeps never overtake the reference's.             *)

LEMMA LoopsStep ==
  ASSUME Place, LoopsCovered, Step
  PROVE  LoopsCovered'
<1>1. program' = program /\ Moves
  BY StepMoves
<1>2. at \in ActivationsOf(program) /\ frames \in Seq(ActivationsOf(program))
  BY DEF Place
<1>3. LoopsWithin(at) /\ \A i \in 1..Len(frames) : LoopsWithin(frames[i])
  BY <1>2 DEF LoopsCovered
<1>4. CASE Halts
  BY <1>1, <1>3, <1>4 DEF Halts, LoopsCovered, LoopsWithin
<1>5. CASE Walks
  BY <1>1, <1>3, <1>5 DEF Walks, LoopsCovered, LoopsWithin
<1>6. CASE Calls
  BY <1>1, <1>2, <1>3, <1>6, FollowingWithin DEF Calls, LoopsCovered, LoopsWithin
<1>7. CASE Resumes
  BY <1>1, <1>2, <1>3, <1>7 DEF Resumes, LoopsCovered, LoopsWithin
<1>8. QED
  BY <1>1, <1>4, <1>5, <1>6, <1>7 DEF Moves

(* Initially no loop has been counted.                                     *)
LEMMA LoopsInit == Init => LoopsCovered
<1> SUFFICES ASSUME Init PROVE LoopsCovered
  OBVIOUS
<1>1. program \in Programs /\ root \in DOMAIN program /\ at = Enter(root) /\ frames = << >>
  BY DEF Init
<1>2. LoopsWithin(Enter(root))
  BY <1>1, EnterWithin
<1>3. QED
  BY <1>1, <1>2 DEF LoopsCovered

(* Every step keeps every frame's loop counts covered.                     *)
LEMMA LoopsNext == Place /\ LoopsCovered /\ [Next]_vars => LoopsCovered'
<1> SUFFICES ASSUME Place, LoopsCovered, [Next]_vars PROVE LoopsCovered'
  OBVIOUS
<1>1. ASSUME UNCHANGED <<program, at, frames>> PROVE LoopsCovered'
  BY <1>1 DEF LoopsCovered, LoopsWithin
<1>2. CASE RefuseProgram \/ RefuseInvocation \/ RefuseLifecycle
  BY <1>1, <1>2 DEF RefuseProgram, RefuseInvocation, RefuseLifecycle, Answer
<1>3. CASE Start
  <2>1. PICK f \in Names : /\ Gate(f, "good") = "ready" /\ at' = Enter(f)
                           /\ frames' = << >> /\ program' = program
    BY <1>3 DEF Start
  <2>2. LoopsWithin(Enter(f))
    BY <2>1, GateReady, EnterWithin DEF Place
  <2>3. QED
    BY <2>1, <2>2 DEF LoopsCovered, LoopsWithin
<1>4. CASE Step
  BY <1>4, LoopsStep
<1>5. CASE Finalize
  BY <1>1, <1>5 DEF Finalize
<1>6. CASE UNCHANGED vars
  BY <1>1, <1>6 DEF vars, hostVars
<1>7. QED
  BY <1>2, <1>3, <1>4, <1>5, <1>6 DEF Next

\* For every program, nesting of loops and depth of pure calls: a loop a target
\* stops at its bound the reference stops no later (noteBackEdge and the loop
\* lowering of the targets).
THEOREM LoopsCoveredCorrect == Spec => []LoopsCovered
<1>1. Init => Place /\ Nesting /\ LoopsCovered
  BY NestingInit, LoopsInit
<1>2. (Place /\ Nesting /\ LoopsCovered) /\ [Next]_vars
        => (Place /\ Nesting /\ LoopsCovered)'
  BY NestingNext, LoopsNext
<1>3. QED
  BY <1>1, <1>2, PTL DEF Spec

-----------------------------------------------------------------------------
(* Counting calls.                                                         *)

\* How many calls are among the first n effects.
Asked(n) == Cardinality(CallsUpTo(n))

\* The calls among the first n effects can be counted.
LEMMA AskedNat ==
  ASSUME NEW n \in Nat
  PROVE  IsFiniteSet(CallsUpTo(n)) /\ Asked(n) \in Nat
<1>1. CallsUpTo(n) \in SUBSET (1..n) /\ IsFiniteSet(1..n)
  BY FS_Interval DEF CallsUpTo
<1>2. QED
  BY <1>1, FS_Subset, FS_CardinalityType DEF Asked

\* A longer prefix has no fewer calls.
LEMMA AskedGrows ==
  ASSUME NEW n \in Nat, NEW i \in 1..n
  PROVE  Asked(i) <= Asked(n)
<1>1. CallsUpTo(i) \in SUBSET CallsUpTo(n)
  BY DEF CallsUpTo
<1>2. QED
  BY <1>1, AskedNat, FS_Subset DEF Asked

\* One more effect: the counts so far stay, and it is counted if it is a call.
LEMMA AskedAppend ==
  ASSUME effects \in Seq(EffectRows), NEW n \in Nat, n = Len(effects),
         NEW row, effects' = Append(effects, row)
  PROVE  /\ \A i \in 0..n : Asked(i)' = Asked(i)
         /\ CallsUpTo(Len(effects))' =
              IF row.kind = "externalCall" THEN CallsUpTo(n) \cup {n + 1} ELSE CallsUpTo(n)
         /\ Asked(Len(effects))' =
              IF row.kind = "externalCall" THEN Asked(n) + 1 ELSE Asked(n)
<1>1. /\ Len(effects') = n + 1
      /\ \A i \in 1..n : effects'[i] = effects[i]
      /\ effects'[n + 1] = row
  OBVIOUS
<1>2. \A i \in 0..n : CallsUpTo(i)' = CallsUpTo(i)
  BY <1>1 DEF CallsUpTo
<1>3. CallsUpTo(Len(effects))' =
        IF row.kind = "externalCall" THEN CallsUpTo(n) \cup {n + 1} ELSE CallsUpTo(n)
  BY <1>1 DEF CallsUpTo
<1>4. n + 1 \notin CallsUpTo(n) /\ IsFiniteSet(CallsUpTo(n))
  BY AskedNat DEF CallsUpTo
<1>5. Cardinality(CallsUpTo(n) \cup {n + 1}) = Cardinality(CallsUpTo(n)) + 1
  BY <1>4, FS_AddElement
<1>6. QED
  BY <1>2, <1>3, <1>5 DEF Asked

-----------------------------------------------------------------------------
(* Candidates and fuel.                                                    *)

\* A step either goes on for one unit of fuel with the same candidate, or
\* halts with a verdict.
GoesOn == pc' = pc /\ cand' = cand /\ fuel' = fuel - 1 /\ fuel > 0
Stops  == pc' = "halted" /\ cand' \in Verdicts /\ fuel' = 0

\* Every step of a run does one or the other.
LEMMA StepCandidate ==
  ASSUME Place, Step
  PROVE  GoesOn \/ Stops
<1>1. ASSUME NEW why \in Faults PROVE Trapped(why) \in Verdicts
  BY DEF Trapped, Verdict, Verdicts
<1>2. ASSUME NEW why \in Reasons PROVE Reverted(why) \in Verdicts
  BY DEF Reverted, Verdict, Verdicts
<1>3. Returned \in Verdicts
  BY DEF Returned, Verdict, Verdicts, Faults
<1>4. ASSUME NEW v \in Verdicts, Stop(v) PROVE Stops
  BY <1>4 DEF Stop, Stops
<1>5. ASSUME NEW a, Go(a), Running PROVE GoesOn
  BY <1>5 DEF Go, Running, GoesOn
<1>6. ASSUME Advance, Running PROVE GoesOn
  BY <1>5, <1>6 DEF Advance
<1>r. /\ {"declared", "assertionFailed", "boundExceeded",
          "externalCallReverted"} \cup ValueReasons \subseteq Reasons
      /\ ValueFaults \subseteq Faults
      /\ {"resourceExhausted", "invalidExternalResponse", "invalidCore",
          "unreachable"} \subseteq Faults
      /\ TrapCodes \subseteq Faults
  BY DEF Reasons, ValueFaults, Faults, TrapCodes
<1>7. CASE OutOfFuel \/ OccurrencesExhausted
  BY <1>7, <1>1, <1>4, <1>r DEF OutOfFuel, OccurrencesExhausted
<1>8. CASE Value \/ Assertion
  BY <1>8, <1>1, <1>2, <1>4, <1>6, <1>r DEF Value, Assertion, At
<1>9. CASE Store \/ Emit \/ Schedule
  BY <1>9, <1>6 DEF Store, Emit, Schedule, At
<1>10. CASE CallUnanswered
  BY <1>10, <1>1, <1>4, <1>r DEF CallUnanswered
<1>11. CASE CallReverted
  BY <1>11, <1>2, <1>4, <1>r DEF CallReverted
<1>12. CASE CallForValue
  BY <1>12, <1>1, <1>4, <1>6, <1>r DEF CallForValue, Call, At
<1>13. CASE CallForEffect
  <2>1. PICK mint \in Mints, amount \in Amounts :
          /\ Call(mint, amount)
          /\ \/ Advance
             \/ Stop(IF Instr.callee = "nativeDeposit" THEN Trapped("invalidCore")
                     ELSE Reverted("externalCallReverted"))
    BY <1>13 DEF CallForEffect
  <2>2. QED
    BY <2>1, <1>1, <1>2, <1>4, <1>6, <1>r DEF Call, At
<1>14. CASE PureCall \/ ReturnToCaller
  BY <1>14, <1>5 DEF PureCall, ReturnToCaller, At, Ending
<1>15. CASE ReturnToHost
  BY <1>15, <1>3, <1>4 DEF ReturnToHost
<1>16. CASE Revert
  BY <1>16, <1>2, <1>4, <1>r DEF Revert
<1>17. CASE Trap
  <2>1. at.fn \in DOMAIN program /\ at.block \in DOMAIN program[at.fn].blocks
    BY ActivationParts DEF Place
  <2>2. Block.last.fault \in TrapCodes
    BY <2>1, ShapeOf DEF Place, Block, Callable, Terminators
  <2>3. QED
    BY <2>2, <1>17, <1>1, <1>4, <1>r DEF Trap
<1>18. CASE SwitchMiss
  BY <1>18, <1>1, <1>4, <1>r DEF SwitchMiss
<1>19. CASE Jump
  <2>1. Running /\ ((\E a : Go(a)) \/ Stop(Reverted("boundExceeded")))
    BY <1>19 DEF Jump, Ending
  <2>2. QED
    BY <2>1, <1>2, <1>4, <1>5, <1>r
<1>20. QED
  BY <1>7, <1>8, <1>9, <1>10, <1>11, <1>12, <1>13, <1>14, <1>15, <1>16, <1>17, <1>18, <1>19 DEF Step, ExternalCall

-----------------------------------------------------------------------------
(* What a step of a run does with responses.                               *)

\* No response is consumed, and the effect pushed, if any, is not a call.
Silent == /\ cursor' = cursor
          /\ effects' = effects
             \/ \E row : row.kind # "externalCall" /\ effects' = Append(effects, row)

\* A call is pushed and finds no response of its identity,
Unheard == cursor' = cursor /\ cand'.kind = "trapped"

\* or consumes the next one, and goes on only if that one has returned.
Answers(row) ==
  /\ cursor < Len(responses)
  /\ responses[cursor + 1].effect = row.id.effect
  /\ responses[cursor + 1].occ = row.id.occ
  /\ cursor' = cursor + 1
  /\ responses[cursor + 1].disposition = "returned" \/ cand'.kind \in {"reverted", "trapped"}

Asks == \E row : /\ row.kind = "externalCall" /\ effects' = Append(effects, row)
                 /\ Unheard \/ Answers(row)

\* A call's row carries the identity the response is compared with.
LEMMA CallRow ==
  ASSUME NEW mint, NEW amount, Call(mint, amount)
  PROVE  \E row : /\ row.kind = "externalCall" /\ effects' = Append(effects, row)
                  /\ row.id.effect = Instr.effect /\ row.id.occ = occ[Instr.effect]
<1> DEFINE row == EffectRow(Instr.effect, "externalCall", Instr.callee, mint, amount)
<1>1. /\ row.kind = "externalCall" /\ row.id.effect = Instr.effect
      /\ row.id.occ = occ[Instr.effect]
  BY DEF EffectRow, Identity
<1>2. effects' = Append(effects, row)
  BY DEF Call, Push
<1>3. QED
  BY <1>1, <1>2

\* Every step of a run is of one of these kinds.
LEMMA StepAsks ==
  ASSUME Step
  PROVE  Silent \/ Asks
<1>1. CASE OutOfFuel \/ Value \/ Assertion \/ OccurrencesExhausted
  BY <1>1 DEF OutOfFuel, Value, Assertion, OccurrencesExhausted, stepVars, Silent
<1>2. CASE PureCall \/ ReturnToCaller \/ ReturnToHost \/ Revert \/ Trap \/ SwitchMiss \/ Jump
  BY <1>2 DEF PureCall, ReturnToCaller, ReturnToHost, Revert, Trap, SwitchMiss, Jump,
              stepVars, Silent
<1>3. CASE Store
  BY <1>3 DEF Store, Silent
<1>4. CASE Emit
  <2> DEFINE row == EffectRow(Instr.effect, "event", "plain", "none", 0)
  <2>1. effects' = Append(effects, row) /\ cursor' = cursor
    BY <1>4 DEF Emit, Push
  <2>2. row.kind # "externalCall"
    BY DEF EffectRow
  <2>3. QED
    BY <2>1, <2>2 DEF Silent
<1>5. CASE Schedule
  <2>1. PICK mint \in Mints, amount \in Amounts :
          effects' = Append(effects, EffectRow(Instr.effect, "schedule", Instr.callee, mint, amount))
    BY <1>5 DEF Schedule, Push
  <2>2. EffectRow(Instr.effect, "schedule", Instr.callee, mint, amount).kind # "externalCall"
    BY DEF EffectRow
  <2>3. cursor' = cursor
    BY <1>5 DEF Schedule
  <2>4. QED
    BY <2>1, <2>2, <2>3 DEF Silent
<1>6. CASE CallUnanswered
  <2>1. PICK mint \in Mints, amount \in Amounts :
          /\ Call(mint, amount) /\ cursor' = cursor
          /\ cand' = Trapped("invalidExternalResponse")
    BY <1>6 DEF CallUnanswered, Stop
  <2>2. Unheard
    BY <2>1 DEF Unheard, Trapped, Verdict
  <2>3. QED
    BY <2>1, <2>2, CallRow DEF Asks
<1>7. CASE CallReverted
  <2>1. PICK mint \in Mints, amount \in Amounts :
          /\ Call(mint, amount) /\ Answered(Instr.effect) /\ cursor' = cursor + 1
          /\ cand' = Reverted("externalCallReverted")
    BY <1>7 DEF CallReverted, Stop, Consumed
  <2>2. cand'.kind = "reverted"
    BY <2>1 DEF Reverted, Verdict
  <2>3. QED
    BY <2>1, <2>2, CallRow DEF Asks, Answers, Answered
<1>8. CASE CallForValue
  <2>1. PICK mint \in Mints, amount \in Amounts :
          /\ Call(mint, amount) /\ Answered(Instr.effect) /\ cursor' = cursor + 1
          /\ responses[cursor + 1].disposition = "returned"
    BY <1>8 DEF CallForValue, Consumed, Response
  <2>2. QED
    BY <2>1, CallRow DEF Asks, Answers, Answered
<1>9. CASE CallForEffect
  <2>1. PICK mint \in Mints, amount \in Amounts :
          /\ Call(mint, amount) /\ Answered(Instr.effect) /\ cursor' = cursor + 1
          /\ responses[cursor + 1].disposition = "returned"
    BY <1>9 DEF CallForEffect, Consumed, Response
  <2>2. QED
    BY <2>1, CallRow DEF Asks, Answers, Answered
<1>10. QED
  BY <1>1, <1>2, <1>3, <1>4, <1>5, <1>6, <1>7, <1>8, <1>9 DEF Step, ExternalCall

-----------------------------------------------------------------------------
(* Responses and calls match.                                              *)

\* Each call so far that got a response got the one at its own place; and
\* unless the run has trapped, every call has got one.
Heard ==
  /\ responses \in Seq(Responses) /\ cursor \in Nat /\ cursor <= Len(responses)
  /\ pc = "running" => cand.kind = "none"
  /\ cand.kind # "trapped" => Asked(Len(effects)) = cursor
  /\ \A i \in CallsUpTo(Len(effects)) : Asked(i) <= cursor =>
       /\ responses[Asked(i)].effect = effects[i].id.effect
       /\ responses[Asked(i)].occ = effects[i].id.occ
       /\ Asked(i) < cursor \/ cand.kind \in {"none", "returned"}
            => responses[Asked(i)].disposition = "returned"

\* Initially there are no calls and no responses.
LEMMA HeardInit == Init => Heard
<1> SUFFICES ASSUME Init PROVE Heard
  OBVIOUS
<1>1. effects = << >> /\ responses = << >> /\ cursor = 0 /\ pc = "host"
  BY DEF Init
<1>2. CallsUpTo(Len(effects)) = {}
  BY <1>1 DEF CallsUpTo
<1>3. QED
  BY <1>1, <1>2, FS_EmptySet DEF Heard, Asked

\* A step that asks for nothing leaves calls and responses matched.
LEMMA HeardSilent ==
  ASSUME Place, Identities, Heard, Step, Silent
  PROVE  Heard'
<1>1. pc = "running" /\ responses' = responses /\ cursor' = cursor /\ cand.kind = "none"
  BY StepMoves, StepWork DEF Fixed, Silent, Heard
<1>2. pc' = "running" => cand'.kind = "none"
  BY <1>1, StepCandidate DEF GoesOn, Stops
<1>3. /\ Asked(Len(effects)) = cursor
      /\ \A i \in CallsUpTo(Len(effects)) : Asked(i) <= cursor =>
           /\ responses[Asked(i)].effect = effects[i].id.effect
           /\ responses[Asked(i)].occ = effects[i].id.occ
           /\ responses[Asked(i)].disposition = "returned"
  BY <1>1 DEF Heard
<1>4. CASE effects' = effects
  <2>1. \A i : CallsUpTo(i)' = CallsUpTo(i) /\ Asked(i)' = Asked(i)
    BY <1>4 DEF CallsUpTo, Asked
  <2>2. QED
    BY <1>1, <1>2, <1>3, <1>4, <2>1 DEF Heard
<1>5. ASSUME NEW row, row.kind # "externalCall", effects' = Append(effects, row)
      PROVE  Heard'
  <2>1. effects \in Seq(EffectRows)
    BY DEF Identities
  <2>n. PICK n \in Nat : n = Len(effects)
    BY <2>1
  <2>2. \A i \in 1..n : effects'[i] = effects[i]
    BY <1>5, <2>1, <2>n
  <2>3. /\ CallsUpTo(Len(effects))' = CallsUpTo(n)
        /\ Asked(Len(effects))' = Asked(n)
        /\ \A i \in 0..n : Asked(i)' = Asked(i)
    BY <1>5, <2>1, <2>n, AskedAppend
  <2>4. CallsUpTo(n) \subseteq 1..n
    BY DEF CallsUpTo
  <2>5. QED
    BY <1>1, <1>2, <1>3, <2>n, <2>2, <2>3, <2>4 DEF Heard
<1>6. QED
  BY <1>4, <1>5 DEF Silent

\* A call that is pushed finds its response or traps.
LEMMA HeardAsks ==
  ASSUME Place, Identities, Heard, Step, Asks
  PROVE  Heard'
<1>0. effects \in Seq(EffectRows)
  BY DEF Identities
<1>n. PICK n \in Nat : n = Len(effects)
  BY <1>0
<1>1. pc = "running" /\ responses' = responses /\ cand.kind = "none"
  BY StepMoves, StepWork DEF Fixed, Heard
<1>2. pc' = "running" => cand'.kind = "none"
  BY <1>1, StepCandidate DEF GoesOn, Stops
<1>3. /\ Asked(n) = cursor /\ cursor \in Nat
      /\ \A i \in CallsUpTo(n) : Asked(i) <= cursor =>
           /\ responses[Asked(i)].effect = effects[i].id.effect
           /\ responses[Asked(i)].occ = effects[i].id.occ
           /\ responses[Asked(i)].disposition = "returned"
  BY <1>1, <1>n DEF Heard
<1>4. PICK row : /\ row.kind = "externalCall" /\ effects' = Append(effects, row)
                 /\ Unheard \/ Answers(row)
  BY DEF Asks
<1>6. /\ \A i \in 1..n : effects'[i] = effects[i]
      /\ effects'[n + 1] = row
  BY <1>0, <1>4, <1>n
<1>5. Len(effects') = n + 1
  BY <1>0, <1>4, <1>n
<1>7. /\ CallsUpTo(Len(effects))' = CallsUpTo(n) \cup {n + 1}
      /\ Asked(Len(effects))' = cursor + 1 /\ Asked(n + 1)' = cursor + 1
      /\ \A i \in 0..n : Asked(i)' = Asked(i)
  <2>1. /\ CallsUpTo(Len(effects))' = CallsUpTo(n) \cup {n + 1}
        /\ Asked(Len(effects))' = cursor + 1
        /\ \A i \in 0..n : Asked(i)' = Asked(i)
    BY <1>0, <1>3, <1>4, <1>n, AskedAppend
  <2>2. Asked(n + 1)' = Asked(Len(effects))'
    BY <1>5 DEF Asked, CallsUpTo
  <2>3. QED
    BY <2>1, <2>2
<1>8. CallsUpTo(n) \subseteq 1..n /\ \A i \in CallsUpTo(n) : Asked(i) <= cursor /\ Asked(i) \in Nat
  <2>1. CallsUpTo(n) \subseteq 1..n
    BY DEF CallsUpTo
  <2>2. \A i \in 1..n : Asked(i) <= Asked(n) /\ i \in Nat
    BY AskedGrows
  <2>3. \A i \in Nat : Asked(i) \in Nat
    BY AskedNat
  <2>4. QED
    BY <1>3, <2>1, <2>2, <2>3
<1>9. \A i \in CallsUpTo(n) :
        /\ Asked(i)' <= cursor
        /\ responses'[Asked(i)'].effect = effects'[i].id.effect
        /\ responses'[Asked(i)'].occ = effects'[i].id.occ
        /\ responses'[Asked(i)'].disposition = "returned"
  <2>1. ASSUME NEW i \in CallsUpTo(n)
        PROVE  /\ Asked(i) <= cursor /\ Asked(i)' = Asked(i)
               /\ responses' = responses /\ effects'[i] = effects[i]
    BY <1>1, <1>6, <1>7, <1>8
  <2>2. QED
    BY <1>3, <2>1
<1>10. CASE Unheard
  <2>1. cursor' = cursor /\ cand'.kind = "trapped"
    BY <1>10 DEF Unheard
  <2>2. responses' \in Seq(Responses) /\ cursor' \in Nat /\ cursor' <= Len(responses')
    BY <1>1, <2>1 DEF Heard
  <2>3. ~(Asked(n + 1)' <= cursor')
    BY <1>3, <1>7, <2>1
  <2>4. QED
    BY <1>2, <1>7, <1>9, <2>1, <2>2, <2>3 DEF Heard
<1>11. CASE Answers(row)
  <2>1. /\ cursor' = cursor + 1 /\ cursor < Len(responses)
        /\ responses[cursor + 1].effect = row.id.effect
        /\ responses[cursor + 1].occ = row.id.occ
        /\ responses[cursor + 1].disposition = "returned" \/ cand'.kind \in {"reverted", "trapped"}
    BY <1>11 DEF Answers
  <2>2. responses' \in Seq(Responses) /\ cursor' \in Nat /\ cursor' <= Len(responses')
    BY <1>1, <1>3, <2>1 DEF Heard
  <2>3. /\ responses'[Asked(n + 1)'].effect = effects'[n + 1].id.effect
        /\ responses'[Asked(n + 1)'].occ = effects'[n + 1].id.occ
        /\ Asked(n + 1)' < cursor' \/ cand'.kind \in {"none", "returned"}
             => responses'[Asked(n + 1)'].disposition = "returned"
    BY <1>1, <1>3, <1>6, <1>7, <2>1
  <2>4. QED
    BY <1>2, <1>7, <1>9, <2>1, <2>2, <2>3 DEF Heard
<1>12. QED
  BY <1>4, <1>10, <1>11

\* Every step leaves calls and responses matched.
LEMMA HeardNext == Place /\ Identities /\ Heard /\ [Next]_vars => Heard'
<1> SUFFICES ASSUME Place, Identities, Heard, [Next]_vars PROVE Heard'
  OBVIOUS
<1>1. ASSUME UNCHANGED <<effects, responses, cursor, cand>>, pc' # "running" \/ pc' = pc
      PROVE  Heard'
  BY <1>1 DEF Heard, Asked, CallsUpTo
<1>2. CASE RefuseProgram \/ RefuseInvocation \/ RefuseLifecycle
  BY <1>1, <1>2 DEF RefuseProgram, RefuseInvocation, RefuseLifecycle, Answer, stepVars
<1>3. CASE Start
  <2>1. /\ effects' = << >> /\ cursor' = 0 /\ responses' \in ResponseLists
        /\ cand' = Pending
    BY <1>3 DEF Start
  <2>2. responses' \in Seq(Responses)
    BY <2>1, DataAssumption
  <2>3. CallsUpTo(Len(effects))' = {}
    BY <2>1 DEF CallsUpTo
  <2>4. Asked(Len(effects))' = 0
    BY <2>3, FS_EmptySet DEF Asked
  <2>5. cand'.kind = "none" /\ Len(responses') \in Nat
    BY <2>1, <2>2 DEF Pending, Verdict
  <2>6. QED
    BY <2>1, <2>2, <2>3, <2>4, <2>5 DEF Heard
<1>4. CASE Step
  BY <1>4, StepAsks, HeardSilent, HeardAsks
<1>5. CASE Finalize
  BY <1>1, <1>5 DEF Finalize, stepVars
<1>6. CASE UNCHANGED vars
  BY <1>1, <1>6 DEF vars, stepVars
<1>7. QED
  BY <1>2, <1>3, <1>4, <1>5, <1>6 DEF Next

\* The host's answer is the run's candidate only if the list is used up, and
\* there is none while the run is going.
Delivered ==
  /\ pc # "host" => outcome.kind = "none"
  /\ Ran => cursor = Len(responses) /\ cand = outcome

\* Every step keeps the answer tied to the run that gave it.
LEMMA DeliveredNext == Place /\ Delivered /\ [Next]_vars => Delivered'
<1> SUFFICES ASSUME Place, Delivered, [Next]_vars PROVE Delivered'
  OBVIOUS
<1>1. CASE RefuseProgram \/ RefuseInvocation
  <2>1. pc = "host" /\ pc' = pc /\ outcome'.kind = "trapped"
    BY <1>1 DEF RefuseProgram, RefuseInvocation, Free, Answer, Trapped, Verdict
  <2>2. QED
    BY <2>1 DEF Delivered, Ran
<1>2. CASE RefuseLifecycle
  <2>1. PICK f \in Names, supplied \in ResponseLists :
          /\ Gate(f, "good") \in {"alreadyInitialized", "uninitialized"}
          /\ pc = "host" /\ pc' = pc
          /\ outcome' = IF supplied # << >> THEN Trapped("invalidExternalResponse")
                        ELSE Reverted(Gate(f, "good"))
    BY <1>2 DEF RefuseLifecycle, Free, Answer
  <2>2. outcome'.kind = "trapped" \/ outcome'.why \in {"alreadyInitialized", "uninitialized"}
    BY <2>1 DEF Trapped, Reverted, Verdict
  <2>3. QED
    BY <2>1, <2>2 DEF Delivered, Ran
<1>3. CASE Start
  <2>1. outcome'.kind = "none"
    BY <1>3 DEF Start, Pending, Verdict
  <2>2. QED
    BY <2>1 DEF Delivered, Ran
<1>4. CASE Step
  <2>1. pc = "running" /\ outcome' = outcome
    BY <1>4, StepMoves, StepWork DEF Fixed, hostVars
  <2>2. outcome'.kind = "none"
    BY <2>1 DEF Delivered
  <2>3. QED
    BY <2>2 DEF Delivered, Ran
<1>5. CASE Finalize
  <2>1. /\ pc' = "host" /\ outcome' \in Endings
        /\ UNCHANGED <<cursor, responses, cand>>
    BY <1>5 DEF Finalize, stepVars
  <2>2. cursor # Len(responses) => outcome'.kind = "trapped"
    BY <2>1 DEF Endings, Final, Trapped, Verdict
  <2>3. QED
    BY <2>1, <2>2 DEF Delivered, Ran, Endings, Final, Trapped, Verdict
<1>6. CASE UNCHANGED vars
  BY <1>6 DEF vars, hostVars, stepVars, Delivered, Ran
<1>7. QED
  BY <1>1, <1>2, <1>3, <1>4, <1>5, <1>6 DEF Next

\* A run that returned or reverted consumed exactly the responses it was
\* given, the k-th for its k-th call and under that call's identity, and went
\* on only past those that had returned (takeResponse, finalize).
THEOREM ResponsesConsumedCorrect == Spec => []ResponsesConsumed
<1> DEFINE Inv == Place /\ Nesting /\ Identities /\ EffectIdentity /\ Heard /\ Delivered
<1>1. Init => Inv
  <2>1. Init => Delivered
    BY DEF Init, Delivered, Ran, Pending, Verdict
  <2>2. QED
    BY <2>1, NestingInit, IdentitiesInit, HeardInit
<1>2. Inv /\ [Next]_vars => Inv'
  BY NestingNext, IdentitiesNext, HeardNext, DeliveredNext
<1>3. Inv => ResponsesConsumed
  <2> SUFFICES ASSUME Inv, Ran PROVE ResponsesConsumed
    BY DEF ResponsesConsumed
  <2>1. cursor = Len(responses) /\ cand = outcome /\ cand.kind \in {"returned", "reverted"}
    BY DEF Delivered, Ran
  <2>2. Asked(Len(effects)) = Len(responses)
    BY <2>1 DEF Heard
  <2>3. Len(effects) \in Nat
    BY DEF Identities
  <2>4. ASSUME NEW i \in CallsUpTo(Len(effects))
        PROVE  /\ responses[Asked(i)].effect = effects[i].id.effect
               /\ responses[Asked(i)].occ = effects[i].id.occ
               /\ Asked(i) < Len(responses) \/ outcome.kind = "returned"
                    => responses[Asked(i)].disposition = "returned"
    <3>1. Asked(i) <= cursor
      BY <2>1, <2>2, <2>3, AskedGrows DEF CallsUpTo
    <3>2. QED
      BY <2>1, <3>1 DEF Heard
  <2>5. QED
    BY <2>2, <2>4 DEF ResponsesConsumed, Asked
<1>4. QED
  BY <1>1, <1>2, <1>3, PTL DEF Spec

-----------------------------------------------------------------------------
(* The vault.                                                              *)

\* A bounded set of row numbers that is not empty has a last one.
LEMMA LastRowIn ==
  ASSUME NEW n \in Nat, NEW S \in SUBSET (1..n), S # {}
  PROVE  LastRow(S) \in S
<1> DEFINE T == {n - j : j \in S}
           R == OpToRel(<, Nat)
<1>1. T \subseteq Nat /\ T # {}
  <2>1. \A j \in S : n - j \in Nat
    OBVIOUS
  <2>2. QED
    BY <2>1, Zenon
<1>2. PICK x \in T : \A y \in T : ~(<<y, x>> \in R)
  <2> HIDE DEF T, R
  <2>1. QED
    BY <1>1, NatLessThanWellFounded, WFMin DEF R
<1>3. ASSUME NEW y \in T PROVE x <= y
  <2>1. x \in Nat /\ y \in Nat /\ <<y, x>> \notin R
    BY <1>1, <1>2
  <2>2. <<y, x>> \in Nat \X Nat
    BY <2>1
  <2>3. y < x => <<y, x>> \in R
    <3>1. R = {ss \in Nat \X Nat : ss[1] < ss[2]}
      BY DEF OpToRel
    <3> HIDE DEF R
    <3>2. QED
      BY <2>2, <3>1
  <2> HIDE DEF R, T
  <2>4. QED
    BY <2>1, <2>3
<1>4. PICK j \in S : x = n - j
  OBVIOUS
<1>5. \A k \in S : k <= j
  BY <1>3, <1>4
<1>6. QED
  BY <1>4, <1>5 DEF LastRow

\* A debit the rows cover leaves every balance within its width.
LEMMA DebitedRows ==
  ASSUME NEW vault \in Seq(Rows), NEW mint \in Mints, NEW amount \in Amounts,
         Covers(vault, mint, amount)
  PROVE  Debited(vault, mint, amount) \in Seq(Rows)
<1>1. CASE RowsOf(vault, mint) = {}
  BY <1>1 DEF Debited
<1>2. CASE RowsOf(vault, mint) # {}
  <2> DEFINE k == LastRow(RowsOf(vault, mint))
  <2>1. Len(vault) \in Nat /\ RowsOf(vault, mint) \in SUBSET (1..Len(vault))
    BY DEF RowsOf
  <2>2. k \in RowsOf(vault, mint) /\ k \in 1..Len(vault)
    BY <1>2, <2>1, LastRowIn
  <2>3. vault[k] \in Rows /\ vault[k][2] >= amount
    BY <1>2, <2>2 DEF Covers
  <2>4. amount \in Balances
    BY DataAssumption
  <2>5. vault[k][2] - amount \in Balances
    BY <2>3, <2>4, BoundAssumption DEF Rows, Balances
  <2> HIDE DEF k
  <2>6. <<mint, vault[k][2] - amount>> \in Rows
    BY <2>5 DEF Rows
  <2> DEFINE row == <<mint, vault[k][2] - amount>>
  <2>7. [vault EXCEPT ![1] = row] \in Seq(Rows)
    <3>1. row \in Rows
      BY <2>6
    <3> HIDE DEF row
    <3>2. QED
      BY <2>2, <3>1
  <2>8. QED
    BY <1>2, <2>7 DEF Debited, k, row
<1>3. QED
  BY <1>1, <1>2

\* Settling a call or scheduling a transfer leaves a vault.
LEMMA VaultAfter ==
  ASSUME VaultType, NEW callee, NEW mint \in Mints, NEW amount \in Amounts,
         Settles(callee, mint, amount) \/ callee \in AsyncCallees
  PROVE  /\ NativeAfter(callee, amount) \in Balances
         /\ TokensAfter(callee, mint, amount) \in Seq(Rows)
<1>1. amount \in Balances /\ native \in Balances /\ tokens \in Seq(Rows)
  BY DataAssumption DEF VaultType
<1>2. NativeAfter(callee, amount) \in Balances
  <2>1. CASE callee = "nativeDeposit"
    BY <1>1, <2>1, BoundAssumption DEF Settles, NativeAfter, Balances, AsyncCallees
  <2>2. CASE callee = "nativeTransfer"
    BY <1>1, <2>2, BoundAssumption DEF Settles, NativeAfter, Balances, AsyncCallees
  <2>3. CASE callee \notin {"nativeDeposit", "nativeTransfer"}
    BY <1>1, <2>3, BoundAssumption DEF NativeAfter, Balances
  <2>4. QED
    BY <2>1, <2>2, <2>3
<1>3. TokensAfter(callee, mint, amount) \in Seq(Rows)
  BY <1>1, DebitedRows DEF TokensAfter
<1>4. QED
  BY <1>2, <1>3

\* Every step of a run leaves a vault.
LEMMA VaultStep ==
  ASSUME VaultType, Step
  PROVE  VaultType'
<1>1. seed' = seed
  <2>1. Fixed
    BY DEF Step, ExternalCall, OutOfFuel, Value, Store, Assertion, OccurrencesExhausted,
       Emit, Schedule, CallUnanswered, CallReverted, CallForValue, CallForEffect, Call,
       PureCall, ReturnToCaller, ReturnToHost, Revert, Trap, SwitchMiss, Jump
  <2>2. QED
    BY <2>1 DEF Fixed
<1>2. CASE UNCHANGED <<native, tokens>>
  BY <1>1, <1>2 DEF VaultType
<1>3. CASE Schedule
  <2>1. PICK mint \in Mints, amount \in Amounts :
          \/ /\ Instr.callee \in AsyncCallees
             /\ native' = NativeAfter(Instr.callee, amount)
             /\ tokens' = TokensAfter(Instr.callee, mint, amount)
          \/ UNCHANGED <<native, tokens>>
    BY <1>3, Zenon DEF Schedule
  <2>2. QED
    BY <1>1, <1>2, <2>1, VaultAfter DEF VaultType
<1>4. CASE CallForEffect
  <2>1. PICK mint \in Mints, amount \in Amounts :
          \/ /\ Settles(Instr.callee, mint, amount)
             /\ native' = NativeAfter(Instr.callee, amount)
             /\ tokens' = TokensAfter(Instr.callee, mint, amount)
          \/ UNCHANGED <<native, tokens>>
    BY <1>4, Zenon DEF CallForEffect
  <2>2. QED
    BY <1>1, <1>2, <2>1, VaultAfter DEF VaultType
<1>5. ASSUME ~Schedule, ~CallForEffect PROVE UNCHANGED <<native, tokens>>
  BY <1>5 DEF Step, ExternalCall, stepVars, OutOfFuel, Value, Store, Assertion,
     OccurrencesExhausted, Emit, CallUnanswered, CallReverted, CallForValue,
     PureCall, ReturnToCaller, ReturnToHost, Revert, Trap, SwitchMiss, Jump
<1>6. QED
  BY <1>2, <1>3, <1>4, <1>5

\* Every step leaves a vault.
LEMMA VaultNext == VaultType /\ [Next]_vars => VaultType'
<1> SUFFICES ASSUME VaultType, [Next]_vars PROVE VaultType'
  OBVIOUS
<1>1. ASSUME UNCHANGED <<seed, native, tokens>> PROVE VaultType'
  BY <1>1 DEF VaultType
<1>2. CASE RefuseProgram \/ RefuseInvocation \/ RefuseLifecycle
  BY <1>1, <1>2 DEF RefuseProgram, RefuseInvocation, RefuseLifecycle, Answer, stepVars
<1>3. CASE Start
  <2>1. seed' \in Seeds /\ native' = seed'.native /\ tokens' = seed'.tokens
    BY <1>3 DEF Start
  <2>2. QED
    BY <2>1, DataAssumption DEF VaultType, Vaults
<1>4. CASE Step
  BY <1>4, VaultStep
<1>5. CASE Finalize \/ UNCHANGED vars
  BY <1>1, <1>5 DEF Finalize, stepVars, vars
<1>6. QED
  BY <1>2, <1>3, <1>4, <1>5 DEF Next

-----------------------------------------------------------------------------
(* Type correctness.                                                       *)

\* What the host counts and was answered, and what a run may spend.
Ledgers == /\ outcome \in Verdicts /\ invocations \in 0..MaxInvocations
           /\ fuel \in 0..Fuel /\ cand \in Verdicts
           /\ responses \in ResponseLists \cup {<< >>}

\* Every step keeps them in range.
LEMMA LedgersNext == Place /\ Ledgers /\ [Next]_vars => Ledgers'
<1> SUFFICES ASSUME Place, Ledgers, [Next]_vars PROVE Ledgers'
  OBVIOUS
<1>v. /\ \A why \in Faults : Trapped(why) \in Verdicts
      /\ \A why \in Reasons : Reverted(why) \in Verdicts
      /\ Pending \in Verdicts
  BY DEF Trapped, Reverted, Pending, Verdict, Verdicts, Faults
<1>r. /\ {"invalidCore", "invalidInvocation", "invalidExternalResponse",
          "internalInvariant"} \subseteq Faults
      /\ {"alreadyInitialized", "uninitialized"} \subseteq Reasons
  BY DEF Faults, TrapCodes, Reasons
<1>f. Free => invocations + 1 \in 0..MaxInvocations
  BY BoundAssumption DEF Free, Ledgers
<1>1. ASSUME NEW v \in Verdicts, Answer(v), Free PROVE Ledgers'
  BY <1>1, <1>f DEF Answer, Ledgers
<1>2. CASE RefuseProgram \/ RefuseInvocation
  BY <1>1, <1>2, <1>v, <1>r DEF RefuseProgram, RefuseInvocation
<1>3. CASE RefuseLifecycle
  <2>1. PICK f \in Names, supplied \in ResponseLists :
          /\ Gate(f, "good") \in {"alreadyInitialized", "uninitialized"} /\ Free
          /\ Answer(IF supplied # << >> THEN Trapped("invalidExternalResponse")
                    ELSE Reverted(Gate(f, "good")))
    BY <1>3 DEF RefuseLifecycle
  <2>2. QED
    BY <2>1, <1>1, <1>v, <1>r
<1>4. CASE Start
  BY <1>4, <1>v, <1>f, BoundAssumption DEF Start, Ledgers
<1>5. CASE Step
  <2>1. UNCHANGED <<outcome, invocations, responses>>
    BY <1>5, StepWork DEF Fixed, hostVars
  <2>2. fuel' \in 0..Fuel /\ cand' \in Verdicts
    BY <1>5, StepCandidate, BoundAssumption DEF GoesOn, Stops, Ledgers
  <2>3. QED
    BY <2>1, <2>2 DEF Ledgers
<1>6. CASE Finalize
  <2>1. Endings \subseteq Verdicts
    BY <1>v, <1>r DEF Endings, Final, Ledgers
  <2>2. QED
    BY <1>6, <2>1 DEF Finalize, Ledgers
<1>7. CASE UNCHANGED vars
  BY <1>7 DEF vars, hostVars, Ledgers
<1>8. QED
  BY <1>2, <1>3, <1>4, <1>5, <1>6, <1>7 DEF Next

\* At first all of it is in range.
LEMMA LedgersInit == Init => Ledgers /\ VaultType
<1> SUFFICES ASSUME Init PROVE Ledgers /\ VaultType
  OBVIOUS
<1>1. Pending \in Verdicts
  BY DEF Pending, Verdict, Verdicts, Faults
<1>2. Ledgers
  BY <1>1, BoundAssumption DEF Init, Ledgers
<1>3. seed \in Seeds /\ native = seed.native /\ tokens = seed.tokens
  BY DEF Init
<1>4. QED
  BY <1>2, <1>3, DataAssumption DEF VaultType, Vaults

\* TypeOK: for every program, response list, seed and bound, the cursor stays
\* within the responses, no balance leaves its width although debits go to the
\* first row of the vault (vaultTokenDebitV1), and every frame stands in a
\* block of its own callable.
THEOREM TypeOKCorrect == Spec => []TypeOK
<1> DEFINE Inv == /\ Place /\ Nesting /\ Identities /\ EffectIdentity
                  /\ HeldBack /\ Heard /\ Ledgers /\ VaultType
<1>1. Init => Inv
  BY NestingInit, IdentitiesInit, HeldBackInit, HeardInit, LedgersInit
<1>2. Inv /\ [Next]_vars => Inv'
  BY NestingNext, IdentitiesNext, HeldBackNext, HeardNext, LedgersNext, VaultNext
<1>3. Inv => TypeOK
  <2> SUFFICES ASSUME Inv PROVE TypeOK
    OBVIOUS
  <2>1. HostType
    BY DEF Place, HeldBack, Ledgers, HostType
  <2>2. ASSUME NEW a \in ActivationsOf(program) PROVE Active(a)
    BY ActivationParts DEF Active, Activation
  <2>3. RunType
    BY <2>2 DEF Place, Ledgers, RunType
  <2>4. StepType
    <3>1. cursor \in 0..Len(responses)
      BY DEF Heard
    <3>2. QED
      BY <3>1 DEF HeldBack, Identities, Ledgers, StepType
  <2>5. QED
    BY <2>1, <2>3, <2>4 DEF TypeOK
<1>4. QED
  BY <1>1, <1>2, <1>3, PTL DEF Spec

-----------------------------------------------------------------------------
(* The native vault.                                                       *)

\* A set of numbers has a least one.
LEMMA HasLeast ==
  ASSUME NEW S \in SUBSET Nat, S # {} PROVE \E x \in S : \A y \in S : x <= y
<1> DEFINE R == OpToRel(<, Nat)
<1>1. PICK x \in S : \A y \in S : ~(<<y, x>> \in R)
  <2> HIDE DEF R
  <2> QED
    BY NatLessThanWellFounded, WFMin DEF R
<1>2. ASSUME NEW y \in S PROVE x <= y
  <2>1. x \in Nat /\ y \in Nat /\ <<y, x>> \notin R
    BY <1>1
  <2>2. R = {ss \in Nat \X Nat : ss[1] < ss[2]}
    BY DEF OpToRel
  <2> HIDE DEF R
  <2>3. y < x => <<y, x>> \in R
    BY <2>1, <2>2
  <2> QED
    BY <2>1, <2>3
<1> QED
  BY <1>2

\* What holds of 0 and passes on to the next number holds up to N.
LEMMA Climb ==
  ASSUME NEW N \in Nat, NEW S, 0 \in S, \A n \in 0..(N - 1) : n \in S => n + 1 \in S
  PROVE  \A n \in 0..N : n \in S
<1> DEFINE T == {n \in 0..N : n \notin S}
<1>1. SUFFICES ASSUME T # {} PROVE FALSE
  OBVIOUS
<1>2. PICK m \in T : \A y \in T : m <= y
  <2>1. T \in SUBSET Nat
    OBVIOUS
  <2> HIDE DEF T
  <2> QED
    BY <1>1, <2>1, HasLeast
<1>3. m # 0 /\ m - 1 \in 0..(N - 1) /\ m - 1 \notin T
  BY <1>2
<1> QED
  BY <1>2, <1>3

\* What a row counts for.
Share(row, void, callee, mints) ==
  IF Settled(row, void, callee, mints) THEN row.amount ELSE 0

\* The sums over the effects have a value.
LEMMA SumsUnfold ==
  ASSUME NEW rows, NEW void, NEW callee, NEW mints, Len(rows) \in Nat
  PROVE  /\ Sums(rows, void, callee, mints)[0] = 0
         /\ \A i \in 1..Len(rows) :
              Sums(rows, void, callee, mints)[i] =
                Sums(rows, void, callee, mints)[i - 1] + Share(rows[i], void, callee, mints)
<1> DEFINE N == Len(rows)
           Then(t, i) == t + Share(rows[i], void, callee, mints)
           S == {m \in 0..N : \E g : g = [k \in 0..m |-> IF k = 0 THEN 0 ELSE Then(g[k - 1], k)]}
           A == Sums(rows, void, callee, mints)
<1>1. A = CHOOSE g : g = [k \in 0..N |-> IF k = 0 THEN 0 ELSE Then(g[k - 1], k)]
  BY DEF Sums, Share
<1>2. N \in Nat
  OBVIOUS
<1> HIDE DEF Then, A, N
<1>3. 0 \in S
  <2> DEFINE h == [k \in 0..0 |-> 0]
  <2>1. h = [k \in 0..0 |-> IF k = 0 THEN 0 ELSE Then(h[k - 1], k)]
    OBVIOUS
  <2> HIDE DEF h
  <2> QED
    BY <1>2, <2>1
<1>4. ASSUME NEW m \in 0..(N - 1), m \in S PROVE m + 1 \in S
  <2>1. PICK g : g = [k \in 0..m |-> IF k = 0 THEN 0 ELSE Then(g[k - 1], k)]
    BY <1>4
  <2> DEFINE h == [k \in 0..(m + 1) |-> IF k <= m THEN g[k] ELSE Then(g[m], m + 1)]
  <2>2. ASSUME NEW k \in 0..(m + 1) PROVE h[k] = IF k = 0 THEN 0 ELSE Then(h[k - 1], k)
    <3>1. CASE k <= m
      <4>1. k \in 0..m /\ h[k] = g[k] /\ (k # 0 => k - 1 \in 0..m /\ h[k - 1] = g[k - 1])
        BY <1>2, <3>1
      <4> HIDE DEF h
      <4> QED
        BY <2>1, <4>1
    <3>2. CASE k = m + 1
      <4>1. k # 0 /\ k - 1 = m /\ h[k] = Then(g[m], m + 1) /\ h[m] = g[m]
        BY <1>2, <3>2
      <4> HIDE DEF h
      <4> QED
        BY <3>2, <4>1
    <3> QED
      BY <1>2, <3>1, <3>2
  <2>3. DOMAIN h = 0..(m + 1) /\ h = [k \in 0..(m + 1) |-> h[k]]
    OBVIOUS
  <2> HIDE DEF h
  <2>4. h = [k \in 0..(m + 1) |-> IF k = 0 THEN 0 ELSE Then(h[k - 1], k)]
    BY <2>2, <2>3
  <2>5. m + 1 \in 0..N
    BY <1>2
  <2> QED
    BY <2>4, <2>5
<1>5. \A m \in 0..N : m \in S
  <2> HIDE DEF S
  <2> QED
    BY <1>2, <1>3, <1>4, Climb
<1>6. \E g : g = [k \in 0..N |-> IF k = 0 THEN 0 ELSE Then(g[k - 1], k)]
  BY <1>2, <1>5
<1>7. A = [k \in 0..N |-> IF k = 0 THEN 0 ELSE Then(A[k - 1], k)]
  BY <1>1, <1>6
<1>8. A[0] = 0 /\ \A i \in 1..N : A[i] = Then(A[i - 1], i)
  <2>1. 0 \in 0..N /\ \A i \in 1..N : i \in 0..N /\ i # 0
    BY <1>2
  <2> QED
    BY <1>7, <2>1
<1> QED
  BY <1>8 DEF Then, A, N

\* The sum after the last row.
Sum(rows, void, callee, mints) == Sums(rows, void, callee, mints)[Len(rows)]

\* No sum is negative.
LEMMA SumNat ==
  ASSUME NEW rows \in Seq(EffectRows), NEW void, NEW callee, NEW mints
  PROVE  Sum(rows, void, callee, mints) \in Nat
<1> DEFINE N == Len(rows)
           A == Sums(rows, void, callee, mints)
           G(r) == Share(r, void, callee, mints)
           S == {i \in 0..N : A[i] \in Nat}
<1>1. N \in Nat /\ \A i \in 1..N : rows[i] \in EffectRows
  OBVIOUS
<1>2. A[0] = 0 /\ \A i \in 1..N : A[i] = A[i - 1] + G(rows[i])
  BY <1>1, SumsUnfold
<1>3. \A r \in EffectRows : G(r) \in Nat
  BY DEF Share, EffectRows
<1> HIDE DEF A, G, N
<1>4. 0 \in S
  BY <1>1, <1>2
<1>5. ASSUME NEW n \in 0..(N - 1), n \in S PROVE n + 1 \in S
  <2>1. n + 1 \in 1..N /\ n + 1 \in 0..N /\ (n + 1) - 1 = n
    BY <1>1
  <2>2. A[n] \in Nat /\ G(rows[n + 1]) \in Nat /\ A[n + 1] = A[n] + G(rows[n + 1])
    BY <1>1, <1>2, <1>3, <1>5, <2>1
  <2> QED
    BY <2>1, <2>2
<1>6. \A n \in 0..N : n \in S
  <2> HIDE DEF S
  <2> QED
    BY <1>1, <1>4, <1>5, Climb
<1> QED
  BY <1>1, <1>6 DEF Sum, A, N

\* A row more adds what it counts for.
LEMMA SumAppend ==
  ASSUME NEW rows \in Seq(EffectRows), NEW row \in EffectRows,
         NEW void, NEW callee, NEW mints
  PROVE  Sum(Append(rows, row), void, callee, mints) =
           Sum(rows, void, callee, mints) + Share(row, void, callee, mints)
<1> DEFINE N == Len(rows)
           more == Append(rows, row)
           A == Sums(rows, void, callee, mints)
           B == Sums(more, void, callee, mints)
           G(r) == Share(r, void, callee, mints)
           S == {i \in 0..N : B[i] = A[i]}
<1>1. /\ N \in Nat /\ Len(more) = N + 1 /\ more[N + 1] = row
      /\ \A i \in 1..N : more[i] = rows[i] /\ rows[i] \in EffectRows
  OBVIOUS
<1>2. A[0] = 0 /\ \A i \in 1..N : A[i] = A[i - 1] + G(rows[i])
  BY <1>1, SumsUnfold
<1>3. B[0] = 0 /\ \A i \in 1..(N + 1) : B[i] = B[i - 1] + G(more[i])
  <2>1. Len(more) \in Nat
    BY <1>1
  <2>2. B[0] = 0 /\ \A i \in 1..Len(more) : B[i] = B[i - 1] + G(more[i])
    <3> HIDE DEF more
    <3> QED
      BY <2>1, SumsUnfold
  <2> HIDE DEF B, G, more
  <2> QED
    BY <1>1, <2>2
<1> HIDE DEF A, B, G, more, N
<1>5. 0 \in S
  BY <1>1, <1>2, <1>3
<1>6. ASSUME NEW n \in 0..(N - 1), n \in S PROVE n + 1 \in S
  <2>1. n + 1 \in 1..N /\ n + 1 \in 1..(N + 1) /\ n + 1 \in 0..N /\ (n + 1) - 1 = n
    BY <1>1
  <2>2. B[n] = A[n] /\ more[n + 1] = rows[n + 1]
    BY <1>1, <1>6, <2>1
  <2>3. A[n + 1] = A[n] + G(rows[n + 1]) /\ B[n + 1] = B[n] + G(more[n + 1])
    BY <1>2, <1>3, <2>1
  <2> QED
    BY <2>1, <2>2, <2>3
<1>7. N \in S
  <2> HIDE DEF S
  <2>1. \A n \in 0..N : n \in S
    BY <1>1, <1>5, <1>6, Climb
  <2> QED
    BY <1>1, <2>1
<1>8. N + 1 \in 1..(N + 1) /\ (N + 1) - 1 = N
  BY <1>1
<1>9. B[N + 1] = B[N] + G(row)
  BY <1>1, <1>3, <1>8
<1> QED
  BY <1>1, <1>7, <1>9 DEF Sum, A, B, G, more, N

\* A callable has finitely many effect sites.
LEMMA SitesFinite ==
  ASSUME NEW f \in DOMAIN program, program \in Programs
  PROVE  IsFiniteSet(EffectSites(program[f]))
<1> DEFINE c == program[f]
           D == DOMAIN c.blocks
           sites == [b \in D |-> {b} \X DOMAIN c.blocks[b].body]
           T == {sites[b] : b \in D}
<1>1. CallableShape(c)
  BY ProgramAssumption DEF WellFormed
<1>2. D = 1..Len(c.blocks) /\ Len(c.blocks) \in Nat
  <2>1. DOMAIN c.blocks = 1..Len(c.blocks) /\ Len(c.blocks) \in Nat \ {0}
    <3> HIDE DEF c
    <3> QED
      BY <1>1, Zenon DEF CallableShape
  <2> QED
    BY <2>1
<1>3. \A b \in D : c.blocks[b].body \in Seq(Instructions)
  BY ShapeOf
<1>0. \A n \in Nat : IsFiniteSet(1..n)
  BY FS_Interval
<1>4. IsFiniteSet(D)
  <2> HIDE DEF D
  <2> QED
    BY <1>0, <1>2
<1>5. IsFiniteSet(T)
  <2>1. sites \in Surjection(D, T)
    BY DEF Surjection
  <2> QED
    BY <1>4, <2>1, FS_Surjection
<1>6. ASSUME NEW b \in D PROVE IsFiniteSet({b} \X DOMAIN c.blocks[b].body)
  <2>1. DOMAIN c.blocks[b].body = 1..Len(c.blocks[b].body) /\ Len(c.blocks[b].body) \in Nat
    BY <1>3
  <2>2. IsFiniteSet(DOMAIN c.blocks[b].body) /\ IsFiniteSet({b})
    BY <1>0, <2>1, FS_Singleton
  <2> QED
    BY <2>2, FS_Product
<1>7. \A U \in T : IsFiniteSet(U)
  BY <1>6
<1>8. IsFiniteSet(UNION T)
  <2> HIDE DEF T
  <2> QED
    BY <1>5, <1>7, FS_UNION
<1>9. EffectSites(c) \subseteq UNION T
  BY DEF EffectSites
<1> QED
  BY <1>8, <1>9, FS_Subset

\* Two sites of a callable have different effects (the structure gate numbers them).
LEMMA SitesDiffer ==
  ASSUME NEW f \in DOMAIN program, program \in Programs,
         NEW s \in EffectSites(program[f]), NEW t \in EffectSites(program[f]),
         program[f].blocks[s[1]].body[s[2]].effect = program[f].blocks[t[1]].body[t[2]].effect
  PROVE  s = t
<1> DEFINE c == program[f]
           E == EffectSites(c)
           Below(u) == {x \in E : Before(x, u)}
<1>1. CallableShape(c)
  BY ProgramAssumption DEF WellFormed
<1>2. /\ \A u \in E : c.blocks[u[1]].body[u[2]].effect = Cardinality(Below(u))
      /\ Len(c.blocks) \in Nat \ {0} /\ DOMAIN c.blocks = 1..Len(c.blocks)
  <2> HIDE DEF c
  <2> QED
    BY <1>1, Zenon DEF CallableShape
<1>3. \A u \in E : u \in Nat \X Nat
  <2>1. DOMAIN c.blocks \subseteq Nat
    <3>1. \A n \in Nat : 1..n \subseteq Nat
      OBVIOUS
    <3>2. Len(c.blocks) \in Nat /\ DOMAIN c.blocks = 1..Len(c.blocks)
      BY <1>2, Zenon
    <3> HIDE DEF c
    <3> QED
      BY <3>1, <3>2, Zenon
  <2>2. \A b \in DOMAIN c.blocks : DOMAIN c.blocks[b].body \subseteq Nat
    BY ShapeOf
  <2> QED
    BY <2>1, <2>2 DEF EffectSites
<1>4. IsFiniteSet(E)
  BY SitesFinite
<1> HIDE DEF E
<1>5. ASSUME NEW u \in E, NEW w \in E, Before(u, w),
             Cardinality(Below(u)) = Cardinality(Below(w))
      PROVE  FALSE
  <2>1. u \in Nat \X Nat /\ w \in Nat \X Nat /\ \A x \in E : x \in Nat \X Nat
    BY <1>3
  <2>2. Below(u) \subseteq Below(w)
    BY <1>5, <2>1 DEF Before
  <2>3. u \in Below(w) /\ u \notin Below(u)
    BY <1>5, <2>1 DEF Before
  <2>4. IsFiniteSet(Below(w))
    BY <1>4, FS_Subset
  <2> HIDE DEF Below
  <2>5. Below(w) = Below(u)
    BY <1>5, <2>2, <2>4, FS_Subset
  <2> QED
    BY <2>3, <2>5
<1>6. s = t \/ Before(s, t) \/ Before(t, s)
  <2>1. s \in E /\ t \in E
    BY DEF E
  <2>2. s \in Nat \X Nat /\ t \in Nat \X Nat
    BY <1>3, <2>1
  <2> QED
    BY <2>2 DEF Before
<1>7. s \in E /\ t \in E /\ Cardinality(Below(s)) = Cardinality(Below(t))
  BY <1>2 DEF E
<1> QED
  BY <1>5, <1>6, <1>7

\* A call is made by the invoked callable itself, and its effect is one of the
\* settled when it has no result.
LEMMA CallSite ==
  ASSUME Place, Nesting, At("externalCall")
  PROVE  Instr.effect \in VoidCalls(program[root]) <=> Instr.result = "void"
<1> DEFINE c == program[root]
           s == <<at.block, at.instr + 1>>
<1>1. Allowed(program[at.fn].kind, "externalCall") /\ pc = "running" /\ program \in Programs
  BY AllowedHere DEF Nesting, At, Running, Place
<1>2. at.fn = root /\ root \in DOMAIN program
  BY <1>1 DEF Allowed, Effectful, Nesting, Place
<1>3. at.block \in DOMAIN c.blocks /\ at.instr + 1 \in DOMAIN c.blocks[at.block].body
  BY <1>2, InstrPlace DEF Callable, Block
<1>4. Instr = c.blocks[s[1]].body[s[2]]
  BY <1>2 DEF Instr, Block, Callable
<1>5. s \in EffectSites(c)
  <2>1. c.blocks[s[1]].body[s[2]].op \in Effectful
    BY <1>4 DEF At, Effectful
  <2>2. s \in {at.block} \X DOMAIN c.blocks[at.block].body
    BY <1>3
  <2>3. s \in UNION {{b} \X DOMAIN c.blocks[b].body : b \in DOMAIN c.blocks}
    BY <1>3, <2>2
  <2> QED
    BY <2>1, <2>3 DEF EffectSites
<1>6. ASSUME Instr.result = "void" PROVE Instr.effect \in VoidCalls(c)
  BY <1>4, <1>5, <1>6 DEF VoidCalls
<1>7. ASSUME Instr.effect \in VoidCalls(c) PROVE Instr.result = "void"
  <2>1. PICK t \in EffectSites(c) : /\ c.blocks[t[1]].body[t[2]].result = "void"
                                   /\ c.blocks[t[1]].body[t[2]].effect = Instr.effect
    BY <1>7 DEF VoidCalls
  <2>2. t = s
    BY <1>1, <1>2, <1>4, <1>5, <2>1, SitesDiffer
  <2> QED
    BY <1>4, <2>1, <2>2
<1> QED
  BY <1>6, <1>7

\* A call's row is a row of the buffer.
LEMMA CallRowTyped ==
  ASSUME Place, Identities, NEW op \in Effectful, At(op), OccurrencesLeft(Instr.effect),
         NEW kind \in {"event", "externalCall", "schedule"},
         NEW callee \in Callees, NEW mint \in Mints \cup {"none"}, NEW amount \in Nat
  PROVE  EffectRow(Instr.effect, kind, callee, mint, amount) \in EffectRows
<1>1. Instr.effect \in Effects
  BY InstrPlace DEF Instructions
<1>2. occ[Instr.effect] \in 0..MaxOccurrence
  BY <1>1 DEF Identities
<1> QED
  BY <1>1, <1>2 DEF EffectRow, EffectRows, Identity

\* While a run can still return, what the vault holds and has paid by transfers
\* is no more than its seed and the deposits.  (An asynchronous transfer takes
\* from the vault and is not counted, hence no equality.)
Solvent ==
  InForce => native + Moved("nativeTransfer", Mints)
               <= seed.native + Moved("nativeDeposit", Mints)

\* A row more, and the vault as it is after it.
LEMMA SolventPush ==
  ASSUME VaultType, VaultType', Solvent, InForce, UNCHANGED <<program, root, seed>>,
         effects \in Seq(EffectRows), NEW row \in EffectRows, effects' = Append(effects, row),
         native' + Share(row, VoidCalls(program[root]), "nativeTransfer", Mints)
           <= native + Share(row, VoidCalls(program[root]), "nativeDeposit", Mints)
  PROVE  Solvent'
<1> DEFINE void == VoidCalls(program[root])
           out == Sum(effects, void, "nativeTransfer", Mints)
           into == Sum(effects, void, "nativeDeposit", Mints)
           paid == Share(row, void, "nativeTransfer", Mints)
           got == Share(row, void, "nativeDeposit", Mints)
<1>1. /\ out \in Nat /\ into \in Nat
      /\ Sum(effects', void, "nativeTransfer", Mints) = out + paid
      /\ Sum(effects', void, "nativeDeposit", Mints) = into + got
  BY SumNat, SumAppend
<1>2. /\ Moved("nativeTransfer", Mints) = out /\ Moved("nativeDeposit", Mints) = into
      /\ Moved("nativeTransfer", Mints)' = Sum(effects', void, "nativeTransfer", Mints)
      /\ Moved("nativeDeposit", Mints)' = Sum(effects', void, "nativeDeposit", Mints)
  BY DEF Moved, Sum
<1>3. native \in Nat /\ native' \in Nat /\ seed.native \in Nat
  BY DataAssumption, BoundAssumption DEF VaultType, Vaults, Balances
<1>4. paid \in Nat /\ got \in Nat
  BY DEF Share, EffectRows
<1>5. native + out <= seed.native + into /\ native' + paid <= native + got
  BY <1>2 DEF Solvent
<1> HIDE DEF out, into, paid, got, void
<1>6. \A a, b, o, i, p, g, s \in Nat :
        b + o <= s + i /\ a + p <= b + g => a + (o + p) <= s + (i + g)
  OBVIOUS
<1>7. native' + (out + paid) <= seed.native + (into + got)
  BY <1>1, <1>3, <1>4, <1>5, <1>6, Zenon
<1> QED
  BY <1>1, <1>2, <1>7 DEF Solvent

\* Every step of a run that can still return keeps the vault solvent.
LEMMA SolventStep ==
  ASSUME Place, Nesting, Identities, VaultType, Solvent, Step
  PROVE  Solvent'
<1>1. pc = "running" /\ InForce /\ VaultType' /\ effects \in Seq(EffectRows)
  BY StepMoves, VaultStep DEF InForce, Identities
<1>2. UNCHANGED <<program, root, seed>>
  BY StepWork DEF Fixed, hostVars
<1>3. ASSUME NEW verdict, Stop(verdict), verdict # Returned PROVE Solvent'
  BY <1>3 DEF Stop, Solvent, InForce
<1>4. ASSUME UNCHANGED <<effects, native>> PROVE Solvent'
  BY <1>1, <1>2, <1>4 DEF Solvent, Moved
<1>5. \A why : Trapped(why) # Returned /\ Reverted(why) # Returned
  BY DEF Trapped, Reverted, Returned, Verdict
<1>6. /\ Amounts \subseteq Nat /\ native \in Nat
      /\ \A op \in OpNames : At(op) => Instr.callee \in Callees
  BY DataAssumption, BoundAssumption, InstrPlace DEF Balances, VaultType, Instructions
<1>7. CASE Emit
  <2> DEFINE row == EffectRow(Instr.effect, "event", "plain", "none", 0)
  <2>1. At("emit") /\ OccurrencesLeft(Instr.effect) /\ effects' = Append(effects, row) /\ native' = native
    BY <1>7 DEF Emit, Push
  <2>2. row \in EffectRows
    BY <2>1, CallRowTyped DEF Effectful, Callees
  <2>3. row.kind = "event"
    BY DEF EffectRow
  <2>4. \A void, callee : Share(row, void, callee, Mints) = 0
    BY <2>3 DEF Share, Settled
  <2> HIDE DEF row
  <2>5. native' + Share(row, VoidCalls(program[root]), "nativeTransfer", Mints)
          <= native + Share(row, VoidCalls(program[root]), "nativeDeposit", Mints)
    BY <1>6, <2>1, <2>4
  <2> QED
    BY <1>1, <1>2, <2>1, <2>2, <2>5, SolventPush
<1>8. CASE Schedule
  <2>1. PICK mint \in Mints, amount \in Amounts :
          /\ Push(Instr.effect, "schedule", Instr.callee, mint, amount)
          /\ IF Instr.callee \in AsyncCallees
             THEN native' = NativeAfter(Instr.callee, amount) ELSE native' = native
    BY <1>8 DEF Schedule
  <2> DEFINE row == EffectRow(Instr.effect, "schedule", Instr.callee, mint, amount)
  <2>2. At("schedule") /\ OccurrencesLeft(Instr.effect) /\ effects' = Append(effects, row)
    BY <1>8, <2>1 DEF Schedule, Push
  <2>3. row \in EffectRows
    BY <1>6, <2>2, CallRowTyped DEF Effectful, OpNames
  <2>4. row.kind = "schedule"
    BY DEF EffectRow
  <2>5. \A void, callee : Share(row, void, callee, Mints) = 0
    BY <2>4 DEF Share, Settled
  <2>6. native' <= native
    BY <1>6, <2>1 DEF NativeAfter, AsyncCallees
  <2> HIDE DEF row
  <2>7. native' + Share(row, VoidCalls(program[root]), "nativeTransfer", Mints)
          <= native + Share(row, VoidCalls(program[root]), "nativeDeposit", Mints)
    BY <1>1, <1>6, <2>5, <2>6, DataAssumption, BoundAssumption DEF VaultType, Balances
  <2> QED
    BY <1>1, <1>2, <2>2, <2>3, <2>7, SolventPush
<1>9. CASE CallUnanswered \/ CallReverted
  BY <1>3, <1>5, <1>9 DEF CallUnanswered, CallReverted
<1>10. CASE CallForValue
  <2>1. PICK mint \in Mints, amount \in Amounts :
          /\ Call(mint, amount) /\ Instr.result = "typed"
          /\ \/ Advance
             \/ \E why \in {"invalidCore", "invalidExternalResponse"} : Stop(Trapped(why))
          /\ native' = native
    BY <1>10 DEF CallForValue
  <2> DEFINE row == EffectRow(Instr.effect, "externalCall", Instr.callee, mint, amount)
  <2>2. At("externalCall") /\ OccurrencesLeft(Instr.effect) /\ effects' = Append(effects, row)
    BY <2>1 DEF Call, Push
  <2>3. row \in EffectRows
    BY <1>6, <2>2, CallRowTyped DEF Effectful, OpNames
  <2>4. row.id.effect \notin VoidCalls(program[root])
    <3>1. row.id.effect = Instr.effect
      BY DEF EffectRow, Identity
    <3> QED
      BY <2>1, <2>2, <3>1, CallSite
  <2>5. \A callee : Share(row, VoidCalls(program[root]), callee, Mints) = 0
    BY <2>4 DEF Share, Settled
  <2> HIDE DEF row
  <2>6. native' + Share(row, VoidCalls(program[root]), "nativeTransfer", Mints)
          <= native + Share(row, VoidCalls(program[root]), "nativeDeposit", Mints)
    BY <1>6, <2>1, <2>5
  <2> QED
    BY <1>1, <1>2, <2>2, <2>3, <2>6, SolventPush
<1>11. CASE CallForEffect
  <2>1. PICK mint \in Mints, amount \in Amounts :
          /\ Call(mint, amount) /\ Instr.result = "void"
          /\ IF Settles(Instr.callee, mint, amount)
             THEN native' = NativeAfter(Instr.callee, amount)
             ELSE \E verdict : verdict # Returned /\ Stop(verdict)
    BY <1>5, <1>11 DEF CallForEffect
  <2>2. CASE ~Settles(Instr.callee, mint, amount)
    BY <1>3, <2>1, <2>2
  <2>3. CASE Settles(Instr.callee, mint, amount)
    <3> DEFINE row == EffectRow(Instr.effect, "externalCall", Instr.callee, mint, amount)
               void == VoidCalls(program[root])
    <3>1. At("externalCall") /\ OccurrencesLeft(Instr.effect) /\ effects' = Append(effects, row)
      BY <2>1 DEF Call, Push
    <3>2. row \in EffectRows
      BY <1>6, <3>1, CallRowTyped DEF Effectful, OpNames
    <3>3. /\ row.kind = "externalCall" /\ row.callee = Instr.callee /\ row.mint \in Mints
          /\ row.amount = amount /\ row.id.effect = Instr.effect
      BY DEF EffectRow, Identity
    <3>4. row.id.effect \in void
      BY <2>1, <3>1, <3>3, CallSite
    <3> HIDE DEF row, void
    <3>5. \A callee : Share(row, void, callee, Mints) = IF Instr.callee = callee THEN amount ELSE 0
      BY <3>3, <3>4 DEF Share, Settled
    <3>6. amount \in Nat /\ native' = NativeAfter(Instr.callee, amount)
      BY <1>6, <2>1, <2>3
    <3>7. native' + Share(row, void, "nativeTransfer", Mints)
            <= native + Share(row, void, "nativeDeposit", Mints)
      <4>1. CASE Instr.callee = "nativeDeposit"
        BY <1>6, <3>5, <3>6, <4>1 DEF NativeAfter
      <4>2. CASE Instr.callee = "nativeTransfer"
        BY <1>6, <3>5, <3>6, <4>2 DEF NativeAfter
      <4>3. CASE Instr.callee \notin {"nativeDeposit", "nativeTransfer"}
        BY <1>6, <3>5, <3>6, <4>3 DEF NativeAfter
      <4> QED
        BY <4>1, <4>2, <4>3
    <3> QED
      BY <1>1, <1>2, <3>1, <3>2, <3>7, SolventPush DEF void
  <2> QED
    BY <2>2, <2>3
<1>12. ASSUME ~Emit, ~Schedule, ~ExternalCall PROVE UNCHANGED <<effects, native>>
  BY <1>12 DEF Step, stepVars, OutOfFuel, Value, Store, Assertion, OccurrencesExhausted,
     PureCall, ReturnToCaller, ReturnToHost, Revert, Trap, SwitchMiss, Jump
<1> QED
  BY <1>4, <1>7, <1>8, <1>9, <1>10, <1>11, <1>12 DEF ExternalCall

(* Every step keeps the vault solvent.                                     *)
LEMMA SolventNext ==
  Place /\ Nesting /\ Identities /\ VaultType /\ Solvent /\ [Next]_vars => Solvent'
<1> SUFFICES ASSUME Place, Nesting, Identities, VaultType, Solvent, [Next]_vars PROVE Solvent'
  OBVIOUS
<1>1. ASSUME UNCHANGED <<program, root, seed, native, effects, cand>>,
             pc' = pc \/ pc' = "host"
      PROVE  Solvent'
  <2>1. Moved("nativeTransfer", Mints)' = Moved("nativeTransfer", Mints)
        /\ Moved("nativeDeposit", Mints)' = Moved("nativeDeposit", Mints)
    BY <1>1 DEF Moved
  <2> QED
    BY <1>1, <2>1 DEF Solvent, InForce
<1>2. CASE RefuseProgram \/ RefuseInvocation \/ RefuseLifecycle
  BY <1>1, <1>2 DEF RefuseProgram, RefuseInvocation, RefuseLifecycle, Answer, stepVars
<1>3. CASE Start
  <2>1. seed' \in Seeds /\ native' = seed'.native /\ effects' = <<>>
    BY <1>3 DEF Start
  <2>2. \A callee : Moved(callee, Mints)' = 0
    <3>1. Len(<<>>) = 0 /\ Len(<<>>) \in Nat
      OBVIOUS
    <3>2. \A void, callee : Sums(<<>>, void, callee, Mints)[0] = 0
      BY <3>1, SumsUnfold
    <3> QED
      BY <2>1, <3>1, <3>2 DEF Moved
  <2>3. seed'.native \in Nat
    BY <2>1, DataAssumption, BoundAssumption DEF Vaults, Balances
  <2> QED
    BY <2>1, <2>2, <2>3 DEF Solvent
<1>4. CASE Step
  BY <1>4, SolventStep
<1>5. CASE Finalize \/ UNCHANGED vars
  BY <1>1, <1>5 DEF Finalize, stepVars, vars, hostVars
<1> QED
  BY <1>2, <1>3, <1>4, <1>5 DEF Next

\* As long as a run can return, its transfers have paid no more of the native
\* vault than its seed and its deposits: for every program, also where a call
\* that binds a result names a transfer, which is not settled, and in loops
\* (vaultDepositIn, vaultTransferOut, vaultAsyncOut).
THEOREM NativeNoOverdraftCorrect == Spec => []NativeNoOverdraft
<1> DEFINE Inv == Place /\ Nesting /\ Identities /\ EffectIdentity /\ VaultType /\ Solvent
<1>1. Init => Inv
  <2>1. Init => Solvent
    BY DEF Init, Solvent, InForce, Pending, Returned, Verdict
  <2> QED
    BY <2>1, NestingInit, IdentitiesInit, LedgersInit
<1>2. Inv /\ [Next]_vars => Inv'
  BY NestingNext, IdentitiesNext, VaultNext, SolventNext
<1>3. Inv => NativeNoOverdraft
  <2> SUFFICES ASSUME Inv, InForce
               PROVE  Moved("nativeTransfer", Mints) <= seed.native + Moved("nativeDeposit", Mints)
    BY DEF NativeNoOverdraft
  <2>1. native \in Nat /\ seed.native \in Nat
    BY DataAssumption, BoundAssumption DEF VaultType, Vaults, Balances
  <2>2. \A callee : Moved(callee, Mints) \in Nat
    <3>1. effects \in Seq(EffectRows)
      BY DEF Identities
    <3> QED
      BY <3>1, SumNat DEF Moved, Sum
  <2>3. native + Moved("nativeTransfer", Mints) <= seed.native + Moved("nativeDeposit", Mints)
    BY DEF Solvent
  <2> QED
    BY <2>1, <2>2, <2>3
<1> QED
  BY <1>1, <1>2, <1>3, PTL DEF Spec
=============================================================================
