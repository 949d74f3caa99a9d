--------------------------- MODULE MCReferenceMachine ---------------------------
(***************************************************************************)
(* Small contracts for TLC.  Each exercises one part of the machine:       *)
(*   Ledger  loops, effects, typed and void calls, pure functions, a view  *)
(*   Guards  asserts, reverts, traps, switches; no initializer             *)
(*   Nested  a loop inside a loop                                          *)
(*   Spin    a pure function that calls itself                             *)
(*   Rogue   a pure function that emits; Meddler a view that writes        *)
(*   Bank    deposits, transfers and asynchronous transfers                *)
(*   Tokens  transfers of a token vault that holds two mints               *)
(***************************************************************************)
EXTENDS ReferenceMachine, TLC

Instruction(op) == [op |-> op, slot |-> "s", effect |-> 0, callee |-> "plain",
                    result |-> "void", fn |-> "main"]
Effect(op, e, callee) == [Instruction(op) EXCEPT !.effect = e, !.callee = callee]
Typed(i)   == [i EXCEPT !.result = "typed"]
Apply(f)   == [Typed(Instruction("pureCall")) EXCEPT !.fn = f]
Load       == Typed(Instruction("value"))
End(end, to) == [end |-> end, to |-> to, default |-> "some", fault |-> "unreachable"]
Block1(body, last) == [body |-> body, last |-> last]
Simple(kind, body, last) == [kind |-> kind, entry |-> 1, bound |-> << >>,
                             blocks |-> <<Block1(body, last)>>]
Back(from, header, n) == <<from, header>> :> n

Constructor == Simple("initializer", <<Instruction("store")>>, End("return", {}))

Ledger ==
  [init |-> Constructor,
   main |-> [kind |-> "entry", entry |-> 1, bound |-> Back(1, 1, 2),
             blocks |-> <<Block1(<<Effect("externalCall", 0, "plain")>>, End("branch", {1, 2})),
                          Block1(<<Instruction("store"), Effect("emit", 1, "plain"),
                                   Apply("fn"),
                                   Typed(Effect("externalCall", 2, "plain"))>>,
                                 End("return", {}))>>],
   get  |-> Simple("view", <<Load, Apply("fn")>>, End("return", {})),
   fn   |-> [kind |-> "pureFn", entry |-> 1, bound |-> Back(1, 1, 1),
             blocks |-> <<Block1(<<Load>>, End("branch", {1, 2})),
                          Block1(<< >>, End("return", {}))>>]]

Guards ==
  [main |-> [kind |-> "entry", entry |-> 1, bound |-> << >>,
             blocks |-> <<Block1(<<Instruction("store"), Instruction("assert")>>,
                                 [End("switch", {2, 3, 4}) EXCEPT !.default = "none"]),
                          Block1(<<Effect("emit", 0, "plain")>>, End("revert", {})),
                          Block1(<<Effect("externalCall", 1, "plain")>>, End("trap", {})),
                          Block1(<<Effect("schedule", 2, "plain")>>, End("jump", {5})),
                          Block1(<< >>, End("return", {}))>>],
   holds |-> Simple("invariant", <<Load>>, End("return", {}))]

\* header 1, inner loop 2 -> 2, back to 1 from 3, out to 4
Nested ==
  [main |-> [kind |-> "entry", entry |-> 1,
             bound |-> Back(2, 2, 1) @@ Back(3, 1, 1),
             blocks |-> <<Block1(<< >>, End("branch", {2, 4})),
                          Block1(<<Apply("fn")>>, End("branch", {2, 3})),
                          Block1(<< >>, End("jump", {1})),
                          Block1(<< >>, End("return", {}))>>],
   fn   |-> [kind |-> "pureFn", entry |-> 1, bound |-> Back(1, 1, 1),
             blocks |-> <<Block1(<< >>, End("branch", {1, 2})),
                          Block1(<< >>, End("return", {}))>>]]

Spin ==
  [main |-> Simple("entry", <<Effect("emit", 0, "plain"), Apply("fn")>>, End("return", {})),
   fn   |-> [kind |-> "pureFn", entry |-> 1, bound |-> << >>,
             blocks |-> <<Block1(<< >>, End("branch", {2, 3})),
                          Block1(<<Apply("fn")>>, End("jump", {3})),
                          Block1(<< >>, End("return", {}))>>]]

Rogue ==
  [main |-> Simple("entry", <<Apply("fn")>>, End("return", {})),
   fn   |-> Simple("pureFn", <<Effect("emit", 0, "plain")>>, End("return", {}))]

Meddler ==
  [get |-> Simple("view", <<Instruction("store")>>, End("return", {}))]

Bank ==
  [main |-> [kind |-> "entry", entry |-> 1,
             bound |-> Back(2, 1, 2) @@ Back(3, 1, 1),
             blocks |-> <<Block1(<< >>, End("switch", {2, 3, 4})),
                          Block1(<<Effect("externalCall", 0, "nativeDeposit")>>, End("jump", {1})),
                          Block1(<<Effect("schedule", 1, "nativeTransferAsync")>>, End("jump", {1})),
                          Block1(<<Effect("externalCall", 2, "nativeTransfer"),
                                   Effect("externalCall", 3, "nativeTransferAsync"),
                                   Effect("externalCall", 4, "nativeTransfer")>>,
                                 End("return", {}))>>]]

Tokens ==
  [main |-> [kind |-> "entry", entry |-> 1, bound |-> Back(1, 1, 2),
             blocks |-> <<Block1(<<Effect("externalCall", 0, "tokenTransfer")>>,
                                 End("branch", {1, 2})),
                          Block1(<< >>, End("return", {}))>>]]

Say(e, o, d, v) == [effect |-> e, occ |-> o, disposition |-> d, value |-> v]
Yes(e, o) == Say(e, o, "returned", "none")
No(e, o)  == Say(e, o, "reverted", "none")

MCNames == {"init", "main", "get", "fn", "holds", "gone"}
MCPrograms == {Ledger, Guards, Nested, Spin, Rogue, Meddler, Bank}
MCLoopPrograms  == {Nested}
MCTokenPrograms == {Tokens}
MCEmptyVault == {[native |-> 0, tokens |-> << >>]}
MCNativeVault == {[native |-> 1, tokens |-> << >>]}
MCTokenVault == {[native |-> 0, tokens |-> <<<<"A", 1>>, <<"B", 2>>>>]}

MCSilence == {<< >>}
MCLogicResponses ==
  {<< >>, <<Yes(0, 0)>>, <<No(0, 0)>>, <<Yes(1, 0)>>,
   <<Yes(0, 0), Yes(0, 1)>>, <<Yes(0, 0), No(0, 1)>>, <<Yes(0, 1), Yes(0, 0)>>,
   <<Yes(0, 0), Say(2, 0, "returned", "typed")>>,
   <<Yes(0, 0), Say(2, 0, "returned", "wrong")>>,
   <<Yes(0, 0), Say(2, 0, "returned", "noncanonical")>>,
   <<Yes(0, 0), Say(2, 1, "returned", "typed")>>,
   <<Yes(0, 0), Yes(0, 1), Say(2, 0, "returned", "typed")>>,
   <<Yes(0, 0), Yes(0, 1), Say(2, 0, "reverted", "none")>>,
   <<Yes(0, 0), Yes(0, 1), Say(2, 0, "returned", "typed"), Yes(0, 2)>>}
MCBankResponses == {[k \in 1..d |-> Yes(0, k - 1)] \o <<Yes(2, 0), Yes(3, 0), Yes(4, 0)>> :
                      d \in 0..3}
MCResponses == MCLogicResponses \cup MCBankResponses
MCTokenResponses == {[k \in 1..3 |-> Yes(0, k - 1)]}

-----------------------------------------------------------------------------
Held(vault, mint) ==
  IF RowsOf(vault, mint) = {} THEN 0 ELSE vault[LastRow(RowsOf(vault, mint))][2]

\* The same as NativeNoOverdraft of each mint of the token vault, which nothing
\* deposits into: the vault stays coherent within a step
\* (ReferenceMachineV1.lean:203).
TokenNoOverdraft ==
  InForce => \A mint \in Mints :
    Moved("tokenTransfer", {mint}) <= Held(seed.tokens, mint)
=============================================================================
