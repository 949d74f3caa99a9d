---------------------------- MODULE MCPsySession ----------------------------
(* The packages and the arguments of the sessions that are checked: the       *)
(* golden package, and packages of one method with every pair of commands at  *)
(* every place of the schedule, in the order they are listed in or not.       *)
EXTENDS Integers, Sequences

T(n) == <<"target", n>>
B(n) == <<"bool", n>>
Def(wire, op, ins, lit) ==
    [wire |-> wire, op |-> op, ins |-> ins, lit |-> lit,
     width |-> IF wire[1] \in {"bool", "u32"} THEN wire[1] ELSE "u64"]
Cmd(kind) ==
    [kind |-> kind, cond |-> {}, sub |-> {}, slot |-> {}, value |-> <<>>, key |-> <<>>,
     args |-> <<>>, offset |-> {}, capacity |-> {}, user |-> {}, contract |-> {}]

\* The golden package (counter-package.v1.json), its U64s cut to the run's U64.
Counter ==
    LET Load(w) == [Cmd("GetSlot") EXCEPT !.sub = {w}]
        Store(w, x) == [Cmd("SetSlot") EXCEPT !.sub = {w}, !.value = <<x>>, !.cond = {B(0)}]
        Args == <<Def(T(0), "input", <<>>, 0), Def(T(1), "const", <<>>, 0), Def(B(0), "const", <<>>, 1)>>
    IN  [get |-> [inputs |-> <<>>, outputs |-> <<T(1)>>, asserts |-> <<>>, events |-> <<>>,
                  cmds |-> <<Load(T(0))>>, res |-> <<1>>,
                  defs |-> <<Def(T(0), "const", <<>>, 0), Def(T(1), "result", <<>>, 1)>>],
         increment |->
             [inputs |-> <<T(0)>>, outputs |-> <<T(4)>>, asserts |-> <<<<B(1), B(0)>>>>, events |-> <<>>,
              cmds |-> <<Load(T(1)), Store(T(1), T(3)), Load(T(1))>>, res |-> <<2, 5, 5>>,
              defs |-> Args \o <<Def(T(2), "result", <<>>, 1), Def(T(3), "add", <<T(2), T(0)>>, 0),
                                 Def(B(1), "ge", <<T(3), T(2)>>, 0), Def(T(4), "result", <<>>, 3)>>],
         initialize |->
             [inputs |-> <<T(0)>>, outputs |-> <<>>, asserts |-> <<>>, events |-> <<>>,
              cmds |-> <<Load(T(1)), Store(T(1), T(0))>>, res |-> <<2, 3>>, defs |-> Args]]

\* One method: the input, a slot, a condition, the results of the commands, in
\* turn, a sum, and a quotient by the input.
Method(cmds, res, last) ==
    [inputs |-> <<T(0)>>, outputs |-> <<last.wire>>,
     asserts |-> <<>>, events |-> <<[cond |-> B(0), data |-> <<T(2), T(9)>>]>>,
     cmds |-> cmds, res |-> res,
     defs |-> <<Def(T(1), "const", <<>>, 1), Def(B(0), "gt", <<T(0), T(1)>>, 0),
                Def(T(2), "result", <<>>, 1), Def(T(3), "add", <<T(2), T(0)>>, 0), last>>]
LastDefs ==
    {Def(T(4), "result", <<>>, 2), Def(T(4), "div", <<T(2), T(0)>>, 0)}
SlotCmds ==
    {[Cmd("GetSlot") EXCEPT !.sub = {T(1)}], [Cmd("GetSlot") EXCEPT !.sub = {T(5)}]}
    \cup {[Cmd("SetSlot") EXCEPT !.sub = {T(1)}, !.value = <<T(0)>>],
          [Cmd("SetSlot") EXCEPT !.sub = {T(1)}, !.value = <<T(3)>>, !.cond = {B(0)}]}

\* Commands that name their slot, and writes that wait for a bound of an array.
BareCmds ==
    {[Cmd("GetSlot") EXCEPT !.slot = {2}], [Cmd("GetSlot") EXCEPT !.sub = {T(5)}],
     [Cmd("SetSlot") EXCEPT !.slot = {1}, !.value = <<T(0)>>, !.offset = {T(1)}, !.capacity = {T(3)}],
     [Cmd("SetSlot") EXCEPT !.slot = {2}, !.value = <<T(0)>>, !.offset = {T(2)}]}
KeyCmds ==
    {[Cmd("GetKey") EXCEPT !.key = <<T(0)>>], [Cmd("HasKey") EXCEPT !.key = <<T(1)>>, !.contract = {T(1)}],
     [Cmd("SetKey") EXCEPT !.key = <<T(1)>>, !.value = <<T(0)>>],
     [Cmd("SetKey") EXCEPT !.key = <<T(0)>>, !.value = <<T(3), T(1)>>, !.cond = {B(0)}],
     [Cmd("Invoke") EXCEPT !.args = <<T(2)>>], Cmd("other")}

\* Every kind of definition, on the result of a command and the input.
H(n) == <<"hash", n>>
EachDef ==
    {Def(w, op, <<T(2), T(0), T(3)>>, 0) :
        w \in {T(4), B(4), <<"u32", 4>>},
        op \in {"input", "const", "context", "add", "sub", "mul", "div", "mod", "and", "or", "nor",
                "eq", "le", "ge", "gt", "lt", "not", "neg", "cast", "select", "limb",
                "bitand", "bitor", "bitxor", "shiftleft", "shiftright", "other"}}
    \cup {Def(<<"u32", 4>>, op, <<T(3)>>, 1) : op \in {"bitand", "shiftleft", "shiftright"}}
    \cup {Def(T(4), "result", <<>>, 9), Def(T(4), "input", <<>>, 1), Def(T(4), "add", <<T(2), T(8)>>, 0)}
Hashed(cmds, w) ==
    [inputs |-> <<T(0)>>, outputs |-> <<T(4)>>, asserts |-> <<<<T(4), T(0)>>>>, events |-> <<>>,
     cmds |-> cmds, res |-> [i \in DOMAIN cmds |-> i],
     defs |-> <<Def(T(1), "const", <<>>, 1), Def(H(0), "context", <<>>, 0), Def(H(1), "hash", <<>>, 2),
                Def(T(4), "limb", <<w, T(1)>>, 0)>>]
HashCmds ==
    {[Cmd("SetHash") EXCEPT !.sub = {T(1)}, !.value = <<T(1), T(0)>>],
     [Cmd("GetHash") EXCEPT !.sub = {T(1)}],
     [Cmd("SetKey") EXCEPT !.key = <<T(0)>>, !.value = <<T(0)>>]}

Named(f) == [m |-> f]
MCPackages ==
    {Counter}
    \cup {Named(Method(cs, rs, d)) :
            cs \in [1..2 -> SlotCmds] \cup [1..2 -> KeyCmds], rs \in [1..2 -> {1, 2, 4, 5, 6}], d \in LastDefs}
    \cup {Named(Method(cs, rs, d)) : cs \in [1..2 -> BareCmds], rs \in [1..2 -> {1, 4, 6}], d \in LastDefs}
    \cup {Named(Method(cs, rs, d)) : cs \in [1..3 -> SlotCmds], rs \in [1..3 -> {2, 4, 5}],
              d \in {Def(T(4), "result", <<>>, 3)}}
    \cup {Named(Method(<<Cmd("GetSlot"), [Cmd("SetSlot") EXCEPT !.value = <<T(3)>>]>>, <<2, 4>>, d)) :
            d \in EachDef}
    \cup {Named(Hashed(cs, w)) : cs \in [1..2 -> HashCmds], w \in {H(0), H(1), H(2), T(0), T(9)}}
MCArguments == {<<>>, <<0>>, <<3>>}
=============================================================================
