------------------------------ MODULE SourceCodec ------------------------------
(***************************************************************************)
(* The reference codec of the canonical source wire                        *)
(* (scripts/reference_source_*.py): encoders, bounded recursive decoders,  *)
(* the canonical traversal of a decoded program and the rules a program    *)
(* and a source unit must satisfy.                                         *)
(*                                                                         *)
(* Every node is written as tag, number of fields, fields.  A decoder      *)
(* refuses, in this order, an unknown tag, a wrong number of fields, a     *)
(* spent depth budget and a spent node budget, and only then reads the     *)
(* fields; a child has one level of depth less, all nodes share one node   *)
(* budget.  The wire is a sequence of cells (head, leaf, option marker,    *)
(* array count): the bytes of a leaf are abstracted to a few legal values  *)
(* and one for each rule that some encoder or decoder applies to them.     *)
(*                                                                         *)
(* A decoder is paired with an encoder: the one its own script checks      *)
(* itself with, or another script's.  The two do not apply the same rules  *)
(* to leaves, arrays and tags, so what each writes and what each reads are *)
(* separate tables.                                                        *)
(*                                                                         *)
(* A behaviour goes one of two ways.  "made": the encoder writes some      *)
(* value, the decoder reads that wire.  "found": the decoder reads         *)
(* whatever it is given, chosen cell by cell as it asks, so every accepted *)
(* wire occurs; the encoder then writes the value it returned.  Both end   *)
(* with the traversal of what was decoded.                                 *)
(***************************************************************************)
EXTENDS Integers, Sequences, FiniteSets, TLC

CONSTANTS
  Cases,     \* [oracle, writer, root, depth, nodes]: decoder, encoder, family, budgets
  MaxKids,   \* longest array the encoder writes and the input offers
  MaxOdd     \* parts of a written value that its decoder does not take

ASSUME CasesAssumption ==
  /\ MaxKids \in Nat \ {0} /\ MaxOdd \in Nat
  /\ \A c \in Cases : c.depth \in Nat /\ c.nodes \in Nat /\ c.root \in STRING

VARIABLES
  case,      \* the case being run
  origin,    \* "made" or "found"
  phase,     \* "write", "read", "walk", "done"
  todo,      \* what is still to be written or read, outermost last
  wire,      \* the cells read, or to be read
  out,       \* the cells written
  at,        \* offset of the next cell to read
  nodes,     \* node budget left
  made,      \* the value the encoder writes: place |-> content
  odd,       \* parts of a value being made that its decoder does not take
  got,       \* the value the decoder returns
  visits,    \* nodes decoded, in order: <<tag, path>>
  pending,   \* stack of the traversal
  walked,    \* nodes traversed
  verdict    \* "", "accepted" or the refusal

vars == <<case, origin, phase, todo, wire, out, at, nodes, made, odd, got, visits,
          pending, walked, verdict>>

---------------------------------------------------------------------------
(* Fields: a leaf, one node, an optional one, an array, a nonempty array.  *)

Leaf(n, k) == [card |-> "leaf", name |-> n, of |-> k]
One(n, f) == [card |-> "one", name |-> n, of |-> f]
Opt(n, f) == [card |-> "opt", name |-> n, of |-> f]
Many(n, f) == [card |-> "many", name |-> n, of |-> f]
Some(n, f) == [card |-> "some", name |-> n, of |-> f]

(* Scalars carry a tag but are not nodes: they are not charged or visited. *)
Scalars == {"literal", "unary", "binary", "visibility", "kind"}

(* The operators of one family are read alike: two stand for the eighteen. *)
ScalarForms ==
  [literal |-> "Literal.Bool" :> <<Leaf("value", "bool")>>
            @@ "Literal.Integer" :> <<Leaf("value", "u256")>>
            @@ "Literal.String" :> <<Leaf("value", "string")>>,
   unary |-> "UnaryOp.Neg" :> <<>> @@ "UnaryOp.Not" :> <<>>,
   binary |-> "BinaryOp.Add" :> <<>> @@ "BinaryOp.Lt" :> <<>>,
   visibility |-> "Visibility.Public" :> <<>> @@ "Visibility.Private" :> <<>>]

KindForms == "ProofKind.Holds" :> <<>> @@ "ProofKind.Preserving" :> <<>>

TypeForms ==
     "Type.Bool" :> <<>> @@ "Type.Principal" :> <<>> @@ "Type.Unit" :> <<>>
  @@ "Type.UInt" :> <<Leaf("width", "width")>>
  @@ "Type.Int" :> <<Leaf("width", "width")>>
  @@ "Type.Named" :> <<Leaf("name", "ident")>>
  @@ "Type.Field" :> <<Leaf("id", "fieldId")>>
  @@ "Type.Bytes" :> <<Leaf("length", "length")>>
  @@ "Type.Option" :> <<One("element", "type")>>
  @@ "Type.Array" :> <<One("element", "type"), Leaf("length", "length")>>
  @@ "Type.Map" :> <<One("key", "type"), One("value", "type")>>

PatternForms ==
     "Pattern.Wildcard" :> <<>>
  @@ "Pattern.Bind" :> <<Leaf("name", "ident")>>
  @@ "Pattern.Literal" :> <<One("literal", "literal")>>
  @@ "Pattern.Constructor" :> <<Leaf("constructor", "qid"), Many("args", "pattern")>>

SupportForms ==
  [param |-> "Param" :> <<One("visibility", "visibility"), Leaf("name", "ident"),
                          One("type", "type")>>,
   field |-> "FieldDecl" :> <<Leaf("name", "ident"), One("type", "type")>>,
   variant |-> "EnumVariant" :> <<Leaf("name", "ident"), Many("payloadTypes", "type")>>]

PlaceForms ==
     "Place.Name" :> <<Leaf("name", "ident")>>
  @@ "Place.Field" :> <<One("base", "place"), Leaf("field", "ident")>>
  @@ "Place.Index" :> <<One("base", "place"), One("index", "expr")>>

ExprForms ==
     "Expr.Literal" :> <<One("literal", "literal")>>
  @@ "Expr.Place" :> <<One("place", "place")>>
  @@ "Expr.Constructor" :> <<Leaf("constructor", "qid"), Many("args", "expr")>>
  @@ "Expr.Unary" :> <<One("op", "unary"), One("operand", "expr")>>
  @@ "Expr.Binary" :> <<One("op", "binary"), One("lhs", "expr"), One("rhs", "expr")>>
  @@ "Expr.LocalCall" :> <<Leaf("callee", "ident"), Many("args", "expr")>>
  @@ "Expr.Match" :> <<One("scrutinee", "expr"), Some("arms", "exprArm")>>

CallForms ==
  [exprArm |-> "ExprMatchArm" :> <<One("pattern", "pattern"), One("value", "expr")>>,
   external |-> "ExternalCallExpr" :> <<Leaf("callee", "qid"), Many("args", "expr")>>]

StmtForms ==
     "Stmt.Let" :> <<Leaf("name", "ident"), Opt("typeAnn", "type"), One("value", "expr")>>
  @@ "Stmt.Assign" :> <<One("target", "place"), One("value", "expr")>>
  @@ "Stmt.If" :> <<One("condition", "expr"), One("thenBlock", "block"),
                    Opt("elseBlock", "block")>>
  @@ "Stmt.Match" :> <<One("scrutinee", "expr"), Some("arms", "stmtArm")>>
  @@ "Stmt.For" :> <<Leaf("binder", "ident"), One("start", "expr"),
                     One("endExclusive", "expr"), Leaf("bound", "bound"),
                     One("body", "block")>>
  @@ "Stmt.Assert" :> <<One("condition", "expr"), Opt("error", "ident")>>
  @@ "Stmt.Revert" :> <<Leaf("error", "ident"), Many("args", "expr")>>
  @@ "Stmt.Emit" :> <<Leaf("event", "ident"), Many("args", "expr")>>
  @@ "Stmt.Return" :> <<Opt("value", "expr")>>
  @@ "Stmt.Call" :> <<One("call", "external")>>
  @@ "Stmt.Schedule" :> <<One("call", "external")>>

BlockForms ==
  [block |-> "Block" :> <<Some("statements", "stmt")>>,
   stmtArm |-> "StmtMatchArm" :> <<One("pattern", "pattern"), One("body", "block")>>]

RecordForms ==
     "StateDecl" :> <<One("visibility", "visibility"), Leaf("name", "name"),
                      One("type", "type")>>
  @@ "StructDecl" :> <<Leaf("name", "name"), Some("fields", "field")>>
  @@ "EnumDecl" :> <<Leaf("name", "name"), Some("variants", "variant")>>
  @@ "EventDecl" :> <<Leaf("name", "name"), Many("params", "param")>>
  @@ "ErrorDecl" :> <<Leaf("name", "name"), Many("params", "param")>>
  @@ "ExtensionReq" :> <<Leaf("id", "qid"), Leaf("version", "version"),
                         Leaf("digest", "digest")>>
  @@ "ProofDecl" :> <<Leaf("invariant", "name"), One("kind", "kind"),
                      Leaf("theorem", "qid")>>

Callable ==
  <<Leaf("name", "name"), Many("params", "param"), One("result", "type"), One("body", "block")>>

CodeForms ==
     "ConstDecl" :> <<Leaf("name", "name"), One("type", "type"), One("value", "expr")>>
  @@ "InvariantDecl" :> <<Leaf("name", "name"), One("predicate", "expr")>>
  @@ "InitDecl" :> <<Many("params", "param"), One("body", "block")>>
  @@ "EntryDecl" :> Callable @@ "ViewDecl" :> Callable @@ "FnDecl" :> Callable

ProgramForms == "Program" :> <<Leaf("name", "title"), Some("items", "item")>>

(* An item is read by the decoder of the declaration its tag names.        *)
ItemForms == RecordForms @@ CodeForms

Forms ==
  ScalarForms @@ SupportForms @@ CallForms @@ BlockForms @@
  [kind |-> KindForms, type |-> TypeForms, pattern |-> PatternForms, place |-> PlaceForms,
   expr |-> ExprForms, stmt |-> StmtForms, item |-> ItemForms, program |-> ProgramForms]

AllTags == UNION {DOMAIN Forms[f] : f \in DOMAIN Forms}

---------------------------------------------------------------------------
(* What the encoders write, tag by tag.                                    *)

ScalarWrites ==
  [literal |-> "Literal.Bool" :> <<Leaf("value", "bool")>>
            @@ "Literal.Integer" :> <<Leaf("value", "u256")>>
            @@ "Literal.String" :> <<Leaf("value", "string")>>,
   unary |-> [t \in {"UnaryOp.Neg", "UnaryOp.Not"} |-> <<>>],
   binary |-> [t \in {"BinaryOp.Add", "BinaryOp.Lt"} |-> <<>>],
   visibility |-> [t \in {"Visibility.Public", "Visibility.Private"} |-> <<>>]]

TypeWrites ==
  [t \in {"Type.Bool", "Type.Principal", "Type.Unit"} |-> <<>>]
  @@ [t \in {"Type.UInt", "Type.Int"} |-> <<Leaf("width", "width")>>]
  @@ "Type.Named" :> <<Leaf("name", "ident")>> @@ "Type.Field" :> <<Leaf("id", "fieldId")>>
  @@ "Type.Bytes" :> <<Leaf("length", "length")>>
  @@ "Type.Option" :> <<One("element", "type")>>
  @@ "Type.Array" :> <<One("element", "type"), Leaf("length", "length")>>
  @@ "Type.Map" :> <<One("key", "type"), One("value", "type")>>

PatternWrites ==
  "Pattern.Wildcard" :> <<>> @@ "Pattern.Bind" :> <<Leaf("name", "ident")>>
  @@ "Pattern.Literal" :> <<One("literal", "literal")>>
  @@ "Pattern.Constructor" :> <<Leaf("constructor", "qid"), Many("args", "pattern")>>

PlaceWrites ==
  "Place.Name" :> <<Leaf("name", "ident")>>
  @@ "Place.Field" :> <<One("base", "place"), Leaf("field", "ident")>>
  @@ "Place.Index" :> <<One("base", "place"), One("index", "expr")>>

ExprWrites ==
  "Expr.Literal" :> <<One("literal", "literal")>> @@ "Expr.Place" :> <<One("place", "place")>>
  @@ "Expr.Constructor" :> <<Leaf("constructor", "qid"), Many("args", "expr")>>
  @@ "Expr.Unary" :> <<One("op", "unary"), One("operand", "expr")>>
  @@ "Expr.Binary" :> <<One("op", "binary"), One("lhs", "expr"), One("rhs", "expr")>>
  @@ "Expr.LocalCall" :> <<Leaf("callee", "ident"), Many("args", "expr")>>
  @@ "Expr.Match" :> <<One("scrutinee", "expr"), Some("arms", "exprArm")>>

StmtWrites ==
  "Stmt.Let" :> <<Leaf("name", "ident"), Opt("typeAnn", "type"), One("value", "expr")>>
  @@ "Stmt.Assign" :> <<One("target", "place"), One("value", "expr")>>
  @@ "Stmt.If" :> <<One("condition", "expr"), One("thenBlock", "block"), Opt("elseBlock", "block")>>
  @@ "Stmt.Match" :> <<One("scrutinee", "expr"), Some("arms", "stmtArm")>>
  @@ "Stmt.For" :> <<Leaf("binder", "ident"), One("start", "expr"), One("endExclusive", "expr"),
                     Leaf("bound", "bound"), One("body", "block")>>
  @@ "Stmt.Assert" :> <<One("condition", "expr"), Opt("error", "ident")>>
  @@ "Stmt.Revert" :> <<Leaf("error", "ident"), Many("args", "expr")>>
  @@ "Stmt.Emit" :> <<Leaf("event", "ident"), Many("args", "expr")>>
  @@ "Stmt.Return" :> <<Opt("value", "expr")>>
  @@ [t \in {"Stmt.Call", "Stmt.Schedule"} |-> <<One("call", "external")>>]

(* statements, blocks, arms and calls                                      *)
BodyWrites ==
  [stmt |-> StmtWrites, block |-> "Block" :> <<Some("statements", "stmt")>>,
   stmtArm |-> "StmtMatchArm" :> <<One("pattern", "pattern"), One("body", "block")>>,
   exprArm |-> "ExprMatchArm" :> <<One("pattern", "pattern"), One("value", "expr")>>,
   external |-> "ExternalCallExpr" :> <<Leaf("callee", "qid"), Many("args", "expr")>>]

SupportWrites ==
  [param |-> "Param" :> <<One("visibility", "visibility"), Leaf("name", "ident"), One("type", "type")>>,
   field |-> "FieldDecl" :> <<Leaf("name", "ident"), One("type", "type")>>,
   variant |-> "EnumVariant" :> <<Leaf("name", "ident"), Many("payloadTypes", "type")>>,
   kind |-> [t \in {"ProofKind.Holds", "ProofKind.Preserving"} |-> <<>>]]

RecordWrites ==
  "StateDecl" :> <<One("visibility", "visibility"), Leaf("name", "name"), One("type", "type")>>
  @@ "StructDecl" :> <<Leaf("name", "name"), Some("fields", "field")>>
  @@ "EnumDecl" :> <<Leaf("name", "name"), Some("variants", "variant")>>
  @@ [t \in {"EventDecl", "ErrorDecl"} |-> <<Leaf("name", "name"), Many("params", "param")>>]
  @@ "ExtensionReq" :> <<Leaf("id", "qid"), Leaf("version", "version"), Leaf("digest", "digest")>>
  @@ "ProofDecl" :> <<Leaf("invariant", "name"), One("kind", "kind"), Leaf("theorem", "qid")>>

CodeWrites ==
  "ConstDecl" :> <<Leaf("name", "name"), One("type", "type"), One("value", "expr")>>
  @@ "InvariantDecl" :> <<Leaf("name", "name"), One("predicate", "expr")>>
  @@ "InitDecl" :> <<Many("params", "param"), One("body", "block")>>
  @@ [t \in {"EntryDecl", "ViewDecl", "FnDecl"} |->
        <<Leaf("name", "name"), Many("params", "param"), One("result", "type"), One("body", "block")>>]

ProgramWrites == "Program" :> <<Leaf("name", "title"), Some("items", "item")>>

Writes ==
  ScalarWrites @@ BodyWrites @@ SupportWrites @@
  [type |-> TypeWrites, pattern |-> PatternWrites, place |-> PlaceWrites, expr |-> ExprWrites,
   item |-> RecordWrites @@ CodeWrites, program |-> ProgramWrites]

---------------------------------------------------------------------------
(* What each decoder reads: the tags it has a branch for.                  *)

TypeTags == DOMAIN TypeForms
ScalarTags == UNION {DOMAIN ScalarForms[f] : f \in DOMAIN ScalarForms}
PatternTags == DOMAIN PatternForms \cup DOMAIN ScalarForms.literal
SupportTags == {"Param", "FieldDecl", "EnumVariant"} \cup TypeTags
                 \cup DOMAIN ScalarForms.visibility
SpineTags == PatternTags \cup ScalarTags \cup DOMAIN PlaceForms \cup DOMAIN ExprForms
               \cup {"ExprMatchArm", "ExternalCallExpr"}
PlainTags == {"Type.Bool", "Type.Unit", "Type.Named", "Pattern.Wildcard", "Pattern.Bind",
              "Place.Name", "Expr.Literal", "Expr.Place", "ExternalCallExpr"}
               \cup DOMAIN ScalarForms.literal
StmtTags == PlainTags \cup DOMAIN StmtForms \cup {"Block", "StmtMatchArm"}
DeclTags == SupportTags \cup DOMAIN RecordForms \cup DOMAIN KindForms
CodeTags == {"Type.Bool", "Type.Unit", "Type.Principal", "Type.UInt", "Type.Bytes", "Type.Field",
             "Literal.Bool", "Literal.Integer", "Place.Name", "Expr.Literal", "Expr.Place",
             "Expr.Binary", "Param", "Stmt.Assign", "Stmt.Return", "Stmt.If", "Block"}
              \cup DOMAIN ScalarForms.binary \cup DOMAIN ScalarForms.visibility
              \cup DOMAIN CodeForms
RootTags == {"Type.Bool", "Type.Unit", "Type.Option", "Param", "Literal.Bool", "Expr.Literal",
             "Stmt.Return", "Block", "StateDecl", "EntryDecl", "Program"}
              \cup DOMAIN ScalarForms.visibility

(* The program oracle knows two items, byte for byte.                      *)
ProgramTags == {"Program", "StateDecl", "ConstDecl", "Visibility.Public", "Type.Bool",
                "Type.UInt", "Expr.Literal", "Literal.Integer"}

IdTags == {"Program", "StateDecl", "Type.Bool", "Type.Map"} \cup DOMAIN ScalarForms.visibility

Reads ==
  [ids |-> IdTags, type |-> TypeTags, scalar |-> ScalarTags, pattern |-> PatternTags, support |-> SupportTags,
   spine |-> SpineTags, stmt |-> StmtTags, decl |-> DeclTags, code |-> CodeTags,
   program |-> ProgramTags, root |-> RootTags]

---------------------------------------------------------------------------
(* Leaves: the values that occur, and those within the letter of the       *)
(* format.  The components of a qualified id are read and written like     *)
(* names and not told apart here; it stands for their number.              *)

Names == {"ident", "name", "title"}
FaultyNames == {"bad length", "not NFC", "control", "guillemet"}

Legal(k) ==
  CASE k \in {"ident", "string"} -> {"x"}
    [] k = "name" -> {"x", "y"}
    [] k = "title" -> {"Demo", "x"}
    [] k = "fieldId" -> {"bn254_fr"}
    [] k = "width" -> {8, 256}
    [] k \in {"length", "bound"} -> {0, 4096}
    [] k = "bool" -> {0, 1}
    [] k = "u256" -> {7}
    [] k = "qid" -> {2, 256}             \* number of components
    [] k = "version" -> {"1.0.0", "1.0.0+b"}
    [] k = "digest" -> {"sha256:ab"}
    [] k = "module" -> {<<"Root">>}
    [] k = "identity" -> {<<"Root", "Demo">>, <<"Other", "Demo">>}

Values(k) ==
  Legal(k) \cup
  CASE k \in Names -> FaultyNames
    [] k = "string" -> {"not NFC"}
    [] k = "fieldId" -> {"x"}
    [] k = "width" -> {24}
    [] k \in {"length", "bound"} -> {4097}
    [] k = "bool" -> {2}
    [] k = "u256" -> {}
    [] k = "qid" -> {1, 257}
    [] k = "version" -> {"01.0.0", "1.0.0-a+", "1.0.0-", "2^64.0.0"}
    [] k = "digest" -> {"sha256:AB"}
    [] k = "module" -> {<<>>}
    [] k = "identity" -> {<<"Demo">>}

LeafKinds ==
  {"ident", "string", "name", "title", "fieldId", "width", "length", "bound", "bool", "u256",
   "qid", "version", "digest", "module", "identity"}

(* The leaves a decoder takes.  The program oracle asks of a name its      *)
(* length and normalization, nothing else.                                 *)
Readable(k) ==
  IF k = "title" /\ case.oracle = "program" THEN Values(k) \ {"bad length", "not NFC"}
  ELSE Legal(k)

(* The encoder at work: a decoder's own, or the script it is named after.  *)
Writer == IF case.writer = "own" THEN case.oracle ELSE case.writer

(* The kinds of leaves each encoder checks as the decoders do.             *)
Checks ==
  [type |-> {}, pattern |-> {}, support |-> {}, root |-> {},
   scalar |-> {"string"}, spine |-> {"ident"}, stmt |-> {"ident", "bound"},
   code |-> LeafKinds, decl |-> {"ident", "name", "width", "qid", "version", "digest"},
   golden |-> LeafKinds \ {"version", "digest", "bound"},
   decl_v1 |-> LeafKinds \ {"version"}, program_v1 |-> {"width"}]

(* The leaves an encoder writes.  The declaration encoder reads a version  *)
(* in an order of its own, the program encoder asks a name for its         *)
(* normalization only, and no encoder has a third truth value.             *)
Writable(k) ==
  CASE k = "bool" -> Legal(k)
    [] k \in Checks[Writer] -> Legal(k)
    [] Writer = "decl_v1" -> {"1.0.0", "1.0.0-a+", "1.0.0-", "2^64.0.0"}
    [] Writer = "program_v1" /\ k \in Names -> Values(k) \ {"not NFC"}
    [] OTHER -> Values(k)

(* Types the encoders of the declaration scripts have no branch for.       *)
Unspelt == IF Writer \in {"decl", "decl_v1"} THEN {"Type.Int", "Type.Named", "Type.Field"}
           ELSE {}

(* These write an array empty that their decoder wants nonempty.           *)
WritesEmpty(q) == Writer \in {"root", "spine"} \/ (Writer = "golden" /\ q.tag = "Program")

(* The root script writes every returned literal as true.                  *)
Spelt(q, v) == IF Writer = "root" /\ q.of = "bool" THEN 1 ELSE v

---------------------------------------------------------------------------
(* Demands: what has still to be written or read.  "path" is the place of  *)
(* the node that has the field, or of the node itself.                     *)

Node(f, path, depth) ==
  [card |-> "node", name |-> "", of |-> f, path |-> path, tag |-> "", depth |-> depth]

(* Where in the value the content of a demand is found.                    *)
Place(q) == <<q.path, q.card, q.name>>

(* The i-th element of a field: a node one level down, or a leaf.          *)
Element(q, i) ==
  IF q.of \in LeafKinds THEN [q EXCEPT !.card = "leaf"]
  ELSE Node(q.of, Append(q.path, <<q.tag, q.name, i>>), q.depth)

Charged(q) == q.card = "node" /\ q.of \notin Scalars

(* Mutant: optional and array elements keep the depth of their parent.     *)
KeepsDepth(q, fields, tag) ==
  [i \in DOMAIN fields |->
     LET f == fields[i]
         ask == [card |-> f.card, name |-> f.name, of |-> f.of, path |-> q.path, tag |-> tag,
                 depth |-> IF f.card = "one" /\ Charged(q) THEN q.depth - 1 ELSE q.depth]
     IN IF f.card = "one" THEN Element(ask, 0) ELSE ask]

(* The fields of a node of this tag, as demands.                           *)
FieldsOf(q, fields, tag) ==
  LET below == IF Charged(q) THEN q.depth - 1 ELSE q.depth
      Ask(f) == [card |-> f.card, name |-> f.name, of |-> f.of, path |-> q.path,
                 tag |-> tag, depth |-> below]
  IN [i \in DOMAIN fields |->
        IF fields[i].card = "one" THEN Element(Ask(fields[i]), 0) ELSE Ask(fields[i])]

(* What a cell adds to the demands.                                        *)
Demands(q, v, table) ==
  CASE q.card = "node" -> FieldsOf(q, table[q.of][v.tag], v.tag)
    [] q.card = "leaf" -> <<>>
    [] q.card = "opt" -> IF v = 1 THEN <<Element(q, 0)>> ELSE <<>>
    [] OTHER -> [i \in 1 .. v |-> Element(q, i - 1)]

(* A source unit is a module name, an identity and a program.              *)
Start(c) ==
  LET program == Node(c.root, <<>>, c.depth)
      Name(n) == [program EXCEPT !.card = "leaf", !.name = n, !.of = n]
  IN IF c.oracle = "root" THEN <<Name("module"), Name("identity"), program>> ELSE <<program>>

Head1 == todo[1]
Rest(v, table) == Demands(Head1, v, table) \o Tail(todo)

---------------------------------------------------------------------------
(* The encoder.                                                            *)

HeadCell(f, tag, table) == [tag |-> tag, fields |-> Len(table[f][tag])]
Tags(f) == DOMAIN Writes[f] \cap Reads[case.oracle]

(* Nodes a demand costs at least.                                          *)
Least(f) ==
  CASE f \in Scalars \cup LeafKinds -> 0
    [] f = "block" -> 2
    [] f \in {"stmtArm"} -> 4
    [] f \in {"exprArm"} -> 3
    [] f \in {"param", "field", "item"} -> 2
    [] OTHER -> 1

Owed(q) == IF q.card \in {"node", "some"} THEN Least(q.of) ELSE 0

Cost(s) ==
  LET sum[n \in 0 .. Len(s)] == IF n = 0 THEN 0 ELSE sum[n - 1] + Owed(s[n])
  IN sum[Len(s)]

(* a source unit: the identity joins the module, the program has its name  *)
Joins(q, v) ==
  LET module == made[<<<<>>, "leaf", "module">>]
      identity == made[<<<<>>, "leaf", "identity">>]
  IN /\ q.of = "identity" => Len(v) > Len(module) /\ SubSeq(v, 1, Len(module)) = module
     /\ q.of = "title" /\ case.oracle = "root" => v = identity[Len(identity)]

(* The two items the program oracle knows, parent by parent; their names   *)
(* and integer stand for the bytes of the source.                          *)
Fixture ==
     "StateDecl" :> {"x", "Visibility.Public", "Type.Bool"}
  @@ "ConstDecl" :> {"y", "Type.UInt", "Expr.Literal"}
  @@ "Type.UInt" :> {256} @@ "Expr.Literal" :> {"Literal.Integer"}
  @@ "Literal.Integer" :> {7}

InFixture(parent, x) ==
  case.oracle = "program" /\ parent \in DOMAIN Fixture => x \in Fixture[parent]

Parent(path) == IF path = <<>> THEN "" ELSE path[Len(path)][1]

(* What the decoder takes here, its budgets aside.                         *)
Legible(q, v) ==
  CASE q.card = "node" -> v.tag \in Reads[case.oracle] /\ InFixture(Parent(q.path), v.tag)
    [] q.card = "leaf" -> v \in Readable(q.of) /\ InFixture(q.tag, v)
    [] q.card = "opt" -> v \in {0, 1}
    [] q.card = "some" -> v > 0
    [] OTHER -> TRUE

(* What the encoder may be given next: any content, while inventing a      *)
(* value; the content found there, when the value is given.                *)
Contents(q) ==
  IF origin = "found"
  THEN {IF q.card = "node" THEN HeadCell(q.of, made[p].tag, Writes) ELSE made[p] :
          p \in {Place(q)} \cap DOMAIN made}
  ELSE CASE q.card = "node" -> {HeadCell(q.of, t, Writes) : t \in Tags(q.of)}
         [] q.card = "leaf" -> Values(q.of)
         [] q.card = "opt" -> {0, 1}
         [] OTHER -> 0 .. MaxKids

(* The encoder's own refusals.                                             *)
Encodable(q, v) ==
  CASE q.card = "node" -> v.tag \in DOMAIN Writes[q.of] \ Unspelt
    [] q.card = "leaf" -> v \in Writable(q.of)
    [] q.card = "opt" -> v \in {0, 1}
    [] q.card = "some" -> v > 0 \/ WritesEmpty(q)
    [] OTHER -> TRUE

Write ==
  /\ phase = "write" /\ todo # <<>>
  /\ \E v \in Contents(Head1) :
       /\ Encodable(Head1, v)
       /\ LET left == IF origin = "made" /\ Charged(Head1) THEN nodes - 1 ELSE nodes IN
            /\ origin = "made" => Cost(Rest(v, Writes)) <= left
            /\ nodes' = left
       /\ odd' = IF origin = "made" /\ ~(Legible(Head1, v) /\ Joins(Head1, v))
                 THEN odd + 1 ELSE odd
       /\ odd' <= MaxOdd
       /\ out' = Append(out, [card |-> Head1.card, v |-> Spelt(Head1, v)])
       /\ made' = (Place(Head1) :> v) @@ made
       /\ todo' = Rest(v, Writes)
  /\ UNCHANGED <<case, origin, phase, wire, at, got, visits, pending, walked, verdict>>

(* The encoder raises: it has no bytes for the value it was given.         *)
Stuck == origin = "found" /\ todo # <<>> /\ \A v \in Contents(Head1) : ~Encodable(Head1, v)

(* The wire is complete and is given to the decoder, or compared.          *)
Written ==
  /\ phase = "write" /\ (todo = <<>> \/ Stuck)
  /\ IF origin = "made"
     THEN /\ phase' = "read" /\ todo' = Start(case) /\ nodes' = case.nodes /\ wire' = out
          /\ UNCHANGED <<pending, verdict>>
     ELSE /\ phase' = IF Stuck THEN "done" ELSE "walk"
          /\ verdict' = IF Stuck THEN "unencodable" ELSE ""
          /\ pending' = <<<<>>>>
          /\ UNCHANGED <<todo, nodes, wire>>
  /\ UNCHANGED <<case, origin, out, at, made, odd, got, visits, walked>>

---------------------------------------------------------------------------
(* The decoder.                                                            *)

(* The cells the input may hold where this demand is read.                 *)
Offers(q) ==
  LET heads == {HeadCell(q.of, t, Forms) : t \in DOMAIN Forms[q.of]}
      values == CASE q.card = "node" -> heads \cup {[h EXCEPT !.fields = @ + 1] : h \in heads}
                                         \cup {[tag |-> "Bogus", fields |-> 0]}
                  [] q.card = "leaf" -> Values(q.of)
                  [] q.card = "opt" -> {0, 1, 2}
                  [] OTHER -> 0 .. MaxKids + 1
  IN {[card |-> q.card, v |-> v] : v \in values}

Cells == IF origin = "found" THEN Offers(Head1)
         ELSE IF at <= Len(wire) THEN {wire[at]} ELSE {}

(* Tag, number of fields, depth, nodes: the first that fails is reported.  *)
HeadRefusal(q, v) ==
  CASE v.tag \notin DOMAIN Forms[q.of] -> "unknown tag"
    [] case.oracle = "root" /\ v.tag \notin Reads.root -> "unknown tag"
    [] v # HeadCell(q.of, v.tag, Forms) -> "field count"
    [] Charged(q) /\ q.depth < 1 -> "depth budget exhausted"
    [] Charged(q) /\ nodes < 1 -> "node budget exhausted"
    [] ~Legible(q, v) -> "not in what this decoder reads"
    [] OTHER -> ""

(* Mutant: an array that would use up the budget is refused too.           *)
EagerCount(q, v) ==
  CASE q.card = "some" /\ v = 0 -> "empty"
    [] v > 0 /\ v >= nodes -> "array count exceeds caller limit"
    [] OTHER -> ""

(* An array is refused before its elements are read when the budget left   *)
(* cannot hold them, and an empty one where one element is required.       *)
CountRefusal(q, v) ==
  CASE q.card = "some" /\ v = 0 -> "empty"
    [] v > nodes -> "array count exceeds caller limit"
    [] OTHER -> ""

(* Mutant: the number of fields of a node is read and not compared.        *)
AnyFieldCount(q, c) ==
  CASE c.card # q.card -> "misread"
    [] q.card = "node" -> IF c.v.tag \in DOMAIN Forms[q.of]
                          THEN HeadRefusal(q, HeadCell(q.of, c.v.tag, Forms)) ELSE "unknown tag"
    [] q.card \in {"leaf", "opt"} -> IF Legible(q, c.v) THEN "" ELSE "invalid value"
    [] OTHER -> CountRefusal(q, c.v)

Refusal(q, c) ==
  CASE c.card # q.card -> "misread"
    [] q.card = "node" -> HeadRefusal(q, c.v)
    [] q.card \in {"leaf", "opt"} -> IF Legible(q, c.v) THEN "" ELSE "invalid value"
    [] OTHER -> CountRefusal(q, c.v)

Stop(why) ==
  /\ phase' = "done" /\ verdict' = why
  /\ UNCHANGED <<case, origin, todo, wire, out, at, nodes, made, odd, got, visits, pending, walked>>

Read ==
  /\ phase = "read" /\ todo # <<>>
  /\ \E c \in Cells :
       /\ Refusal(Head1, c) = ""
       /\ wire' = IF origin = "found" THEN Append(wire, c) ELSE wire
       /\ at' = at + 1
       /\ nodes' = IF Charged(Head1) THEN nodes - 1 ELSE nodes
       /\ visits' = IF Charged(Head1) THEN Append(visits, <<c.v.tag, Head1.path>>) ELSE visits
       /\ got' = (Place(Head1) :> c.v) @@ got
       /\ todo' = Rest(c.v, Forms)
  /\ UNCHANGED <<case, origin, phase, out, made, odd, pending, walked, verdict>>

Refuse ==
  /\ phase = "read" /\ todo # <<>>
  /\ \E c \in Cells : Refusal(Head1, c) # "" /\ Stop(Refusal(Head1, c))

Truncated ==
  /\ phase = "read" /\ todo # <<>>
  /\ origin = "found" \/ at > Len(wire)
  /\ Stop("truncated")

TrailingBytes ==
  /\ phase = "read" /\ todo = <<>>
  /\ origin = "found" \/ at <= Len(wire)
  /\ Stop("trailing bytes")

---------------------------------------------------------------------------
(* The rules of a source unit and of a program.                            *)

Item(i) == <<<<"Program", "items", i>>>>
Count(v, path, field) ==
  CASE <<path, "some", field>> \in DOMAIN v -> v[<<path, "some", field>>]
    [] <<path, "many", field>> \in DOMAIN v -> v[<<path, "many", field>>]
    [] OTHER -> 0

Items(v) == [i \in 1 .. Count(v, <<>>, "items") |-> v[<<Item(i - 1), "node", "">>].tag]
NameOf(v, i) == v[<<Item(i - 1), "leaf", "name">>]

(* Two items of these kinds with one name.                                 *)
Clash(v, kinds) ==
  \E i, j \in DOMAIN Items(v) :
    /\ i # j /\ Items(v)[i] \in kinds /\ Items(v)[j] \in kinds
    /\ NameOf(v, i) = NameOf(v, j)

(* Two parts of one item with one name.                                    *)
PartClash(v, i, field) ==
  LET Part(j) == v[<<Append(Item(i - 1), <<Items(v)[i], field, j - 1>>), "leaf", "name">>]
      n == Count(v, Item(i - 1), field)
  IN \E j, k \in 1 .. n : j # k /\ Part(j) = Part(k)

ProofKey(v, i) ==
  <<v[<<Item(i - 1), "leaf", "invariant">>],
    v[<<Append(Item(i - 1), <<"ProofDecl", "kind", 0>>), "node", "">>].tag>>

(* The rules a program must satisfy, whatever its wire.                    *)
ValidProgram(v) ==
  LET Is(kind) == {i \in DOMAIN Items(v) : Items(v)[i] = kind}
  IN /\ Cardinality(Is("InitDecl")) <= 1
     /\ Is("EntryDecl") \cup Is("ViewDecl") # {}
     /\ \A kinds \in {{"StateDecl"}, {"EventDecl"}, {"ErrorDecl"}, {"StructDecl"}, {"EnumDecl"},
                       {"ConstDecl"}, {"EntryDecl", "ViewDecl", "FnDecl"}, {"InvariantDecl"}} :
          ~Clash(v, kinds)
     /\ \A i, j \in Is("ExtensionReq") :
          i # j => v[<<Item(i - 1), "leaf", "id">>] # v[<<Item(j - 1), "leaf", "id">>]
     /\ \A i, j \in Is("ProofDecl") : i # j => ProofKey(v, i) # ProofKey(v, j)
     /\ \A i \in Is("ProofDecl") :
          \E j \in Is("InvariantDecl") : NameOf(v, j) = ProofKey(v, i)[1]
     /\ \A i \in DOMAIN Items(v) :
          \A field \in {"params", "fields", "variants"} : ~PartClash(v, i, field)

(* What the root decoder asks of the unit it has read.                     *)
UnitRefusal(v) ==
  LET module == v[<<<<>>, "leaf", "module">>]
      identity == v[<<<<>>, "leaf", "identity">>]
  IN CASE SubSeq(identity, 1, Len(module)) # module -> "identity prefix"
       [] Len(identity) <= Len(module) -> "identity not longer"
       [] v[<<<<>>, "leaf", "name">>] # identity[Len(identity)] -> "program name"
       [] \A i \in DOMAIN Items(v) : Items(v)[i] # "EntryDecl" -> "no entry"
       [] Clash(v, {"StateDecl"}) -> "duplicate state"
       [] OTHER -> ""

Complete ==
  /\ phase = "read" /\ todo = <<>>
  /\ origin = "found" \/ at > Len(wire)

Decoded ==
  /\ Complete
  /\ case.oracle = "root" => UnitRefusal(got) = ""
  /\ IF origin = "found"
     THEN /\ phase' = "write" /\ made' = got /\ todo' = Start(case) /\ UNCHANGED pending
     ELSE /\ phase' = "walk" /\ pending' = <<<<>>>> /\ UNCHANGED <<made, todo>>
  /\ UNCHANGED <<case, origin, wire, out, at, nodes, odd, got, visits, walked, verdict>>

UnitRefused ==
  /\ Complete
  /\ case.oracle = "root" /\ UnitRefusal(got) # ""
  /\ Stop(UnitRefusal(got))

---------------------------------------------------------------------------
(* The canonical traversal: a stack of paths, the next node on top.        *)

TagAt(path) == got[<<path, "node", "">>].tag
Family(tag) == CHOOSE f \in DOMAIN Forms : tag \in DOMAIN Forms[f]

(* Node children a field has: scalars and leaves have none.                *)
Children(path, f) ==
  CASE f.of \in Scalars \cup LeafKinds -> 0
    [] f.card = "one" -> 1
    [] f.card = "opt" -> got[<<path, "opt", f.name>>]
    [] OTHER -> Count(got, path, f.name)

Below(path) ==
  LET tag == TagAt(path)
      fields == Forms[Family(tag)][tag]
      upto[n \in 0 .. Len(fields)] ==
        IF n = 0 THEN <<>>
        ELSE upto[n - 1] \o [i \in 1 .. Children(path, fields[n]) |->
                               Append(path, <<tag, fields[n].name, i - 1>>)]
  IN upto[Len(fields)]

Walks == phase = "walk" /\ case.root \notin Scalars

(* The traversal allows one edge less than the decoder allows levels.      *)
TooDeep(path) == Below(path) # <<>> /\ Len(path) >= case.depth - 1

Visit ==
  /\ Walks /\ pending # <<>>
  /\ Len(walked) < case.nodes /\ ~TooDeep(pending[1])
  /\ walked' = Append(walked, <<TagAt(pending[1]), pending[1]>>)
  /\ pending' = Below(pending[1]) \o Tail(pending)
  /\ UNCHANGED <<case, origin, phase, todo, wire, out, at, nodes, made, odd, got, visits, verdict>>

(* Nothing is left to visit, or the traversal refuses to go on.            *)
EndWalk ==
  /\ phase = "walk"
  /\ IF Walks /\ pending # <<>>
     THEN /\ Len(walked) >= case.nodes \/ TooDeep(pending[1])
          /\ Stop("traversal bound")
     ELSE Stop("accepted")

Finished == phase = "done" /\ UNCHANGED vars

---------------------------------------------------------------------------
Init ==
  /\ case \in Cases
  /\ origin \in {"made", "found"}
  /\ phase = IF origin = "made" THEN "write" ELSE "read"
  /\ todo = Start(case)
  /\ nodes = IF origin = "made" THEN case.nodes + 1 ELSE case.nodes
  /\ wire = <<>> /\ out = <<>> /\ at = 1
  /\ made = <<>> /\ odd = 0 /\ got = <<>> /\ visits = <<>>
  /\ pending = <<>> /\ walked = <<>> /\ verdict = ""

Next ==
  \/ Write \/ Written
  \/ Read \/ Refuse \/ Truncated \/ TrailingBytes \/ Decoded \/ UnitRefused
  \/ Visit \/ EndWalk \/ Finished

Spec == Init /\ [][Next]_vars

---------------------------------------------------------------------------
(* Node ids hash the path of a node: what the id oracle permits in a path. *)

Direct == {<<"StateDecl", "type">>, <<"ConstDecl", "type">>, <<"Type.Map", "key">>,
           <<"Type.Map", "value">>}

Permits(edge, tag) ==
  IF edge = <<"Program", "items">> THEN tag \in {"StateDecl", "ConstDecl"}
  ELSE edge \in Direct /\ tag \in {"Type.Bool", "Type.Map", "Type.Option"}

ValidPath(path) ==
  /\ path # <<>> => path[1][1] = "Program"
  /\ \A i \in DOMAIN path :
       LET edge == <<path[i][1], path[i][2]>>
       IN /\ edge = <<"Program", "items">> \/ (edge \in Direct /\ path[i][3] = 0)
          /\ i > 1 => Permits(<<path[i - 1][1], path[i - 1][2]>>, path[i][1])

(* the edges the traversal inventory lists                                 *)
EdgePairs ==
  UNION {{<<e[1], f>> : f \in e[2]} : e \in
    {<<"Program", {"items"}>>, <<"StateDecl", {"type"}>>, <<"StructDecl", {"fields"}>>,
     <<"EnumDecl", {"variants"}>>, <<"ConstDecl", {"type", "value"}>>,
     <<"EventDecl", {"params"}>>, <<"ErrorDecl", {"params"}>>, <<"InitDecl", {"params", "body"}>>,
     <<"EntryDecl", {"params", "result", "body"}>>, <<"ViewDecl", {"params", "result", "body"}>>,
     <<"FnDecl", {"params", "result", "body"}>>, <<"InvariantDecl", {"predicate"}>>,
     <<"Param", {"type"}>>, <<"FieldDecl", {"type"}>>, <<"EnumVariant", {"payloadTypes"}>>,
     <<"Block", {"statements"}>>, <<"StmtMatchArm", {"pattern", "body"}>>,
     <<"ExprMatchArm", {"pattern", "value"}>>, <<"ExternalCallExpr", {"args"}>>,
     <<"Type.Array", {"element"}>>, <<"Type.Map", {"key", "value"}>>,
     <<"Type.Option", {"element"}>>, <<"Stmt.Let", {"typeAnn", "value"}>>,
     <<"Stmt.Assign", {"target", "value"}>>,
     <<"Stmt.If", {"condition", "thenBlock", "elseBlock"}>>,
     <<"Stmt.Match", {"scrutinee", "arms"}>>, <<"Stmt.For", {"start", "endExclusive", "body"}>>,
     <<"Stmt.Assert", {"condition"}>>, <<"Stmt.Revert", {"args"}>>, <<"Stmt.Emit", {"args"}>>,
     <<"Stmt.Return", {"value"}>>, <<"Stmt.Call", {"call"}>>, <<"Stmt.Schedule", {"call"}>>,
     <<"Expr.Place", {"place"}>>, <<"Expr.Constructor", {"args"}>>,
     <<"Expr.Unary", {"operand"}>>, <<"Expr.Binary", {"lhs", "rhs"}>>,
     <<"Expr.LocalCall", {"args"}>>, <<"Expr.Match", {"scrutinee", "arms"}>>,
     <<"Place.Field", {"base"}>>, <<"Place.Index", {"base", "index"}>>,
     <<"Pattern.Constructor", {"args"}>>}}

---------------------------------------------------------------------------
(* Every variable has its type.                                            *)
TypeOK ==
  /\ case \in Cases /\ origin \in {"made", "found"}
  /\ phase \in {"write", "read", "walk", "done"}
  /\ \A i \in DOMAIN todo : todo[i].card \in {"node", "leaf", "opt", "many", "some"}
  /\ odd \in 0 .. MaxOdd /\ nodes \in 0 .. case.nodes + 1 /\ at \in 1 .. Len(wire) + 1
  /\ \A i \in DOMAIN visits : visits[i][1] \in AllTags

Accepted == phase = "done" /\ verdict = "accepted"
IsNode(v, p) == p[2] = "node" /\ v[p].tag \notin ScalarTags \cup DOMAIN KindForms
NodesIn(v) == {p \in DOMAIN v : IsNode(v, p)}

(* The value fits the decoder's budgets.                                   *)
Fits(v) == /\ Cardinality(NodesIn(v)) <= case.nodes
           /\ \A p \in NodesIn(v) : Len(p[1]) < case.depth

(* Nothing is decoded for free and nothing is charged twice: at every      *)
(* moment the node budget spent is the number of nodes decoded, and the    *)
(* depth left at every node still to be read is the depth allowed less the *)
(* length of its path, through arrays, options and scalars alike.          *)
BudgetsExact ==
  phase = "read" =>
    /\ nodes + Len(visits) = case.nodes
    /\ \A i \in DOMAIN todo : Charged(todo[i]) => todo[i].depth + Len(todo[i].path) = case.depth

(* Encoders with looser rules than the decoder they are paired with.       *)
Looser(c) ==
  IF c.writer = "own" THEN c.oracle \in {"type", "pattern", "support", "spine", "stmt", "decl", "root"}
  ELSE c.writer \in {"decl_v1", "program_v1"} \/ c.oracle \in {"stmt", "ids"}

(* What the root script still knows of a value once it is written.         *)
Told(v) == [p \in DOMAIN v |-> IF Writer = "root" /\ p[2] = "leaf" /\ p[3] = "value" THEN 1
                               ELSE v[p]]

(* What an encoder writes the decoder reads back as the same value (the    *)
(* root script's literals apart), and refuses only when the value is over  *)
(* its budgets or holds a part outside its rules, never for the order of   *)
(* fields or the early refusal of an array.  Only the encoders listed as   *)
(* looser ever write such a part.                                          *)
RoundTrip ==
  /\ odd > 0 => Looser(case)
  /\ phase = "done" /\ origin = "made" =>
       IF odd > 0 \/ ~Fits(made) THEN verdict # "accepted"
       ELSE /\ case.oracle # "root" \/ ValidProgram(made) => verdict = "accepted"
            /\ verdict = "accepted" => got = Told(made)

(* Parts a decoder takes and the encoder beside it has no bytes for: three *)
(* types, and a version with a build and no prerelease, in the declaration *)
(* scripts.                                                                *)
Speechless(v) ==
  case.oracle = "decl" /\
  \E p \in DOMAIN v :
    \/ p[2] = "node" /\ v[p].tag \in {"Type.Int", "Type.Named", "Type.Field"}
    \/ p[2] = "leaf" /\ p[3] = "version" /\ v[p] = "1.0.0+b" /\ case.writer = "decl_v1"

(* Whatever wire a decoder accepts is the one the encoder beside it writes *)
(* for the value it returned: no value has two spellings.  Except for what *)
(* the declaration scripts cannot write, and for the literals the root     *)
(* script writes as true.                                                  *)
OneSpelling ==
  origin = "found" =>
    /\ verdict = "unencodable" => Speechless(got)
    /\ phase = "walk" => ~Speechless(got) /\ (out = wire \/ Told(got) # got)

(* A decoded value can be traversed: the traversal's bounds never refuse   *)
(* what the decoder's admitted, it meets the nodes in the order they were  *)
(* decoded, each under a path of its own and over edges its inventory      *)
(* lists, and the node-id oracle takes every path over its constructors.   *)
(* Until then the budgets are spent exactly (BudgetsExact).                *)
Traversable ==
  /\ BudgetsExact
  /\ verdict # "traversal bound"
  /\ Accepted =>
       /\ walked = visits
       /\ \A i, j \in DOMAIN walked : i # j => walked[i][2] # walked[j][2]
       /\ \A i \in DOMAIN walked : \A e \in DOMAIN walked[i][2] :
            <<walked[i][2][e][1], walked[i][2][e][2]>> \in EdgePairs
       /\ case.oracle = "ids" => \A i \in DOMAIN walked : ValidPath(walked[i][2])
==============================================================================
