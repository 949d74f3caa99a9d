--------------------------- MODULE MCSourceCodec ---------------------------
(* Small cases of every decoder: family, depth and node budget.              *)
EXTENDS SourceCodec

Case(o, w, r, d, n) == [oracle |-> o, writer |-> w, root |-> r, depth |-> d, nodes |-> n]

(* Each decoder with the encoder of its own script,                          *)
Own ==
  {Case("type", "own", "type", 2, 3), Case("type", "own", "type", 3, 2),
   Case("scalar", "own", "literal", 0, 0), Case("scalar", "own", "unary", 0, 0),
   Case("scalar", "own", "binary", 0, 0), Case("scalar", "own", "visibility", 0, 0),
   Case("pattern", "own", "pattern", 2, 3),
   Case("support", "own", "param", 2, 2), Case("support", "own", "field", 2, 2),
   Case("support", "own", "variant", 2, 3),
   Case("spine", "own", "place", 3, 3), Case("spine", "own", "expr", 3, 3),
   Case("spine", "own", "external", 2, 3),
   Case("stmt", "own", "stmt", 3, 4), Case("stmt", "own", "block", 3, 4),
   Case("stmt", "own", "stmtArm", 4, 5),
   Case("decl", "own", "item", 2, 3), Case("code", "own", "item", 4, 5),
   Case("root", "own", "program", 4, 7)}

(* with the builders of the golden files, and with the encoders of the       *)
(* declaration and the program script.                                       *)
Others ==
  {Case("type", "golden", "type", 2, 3), Case("pattern", "golden", "pattern", 2, 3),
   Case("spine", "golden", "expr", 2, 3), Case("stmt", "golden", "stmt", 3, 3),
   Case("code", "golden", "item", 3, 4), Case("ids", "golden", "program", 4, 6),
   Case("decl", "decl_v1", "item", 2, 3),
   Case("program", "program_v1", "program", 3, 4), Case("program", "program_v1", "program", 3, 6)}

MCCases == Own \cup Others
=============================================================================
