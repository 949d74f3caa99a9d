-------------------------- MODULE EvmCorpus_proofs --------------------------
(***************************************************************************)
(* Proofs about the EVM corpus, for every list of cases, every number of   *)
(* runs and kills, every manifest and every tree.                          *)
(*                                                                         *)
(* A validator is a sequence of checks, put together with \o, ForEach and  *)
(* IfAny.  Coded says what every such sequence has in common, that a       *)
(* verdict "ok" means that each of its checks holds; the theorems about    *)
(* close_case and about the manifest read their checks through it.         *)
(***************************************************************************)
EXTENDS EvmCorpus, EvmManifest, SequenceTheorems, FiniteSetTheorems,
        WellFoundedInduction, TLAPS

-----------------------------------------------------------------------------
(* Numbers and sequences.                                                  *)

\* A set of numbers has a least one.
LEMMA MinIn ==
  ASSUME NEW S \in SUBSET Nat, S # {}
  PROVE  Min(S) \in S /\ \A y \in S : Min(S) <= y
<1> DEFINE R == OpToRel(<, Nat)
<1>1. PICK x \in S : \A y \in S : ~(<<y, x>> \in R)
  <2> HIDE DEF R
  <2> QED
    BY NatLessThanWellFounded, WFMin DEF R
<1>2. ASSUME NEW y \in S PROVE x <= y
  <2>1. x \in Nat /\ y \in Nat /\ <<y, x>> \notin R
    BY <1>1
  <2>2. R = {ss \in Nat \X Nat : ss[1] < ss[2]}
    BY DEF OpToRel
  <2> HIDE DEF R
  <2>3. y < x => <<y, x>> \in R
    BY <2>1, <2>2
  <2> QED
    BY <2>1, <2>3
<1> QED
  BY <1>1, <1>2 DEF Min

\* What holds of 1 and passes on to the next number holds up to N.
LEMMA Climb ==
  ASSUME NEW N \in Nat, NEW S, N # 0 => 1 \in S,
         \A n \in 1..(N - 1) : n \in S => n + 1 \in S
  PROVE  \A n \in 1..N : n \in S
<1> DEFINE T == {n \in 1..N : n \notin S}
<1>1. SUFFICES ASSUME T # {} PROVE FALSE
  OBVIOUS
<1>2. Min(T) \in T /\ \A y \in T : Min(T) <= y
  <2>1. T \in SUBSET Nat
    OBVIOUS
  <2> HIDE DEF T
  <2> QED
    BY <1>1, <2>1, MinIn
<1>3. PICK m \in 1..N : m \notin S /\ \A y \in T : m <= y
  BY <1>2
<1>4. m # 1 /\ m - 1 \in 1..(N - 1) /\ m - 1 \notin T
  BY <1>3
<1> QED
  BY <1>3, <1>4

\* A sequence over a set is one of what it holds.
LEMMA SeqIsList ==
  ASSUME NEW S, NEW s \in Seq(S)
  PROVE  IsList(s) /\ Range(s) \subseteq S
BY DEF IsList, Range

\* Concatenation holds what its parts hold.
LEMMA ConcatList ==
  ASSUME NEW s, NEW t, IsList(s), IsList(t)
  PROVE  IsList(s \o t) /\ Range(s \o t) = Range(s) \cup Range(t)
<1> DEFINE S == Range(s) \cup Range(t)
<1>1. s \in Seq(S) /\ t \in Seq(S)
  BY DEF IsList
<1> HIDE DEF S
<1>2. s \o t \in Seq(S) /\ Len(s \o t) = Len(s) + Len(t)
  BY <1>1
<1>3. IsList(s \o t) /\ Range(s \o t) \subseteq S
  BY <1>2, SeqIsList
<1>4. \A i \in 1..Len(s) : i \in DOMAIN (s \o t) /\ (s \o t)[i] = s[i]
  BY <1>1, <1>2
<1>5. \A i \in 1..Len(t) : /\ i + Len(s) \in DOMAIN (s \o t)
                           /\ (s \o t)[i + Len(s)] = t[i]
  BY <1>1, <1>2
<1>6. DOMAIN s = 1..Len(s) /\ DOMAIN t = 1..Len(t)
  BY <1>1
<1>7. Range(s) \subseteq Range(s \o t) /\ Range(t) \subseteq Range(s \o t)
  BY <1>4, <1>5, <1>6 DEF Range
<1> QED
  BY <1>3, <1>7 DEF S

\* The concatenations of the first 1, 2, ... n sequences exist.
Joins(seqs, n) ==
  {f \in [1..n -> Seq(UNION {Range(seqs[i]) : i \in DOMAIN seqs})] :
     \A i \in 1..n : f[i] = IF i = 1 THEN seqs[i] ELSE f[i - 1] \o seqs[i]}

\* The recursion of FlattenSeq has a value for every list of sequences.
LEMMA JoinsExist ==
  ASSUME NEW seqs, NEW N \in Nat \ {0}, DOMAIN seqs = 1..N,
         \A i \in 1..N : IsList(seqs[i])
  PROVE  Joins(seqs, N) # {}
<1> DEFINE U == UNION {Range(seqs[i]) : i \in DOMAIN seqs}
           S == {n \in 1..N : Joins(seqs, n) # {}}
<1>1. \A i \in 1..N : seqs[i] \in Seq(U)
  <2>1. ASSUME NEW i \in 1..N PROVE Range(seqs[i]) \subseteq U
    OBVIOUS
  <2> HIDE DEF U
  <2> QED
    BY <2>1 DEF IsList
<1>2. 1 \in S
  <2> DEFINE f == [i \in 1..1 |-> seqs[1]]
  <2>1. f \in [1..1 -> Seq(U)] /\ f[1] = seqs[1]
    BY <1>1
  <2>2. \A i \in 1..1 : i = 1
    OBVIOUS
  <2> HIDE DEF f
  <2>3. f \in Joins(seqs, 1)
    BY <2>1, <2>2 DEF Joins
  <2> QED
    BY <2>3
<1>3. ASSUME NEW n \in 1..(N - 1), n \in S PROVE n + 1 \in S
  <2>1. PICK f : f \in Joins(seqs, n)
    BY <1>3
  <2> DEFINE g == [i \in 1..(n + 1) |-> IF i <= n THEN f[i] ELSE f[n] \o seqs[n + 1]]
  <2>2. /\ f \in [1..n -> Seq(U)]
        /\ \A i \in 1..n : f[i] = IF i = 1 THEN seqs[i] ELSE f[i - 1] \o seqs[i]
    BY <2>1 DEF Joins
  <2> HIDE DEF U
  <2>3. f[n] \o seqs[n + 1] \in Seq(U)
    BY <2>2, <1>1
  <2>4. g \in [1..(n + 1) -> Seq(U)]
    BY <2>2, <2>3
  <2>5. ASSUME NEW i \in 1..(n + 1)
        PROVE  g[i] = IF i = 1 THEN seqs[i] ELSE g[i - 1] \o seqs[i]
    <3>1. CASE i <= n
      <4>1. g[i] = f[i] /\ (i # 1 => i - 1 \in 1..n /\ g[i - 1] = f[i - 1])
        BY <3>1
      <4>2. i \in 1..n
        BY <3>1
      <4> HIDE DEF g
      <4> QED
        BY <2>2, <4>1, <4>2
    <3>2. CASE i = n + 1
      BY <3>2
    <3> QED
      BY <3>1, <3>2
  <2> HIDE DEF g
  <2>6. g \in Joins(seqs, n + 1)
    BY <2>4, <2>5 DEF Joins, U
  <2> QED
    BY <2>6
<1>4. \A n \in 1..N : n \in S
  <2> HIDE DEF S
  <2> QED
    BY <1>2, <1>3, Climb
<1> QED
  BY <1>4

\* What FlattenSeq returns: the last of the concatenations.
LEMMA FlattenIsJoin ==
  ASSUME NEW seqs, NEW N \in Nat \ {0}, DOMAIN seqs = 1..N, Len(seqs) = N,
         \A i \in 1..N : IsList(seqs[i])
  PROVE  \E f \in Joins(seqs, N) : FlattenSeq(seqs) = f[N]
<1> DEFINE F == CHOOSE f : f = [i \in 1..N |-> IF i = 1 THEN seqs[i] ELSE f[i - 1] \o seqs[i]]
<1>1. PICK f : f \in Joins(seqs, N)
  BY JoinsExist
<1>2. f = [i \in 1..N |-> IF i = 1 THEN seqs[i] ELSE f[i - 1] \o seqs[i]]
  BY <1>1 DEF Joins
<1>3. F = [i \in 1..N |-> IF i = 1 THEN seqs[i] ELSE F[i - 1] \o seqs[i]]
  BY <1>2
<1>4. FlattenSeq(seqs) = F[N]
  BY DEF FlattenSeq
<1> HIDE DEF F
<1>5. \A i \in 1..N : i \in {j \in 1..N : F[j] = f[j]}
  <2> DEFINE S == {j \in 1..N : F[j] = f[j]}
  <2>1. 1 \in S
    BY <1>2, <1>3
  <2>2. ASSUME NEW n \in 1..(N - 1), n \in S PROVE n + 1 \in S
    <3> DEFINE i == n + 1
    <3>1. i \in 1..N /\ i # 1 /\ i - 1 = n /\ F[n] = f[n]
      BY <2>2
    <3> HIDE DEF i
    <3>2. f[i] = f[n] \o seqs[i] /\ F[i] = F[n] \o seqs[i]
      BY <1>2, <1>3, <3>1
    <3>3. i \in S
      BY <3>1, <3>2
    <3> QED
      BY <3>3 DEF i
  <2> HIDE DEF S
  <2>3. \A n \in 1..N : n \in S
    BY <2>1, <2>2, Climb
  <2> QED
    BY <2>3 DEF S
<1> QED
  BY <1>1, <1>4, <1>5

\* A flattened sequence holds what its parts hold.
LEMMA FlattenList ==
  ASSUME NEW seqs, NEW N \in Nat, DOMAIN seqs = 1..N, Len(seqs) = N,
         N = 0 => seqs = <<>>, \A i \in 1..N : IsList(seqs[i])
  PROVE  /\ IsList(FlattenSeq(seqs))
         /\ Range(FlattenSeq(seqs)) = UNION {Range(seqs[i]) : i \in 1..N}
<1>1. CASE N = 0
  <2>1. FlattenSeq(seqs) = <<>>
    BY <1>1 DEF FlattenSeq
  <2> QED
    BY <1>1, <2>1 DEF IsList, Range
<1>2. CASE N # 0
  <2>1. PICK f \in Joins(seqs, N) : FlattenSeq(seqs) = f[N]
    BY <1>2, FlattenIsJoin
  <2>2. \A i \in 1..N : f[i] = IF i = 1 THEN seqs[i] ELSE f[i - 1] \o seqs[i]
    BY DEF Joins
  <2> DEFINE R(n) == UNION {Range(seqs[i]) : i \in 1..n}
             S == {n \in 1..N : IsList(f[n]) /\ Range(f[n]) = R(n)}
  <2>3. 1 \in S
    <3>1. R(1) = Range(seqs[1])
      OBVIOUS
    <3> QED
      BY <1>2, <2>2, <3>1
  <2>4. ASSUME NEW n \in 1..(N - 1), n \in S PROVE n + 1 \in S
    <3> DEFINE i == n + 1
    <3>5. i \in 1..N /\ i # 1 /\ i - 1 = n
      OBVIOUS
    <3> HIDE DEF i
    <3>1. f[i] = f[n] \o seqs[i]
      BY <2>2, <3>5
    <3>6. IsList(f[n]) /\ Range(f[n]) = R(n)
      BY <2>4
    <3>2. IsList(f[i]) /\ Range(f[i]) = R(n) \cup Range(seqs[i])
      <4> HIDE DEF R
      <4> QED
        BY <3>1, <3>5, <3>6, ConcatList
    <3>3. R(i) = R(n) \cup Range(seqs[i])
      <4>1. 1..i = 1..n \cup {i}
        BY <3>5
      <4> QED
        BY <4>1, Zenon
    <3> HIDE DEF R
    <3>4. i \in S
      BY <3>2, <3>3, <3>5
    <3> QED
      BY <3>4 DEF i
  <2>5. N \in S
    <3> HIDE DEF S
    <3> QED
      BY <1>2, <2>3, <2>4, Climb
  <2> QED
    BY <2>1, <2>5
<1> QED
  BY <1>1, <1>2

-----------------------------------------------------------------------------
(* Checks.                                                                 *)

\* Checks that raise codes of C, and "ok" only where nothing fails.
Coded(checks, C) ==
  /\ IsList(checks)
  /\ \A x \in Range(checks) : x[1] \in C /\ (x[1] = "ok" => x[2])

\* Every check holds.
Holds(checks) == \A x \in Range(checks) : x[2]

\* The verdict of checks: a code of theirs, or "ok" when all hold (fail).
LEMMA FirstFailureOk ==
  ASSUME NEW checks, NEW C, Coded(checks, C)
  PROVE  /\ FirstFailure(checks) \in C \cup {"ok"}
         /\ FirstFailure(checks) = "ok" <=> Holds(checks)
<1> DEFINE failing == {i \in DOMAIN checks : ~checks[i][2]}
<1>1. \A i \in DOMAIN checks : checks[i] \in Range(checks)
  BY DEF Range
<1>2. CASE failing = {}
  <2>1. FirstFailure(checks) = "ok"
    BY <1>2 DEF FirstFailure
  <2>2. Holds(checks)
    BY <1>2 DEF Holds, Range
  <2> QED
    BY <2>1, <2>2
<1>3. CASE failing # {}
  <2>1. failing \in SUBSET Nat
    BY DEF Coded, IsList
  <2>2. FirstFailure(checks) = checks[Min(failing)][1]
    BY <1>3 DEF FirstFailure
  <2> HIDE DEF failing
  <2>3. Min(failing) \in failing
    BY <1>3, <2>1, MinIn
  <2>4. Min(failing) \in DOMAIN checks /\ ~checks[Min(failing)][2]
    BY <2>3 DEF failing
  <2> QED
    BY <1>1, <2>2, <2>4 DEF Coded, Holds
<1> QED
  BY <1>2, <1>3

\* Checks put one after another.
LEMMA CodedConcat ==
  ASSUME NEW s, NEW t, NEW C, Coded(s, C), Coded(t, C)
  PROVE  Coded(s \o t, C) /\ (Holds(s \o t) <=> Holds(s) /\ Holds(t))
BY ConcatList DEF Coded, Holds

\* The checks of each element of a sequence (ForEach).
LEMMA CodedFlatten ==
  ASSUME NEW seqs, NEW C, NEW N \in Nat, seqs = [i \in 1..N |-> seqs[i]],
         \A i \in 1..N : Coded(seqs[i], C)
  PROVE  /\ Coded(FlattenSeq(seqs), C)
         /\ Holds(FlattenSeq(seqs)) => \A i \in 1..N : Holds(seqs[i])
<1>1. DOMAIN seqs = 1..N /\ Len(seqs) = N /\ (N = 0 => seqs = <<>>)
  OBVIOUS
<1>2. /\ IsList(FlattenSeq(seqs))
      /\ Range(FlattenSeq(seqs)) = UNION {Range(seqs[i]) : i \in 1..N}
  BY <1>1, FlattenList DEF Coded
<1> QED
  BY <1>2 DEF Coded, Holds

\* Fewer codes are among more.
LEMMA CodedMore ==
  ASSUME NEW s, NEW C, NEW D, C \subseteq D, Coded(s, C)
  PROVE  Coded(s, D)
BY DEF Coded

\* No check raises nothing (a body that is null).
LEMMA CodedNone ==
  ASSUME NEW C
  PROVE  Coded(<<>>, C)
BY DEF Coded, IsList, Range

\* A single check, as the joins between the parts of a validator.
LEMMA CodedOne ==
  ASSUME NEW C, NEW x, x[1] \in C, x[1] = "ok" => x[2]
  PROVE  Coded(<<x>>, C) /\ (Holds(<<x>>) <=> x[2])
BY DEF Coded, IsList, Range, Holds

\* The codes of the script but those of the parser.
Codes == {"SCHEMA", "PATH", "INVARIANT", "LIMIT", "OUTCOME", "JSON", "CANONICAL"}

\* Checks written out one by one.
LEMMA Literal ==
  ASSUME NEW s, NEW n \in Nat, s = [i \in 1..n |-> s[i]],
         \A i \in 1..n : s[i][1] \in Codes
  PROVE  Coded(s, Codes) /\ (FirstFailure(s) = "ok" <=> \A i \in 1..n : s[i][2])
<1>1. Coded(s, Codes)
  BY DEF Coded, IsList, Range, Codes
<1>2. Holds(s) <=> \A i \in 1..n : s[i][2]
  BY DEF Holds, Range
<1> QED
  BY <1>1, <1>2, FirstFailureOk

\* Three checks, as the joins of the manifest.
LEMMA ThreeChecks ==
  ASSUME NEW a \in Codes, NEW b \in Codes, NEW c \in Codes,
         NEW A \in BOOLEAN, NEW B \in BOOLEAN, NEW C \in BOOLEAN
  PROVE  FirstFailure(<< <<a, A>>, <<b, B>>, <<c, C>> >>) = "ok" <=> A /\ B /\ C
<1> DEFINE s == << <<a, A>>, <<b, B>>, <<c, C>> >>
<1>1. s = [i \in 1..3 |-> s[i]] /\ \A i \in 1..3 : s[i][1] \in Codes
  OBVIOUS
<1>2. s[1][2] = A /\ s[2][2] = B /\ s[3][2] = C
  OBVIOUS
<1> HIDE DEF s
<1>3. FirstFailure(s) = "ok" <=> \A i \in 1..3 : s[i][2]
  BY <1>1, Literal
<1>4. (\A i \in 1..3 : s[i][2]) <=> s[1][2] /\ s[2][2] /\ s[3][2]
  <2>1. \A i \in 1..3 : i = 1 \/ i = 2 \/ i = 3
    OBVIOUS
  <2>2. 1 \in 1..3 /\ 2 \in 1..3 /\ 3 \in 1..3
    OBVIOUS
  <2> QED
    BY <2>1, <2>2, Zenon
<1>5. FirstFailure(s) = "ok" <=> A /\ B /\ C
  BY <1>2, <1>3, <1>4, Zenon
<1> QED
  BY <1>5 DEF s

-----------------------------------------------------------------------------
(* The validators of a case and of an observation.                         *)

\* The parts of a case without a sequence or a nullable part in them.
LEMMA PlainCoded ==
  ASSUME NEW c
  PROVE  /\ Coded(PinsChecks(c), Codes)
         /\ Coded(ActorsChecks(c), Codes)
         /\ Coded(OracleChecks(c), Codes)
         /\ Coded(SkipPolicyChecks(c), Codes)
         /\ Coded(ClaimsChecks(c), Codes)
         /\ Coded(FieldListChecks(c), Codes)
         /\ Coded(ProjectionChecks(c), Codes)
         /\ Coded(BlockedChecks(c), Codes)
         /\ Coded(OosChecks(c), Codes)
         /\ Coded(LogChecks(c), Codes)
<1>1. Coded(PinsChecks(c), Codes)
  BY DEF PinsChecks, Coded, IsList, Range, Codes
<1>2. Coded(ActorsChecks(c), Codes)
  BY DEF ActorsChecks, Coded, IsList, Range, Codes
<1>3. Coded(OracleChecks(c), Codes)
  BY DEF OracleChecks, Coded, IsList, Range, Codes
<1>4. Coded(SkipPolicyChecks(c), Codes)
  BY DEF SkipPolicyChecks, Coded, IsList, Range, Codes
<1>5. Coded(ClaimsChecks(c), Codes)
  BY DEF ClaimsChecks, Coded, IsList, Range, Codes
<1>6. Coded(FieldListChecks(c), Codes)
  <2> DEFINE s == FieldListChecks(c)
  <2>1. s = [i \in 1..4 |-> s[i]]
    BY DEF FieldListChecks
  <2>2. s[1][1] = "SCHEMA" /\ s[2][1] = "INVARIANT" /\ s[3][1] = "INVARIANT" /\ s[4][1] = "INVARIANT"
    BY DEF FieldListChecks
  <2>4. \A i \in 1..4 : s[i][1] \in Codes /\ s[i][1] # "ok"
    BY <2>2 DEF Codes
  <2> HIDE DEF s
  <2>3. Coded(s, Codes)
    BY <2>1, <2>4 DEF Coded, IsList, Range
  <2> QED
    BY <2>3 DEF s
<1>7. Coded(ProjectionChecks(c), Codes)
  <2> DEFINE s == ProjectionChecks(c)
  <2>1. s = [i \in 1..6 |-> s[i]]
    BY DEF ProjectionChecks
  <2>2. /\ s[1][1] = "SCHEMA" /\ s[2][1] = "INVARIANT" /\ s[3][1] = "INVARIANT"
        /\ s[4][1] = "INVARIANT" /\ s[5][1] = "INVARIANT" /\ s[6][1] = "INVARIANT"
    BY DEF ProjectionChecks
  <2>4. \A i \in 1..6 : s[i][1] \in Codes /\ s[i][1] # "ok"
    BY <2>2 DEF Codes
  <2> HIDE DEF s
  <2>3. Coded(s, Codes)
    BY <2>1, <2>4 DEF Coded, IsList, Range
  <2> QED
    BY <2>3 DEF s
<1>8. Coded(BlockedChecks(c), Codes)
  BY DEF BlockedChecks, Coded, IsList, Range, Codes
<1>9. Coded(OosChecks(c), Codes)
  BY DEF OosChecks, Coded, IsList, Range, Codes
<1>10. Coded(LogChecks(c), Codes)
  BY DEF LogChecks, Coded, IsList, Range, Codes
<1> QED
  BY <1>1, <1>2, <1>3, <1>4, <1>5, <1>6, <1>7, <1>8, <1>9, <1>10

\* The checks of a list of logs.
LEMMA LogsCoded ==
  ASSUME NEW logs, IsList(logs)
  PROVE  Coded(ForEach(LogChecks, logs), Codes)
<1> DEFINE seqs == [i \in DOMAIN logs |-> LogChecks(logs[i])]
<1>1. Len(logs) \in Nat /\ DOMAIN logs = 1..Len(logs)
  BY DEF IsList
<1>2. seqs = [i \in 1..Len(logs) |-> seqs[i]]
  BY <1>1
<1>3. \A i \in 1..Len(logs) : Coded(seqs[i], Codes)
  BY <1>1, PlainCoded
<1>4. ForEach(LogChecks, logs) = FlattenSeq(seqs)
  BY DEF ForEach
<1> HIDE DEF seqs
<1> QED
  BY <1>1, <1>2, <1>3, <1>4, CodedFlatten

\* The checks of one step, and of all.
LEMMA StepsCoded ==
  ASSUME NEW c, IsCase(c)
  PROVE  Coded(StepsChecks(c), Codes)
<1> DEFINE seqs == [i \in DOMAIN c.steps |-> StepChecks(c, i)]
<1>1. Len(c.steps) \in Nat /\ DOMAIN c.steps = 1..Len(c.steps)
  BY DEF IsCase, IsList
<1>2. ASSUME NEW i \in DOMAIN c.steps PROVE Coded(StepChecks(c, i), Codes)
  <2> DEFINE s == c.steps[i]
             blocked == {s.action = "assert-blocked", s.status = "blocked"}
             head == << <<"SCHEMA", Well(s, "keys")>>,
                        <<"INVARIANT", s.index = i - 1>>,
                        <<"SCHEMA", Well(s, "action")>>,
                        <<"INVARIANT", s.actor \in Range(c.actors)>>,
                        <<"SCHEMA", s.action \in {"call", "view"} => s.entry>>,
                        <<"SCHEMA", Well(s, "args")>>,
                        <<"LIMIT", Len(s.logs) <= MaxLogs>> >>
             last == << <<"INVARIANT", blocked = {c.class = "blocked"}>> >>
  <2>1. StepChecks(c, i) = head \o ForEach(LogChecks, s.logs) \o last
    BY DEF StepChecks
  <2>2. Coded(head, Codes)
    <3>1. /\ head = [k \in 1..7 |-> head[k]]
          /\ head[1][1] = "SCHEMA" /\ head[2][1] = "INVARIANT" /\ head[3][1] = "SCHEMA"
          /\ head[4][1] = "INVARIANT" /\ head[5][1] = "SCHEMA" /\ head[6][1] = "SCHEMA"
          /\ head[7][1] = "LIMIT"
      OBVIOUS
    <3>2. \A k \in 1..7 : head[k][1] \in Codes /\ head[k][1] # "ok"
      BY <3>1 DEF Codes
    <3> HIDE DEF head
    <3> QED
      BY <3>1, <3>2 DEF Coded, IsList, Range
  <2>3. Coded(last, Codes)
    BY CodedOne DEF Codes
  <2>4. Coded(ForEach(LogChecks, s.logs), Codes)
    <3>1. IsList(s.logs)
      BY DEF IsCase, Range
    <3> QED
      BY <3>1, LogsCoded
  <2> HIDE DEF head, last, s
  <2>5. Coded(head \o ForEach(LogChecks, s.logs), Codes)
    BY <2>2, <2>4, CodedConcat
  <2> QED
    BY <2>1, <2>3, <2>5, CodedConcat
<1>3. seqs = [i \in 1..Len(c.steps) |-> seqs[i]]
  BY <1>1
<1>4. \A i \in 1..Len(c.steps) : Coded(seqs[i], Codes)
  BY <1>1, <1>2
<1> DEFINE bounds == << <<"INVARIANT", c.steps # <<>> >>, <<"LIMIT", Len(c.steps) <= MaxSteps>> >>
<1>5. StepsChecks(c) = bounds \o FlattenSeq(seqs)
  BY DEF StepsChecks
<1>6. Coded(bounds, Codes)
  <2>1. /\ bounds = [k \in 1..2 |-> bounds[k]]
        /\ bounds[1][1] = "INVARIANT" /\ bounds[2][1] = "LIMIT"
    OBVIOUS
  <2> HIDE DEF bounds
  <2> QED
    BY <2>1 DEF Codes, Coded, IsList, Range
<1> HIDE DEF seqs, bounds
<1>7. Coded(FlattenSeq(seqs), Codes)
  BY <1>1, <1>3, <1>4, CodedFlatten
<1> QED
  BY <1>5, <1>6, <1>7, CodedConcat

\* The bodies a class may have (BodyChecks).
LEMMA BodiesCoded ==
  ASSUME NEW c
  PROVE  /\ Coded(BodyChecks(c, "adapter", c.adapter, FieldListChecks), Codes)
         /\ Coded(BodyChecks(c, "oz-behavior", c.projection, ProjectionChecks), Codes)
         /\ Coded(BodyChecks(c, "blocked", c.blocked, BlockedChecks), Codes)
         /\ Coded(BodyChecks(c, "oos", c.oos, OosChecks), Codes)
<1>1. ASSUME NEW class, NEW body
      PROVE  Coded(<< <<"INVARIANT", (c.class = class) = (body # {})>> >>, Codes)
  BY CodedOne DEF Codes
<1>2. Coded(IfAny(FieldListChecks, c.adapter), Codes)
  BY PlainCoded, CodedNone DEF IfAny
<1>3. Coded(IfAny(ProjectionChecks, c.projection), Codes)
  BY PlainCoded, CodedNone DEF IfAny
<1>4. Coded(IfAny(BlockedChecks, c.blocked), Codes)
  BY PlainCoded, CodedNone DEF IfAny
<1>5. Coded(IfAny(OosChecks, c.oos), Codes)
  BY PlainCoded, CodedNone DEF IfAny
<1>6. Coded(BodyChecks(c, "adapter", c.adapter, FieldListChecks), Codes)
  BY <1>1, <1>2, CodedConcat DEF BodyChecks
<1>7. Coded(BodyChecks(c, "oz-behavior", c.projection, ProjectionChecks), Codes)
  BY <1>1, <1>3, CodedConcat DEF BodyChecks
<1>8. Coded(BodyChecks(c, "blocked", c.blocked, BlockedChecks), Codes)
  BY <1>1, <1>4, CodedConcat DEF BodyChecks
<1>9. Coded(BodyChecks(c, "oos", c.oos, OosChecks), Codes)
  BY <1>1, <1>5, CodedConcat DEF BodyChecks
<1> QED
  BY <1>6, <1>7, <1>8, <1>9

\* A case (validate_case).
LEMMA CaseCoded ==
  ASSUME NEW c, IsCase(c)
  PROVE  Coded(CaseChecks(c), Codes)
<1> DEFINE head == << <<"SCHEMA", Well(c, "keys")>>,
                      <<"SCHEMA", Well(c, "schema")>>,
                      <<"SCHEMA", Well(c, "id")>>,
                      <<"SCHEMA", c.class \in {"primitive", "adapter", "oz-behavior", "abi",
                                               "blocked", "oos"}>> >>
           state == << <<"SCHEMA", Well(c, "initialLogicalState")>> >>
           p1 == head \o PinsChecks(c)
           p2 == p1 \o ActorsChecks(c)
           p3 == p2 \o state
           p4 == p3 \o StepsChecks(c)
           p5 == p4 \o OracleChecks(c)
           p6 == p5 \o SkipPolicyChecks(c)
           p7 == p6 \o ClaimsChecks(c)
           p8 == p7 \o BodyChecks(c, "adapter", c.adapter, FieldListChecks)
           p9 == p8 \o BodyChecks(c, "oz-behavior", c.projection, ProjectionChecks)
           p10 == p9 \o BodyChecks(c, "blocked", c.blocked, BlockedChecks)
           p11 == p10 \o BodyChecks(c, "oos", c.oos, OosChecks)
<1>1. Coded(head, Codes)
  BY DEF Coded, IsList, Range, Codes
<1>2. Coded(state, Codes)
  BY CodedOne DEF Codes
<1>3. CaseChecks(c) = p11
  BY DEF CaseChecks
<1> HIDE DEF head, state
<1>4. Coded(p1, Codes)
  BY <1>1, PlainCoded, CodedConcat
<1> HIDE DEF p1
<1>5. Coded(p2, Codes)
  BY <1>4, PlainCoded, CodedConcat
<1> HIDE DEF p2
<1>6. Coded(p3, Codes)
  BY <1>2, <1>5, CodedConcat
<1> HIDE DEF p3
<1>7. Coded(p4, Codes)
  BY <1>6, StepsCoded, CodedConcat
<1> HIDE DEF p4
<1>8. Coded(p5, Codes)
  BY <1>7, PlainCoded, CodedConcat
<1> HIDE DEF p5
<1>9. Coded(p6, Codes)
  BY <1>8, PlainCoded, CodedConcat
<1> HIDE DEF p6
<1>10. Coded(p7, Codes)
  BY <1>9, PlainCoded, CodedConcat
<1> HIDE DEF p7
<1>11. Coded(p8, Codes)
  BY <1>10, BodiesCoded, CodedConcat
<1> HIDE DEF p8
<1>12. Coded(p9, Codes)
  BY <1>11, BodiesCoded, CodedConcat
<1> HIDE DEF p9
<1>13. Coded(p10, Codes)
  BY <1>12, BodiesCoded, CodedConcat
<1> HIDE DEF p10
<1>14. Coded(p11, Codes)
  BY <1>13, BodiesCoded, CodedConcat
<1> QED
  BY <1>3, <1>14

\* An observation whose logs are sequences (validate_observation).
LEMMA ObservationCoded ==
  ASSUME NEW o, \A e \in o.evm : IsList(e.logs)
  PROVE  Coded(ObservationChecks(o), Codes)
<1> DEFINE head == << <<"SCHEMA", Well(o, "keys")>>,
                      <<"SCHEMA", o.leg \in Legs>>,
                      <<"SCHEMA", o.step \in 0..(MaxSteps - 1)>>,
                      <<"SCHEMA", Well(o, "identity")>>,
                      <<"SCHEMA", o.verdict \in {"pass", "fail", "skip", "tool-blocked",
                                                 "proposal"}>> >>
           body == << <<"SCHEMA", Well(o, "shared")>>,
                      <<"INVARIANT", (o.leg = "reference") = (o.evm = {})>> >>
           p1 == head \o ReasonChecks(o)
           p2 == p1 \o body
           p3 == p2 \o IfAny(EvmChecks, o.evm)
<1>1. Coded(head, Codes)
  BY DEF Coded, IsList, Range, Codes
<1>2. Coded(body, Codes)
  BY DEF Coded, IsList, Range, Codes
<1>3. Coded(ReasonChecks(o), Codes)
  <2>1. CASE o.verdict \in {"pass", "fail"}
    BY <2>1, CodedOne DEF ReasonChecks, Codes
  <2>2. CASE o.verdict \notin {"pass", "fail"}
    <3> DEFINE r == << <<"SCHEMA", \E n \in o.reason : n > 0>>,
                       <<"LIMIT", \A n \in o.reason : n <= MaxTextBytes>> >>
    <3>1. r = [k \in 1..2 |-> r[k]] /\ r[1][1] = "SCHEMA" /\ r[2][1] = "LIMIT"
      OBVIOUS
    <3>2. ReasonChecks(o) = r
      BY <2>2 DEF ReasonChecks
    <3> HIDE DEF r
    <3> QED
      BY <3>1, <3>2 DEF Coded, IsList, Range, Codes
  <2> QED
    BY <2>1, <2>2
<1>4. ASSUME NEW e \in o.evm PROVE Coded(EvmChecks(e), Codes)
  <2> DEFINE first == << <<"SCHEMA", Well(e, "keys")>>,
                         <<"SCHEMA", Well(e, "slots")>>,
                         <<"INVARIANT", Ascending(e.slots)>>,
                         <<"LIMIT", Len(e.logs) <= MaxLogs>> >>
             last == << <<"SCHEMA", Well(e, "calls")>>, <<"INVARIANT", Ascending(e.balances)>> >>
  <2>1. Coded(first, Codes)
    <3>1. /\ first = [k \in 1..4 |-> first[k]]
          /\ first[1][1] = "SCHEMA" /\ first[2][1] = "SCHEMA"
          /\ first[3][1] = "INVARIANT" /\ first[4][1] = "LIMIT"
      OBVIOUS
    <3>2. \A k \in 1..4 : first[k][1] \in Codes /\ first[k][1] # "ok"
      BY <3>1 DEF Codes
    <3> HIDE DEF first
    <3> QED
      BY <3>1, <3>2 DEF Coded, IsList, Range
  <2>4. Coded(last, Codes)
    BY DEF Coded, IsList, Range, Codes
  <2>2. EvmChecks(e) = first \o ForEach(LogChecks, e.logs) \o last
    BY DEF EvmChecks
  <2> HIDE DEF first, last
  <2>3. Coded(first \o ForEach(LogChecks, e.logs), Codes)
    BY <2>1, LogsCoded, CodedConcat
  <2> QED
    BY <2>2, <2>3, <2>4, CodedConcat
<1>5. Coded(IfAny(EvmChecks, o.evm), Codes)
  BY <1>4, CodedNone DEF IfAny
<1>6. ObservationChecks(o) = p3
  BY DEF ObservationChecks
<1> HIDE DEF head, body
<1>7. Coded(p1, Codes)
  BY <1>1, <1>3, CodedConcat
<1> HIDE DEF p1
<1>8. Coded(p2, Codes)
  BY <1>2, <1>7, CodedConcat
<1> HIDE DEF p2
<1>9. Coded(p3, Codes)
  BY <1>5, <1>8, CodedConcat
<1> QED
  BY <1>6, <1>9

-----------------------------------------------------------------------------
(* close_case.                                                             *)

\* An observation whose logs and effects are sequences.
IsObservation(o) == IsList(o.shared.effects) /\ \A e \in o.evm : IsList(e.logs)

\* What the index says of the observations: each is of the pinned program, no
\* two have one key, and every key of the case has one.
Indexed(c, obs) ==
  /\ \A i \in DOMAIN obs :
        /\ obs[i].identity = c.identity
        /\ \A j \in 1..(i - 1) : KeyOf(obs[j]) # KeyOf(obs[i])
  /\ ExpectedKeys(c) \subseteq {KeyOf(obs[i]) : i \in DOMAIN obs}

\* The index of close_case raises a code, or is what it should be.
LEMMA IndexSound ==
  ASSUME NEW c, IsCase(c), NEW obs, IsList(obs), \A i \in DOMAIN obs : IsObservation(obs[i])
  PROVE  /\ FirstFailure(IndexChecks(c, obs)) \in Codes \cup {"ok"}
         /\ FirstFailure(IndexChecks(c, obs)) = "ok" => Indexed(c, obs)
<1> DEFINE seqs == [i \in DOMAIN obs |-> CollectChecks(c, obs, i)]
           own(i) == << <<"INVARIANT", obs[i].case = c.id>>,
                        <<"INVARIANT", obs[i].identity = c.identity>>,
                        <<"INVARIANT", \A j \in 1..(i - 1) : KeyOf(obs[j]) # KeyOf(obs[i])>>,
                        <<"INVARIANT", KeyOf(obs[i]) \in ExpectedKeys(c)>> >>
           all == <<"INVARIANT", ExpectedKeys(c) \subseteq {KeyOf(obs[i]) : i \in DOMAIN obs}>>
<1>1. Len(obs) \in Nat /\ DOMAIN obs = 1..Len(obs)
  BY DEF IsList
<1>2. ASSUME NEW i \in DOMAIN obs
      PROVE  /\ Coded(CollectChecks(c, obs, i), Codes)
             /\ Holds(CollectChecks(c, obs, i)) =>
                  /\ obs[i].identity = c.identity
                  /\ \A j \in 1..(i - 1) : KeyOf(obs[j]) # KeyOf(obs[i])
  <2>1. CollectChecks(c, obs, i) = ObservationChecks(obs[i]) \o own(i)
    BY DEF CollectChecks
  <2>2. /\ own(i) = [k \in 1..4 |-> own(i)[k]]
        /\ own(i)[1][1] = "INVARIANT" /\ own(i)[2][1] = "INVARIANT"
        /\ own(i)[3][1] = "INVARIANT" /\ own(i)[4][1] = "INVARIANT"
    OBVIOUS
  <2>3. /\ own(i)[2][2] => obs[i].identity = c.identity
        /\ own(i)[3][2] => \A j \in 1..(i - 1) : KeyOf(obs[j]) # KeyOf(obs[i])
    OBVIOUS
  <2> HIDE DEF own
  <2>4. Coded(own(i), Codes)
    <3>1. \A k \in 1..4 : own(i)[k][1] \in Codes /\ own(i)[k][1] # "ok"
      BY <2>2 DEF Codes
    <3> QED
      BY <2>2, <3>1 DEF Coded, IsList, Range
  <2>5. Holds(own(i)) => own(i)[2][2] /\ own(i)[3][2]
    BY <2>2 DEF Holds, Range
  <2> QED
    BY <2>1, <2>3, <2>4, <2>5, ObservationCoded, CodedConcat DEF IsObservation
<1>3. seqs = [i \in 1..Len(obs) |-> seqs[i]]
  BY <1>1
<1>4. \A i \in 1..Len(obs) : Coded(seqs[i], Codes)
  BY <1>1, <1>2
<1>5. Coded(<<all>>, Codes) /\ (Holds(<<all>>) => all[2])
  BY CodedOne DEF Codes
<1>6. all[2] => ExpectedKeys(c) \subseteq {KeyOf(obs[i]) : i \in DOMAIN obs}
  OBVIOUS
<1>7. IndexChecks(c, obs) = CaseChecks(c) \o FlattenSeq(seqs) \o <<all>>
  BY DEF IndexChecks
<1>8. \A i \in DOMAIN obs : seqs[i] = CollectChecks(c, obs, i)
  OBVIOUS
<1> HIDE DEF seqs, all
<1>9. /\ Coded(FlattenSeq(seqs), Codes)
      /\ Holds(FlattenSeq(seqs)) => \A i \in 1..Len(obs) : Holds(seqs[i])
  BY <1>1, <1>3, <1>4, CodedFlatten
<1>10. /\ Coded(CaseChecks(c) \o FlattenSeq(seqs), Codes)
       /\ Holds(CaseChecks(c) \o FlattenSeq(seqs)) => Holds(FlattenSeq(seqs))
  BY <1>9, CaseCoded, CodedConcat
<1>11. /\ Coded(IndexChecks(c, obs), Codes)
       /\ Holds(IndexChecks(c, obs)) => Holds(FlattenSeq(seqs)) /\ Holds(<<all>>)
  BY <1>5, <1>7, <1>10, CodedConcat
<1>12. Holds(IndexChecks(c, obs)) => Indexed(c, obs)
  BY <1>1, <1>2, <1>5, <1>6, <1>8, <1>9, <1>11 DEF Indexed
<1> QED
  BY <1>11, <1>12, FirstFailureOk

\* What the checks after the index say of it: the required legs pass with the
\* status the case gives, and those of a primitive case equal their first.
Closed(c, index) ==
  /\ \A leg \in Required(c) : LegVerdicts(c, index, leg) = {"pass"}
  /\ \A s \in Range(c.steps) : \A leg \in Range(c.legs) :
        index[<<leg, s.index>>].verdict = "pass" => index[<<leg, s.index>>].shared.status = s.status
  /\ c.class = "primitive" =>
        \A s \in Range(c.steps) : \A leg \in Required(c) :
           SharedEq(SharedAt(index, leg, s), SharedAt(index, Lead(c), s))

\* One of the three loops over the steps.
LEMMA StepLoop ==
  ASSUME NEW c, IsCase(c), NEW seqs, seqs = [i \in DOMAIN c.steps |-> seqs[i]],
         \A i \in DOMAIN c.steps : Coded(seqs[i], Codes)
  PROVE  /\ Coded(FlattenSeq(seqs), Codes)
         /\ Holds(FlattenSeq(seqs)) => \A i \in DOMAIN c.steps : Holds(seqs[i])
<1>1. Len(c.steps) \in Nat /\ DOMAIN c.steps = 1..Len(c.steps)
  BY DEF IsCase, IsList
<1>2. seqs = [i \in 1..Len(c.steps) |-> seqs[i]]
  BY <1>1
<1> QED
  BY <1>1, <1>2, CodedFlatten

\* The rest of close_case raises a code, or the index is as Closed says.
LEMMA ClosureSound ==
  ASSUME NEW c, IsCase(c), NEW index
  PROVE  /\ FirstFailure(ClosureChecks(c, index)) \in Codes \cup {"ok"}
         /\ FirstFailure(ClosureChecks(c, index)) = "ok" => Closed(c, index)
<1> DEFINE outcome == [i \in DOMAIN c.steps |-> StepOutcomeChecks(c, index, c.steps[i])]
           primitive == [i \in DOMAIN c.steps |-> PrimitiveChecks(c, index, c.steps[i])]
           projected == [i \in DOMAIN c.steps |-> OutcomeChecks(c, index, c.steps[i])]
           verdicts == VerdictChecks(c, index)
           a == verdicts \o FlattenSeq(outcome)
           b == a \o FlattenSeq(primitive)
<1>1. ClosureChecks(c, index) = b \o FlattenSeq(projected)
  BY DEF ClosureChecks, ForEach
<1>2. /\ Coded(verdicts, Codes)
      /\ Holds(verdicts) => \A leg \in Required(c) : LegVerdicts(c, index, leg) = {"pass"}
  <2>1. /\ verdicts = [k \in 1..2 |-> verdicts[k]]
        /\ verdicts[1][1] = "INVARIANT" /\ verdicts[2][1] = "INVARIANT"
    BY DEF VerdictChecks
  <2>2. verdicts[1][2] => \A leg \in Required(c) : LegVerdicts(c, index, leg) = {"pass"}
    BY DEF VerdictChecks
  <2> HIDE DEF verdicts
  <2>3. Coded(verdicts, Codes)
    BY <2>1 DEF Coded, IsList, Range, Codes
  <2>4. Holds(verdicts) => verdicts[1][2]
    BY <2>1 DEF Holds, Range
  <2> QED
    BY <2>2, <2>3, <2>4
<1>3. ASSUME NEW s
      PROVE  /\ Coded(StepOutcomeChecks(c, index, s), Codes)
             /\ Holds(StepOutcomeChecks(c, index, s)) =>
                  \A leg \in Range(c.legs) :
                     index[<<leg, s.index>>].verdict = "pass" =>
                     index[<<leg, s.index>>].shared.status = s.status
  <2> DEFINE t == StepOutcomeChecks(c, index, s)
  <2>1. t = [k \in 1..2 |-> t[k]] /\ t[1][1] = "INVARIANT" /\ t[2][1] = "INVARIANT"
    BY DEF StepOutcomeChecks
  <2>2. t[1][2] => \A leg \in Range(c.legs) :
                     index[<<leg, s.index>>].verdict = "pass" =>
                     index[<<leg, s.index>>].shared.status = s.status
    BY DEF StepOutcomeChecks
  <2> HIDE DEF t
  <2>3. Coded(t, Codes)
    BY <2>1 DEF Coded, IsList, Range, Codes
  <2>4. Holds(t) => t[1][2]
    BY <2>1 DEF Holds, Range
  <2> QED
    BY <2>2, <2>3, <2>4 DEF t
<1>4. ASSUME NEW s
      PROVE  /\ Coded(PrimitiveChecks(c, index, s), Codes)
             /\ Holds(PrimitiveChecks(c, index, s)) => (c.class = "primitive" =>
                  \A leg \in Required(c) :
                     SharedEq(SharedAt(index, leg, s), SharedAt(index, Lead(c), s)))
  <2> DEFINE x == <<"INVARIANT", c.class = "primitive" =>
                      \A leg \in Required(c) :
                        SharedEq(SharedAt(index, leg, s), SharedAt(index, Lead(c), s))>>
  <2>1. x[1] = "INVARIANT" /\ PrimitiveChecks(c, index, s) = <<x>>
    BY DEF PrimitiveChecks
  <2>2. x[2] => (c.class = "primitive" =>
                   \A leg \in Required(c) :
                     SharedEq(SharedAt(index, leg, s), SharedAt(index, Lead(c), s)))
    OBVIOUS
  <2> HIDE DEF x
  <2>3. Coded(<<x>>, Codes) /\ (Holds(<<x>>) => x[2])
    BY <2>1, CodedOne DEF Codes
  <2> QED
    BY <2>1, <2>2, <2>3
<1>5. ASSUME NEW s PROVE Coded(OutcomeChecks(c, index, s), Codes)
  <2> DEFINE t == OutcomeChecks(c, index, s)
  <2>1. t = [k \in 1..2 |-> t[k]] /\ t[1][1] = "OUTCOME" /\ t[2][1] = "OUTCOME"
    BY DEF OutcomeChecks
  <2> HIDE DEF t
  <2>2. Coded(t, Codes)
    BY <2>1 DEF Coded, IsList, Range, Codes
  <2> QED
    BY <2>2 DEF t
<1>6. \A i \in DOMAIN c.steps :
         /\ outcome[i] = StepOutcomeChecks(c, index, c.steps[i])
         /\ primitive[i] = PrimitiveChecks(c, index, c.steps[i])
         /\ projected[i] = OutcomeChecks(c, index, c.steps[i])
  OBVIOUS
<1>7. /\ outcome = [i \in DOMAIN c.steps |-> outcome[i]]
      /\ primitive = [i \in DOMAIN c.steps |-> primitive[i]]
      /\ projected = [i \in DOMAIN c.steps |-> projected[i]]
  OBVIOUS
<1> HIDE DEF outcome, primitive, projected, verdicts
<1>8. /\ Coded(FlattenSeq(outcome), Codes)
      /\ Holds(FlattenSeq(outcome)) => \A i \in DOMAIN c.steps : Holds(outcome[i])
  BY <1>3, <1>6, <1>7, StepLoop
<1>9. /\ Coded(FlattenSeq(primitive), Codes)
      /\ Holds(FlattenSeq(primitive)) => \A i \in DOMAIN c.steps : Holds(primitive[i])
  BY <1>4, <1>6, <1>7, StepLoop
<1>10. Coded(FlattenSeq(projected), Codes)
  BY <1>5, <1>6, <1>7, StepLoop
<1>11. Coded(a, Codes) /\ (Holds(a) => Holds(verdicts) /\ Holds(FlattenSeq(outcome)))
  BY <1>2, <1>8, CodedConcat
<1> HIDE DEF a
<1>12. Coded(b, Codes) /\ (Holds(b) => Holds(a) /\ Holds(FlattenSeq(primitive)))
  BY <1>9, <1>11, CodedConcat
<1> HIDE DEF b
<1>13. Coded(ClosureChecks(c, index), Codes) /\ (Holds(ClosureChecks(c, index)) => Holds(b))
  BY <1>1, <1>10, <1>12, CodedConcat
<1>14. ASSUME Holds(ClosureChecks(c, index)) PROVE Closed(c, index)
  <2>1. /\ Holds(verdicts)
        /\ \A i \in DOMAIN c.steps : Holds(outcome[i]) /\ Holds(primitive[i])
    BY <1>8, <1>9, <1>11, <1>12, <1>13, <1>14
  <2>2. \A s \in Range(c.steps) : \E i \in DOMAIN c.steps : s = c.steps[i]
    BY DEF Range
  <2>3. \A leg \in Required(c) : LegVerdicts(c, index, leg) = {"pass"}
    BY <1>2, <2>1
  <2>4. \A s \in Range(c.steps) : \A leg \in Range(c.legs) :
           index[<<leg, s.index>>].verdict = "pass" =>
           index[<<leg, s.index>>].shared.status = s.status
    BY <1>3, <1>6, <2>1, <2>2
  <2>5. c.class = "primitive" =>
           \A s \in Range(c.steps) : \A leg \in Required(c) :
              SharedEq(SharedAt(index, leg, s), SharedAt(index, Lead(c), s))
    BY <1>4, <1>6, <2>1, <2>2
  <2> QED
    BY <2>3, <2>4, <2>5 DEF Closed
<1> QED
  BY <1>13, <1>14, FirstFailureOk

\* Two values that equal a third as JSON does are equal (==).
LEMMA PyEqJoins ==
  ASSUME NEW a, NEW b, NEW d, PyEq(a, b), PyEq(d, b)
  PROVE  PyEq(a, d)
BY DEF PyEq

\* So are two shared objects that equal a third.
LEMMA SharedEqJoins ==
  ASSUME NEW s, NEW t, NEW u, IsList(s.effects), IsList(t.effects), IsList(u.effects),
         SharedEq(s, t), SharedEq(u, t)
  PROVE  SharedEq(s, u)
<1>1. OptionEq(s.ret, u.ret)
  BY PyEqJoins DEF SharedEq, OptionEq
<1>2. PyEq(s.state, u.state)
  BY PyEqJoins DEF SharedEq
<1>3. /\ Len(s.effects) = Len(t.effects) /\ Len(u.effects) = Len(t.effects)
      /\ \A i \in DOMAIN s.effects : PyEq(s.effects[i], t.effects[i])
      /\ \A i \in DOMAIN u.effects : PyEq(u.effects[i], t.effects[i])
  BY DEF SharedEq
<1>4. DOMAIN s.effects = DOMAIN u.effects
  BY <1>3 DEF IsList
<1>5. \A i \in DOMAIN s.effects : PyEq(s.effects[i], u.effects[i])
  BY <1>3, <1>4, PyEqJoins
<1> QED
  BY <1>1, <1>2, <1>3, <1>5 DEF SharedEq

\* Where a leg is required, the first of them is (base).
LEMMA LeadIn ==
  ASSUME NEW c, IsCase(c), NEW leg \in Required(c)
  PROVE  Lead(c) \in Required(c)
<1> DEFINE S == {i \in DOMAIN c.legs : c.legs[i] \in Required(c)}
<1>1. S \in SUBSET Nat /\ S # {}
  BY DEF IsCase, IsList, Required, Range
<1>2. Min(S) \in S
  <2> HIDE DEF S
  <2> QED
    BY <1>1, MinIn
<1> QED
  BY <1>2 DEF Lead

\* With one observation of each key, the index gives it back.
LEMMA IndexGives ==
  ASSUME NEW c, NEW obs, IsList(obs), Indexed(c, obs), NEW i \in DOMAIN obs
  PROVE  /\ IndexOf(obs)[KeyOf(obs[i])] = obs[i]
         /\ \A j \in DOMAIN obs : KeyOf(obs[j]) = KeyOf(obs[i]) => j = i
<1>1. DOMAIN obs = 1..Len(obs) /\ Len(obs) \in Nat
  BY DEF IsList
<1>2. ASSUME NEW j \in DOMAIN obs, KeyOf(obs[j]) = KeyOf(obs[i]) PROVE j = i
  <2>1. ~(j \in 1..(i - 1)) /\ ~(i \in 1..(j - 1))
    BY <1>2 DEF Indexed
  <2> QED
    BY <1>1, <2>1
<1>3. \A o \in Range(obs) : KeyOf(o) = KeyOf(obs[i]) => o = obs[i]
  BY <1>2 DEF Range
<1>4. obs[i] \in Range(obs) /\ KeyOf(obs[i]) \in {KeyOf(obs[k]) : k \in DOMAIN obs}
  BY DEF Range
<1>5. IndexOf(obs)[KeyOf(obs[i])] = CHOOSE o \in Range(obs) : KeyOf(o) = KeyOf(obs[i])
  BY <1>4 DEF IndexOf
<1> QED
  BY <1>2, <1>3, <1>4, <1>5

\* A case that closes as a pass rests on observations that agree (close_case).
LEMMA PassAgrees ==
  ASSUME NEW c, IsCase(c), NEW obs, IsList(obs), \A i \in DOMAIN obs : IsObservation(obs[i]),
         NEW dir, CloseCase(c, obs, dir) = "pass"
  PROVE  Agreement(c, obs)
<1> DEFINE index == IndexOf(obs)
<1>1. Indexed(c, obs) /\ Closed(c, index)
  <2>1. "pass" \notin Codes \cup {"ok"}
    BY DEF Codes
  <2>2. FirstFailure(IndexChecks(c, obs)) = "ok" /\ FirstFailure(ClosureChecks(c, index)) = "ok"
    <3>1. FirstFailure(IndexChecks(c, obs)) # "pass" /\ FirstFailure(ClosureChecks(c, index)) # "pass"
      BY <2>1, IndexSound, ClosureSound
    <3> QED
      BY <3>1 DEF CloseCase
  <2> QED
    BY <2>2, IndexSound, ClosureSound
<1> HIDE DEF index
<1>2. ASSUME NEW s \in Range(c.steps), NEW leg \in Required(c)
      PROVE  /\ \E i \in DOMAIN obs : KeyOf(obs[i]) = <<leg, s.index>>
             /\ \A i \in DOMAIN obs : KeyOf(obs[i]) = <<leg, s.index>> =>
                   index[<<leg, s.index>>] = obs[i]
             /\ leg \in Range(c.legs) /\ s.index \in StepIndices(c)
  <2>1. leg \in Range(c.legs) /\ s.index \in StepIndices(c)
    BY DEF Required, StepIndices, Range
  <2>2. <<leg, s.index>> \in ExpectedKeys(c)
    BY <2>1 DEF ExpectedKeys
  <2>3. \E i \in DOMAIN obs : KeyOf(obs[i]) = <<leg, s.index>>
    BY <1>1, <2>2 DEF Indexed
  <2> QED
    BY <1>1, <2>1, <2>3, IndexGives DEF index
<1>3. ASSUME NEW s \in Range(c.steps), NEW leg \in Required(c), NEW o \in Range(obs),
             o.leg = leg, o.step = s.index
      PROVE  /\ o = index[<<leg, s.index>>] /\ IsObservation(o)
             /\ o.identity = c.identity /\ o.verdict = "pass" /\ o.shared.status = s.status
  <2>1. PICK i \in DOMAIN obs : o = obs[i]
    BY DEF Range
  <2>2. o = index[<<leg, s.index>>]
    BY <1>2, <1>3, <2>1 DEF KeyOf
  <2>3. o.identity = c.identity /\ IsObservation(o)
    BY <1>1, <2>1 DEF Indexed
  <2>4. o.verdict = "pass"
    <3>1. LegVerdicts(c, index, leg) = {"pass"} /\ s.index \in StepIndices(c)
      BY <1>1, <1>2 DEF Closed
    <3>2. index[<<leg, s.index>>].verdict \in LegVerdicts(c, index, leg)
      BY <3>1 DEF LegVerdicts
    <3> QED
      BY <2>2, <3>1, <3>2
  <2> QED
    BY <1>1, <1>2, <2>2, <2>3, <2>4 DEF Closed
<1>4. ASSUME NEW s \in Range(c.steps), NEW leg \in Required(c)
      PROVE  Cardinality({i \in DOMAIN obs : obs[i].leg = leg /\ obs[i].step = s.index}) = 1
  <2>1. PICK i \in DOMAIN obs : KeyOf(obs[i]) = <<leg, s.index>>
    BY <1>2
  <2>2. \A j \in DOMAIN obs : obs[j].leg = leg /\ obs[j].step = s.index <=> j = i
    BY <1>1, <2>1, IndexGives DEF KeyOf
  <2>3. {j \in DOMAIN obs : obs[j].leg = leg /\ obs[j].step = s.index} = {i}
    BY <2>2
  <2> QED
    BY <2>3, FS_Singleton
<1>5. ASSUME c.class = "primitive", NEW s \in Range(c.steps),
             NEW leg \in Required(c), NEW other \in Required(c),
             NEW o \in Range(obs), o.leg = leg, o.step = s.index,
             NEW p \in Range(obs), p.leg = other, p.step = s.index
      PROVE  SharedEq(o.shared, p.shared)
  <2>1. /\ o = index[<<leg, s.index>>] /\ p = index[<<other, s.index>>]
        /\ IsObservation(o) /\ IsObservation(p)
    BY <1>3, <1>5
  <2> DEFINE lead == SharedAt(index, Lead(c), s)
  <2>2. SharedEq(o.shared, lead) /\ SharedEq(p.shared, lead)
    BY <1>1, <1>5, <2>1 DEF Closed, SharedAt
  <2> HIDE DEF lead
  <2>3. IsList(lead.effects)
    <3>1. Lead(c) \in Required(c)
      BY LeadIn
    <3>2. PICK i \in DOMAIN obs : KeyOf(obs[i]) = <<Lead(c), s.index>>
      BY <1>2, <3>1
    <3>3. lead = obs[i].shared
      BY <1>2, <3>1, <3>2 DEF lead, SharedAt
    <3> QED
      BY <3>3 DEF IsObservation
  <2> QED
    BY <2>1, <2>2, <2>3, SharedEqJoins DEF IsObservation
<1> QED
  BY <1>3, <1>4, <1>5 DEF Agreement

-----------------------------------------------------------------------------
(* The runs.                                                               *)

\* Each run is somewhere, and what it has read are observations.
Tables ==
  /\ DOMAIN pc = Runs /\ DOMAIN cursor = Runs /\ DOMAIN left = Runs
  /\ DOMAIN reads = Runs /\ DOMAIN closed = Runs

\* The files of the legs hold observations.
FilesHold == \A p \in DOMAIN files : p[2] # "sidecar" => \A o \in files[p] : IsObservation(o)

\* What a run has listed are no sidecars, and what it has read are observations.
ReadsHold ==
  \A r \in Runs :
     /\ \A p \in left[r] : p[2] # "sidecar"
     /\ IsList(reads[r]) /\ \A i \in DOMAIN reads[r] : IsObservation(reads[r][i])

\* A run closes the cases in their order, and has one before it when it reads.
ClosedInOrder ==
  \A r \in Runs :
     /\ IsList(closed[r]) /\ Len(closed[r]) <= Len(Cases)
     /\ pc[r] = "close" /\ cursor[r] = 1 => Len(closed[r]) < Len(Cases)

CorpusInv == Tables /\ FilesHold /\ ReadsHold /\ ClosedInOrder /\ PassIsAgreement

\* What a leg writes is an observation (mint_observation_from_shared).
LEMMA DocumentHolds ==
  ASSUME NEW p, p[2] # "sidecar"
  PROVE  IsObservation(Document(p))
<1>1. IsList(<<>>)
  BY DEF IsList, Range
<1>2. ASSUME NEW c, NEW leg, NEW step
      PROVE  /\ DOMAIN PassObs(c, leg, step) = DOMAIN ReferenceObservation
             /\ PassObs(c, leg, step).evm \subseteq {EmptyEvm}
             /\ PassObs(c, leg, step).shared.effects = <<>>
             /\ DOMAIN PassObs(c, leg, step).shared = DOMAIN ReferenceObservation.shared
  BY DEF PassObs, ReferenceObservation
<1>3. ASSUME NEW x, x.evm \subseteq {EmptyEvm}, x.shared.effects = <<>>
      PROVE  IsObservation(x)
  BY <1>1, <1>3 DEF IsObservation, EmptyEvm
<1>4. DOMAIN ReferenceObservation.shared = {"status", "ret", "effects", "state", "rollback"}
  BY DEF ReferenceObservation
<1>5. DOMAIN ReferenceObservation = {"bad", "case", "leg", "step", "identity", "verdict",
                                     "reason", "shared", "evm"}
  BY DEF ReferenceObservation
<1>6. Execution(p).evm \subseteq {EmptyEvm} /\ Execution(p).shared.effects = <<>>
  BY <1>2, <1>4, <1>5 DEF Execution
<1> QED
  BY <1>3, <1>6 DEF Document

\* A step leaves the tables tables.
LEMMA TablesNext ==
  ASSUME Tables, NEW r \in Runs, RunStep(r)
  PROVE  Tables'
BY DEF Tables, RunStep, Start, Wipe, Truncate, Fill, CountReference, AnvilDone,
       ListObservations, ReadObservation, Close, Kill, Goto

\* A step leaves observations in the files: only Fill writes a document.
LEMMA FilesHoldNext ==
  ASSUME FilesHold, NEW r \in Runs, RunStep(r)
  PROVE  FilesHold'
<1>1. CASE Wipe(r)
  BY <1>1 DEF Wipe, FilesHold
<1>2. CASE Truncate(r)
  BY <1>2 DEF Truncate, FilesHold
<1>3. CASE Fill(r)
  <2> DEFINE q == Phase(pc[r])[(cursor[r] \div 2) + 1]
  <2>1. files' = files \/ (q \in DOMAIN files /\ files' = [files EXCEPT ![q] = {Document(q)}])
    BY <1>3 DEF Fill
  <2> HIDE DEF q
  <2> QED
    BY <2>1, DocumentHolds DEF FilesHold
<1>4. CASE UNCHANGED files
  BY <1>4 DEF FilesHold
<1> QED
  BY <1>1, <1>2, <1>3, <1>4 DEF RunStep, Start, CountReference, AnvilDone,
     ListObservations, ReadObservation, Close, Kill

\* A step leaves observations in what is read.
LEMMA ReadsHoldNext ==
  ASSUME Tables, FilesHold, ReadsHold, NEW r \in Runs, RunStep(r)
  PROVE  ReadsHold'
<1>1. CASE ListObservations(r)
  <2>1. /\ left' = [left EXCEPT ![r] = Listing(Current(r).id)] /\ reads' = reads
        /\ \A p \in Listing(Current(r).id) : p[2] # "sidecar"
    BY <1>1 DEF ListObservations, Listing
  <2> QED
    BY <2>1 DEF Tables, ReadsHold
<1>2. CASE ReadObservation(r)
  <2>1. PICK p \in left[r] :
           \/ UNCHANGED <<left, reads>>
           \/ /\ p \in DOMAIN files /\ files[p] # {}
              /\ reads' = [reads EXCEPT ![r] = Append(@, CHOOSE o \in files[p] : TRUE)]
              /\ left' = [left EXCEPT ![r] = @ \ {p}]
    BY <1>2 DEF ReadObservation
  <2> DEFINE o == CHOOSE o \in files[p] : TRUE
  <2>2. CASE UNCHANGED <<left, reads>>
    BY <2>2 DEF ReadsHold
  <2>3. CASE /\ p \in DOMAIN files /\ files[p] # {}
             /\ reads' = [reads EXCEPT ![r] = Append(@, o)]
             /\ left' = [left EXCEPT ![r] = @ \ {p}]
    <3>1. IsObservation(o)
      BY <2>3 DEF FilesHold, ReadsHold
    <3> HIDE DEF o
    <3>2. IsList(reads[r]) /\ \A i \in DOMAIN reads[r] : IsObservation(reads[r][i])
      BY DEF ReadsHold
    <3>3. IsList(Append(reads[r], o))
      <4>1. Append(reads[r], o) \in Seq(Range(reads[r]) \cup {o})
        BY <3>2 DEF IsList
      <4> QED
        BY <4>1, SeqIsList
    <3>4. \A i \in DOMAIN Append(reads[r], o) : IsObservation(Append(reads[r], o)[i])
      BY <3>1, <3>2 DEF IsList
    <3> QED
      BY <2>3, <3>3, <3>4 DEF Tables, ReadsHold
  <2> QED
    BY <2>1, <2>2, <2>3
<1>3. CASE UNCHANGED <<left, reads>>
  BY <1>3 DEF ReadsHold
<1>4. CASE Close(r) \/ Kill(r)
  <2>1. /\ reads' = [reads EXCEPT ![r] = <<>>]
        /\ left' = left \/ left' = [left EXCEPT ![r] = {}]
    BY <1>4 DEF Close, Kill
  <2>2. IsList(<<>>) /\ DOMAIN <<>> = {}
    BY DEF IsList, Range
  <2> QED
    BY <2>1, <2>2 DEF Tables, ReadsHold
<1> QED
  BY <1>1, <1>2, <1>3, <1>4 DEF RunStep, Start, Wipe, Truncate, Fill, CountReference, AnvilDone

\* A step leaves the cases closed in their order, a pass on agreement.
LEMMA ClosedNext ==
  ASSUME CorpusInv, NEW r \in Runs, RunStep(r)
  PROVE  ClosedInOrder' /\ PassIsAgreement'
<1> USE DEF CorpusInv
<1>1. IsList(Cases) /\ Len(Cases) \in Nat /\ DOMAIN Cases = 1..Len(Cases)
  BY CasesAssumption DEF IsList
<1>2. IsList(<<>>) /\ Len(<<>>) = 0 /\ DOMAIN <<>> = {}
  BY DEF IsList, Range
<1>3. CASE Start(r) \/ Kill(r)
  <2>1. /\ closed' = [closed EXCEPT ![r] = <<>>] /\ cursor' = [cursor EXCEPT ![r] = 0]
        /\ \A q \in Runs \ {r} : pc'[q] = pc[q]
    BY <1>3 DEF Start, Kill, Goto, Tables
  <2> QED
    BY <1>1, <1>2, <2>1 DEF Tables, ClosedInOrder, PassIsAgreement
<1>4. CASE ListObservations(r)
  BY <1>1, <1>4 DEF ListObservations, Tables, ClosedInOrder, PassIsAgreement
<1>5. CASE Close(r)
  <2> DEFINE c == Current(r)
             result == CloseCase(c, reads[r], SidecarDir(c))
             row == [result |-> result, obs |-> reads[r]]
             n == Len(closed[r]) + 1
  <2>1. /\ IsList(closed[r]) /\ Len(closed[r]) < Len(Cases)
        /\ cursor' = [cursor EXCEPT ![r] = 0] /\ \A q \in Runs \ {r} : pc'[q] = pc[q]
    BY <1>5 DEF Close, Goto, Tables, ClosedInOrder
  <2>2. Len(closed[r]) \in Nat /\ DOMAIN closed[r] = 1..Len(closed[r])
    BY <2>1 DEF IsList
  <2>3. n \in DOMAIN Cases /\ c = Cases[n]
    BY <1>1, <2>1, <2>2 DEF Current
  <2>4. IsCase(c)
    BY <2>3, CasesAssumption DEF Range
  <2>5. result = "pass" => Agreement(c, reads[r])
    BY <2>4, PassAgrees DEF ReadsHold
  <2>6. closed' = closed \/ closed' = [closed EXCEPT ![r] = Append(closed[r], row)]
    BY <1>5 DEF Close
  <2>7. CASE closed' = closed
    BY <1>1, <2>1, <2>7 DEF Tables, ClosedInOrder, PassIsAgreement
  <2>8. CASE closed' = [closed EXCEPT ![r] = Append(closed[r], row)]
    <3>1. row.result = "pass" => Agreement(Cases[n], row.obs)
      BY <2>3, <2>5
    <3> HIDE DEF row, c, result
    <3>2. /\ IsList(Append(closed[r], row)) /\ Len(Append(closed[r], row)) = n
          /\ \A i \in DOMAIN Append(closed[r], row) :
                Append(closed[r], row)[i] = IF i = n THEN row ELSE closed[r][i]
          /\ DOMAIN Append(closed[r], row) = 1..n
      <4>1. closed[r] \in Seq(Range(closed[r]) \cup {row})
        BY <2>1 DEF IsList
      <4>2. Append(closed[r], row) \in Seq(Range(closed[r]) \cup {row})
        BY <4>1
      <4>3. IsList(Append(closed[r], row))
        BY <4>2, SeqIsList
      <4> QED
        BY <4>1, <4>3
    <3>3. closed'[r] = Append(closed[r], row) /\ \A q \in Runs \ {r} : closed'[q] = closed[q]
      BY <2>8 DEF Tables
    <3>4. PassIsAgreement'
      <4>1. ASSUME NEW i \in DOMAIN closed'[r], closed'[r][i].result = "pass"
            PROVE  Agreement(Cases[i], closed'[r][i].obs)
        <5>1. CASE i = n
          BY <3>1, <3>2, <3>3, <4>1, <5>1
        <5>2. CASE i # n
          <6>1. i \in DOMAIN closed[r] /\ closed'[r][i] = closed[r][i]
            BY <2>2, <3>2, <3>3, <5>2
          <6> QED
            BY <4>1, <6>1 DEF PassIsAgreement
        <5> QED
          BY <5>1, <5>2
      <4> QED
        BY <3>3, <4>1 DEF PassIsAgreement
    <3>5. ASSUME NEW q \in Runs
          PROVE  /\ IsList(closed'[q]) /\ Len(closed'[q]) <= Len(Cases)
                 /\ pc'[q] = "close" /\ cursor'[q] = 1 => Len(closed'[q]) < Len(Cases)
      <4>1. CASE q = r
        <5>1. cursor'[r] = 0
          BY <2>1 DEF Tables
        <5>2. n <= Len(Cases)
          BY <1>1, <2>1, <2>2
        <5> HIDE DEF n
        <5>3. IsList(closed'[r]) /\ Len(closed'[r]) = n
          BY <3>2, <3>3, Zenon
        <5> QED
          BY <4>1, <5>1, <5>2, <5>3
      <4>2. CASE q # r
        <5>1. closed'[q] = closed[q] /\ pc'[q] = pc[q] /\ cursor'[q] = cursor[q]
          BY <2>1, <3>3, <4>2 DEF Tables
        <5> QED
          BY <5>1 DEF ClosedInOrder
      <4> QED
        BY <4>1, <4>2
    <3>6. ClosedInOrder'
      BY <3>5 DEF ClosedInOrder
    <3> QED
      BY <3>4, <3>6
  <2> QED
    BY <2>6, <2>7, <2>8
<1>6. CASE Wipe(r) \/ (Truncate(r) /\ pc' # pc) \/ CountReference(r) \/ AnvilDone(r) \/ ReadObservation(r)
  <2>1. /\ closed' = closed
        /\ \A q \in Runs \ {r} : pc'[q] = pc[q] /\ cursor'[q] = cursor[q]
        /\ \/ pc'[r] = pc[r] /\ cursor'[r] = cursor[r]
           \/ cursor'[r] = 0
    BY <1>6 DEF Wipe, Truncate, CountReference, AnvilDone, ReadObservation, Goto, Tables
  <2> QED
    BY <1>1, <2>1 DEF ClosedInOrder, PassIsAgreement
<1>7. CASE (Truncate(r) /\ pc' = pc) \/ Fill(r)
  <2>1. /\ closed' = closed /\ pc' = pc /\ pc[r] # "close"
        /\ \A q \in Runs \ {r} : cursor'[q] = cursor[q]
    BY <1>7 DEF Truncate, Goto, Fill, Tables
  <2> QED
    BY <1>1, <2>1 DEF ClosedInOrder, PassIsAgreement
<1> QED
  BY <1>3, <1>4, <1>5, <1>6, <1>7 DEF RunStep

\* A case closed as a pass rests on executions of the pinned program that
\* agree, whatever other runs do to the directory, wherever runs are killed
\* and whatever a leg does differently (close_case, load_observations_dir).
THEOREM PassIsAgreementCorrect == Spec => []PassIsAgreement
<1>1. Init => CorpusInv
  <2> SUFFICES ASSUME Init PROVE CorpusInv
    OBVIOUS
  <2>1. IsList(<<>>) /\ Len(<<>>) = 0 /\ DOMAIN <<>> = {}
    BY DEF IsList, Range
  <2>2. Len(Cases) \in Nat
    BY CasesAssumption DEF IsList
  <2> QED
    BY <2>1, <2>2 DEF Init, CorpusInv, Tables, FilesHold, ReadsHold, ClosedInOrder, PassIsAgreement
<1>2. CorpusInv /\ [Next]_vars => CorpusInv'
  <2> SUFFICES ASSUME CorpusInv, [Next]_vars PROVE CorpusInv'
    OBVIOUS
  <2>1. CASE Next
    BY <2>1, TablesNext, FilesHoldNext, ReadsHoldNext, ClosedNext DEF Next, CorpusInv
  <2>2. CASE UNCHANGED vars
    BY <2>2 DEF vars, CorpusInv, Tables, FilesHold, ReadsHold, ClosedInOrder, PassIsAgreement
  <2> QED
    BY <2>1, <2>2
<1>3. CorpusInv => PassIsAgreement
  BY DEF CorpusInv
<1> QED
  BY <1>1, <1>2, <1>3, PTL DEF Spec

-----------------------------------------------------------------------------
(* The manifest.                                                           *)

\* A listed file was there, with the size and the hash of its entry.
WasThere(e) ==
  \E f \in was[e.path] :
     f.kind = "file" /\ f.data = e.sha256 /\ SizeOf(f.data) = e.size

\* What is in the tree is on record, and every file holds a case at most.
TreeHolds ==
  /\ DOMAIN tree = Range(Paths) /\ DOMAIN was = Range(Paths)
  /\ \A p \in Range(Paths) : /\ tree[p] \subseteq was[p]
                              /\ \A f, g \in tree[p] : f = g /\ IsFile(f)

\* An open file was in the tree, a plain file.
HeldHolds ==
  \A h \in held :
     /\ DOMAIN h = {"path", "file", "moved"} /\ h.path \in Range(Paths)
     /\ h.file \in was[h.path] /\ h.file.kind = "file" /\ IsFile(h.file)

\* What the check has collected, and opened, is of the corpus and the allowed
\* sources.
Bounded ==
  /\ inventory \subseteq Corpus /\ sources \subseteq AllowedSources
  /\ opened \subseteq {"manifest"} \cup Corpus \cup AllowedSources \cup RunnerPaths

\* The stages: the cases of the walk are read first, then what the list, equal
\* to the allowlist, names; an entry that is read no more was there.
Stages ==
  /\ at = "cases" => todo \subseteq CasePaths
  /\ at = "files" =>
        /\ Listed = Allowlist /\ todo \subseteq Listed
        /\ \A h \in held : h.path \in todo
        /\ \A e \in Entries : e.path \notin todo => WasThere(e)
  /\ at # "done" => verdict = "none"
  /\ verdict = "ok" => \A e \in Entries : WasThere(e)

ManifestInv == TreeHolds /\ HeldHolds /\ Bounded /\ Stages

\* The names of the tree.
LEMMA PathsAre ==
  Range(Paths) = {"env", "example", "runner", "case1", "case2", "manifest", "program", "stray"}
<1> DEFINE s == Paths
<1>1. s = [i \in 1..8 |-> s[i]]
  BY DEF Paths
<1>2. /\ s[1] = "env" /\ s[2] = "example" /\ s[3] = "runner" /\ s[4] = "case1"
      /\ s[5] = "case2" /\ s[6] = "manifest" /\ s[7] = "program" /\ s[8] = "stray"
  BY DEF Paths
<1> HIDE DEF s
<1>3. Range(s) = {"env", "example", "runner", "case1", "case2", "manifest", "program", "stray"}
  <2>1. Range(s) = {s[i] : i \in 1..8}
    BY <1>1 DEF Range
  <2> QED
    BY <1>2, <2>1
<1> QED
  BY <1>3 DEF s

\* What a run of the check may ask for is named in the tree.
LEMMA NamedPaths ==
  /\ Corpus \subseteq Range(Paths) /\ CasePaths \subseteq Corpus
  /\ AllowedSources \subseteq Range(Paths) /\ RunnerPaths \subseteq Range(Paths)
  /\ "manifest" \in Range(Paths)
BY PathsAre DEF Corpus, CasePaths, AllowedSources, RunnerPaths

\* The first of the paths still to read is one of them (sorted).
LEMMA FirstIn ==
  ASSUME NEW paths, paths \subseteq Range(Paths), paths # {}
  PROVE  First(paths) \in paths
<1> DEFINE ranks == {RankOf(p) : p \in paths}
<1>1. \A p \in paths : RankOf(p) \in Nat
  <2>1. \A p \in paths : \E i \in DOMAIN Paths : Paths[i] = p
    BY DEF Range
  <2>2. \A p \in paths : RankOf(p) \in DOMAIN Paths
    BY <2>1 DEF RankOf
  <2>3. DOMAIN Paths \subseteq Nat
    BY DEF Paths
  <2> QED
    BY <2>2, <2>3
<1>2. Min(ranks) \in ranks /\ \A y \in ranks : Min(ranks) <= y
  <2>1. ranks \in SUBSET Nat /\ ranks # {}
    BY <1>1
  <2> HIDE DEF ranks
  <2> QED
    BY <2>1, MinIn
<1>3. \E p \in paths : \A q \in paths : RankOf(p) <= RankOf(q)
  BY <1>2
<1> QED
  BY <1>3 DEF First

\* The tests of a path before it is opened (_stable_read_regular).
LEMMA OpenCoded ==
  ASSUME NEW p, NEW gone \in Codes
  PROVE  /\ Coded(OpenChecks(p, gone), Codes)
         /\ Holds(OpenChecks(p, gone)) <=> Plain(p)
<1> DEFINE s == OpenChecks(p, gone)
           reached == DirOf(p) \notin linked
           full == tree[p] # {}
           file == \A f \in tree[p] : f.kind = "file"
           one == \A f \in tree[p] : f.nlink = 1
<1>1. s = [i \in 1..4 |-> s[i]]
  BY DEF OpenChecks
<1>2. s[1][1] = "PATH" /\ s[2][1] = gone /\ s[3][1] = "PATH" /\ s[4][1] = "PATH"
  BY DEF OpenChecks
<1>3. s[1][2] = reached /\ s[2][2] = full /\ s[3][2] = file /\ s[4][2] = one
  <2>1. ({DirOf(p)} \cap linked = {}) = reached
    OBVIOUS
  <2> QED
    BY <2>1, Zenon DEF OpenChecks
<1>4. \A i \in 1..4 : s[i][1] \in Codes /\ s[i][1] # "ok"
  BY <1>2 DEF Codes
<1>5. Plain(p) <=> reached /\ full /\ file /\ one
  BY DEF Plain
<1> HIDE DEF s, reached, full, file, one
<1>6. Coded(s, Codes)
  BY <1>1, <1>4 DEF Coded, IsList, Range
<1>7. Holds(s) <=> \A i \in 1..4 : s[i][2]
  BY <1>1 DEF Holds, Range
<1>8. Holds(s) <=> reached /\ full /\ file /\ one
  BY <1>3, <1>7
<1> QED
  BY <1>5, <1>6, <1>8 DEF s

\* The bytes of a document; "ok" as the code of the parser is its success
\* (decode_canonical).
LEMMA WireCoded ==
  ASSUME NEW w, NEW limit
  PROVE  Coded(WireChecks(w, limit), Codes \cup {w.parse})
<1> DEFINE s == WireChecks(w, limit)
<1>1. s = [i \in 1..7 |-> s[i]]
  BY DEF WireChecks
<1>2. /\ s[1][1] = "LIMIT" /\ s[2][1] = "JSON" /\ s[3][1] = "JSON" /\ s[5][1] = "LIMIT"
      /\ s[6][1] = "LIMIT" /\ s[7][1] = "CANONICAL"
  BY DEF WireChecks
<1>3. s[4][1] = w.parse /\ s[4][2] = (w.parse = "ok")
  BY DEF WireChecks
<1> HIDE DEF s
<1>4. \A i \in {1, 2, 3, 5, 6, 7} : s[i][1] \in Codes /\ s[i][1] # "ok"
  BY <1>2 DEF Codes
<1>5. ASSUME NEW i \in 1..7
      PROVE  s[i][1] \in Codes \cup {w.parse} /\ (s[i][1] = "ok" => s[i][2])
  <2>1. CASE i = 4
    <3>1. s[i][1] = w.parse /\ s[i][2] = (w.parse = "ok")
      BY <1>3, <2>1
    <3> QED
      BY <3>1, Zenon
  <2>2. CASE i # 4
    <3>1. i \in {1, 2, 3, 5, 6, 7}
      BY <2>2
    <3> QED
      BY <1>4, <3>1
  <2> QED
    BY <2>1, <2>2
<1>6. Coded(s, Codes \cup {w.parse})
  BY <1>1, <1>5 DEF Coded, IsList, Range
<1> QED
  BY <1>6 DEF s

\* A document of a case loads under the checks of its wire and its contents,
\* and is pinned under two more (load_case, _collect_case_source_paths).
LEMMA PinnedExact ==
  ASSUME NEW d, IsCase(d.wire.doc)
  PROVE  /\ Coded(PinnedCaseChecks(d), Codes \cup {d.wire.parse})
         /\ Holds(PinnedCaseChecks(d)) <=> Pinned(d)
<1> DEFINE C == Codes \cup {d.wire.parse}
           wire == WireChecks(d.wire, MaxCaseBytes)
           body == CaseChecks(d.wire.doc)
           named == d.wire.doc.id = d.stem
           allowed == d.source \in AllowedSources
           pin == << <<"INVARIANT", named>>, <<"INVARIANT", allowed>> >>
<1>1. Coded(wire, C)
  BY WireCoded
<1>2. Coded(body, C)
  BY CaseCoded, CodedMore
<1>3. Coded(pin, C) /\ (Holds(pin) <=> named /\ allowed)
  <2>1. /\ pin = [i \in 1..2 |-> pin[i]] /\ pin[1][2] = named /\ pin[2][2] = allowed
        /\ pin[1][1] = "INVARIANT" /\ pin[2][1] = "INVARIANT"
    OBVIOUS
  <2> HIDE DEF pin, named, allowed
  <2>2. Coded(pin, C)
    BY <2>1 DEF Coded, IsList, Range, Codes
  <2>3. Holds(pin) <=> pin[1][2] /\ pin[2][2]
    BY <2>1 DEF Holds, Range
  <2> QED
    BY <2>1, <2>2, <2>3
<1>4. /\ PinnedCaseChecks(d) = (wire \o body) \o pin
      /\ Pinned(d) <=> FirstFailure(wire \o body) = "ok" /\ named /\ allowed
  BY DEF PinnedCaseChecks, Pinned, LoadCase
<1> HIDE DEF wire, body, pin, named, allowed
<1>5. /\ Coded(wire \o body, C)
      /\ FirstFailure(wire \o body) = "ok" <=> Holds(wire \o body)
  BY <1>1, <1>2, CodedConcat, FirstFailureOk
<1> HIDE DEF C
<1>6. /\ Coded((wire \o body) \o pin, C)
      /\ Holds((wire \o body) \o pin) <=> Holds(wire \o body) /\ Holds(pin)
  BY <1>3, <1>5, CodedConcat
<1> QED
  BY <1>3, <1>4, <1>5, <1>6 DEF C

\* A file read in one piece is accepted as a case when what it holds is pinned.
LEMMA CaseFileExact ==
  ASSUME NEW h, IsFile(h.file)
  PROVE  FirstFailure(CaseFileChecks(h)) = "ok" <=>
            ~h.moved /\ \A d \in h.file.doc : Pinned(d)
<1> DEFINE moved == << <<"INVARIANT", ~h.moved>> >>
<1>1. \A C : Codes \subseteq C => Coded(moved, C) /\ (Holds(moved) <=> ~h.moved)
  <2> DEFINE still == ~h.moved
             x == <<"INVARIANT", still>>
  <2>1. x[1] \in Codes /\ x[1] # "ok" /\ x[2] = still /\ moved = <<x>>
    BY DEF Codes
  <2> HIDE DEF x, still, moved
  <2>2. \A C : Codes \subseteq C => Coded(moved, C) /\ (Holds(moved) <=> still)
    BY <2>1, CodedOne
  <2> QED
    BY <2>2 DEF still
<1>2. CaseFileChecks(h) = moved \o IfAny(PinnedCaseChecks, h.file.doc)
  BY DEF CaseFileChecks
<1> HIDE DEF moved
<1>3. CASE h.file.doc = {}
  <2>1. IfAny(PinnedCaseChecks, h.file.doc) = <<>>
    BY <1>3 DEF IfAny
  <2>2. Coded(<<>>, Codes) /\ Holds(<<>>)
    BY CodedNone DEF Holds, Range
  <2>3. Coded(moved, Codes) /\ (Holds(moved) <=> ~h.moved)
    BY <1>1
  <2>4. /\ Coded(moved \o <<>>, Codes)
        /\ Holds(moved \o <<>>) <=> Holds(moved) /\ Holds(<<>>)
    BY <2>2, <2>3, CodedConcat
  <2>5. FirstFailure(moved \o <<>>) = "ok" <=> Holds(moved \o <<>>)
    BY <2>4, FirstFailureOk
  <2> QED
    BY <1>2, <1>3, <2>1, <2>2, <2>3, <2>4, <2>5
<1>4. CASE h.file.doc # {}
  <2> DEFINE d == CHOOSE x \in h.file.doc : TRUE
             C == Codes \cup {d.wire.parse}
  <2>1. d \in h.file.doc /\ IsCase(d.wire.doc) /\ \A e \in h.file.doc : e = d
    BY <1>4 DEF IsFile
  <2>2. IfAny(PinnedCaseChecks, h.file.doc) = PinnedCaseChecks(d)
    BY <1>4 DEF IfAny
  <2> HIDE DEF d
  <2>3. Coded(PinnedCaseChecks(d), C) /\ (Holds(PinnedCaseChecks(d)) <=> Pinned(d))
    BY <2>1, PinnedExact
  <2>4. Coded(moved, C) /\ (Holds(moved) <=> ~h.moved)
    BY <1>1
  <2> HIDE DEF C
  <2>5. FirstFailure(moved \o PinnedCaseChecks(d)) = "ok" <=> ~h.moved /\ Pinned(d)
    BY <2>3, <2>4, CodedConcat, FirstFailureOk
  <2> QED
    BY <1>2, <2>1, <2>2, <2>5
<1> QED
  BY <1>3, <1>4

\* Opening a path of the allowed ones (_stable_read_regular).
LEMMA OpenHolds ==
  ASSUME ManifestInv, NEW p \in {"manifest"} \cup Corpus \cup AllowedSources \cup RunnerPaths,
         NEW gone \in Codes, Open(p, gone)
  PROVE  /\ opened' \subseteq {"manifest"} \cup Corpus \cup AllowedSources \cup RunnerPaths
         /\ \/ /\ held' = {} /\ at' = "done" /\ verdict' # "ok"
            \/ /\ at' = at /\ todo' = todo /\ verdict' = verdict
               /\ \E f \in tree[p] :
                     /\ f.kind = "file"
                     /\ held' = {[path |-> p, file |-> f, moved |-> FALSE]}
<1> USE DEF ManifestInv
<1>1. opened' \subseteq {"manifest"} \cup Corpus \cup AllowedSources \cup RunnerPaths
  BY DEF Open, Bounded
<1> DEFINE code == FirstFailure(OpenChecks(p, gone))
<1>2. CASE code # "ok"
  BY <1>1, <1>2 DEF Open, Raise
<1>3. CASE code = "ok"
  <2>1. tree[p] # {} /\ \A f \in tree[p] : f.kind = "file"
    BY <1>3, OpenCoded, FirstFailureOk DEF Plain
  <2> DEFINE f == CHOOSE f \in tree[p] : TRUE
  <2>2. f \in tree[p] /\ f.kind = "file"
    BY <2>1
  <2>3. /\ held' = {[path |-> p, file |-> f, moved |-> FALSE]}
        /\ at' = at /\ todo' = todo /\ verdict' = verdict
    BY <1>3 DEF Open
  <2> QED
    BY <1>1, <2>2, <2>3
<1> QED
  BY <1>2, <1>3

\* The steps that only read leave the tree and its record alone.
LEMMA TreeNext ==
  ASSUME ManifestInv, NextM
  PROVE  /\ TreeHolds' /\ DOMAIN was' = DOMAIN was
         /\ \A p \in Range(Paths) : was[p] \subseteq was'[p]
<1> USE DEF ManifestInv
<1>1. CASE Edit
  <2>1. PICK p \in {"example", "case1", "program", "runner"} :
           \/ \E data \in {2, 3}, f \in tree[p] :
                 tree' = [tree EXCEPT ![p] = {[f EXCEPT !.data = data]}]
           \/ tree' = [tree EXCEPT ![p] = {[File(2) EXCEPT !.doc = f.doc] : f \in tree[p]}]
           \/ tree' = [tree EXCEPT ![p] = {}]
    BY <1>1 DEF Edit
  <2>2. p \in Range(Paths)
    BY PathsAre
  <2>3. was' = [q \in DOMAIN was |-> was[q] \cup tree'[q]]
    BY <1>1 DEF Edit
  <2>4. \A f, g \in tree'[p] : f = g /\ IsFile(f)
    <3>1. CASE \E data \in {2, 3}, f \in tree[p] :
                 tree' = [tree EXCEPT ![p] = {[f EXCEPT !.data = data]}]
      <4>1. PICK data \in {2, 3}, f \in tree[p] :
                   tree' = [tree EXCEPT ![p] = {[f EXCEPT !.data = data]}]
        BY <3>1
      <4>2. tree'[p] = {[f EXCEPT !.data = data]} /\ IsFile(f)
        BY <2>2, <4>1 DEF TreeHolds
      <4>3. DOMAIN [f EXCEPT !.data = data] = DOMAIN f /\ [f EXCEPT !.data = data].doc = f.doc
        BY <4>2 DEF IsFile
      <4> QED
        BY <4>2, <4>3 DEF IsFile
    <3>2. CASE tree' = [tree EXCEPT ![p] = {[File(2) EXCEPT !.doc = f.doc] : f \in tree[p]}]
      <4>1. tree'[p] = {[File(2) EXCEPT !.doc = f.doc] : f \in tree[p]}
        BY <2>2, <3>2 DEF TreeHolds
      <4>2. ASSUME NEW f \in tree[p] PROVE IsFile([File(2) EXCEPT !.doc = f.doc])
        <5>1. IsFile(f)
          BY <2>2 DEF TreeHolds
        <5>2. /\ DOMAIN [File(2) EXCEPT !.doc = f.doc] = {"kind", "data", "nlink", "doc"}
              /\ [File(2) EXCEPT !.doc = f.doc].doc = f.doc
          BY DEF File
        <5> QED
          BY <5>1, <5>2 DEF IsFile
      <4>3. \A f, g \in tree[p] : f = g
        BY <2>2 DEF TreeHolds
      <4> QED
        BY <4>1, <4>2, <4>3
    <3>3. CASE tree' = [tree EXCEPT ![p] = {}]
      BY <2>2, <3>3 DEF TreeHolds
    <3> QED
      BY <2>1, <3>1, <3>2, <3>3
  <2>5. DOMAIN tree' = DOMAIN tree /\ \A q \in Range(Paths) \ {p} : tree'[q] = tree[q]
    BY <2>1 DEF TreeHolds
  <2> QED
    BY <2>3, <2>4, <2>5 DEF TreeHolds
<1>2. CASE UNCHANGED <<tree, was>>
  BY <1>2 DEF TreeHolds
<1> QED
  BY <1>1, <1>2 DEF NextM, OpenManifest, ReadManifest, Walk, OpenCase, ReadCase, Join,
        OpenListed, ReadListed, Accept

\* What is open stays a file of the record, whatever is done to its path.
LEMMA HeldNext ==
  ASSUME ManifestInv, NextM
  PROVE  HeldHolds'
<1> USE DEF ManifestInv
<1>1. \A p \in Range(Paths) : was[p] \subseteq was'[p]
  BY TreeNext
<1>2. ASSUME NEW p \in Range(Paths), was' = was, NEW f \in tree[p], f.kind = "file",
             held' = {[path |-> p, file |-> f, moved |-> FALSE]}
      PROVE  HeldHolds'
  BY <1>2 DEF HeldHolds, TreeHolds
<1>3. CASE OpenManifest \/ OpenCase \/ OpenListed
  <2>1. \E p \in {"manifest"} \cup Corpus \cup AllowedSources \cup RunnerPaths,
            gone \in Codes : Open(p, gone) /\ was' = was
    <3>1. CASE OpenManifest
      BY <3>1 DEF OpenManifest, Codes
    <3>2. CASE OpenCase
      <4>1. First(todo) \in CasePaths
        BY <3>2, NamedPaths, FirstIn DEF OpenCase, Stages
      <4> QED
        BY <3>2, <4>1, NamedPaths DEF OpenCase, Codes
    <3>3. CASE OpenListed
      <4>1. todo \subseteq Corpus \cup AllowedSources \cup RunnerPaths
        BY <3>3 DEF OpenListed, Stages, Bounded, Allowlist
      <4>2. First(todo) \in todo
        BY <3>3, <4>1, NamedPaths, FirstIn DEF OpenListed
      <4> QED
        BY <3>3, <4>1, <4>2 DEF OpenListed, Codes
    <3> QED
      BY <1>3, <3>1, <3>2, <3>3
  <2>2. PICK p \in {"manifest"} \cup Corpus \cup AllowedSources \cup RunnerPaths,
             gone \in Codes : Open(p, gone) /\ was' = was
    BY <2>1
  <2>3. CASE held' = {}
    BY <2>3 DEF HeldHolds
  <2>4. CASE held' # {}
    <3>1. p \in Range(Paths)
      BY NamedPaths
    <3>2. \E f \in tree[p] : f.kind = "file" /\ held' = {[path |-> p, file |-> f, moved |-> FALSE]}
      BY <2>2, <2>4, OpenHolds
    <3> QED
      BY <1>2, <2>2, <3>1, <3>2
  <2> QED
    BY <2>3, <2>4
<1>4. CASE ReadManifest \/ ReadCase \/ ReadListed \/ Walk \/ Join \/ Accept
  <2>1. (held' = {} \/ held' = held) /\ was' = was
    BY <1>4 DEF ReadManifest, ReadCase, ReadListed, Walk, Join, Accept, Raise
  <2> QED
    BY <2>1 DEF HeldHolds
<1>5. CASE Edit
  <2>1. \/ held' = held
        \/ \E p \in {"example", "case1", "program", "runner"} :
              held' = {[h EXCEPT !.moved = @ \/ h.path = p] : h \in held}
    BY <1>5 DEF Edit
  <2>2. CASE held' = held
    BY <1>1, <2>2 DEF HeldHolds
  <2>3. ASSUME NEW p, held' = {[h EXCEPT !.moved = @ \/ h.path = p] : h \in held}
        PROVE  HeldHolds'
    <3>1. ASSUME NEW h \in held, NEW m
          PROVE  /\ DOMAIN [h EXCEPT !.moved = m] = {"path", "file", "moved"}
                 /\ [h EXCEPT !.moved = m].path = h.path
                 /\ [h EXCEPT !.moved = m].file = h.file
      BY DEF HeldHolds
    <3> QED
      BY <1>1, <2>3, <3>1 DEF HeldHolds
  <2> QED
    BY <2>1, <2>2, <2>3
<1> QED
  BY <1>3, <1>4, <1>5 DEF NextM

\* A step that opens a path opens one of the allowed ones, and stays at its
\* stage or ends the check with a refusal.
LEMMA Opening ==
  ASSUME ManifestInv, OpenManifest \/ OpenCase \/ OpenListed
  PROVE  /\ opened' \subseteq {"manifest"} \cup Corpus \cup AllowedSources \cup RunnerPaths
         /\ \/ held' = {} /\ at' = "done" /\ verdict' # "ok"
            \/ /\ at' = at /\ todo' = todo /\ verdict' = verdict
               /\ \A h \in held' : at = "files" => h.path \in todo
<1> USE DEF ManifestInv
<1>1. CASE OpenManifest
  <2>1. Open("manifest", "PATH") /\ "PATH" \in Codes /\ at = "manifest"
    BY <1>1 DEF OpenManifest, Codes
  <2> QED
    BY <2>1, OpenHolds
<1>2. CASE OpenCase
  <2>1. First(todo) \in CasePaths
    BY <1>2, NamedPaths, FirstIn DEF OpenCase, Stages
  <2>2. Open(First(todo), "PATH") /\ "PATH" \in Codes /\ at = "cases"
    BY <1>2 DEF OpenCase, Codes
  <2>3. First(todo) \in {"manifest"} \cup Corpus \cup AllowedSources \cup RunnerPaths
    BY <2>1, NamedPaths
  <2> QED
    BY <2>2, <2>3, OpenHolds
<1>3. CASE OpenListed
  <2>1. todo \subseteq Corpus \cup AllowedSources \cup RunnerPaths
    BY <1>3 DEF OpenListed, Stages, Bounded, Allowlist
  <2>2. First(todo) \in todo
    BY <1>3, <2>1, NamedPaths, FirstIn DEF OpenListed
  <2>3. Open(First(todo), "INVARIANT") /\ "INVARIANT" \in Codes
    BY <1>3 DEF OpenListed, Codes
  <2>4. First(todo) \in {"manifest"} \cup Corpus \cup AllowedSources \cup RunnerPaths
    BY <2>1, <2>2
  <2>5. \/ held' = {} /\ at' = "done" /\ verdict' # "ok"
        \/ /\ at' = at /\ todo' = todo /\ verdict' = verdict
           /\ \E f \in tree[First(todo)] :
                 held' = {[path |-> First(todo), file |-> f, moved |-> FALSE]}
    BY <2>3, <2>4, OpenHolds
  <2>6. opened' \subseteq {"manifest"} \cup Corpus \cup AllowedSources \cup RunnerPaths
    BY <2>3, <2>4, OpenHolds
  <2> QED
    BY <2>2, <2>5, <2>6
<1> QED
  BY <1>1, <1>2, <1>3

\* Nothing is collected or opened but what is allowed.
LEMMA BoundedNext ==
  ASSUME ManifestInv, NextM
  PROVE  Bounded'
<1> USE DEF ManifestInv
<1>1. CASE OpenManifest \/ OpenCase \/ OpenListed
  <2>1. inventory' = inventory /\ sources' = sources
    BY <1>1 DEF OpenManifest, OpenCase, OpenListed
  <2> QED
    BY <1>1, <2>1, Opening DEF Bounded
<1>2. CASE ReadCase
  <2> DEFINE h == CHOOSE h \in held : TRUE
             code == FirstFailure(CaseFileChecks(h))
  <2>1. inventory' = inventory /\ opened' = opened
    BY <1>2 DEF ReadCase
  <2>2. h \in held /\ IsFile(h.file)
    BY <1>2 DEF ReadCase, HeldHolds
  <2>3. \/ sources' = sources
        \/ code = "ok" /\ sources' = sources \cup {d.source : d \in h.file.doc}
    BY <1>2 DEF ReadCase
  <2> HIDE DEF h
  <2>4. code = "ok" => {d.source : d \in h.file.doc} \subseteq AllowedSources
    BY <2>2, CaseFileExact DEF Pinned
  <2> QED
    BY <2>1, <2>3, <2>4 DEF Bounded
<1>3. CASE Walk
  <2>1. sources' = sources /\ opened' = opened /\ inventory' \subseteq inventory \cup Corpus
    BY <1>3 DEF Walk, Present
  <2> QED
    BY <2>1 DEF Bounded
<1>4. CASE ReadManifest \/ Join \/ ReadListed \/ Accept \/ Edit
  BY <1>4 DEF ReadManifest, Join, ReadListed, Accept, Edit, Bounded
<1> QED
  BY <1>1, <1>2, <1>3, <1>4 DEF NextM

\* What was there stays on record.
LEMMA RecordGrows ==
  ASSUME ManifestInv, NextM, NEW e \in Entries, e.path \in Range(Paths), WasThere(e)
  PROVE  WasThere(e)'
<1>1. was[e.path] \subseteq was'[e.path]
  BY TreeNext
<1> QED
  BY <1>1 DEF WasThere

\* The join that starts the reading of the list passes the allowlist in its
\* roles.
LEMMA JoinExact ==
  ASSUME Join
  PROVE  \/ /\ at' = "files" /\ todo' = Listed /\ held' = {} /\ verdict' = verdict
            /\ sources # {} /\ Listed = Allowlist /\ RolesFit
         \/ /\ at' = "done" /\ held' = {} /\ verdict' # "ok"
            /\ ~(sources # {} /\ Listed = Allowlist /\ RolesFit)
<1> DEFINE some == sources # {}
           exact == Listed = Allowlist
           fit == RolesFit
           s == << <<"INVARIANT", some>>, <<"INVARIANT", exact>>, <<"INVARIANT", fit>> >>
<1>1. \/ FirstFailure(s) = "ok" /\ at' = "files" /\ todo' = Listed /\ held' = {} /\ verdict' = verdict
      \/ FirstFailure(s) # "ok" /\ at' = "done" /\ held' = {} /\ verdict' = FirstFailure(s)
  BY DEF Join, Raise
<1>2. some \in BOOLEAN /\ exact \in BOOLEAN /\ fit \in BOOLEAN
  BY DEF RolesFit
<1> HIDE DEF some, exact, fit
<1>3. "INVARIANT" \in Codes
  BY DEF Codes
<1>4. FirstFailure(s) = "ok" <=> some /\ exact /\ fit
  BY <1>2, <1>3, ThreeChecks
<1> HIDE DEF s
<1>5. CASE FirstFailure(s) = "ok"
  BY <1>1, <1>4, <1>5 DEF some, exact, fit
<1>6. CASE FirstFailure(s) # "ok"
  BY <1>1, <1>4, <1>6 DEF some, exact, fit
<1> QED
  BY <1>5, <1>6

\* A listed file that is read has the size and the hash of its entry.
LEMMA StagesNext ==
  ASSUME ManifestInv, NextM
  PROVE  Stages'
<1> USE DEF ManifestInv
<1>1. verdict = "none" /\ at # "done" /\ manifest' = manifest
  BY DEF Stages, NextM, OpenManifest, ReadManifest, Walk, OpenCase, ReadCase, Join,
         OpenListed, ReadListed, Accept, Edit
<1>2. Entries' = Entries /\ Listed' = Listed
  BY <1>1 DEF Entries, Listed
<1>3. at = "files" => Allowlist \subseteq Range(Paths)
  BY NamedPaths DEF Bounded, Allowlist
<1>4. at = "files" => \A e \in Entries : e.path \notin todo => WasThere(e)'
  BY <1>3, RecordGrows DEF Stages, Listed
<1>5. CASE at' = "done" /\ verdict' # "ok"
  BY <1>5 DEF Stages
<1>6. CASE OpenManifest \/ OpenCase \/ OpenListed
  <2>1. \/ held' = {} /\ at' = "done" /\ verdict' # "ok"
        \/ /\ at' = at /\ todo' = todo /\ verdict' = verdict
           /\ \A h \in held' : at = "files" => h.path \in todo
    BY <1>6, Opening
  <2>2. Allowlist' = Allowlist
    BY <1>6 DEF Allowlist, OpenManifest, OpenCase, OpenListed
  <2>3. CASE /\ at' = at /\ todo' = todo /\ verdict' = verdict
             /\ \A h \in held' : at = "files" => h.path \in todo
    BY <1>1, <1>2, <1>4, <2>2, <2>3 DEF Stages
  <2> QED
    BY <1>5, <2>1, <2>3
<1>7. CASE ReadManifest \/ Walk
  <2>1. \/ at' = "done" /\ verdict' # "ok"
        \/ at' = "walk" /\ verdict' = verdict
        \/ at' = "cases" /\ todo' \subseteq CasePaths /\ verdict' = verdict
    BY <1>7 DEF ReadManifest, Walk, Raise
  <2> QED
    BY <1>1, <1>5, <2>1 DEF Stages
<1>8. CASE ReadCase
  <2>1. \/ at' = "done" /\ verdict' # "ok"
        \/ at' = "cases" /\ todo' \subseteq todo /\ verdict' = verdict /\ at = "cases"
    BY <1>8 DEF ReadCase, Raise
  <2> QED
    BY <1>1, <1>5, <2>1 DEF Stages
<1>9. CASE Join
  <2>1. CASE at' = "done"
    BY <1>9, <1>5, <2>1, JoinExact
  <2>2. CASE at' # "done"
    <3>1. /\ at' = "files" /\ Listed = Allowlist /\ todo' = Listed /\ held' = {}
          /\ verdict' = verdict
      BY <1>9, <2>2, JoinExact
    <3>2. Allowlist' = Allowlist
      BY <1>9 DEF Join, Allowlist
    <3>3. \A e \in Entries : e.path \in todo'
      BY <3>1 DEF Listed
    <3> QED
      BY <1>1, <1>2, <3>1, <3>2, <3>3 DEF Stages
  <2> QED
    BY <2>1, <2>2
<1>10. CASE ReadListed
  <2> DEFINE h == CHOOSE h \in held : TRUE
             good == ~h.moved /\ \A e \in Entries : e.path = h.path =>
                                    e.size = SizeOf(h.file.data) /\ e.sha256 = h.file.data
  <2>1. h \in held /\ at = "files" /\ was' = was
    BY <1>10 DEF ReadListed
  <2>2. \/ at' = "done" /\ verdict' # "ok"
        \/ good /\ held' = {} /\ todo' = todo \ {h.path} /\ at' = at /\ verdict' = verdict
    BY <1>10 DEF ReadListed, Raise
  <2>3. Allowlist' = Allowlist
    BY <1>10 DEF ReadListed, Allowlist
  <2>4. h.file \in was[h.path] /\ h.file.kind = "file"
    BY <2>1 DEF HeldHolds
  <2> HIDE DEF h
  <2>5. good => \A e \in Entries : e.path = h.path => WasThere(e)
    BY <2>4 DEF WasThere
  <2>6. good => \A e \in Entries : e.path = h.path => WasThere(e)'
    BY <2>1, <2>5 DEF WasThere
  <2> HIDE DEF good
  <2>7. CASE good /\ held' = {} /\ todo' = todo \ {h.path} /\ at' = at /\ verdict' = verdict
    <3>1. \A e \in Entries : e.path \notin todo' => WasThere(e)'
      BY <1>4, <2>1, <2>6, <2>7
    <3> QED
      BY <1>1, <1>2, <2>1, <2>3, <2>7, <3>1 DEF Stages
  <2> QED
    BY <1>5, <2>2, <2>7
<1>11. CASE Accept
  <2>1. at' = "done" /\ at = "files" /\ todo = {}
    BY <1>11 DEF Accept
  <2>2. \A e \in Entries' : WasThere(e)'
    BY <1>2, <1>4, <2>1
  <2> QED
    BY <2>1, <2>2 DEF Stages
<1>12. CASE Edit
  <2>1. at' = at /\ todo' = todo /\ verdict' = verdict /\ Allowlist' = Allowlist
    BY <1>12 DEF Edit, Allowlist
  <2>2. at = "files" => \A h \in held' : h.path \in todo
    <3>1. \/ held' = held
          \/ \E p \in {"example", "case1", "program", "runner"} :
                held' = {[h EXCEPT !.moved = @ \/ h.path = p] : h \in held}
      BY <1>12 DEF Edit
    <3>2. ASSUME NEW g \in held' PROVE \E h \in held : g.path = h.path
      <4>1. CASE held' = held
        BY <3>2, <4>1
      <4>2. CASE \E p \in {"example", "case1", "program", "runner"} :
                    held' = {[h EXCEPT !.moved = @ \/ h.path = p] : h \in held}
        <5>1. PICK p : held' = {[h EXCEPT !.moved = @ \/ h.path = p] : h \in held}
          BY <4>2
        <5>2. PICK h \in held : g = [h EXCEPT !.moved = @ \/ h.path = p]
          BY <3>2, <5>1
        <5> QED
          BY <5>2 DEF HeldHolds
      <4> QED
        BY <3>1, <4>1, <4>2
    <3> QED
      BY <3>2 DEF Stages
  <2> QED
    BY <1>1, <1>2, <1>4, <2>1, <2>2 DEF Stages
<1> QED
  BY <1>6, <1>7, <1>8, <1>9, <1>10, <1>11, <1>12 DEF NextM

\* What the check accepts was there, each file with its size and its hash,
\* however others edit the tree meanwhile, and a path is opened only when the
\* cases, the runners or the corpus call for it, never because a manifest
\* lists it (validate_manifest_at).
THEOREM AcceptedWasThereCorrect == SpecM => []AcceptedWasThere
<1>1. InitM => ManifestInv
  <2> SUFFICES ASSUME InitM PROVE ManifestInv
    OBVIOUS
  <2>1. PICK t \in Trees : tree = t.tree
    BY DEF InitM
  <2>2. TreeHolds
    BY <2>1, TreesAssumption DEF InitM, TreeHolds
  <2> QED
    BY <2>2 DEF InitM, ManifestInv, HeldHolds, Bounded, Stages
<1>2. ManifestInv /\ [NextM]_mvars => ManifestInv'
  <2> SUFFICES ASSUME ManifestInv, [NextM]_mvars PROVE ManifestInv'
    OBVIOUS
  <2>1. CASE NextM
    BY <2>1, TreeNext, HeldNext, BoundedNext, StagesNext DEF ManifestInv
  <2>2. CASE UNCHANGED mvars
    BY <2>2 DEF mvars, ManifestInv, TreeHolds, HeldHolds, Bounded, Stages, Listed, Entries,
                Allowlist, WasThere
  <2> QED
    BY <2>1, <2>2
<1>3. ManifestInv => AcceptedWasThere
  BY DEF ManifestInv, Stages, Bounded, WasThere, AcceptedWasThere
<1> QED
  BY <1>1, <1>2, <1>3, PTL DEF SpecM


-----------------------------------------------------------------------------
(* The manifest of a tree nobody edits.                                    *)

\* An entry of the manifest.
LEMMA EntryCoded ==
  ASSUME NEW e
  PROVE  Coded(EntryChecks(e), Codes)
<1> DEFINE s == EntryChecks(e)
<1>1. s = [i \in 1..6 |-> s[i]]
  BY DEF EntryChecks
<1>2. /\ s[1][1] = "SCHEMA" /\ s[2][1] = "PATH" /\ s[3][1] = "SCHEMA" /\ s[4][1] = "SCHEMA"
      /\ s[5][1] = "SCHEMA" /\ s[6][1] = "INVARIANT"
  BY DEF EntryChecks
<1>3. \A i \in 1..6 : s[i][1] \in Codes
  BY <1>2 DEF Codes
<1> HIDE DEF s
<1>4. Coded(s, Codes)
  BY <1>1, <1>3, Literal
<1> QED
  BY <1>4 DEF s

\* The manifest (validate_manifest_at), read in one piece or not.
LEMMA ManifestCoded ==
  ASSUME NEW w, IsList(w.doc.files), NEW still \in BOOLEAN
  PROVE  FirstFailure(<< <<"INVARIANT", still>> >> \o ManifestFileChecks(w)) = "ok"
            <=> still /\ WellFormed(w)
<1> DEFINE m == w.doc
           C == Codes \cup {w.parse}
           wire == WireChecks(w, MaxManifestBytes)
           head == << <<"SCHEMA", Well(m, "keys")>>,
                      <<"INVARIANT", m.files # <<>> >>,
                      <<"LIMIT", Len(m.files) <= MaxManifestFiles>> >>
           seqs == [i \in DOMAIN m.files |-> EntryChecks(m.files[i])]
           order == << <<"INVARIANT",
                         Ascending([i \in DOMAIN m.files |-> RankOf(m.files[i].path)])>> >>
           read == << <<"INVARIANT", still>> >>
<1>1. Coded(head, Codes)
  BY DEF Coded, IsList, Range, Codes
<1>2. Coded(order, Codes)
  BY CodedOne DEF Codes
<1>3. Coded(read, Codes) /\ (Holds(read) <=> still)
  BY CodedOne DEF Codes
<1>4. Coded(ForEach(EntryChecks, m.files), Codes)
  <2>1. Len(m.files) \in Nat /\ DOMAIN m.files = 1..Len(m.files)
    BY DEF IsList
  <2>2. seqs = [i \in 1..Len(m.files) |-> seqs[i]]
    BY <2>1
  <2>3. \A i \in 1..Len(m.files) : Coded(seqs[i], Codes)
    BY <2>1, EntryCoded
  <2>4. ForEach(EntryChecks, m.files) = FlattenSeq(seqs)
    BY DEF ForEach
  <2> HIDE DEF seqs
  <2> QED
    BY <2>1, <2>2, <2>3, <2>4, CodedFlatten
<1>5. ManifestChecks(m) = (head \o ForEach(EntryChecks, m.files)) \o order
  BY DEF ManifestChecks
<1> HIDE DEF head, order, read
<1>6. Coded(head \o ForEach(EntryChecks, m.files), Codes)
  BY <1>1, <1>4, CodedConcat
<1>7. Coded(ManifestChecks(m), C) /\ Coded(read, C) /\ Coded(wire, C)
  <2>1. Coded(ManifestChecks(m), Codes)
    BY <1>2, <1>5, <1>6, CodedConcat
  <2> QED
    BY <1>3, <2>1, CodedMore, WireCoded
<1>8. ManifestFileChecks(w) = wire \o ManifestChecks(m)
  BY DEF ManifestFileChecks
<1> HIDE DEF m, wire, C
<1>9. Coded(ManifestFileChecks(w), C)
  BY <1>7, <1>8, CodedConcat
<1>10. /\ Coded(read \o ManifestFileChecks(w), C)
       /\ Holds(read \o ManifestFileChecks(w)) <=> Holds(read) /\ Holds(ManifestFileChecks(w))
  BY <1>7, <1>9, CodedConcat
<1> QED
  BY <1>3, <1>9, <1>10, FirstFailureOk DEF read, WellFormed

\* The walk passes a tree without links whose files of the corpus are the
\* listed ones (_walk_corpus_regular_files).
LEMMA WalkExact ==
  ASSUME Walk
  PROVE  \/ /\ at' = "cases" /\ inventory' = Present /\ todo' = CasePaths \cap Present
            /\ held' = held /\ verdict' = verdict /\ {"cases", "corpus"} \cap linked = {}
            /\ Present = Listed \cap Corpus
         \/ /\ at' = "done" /\ held' = {} /\ verdict' # "ok"
            /\ ~ /\ {"cases", "corpus"} \cap linked = {}
                 /\ \A p \in Present : \A f \in tree[p] : f.kind = "file"
                 /\ Present = Listed \cap Corpus
<1> DEFINE reached == {"cases", "corpus"} \cap linked = {}
           plain == \A p \in Present : \A f \in tree[p] : f.kind = "file"
           joined == Present = Listed \cap Corpus
           s == << <<"PATH", reached>>, <<"PATH", plain>>, <<"INVARIANT", joined>> >>
<1>1. \/ /\ FirstFailure(s) = "ok" /\ at' = "cases" /\ inventory' = Present
         /\ todo' = CasePaths \cap Present /\ held' = held /\ verdict' = verdict
      \/ FirstFailure(s) # "ok" /\ at' = "done" /\ held' = {} /\ verdict' = FirstFailure(s)
  BY DEF Walk, Raise
<1>2. reached \in BOOLEAN /\ plain \in BOOLEAN /\ joined \in BOOLEAN
  OBVIOUS
<1> HIDE DEF reached, plain, joined
<1>3. "INVARIANT" \in Codes /\ "PATH" \in Codes
  BY DEF Codes
<1>4. FirstFailure(s) = "ok" <=> reached /\ plain /\ joined
  BY <1>2, <1>3, ThreeChecks
<1> HIDE DEF s
<1>5. CASE FirstFailure(s) = "ok"
  BY <1>1, <1>4, <1>5 DEF reached, joined
<1>6. CASE FirstFailure(s) # "ok"
  BY <1>1, <1>4, <1>6 DEF reached, plain, joined
<1> QED
  BY <1>5, <1>6

\* What a listed file is asked for.
Fits(e) == Plain(e.path) /\ \A f \in tree[e.path] : f.data = e.sha256 /\ e.size = SizeOf(f.data)

\* The walk found what the tree holds of the corpus, and the list names it.
Walked ==
  {"cases", "corpus"} \cap linked = {} /\ Present = Listed \cap Corpus /\ inventory = Present

\* The cases but those still to read are pinned, to the sources collected.
CasesRead(rest) ==
  /\ \A d \in DocsOf(CasePaths \ rest) : Pinned(d)
  /\ sources = {d.source : d \in DocsOf(CasePaths \ rest)}

\* At every stage, what has passed describes the tree so far; a verdict is the
\* one Describes calls for.
Exact ==
  /\ \A h \in held : ~h.moved /\ tree[h.path] = {h.file} /\ Plain(h.path)
  /\ at = "manifest" => \A h \in held : h.path = "manifest"
  /\ at \in {"manifest", "walk"} => sources = {}
  /\ at = "walk" => held = {}
  /\ at \in {"walk", "cases", "files"} =>
        Plain("manifest") /\ WellFormed(manifest)
  /\ at \in {"cases", "files"} => Walked
  /\ at = "cases" => /\ todo \subseteq Present /\ \A h \in held : h.path \in todo
                     /\ CasesRead(todo)
  /\ at = "files" => /\ CasesRead({}) /\ sources # {} /\ RolesFit
                     /\ \A e \in Entries : e.path \notin todo => Fits(e)
  /\ at = "done" => (verdict = "ok" <=> Describes)

QuietInv == edits \in Nat /\ IsList(manifest.doc.files) /\ (edits = 0 => Exact)

\* A step of the check alone, over a tree nobody has edited.
Alone == ManifestInv /\ QuietInv /\ edits = 0 /\ UNCHANGED <<tree, manifest, linked, edits>>

\* What a description says is of the tree and the manifest alone.
LEMMA SameTree ==
  ASSUME UNCHANGED <<tree, manifest, linked>>
  PROVE  /\ Describes' = Describes /\ Present' = Present /\ Entries' = Entries
         /\ Listed' = Listed
         /\ \A p : Plain(p)' = Plain(p) /\ DocsOf(p)' = DocsOf(p)
         /\ \A e : Fits(e)' = Fits(e)
BY DEF Describes, Present, Entries, Listed, Plain, DocsOf, Fits

\* A refusal is right when the manifest does not describe the tree.
LEMMA Refused ==
  ASSUME Alone, held' = {}, at' = "done", verdict' # "ok", ~Describes
  PROVE  Exact'
BY SameTree DEF Alone, Exact

\* What a described tree holds at the paths the check opens.
LEMMA DescribedPlain ==
  ASSUME Describes
  PROVE  /\ Plain("manifest") /\ \A e \in Entries : Fits(e)
         /\ \A p \in Listed : Plain(p)
         /\ Present = Listed \cap Corpus
<1>1. \A e \in Entries : Fits(e) /\ Plain(e.path) /\ tree[e.path] # {}
  BY DEF Describes, Fits, Plain
<1>2. \A p \in Listed : Plain(p) /\ tree[p] # {}
  BY <1>1 DEF Listed
<1>3. Present \subseteq Listed
  BY DEF Describes
<1> QED
  BY <1>1, <1>2, <1>3 DEF Present, Describes

\* A path is opened when it is a plain file (_stable_read_regular).
LEMMA OpenExact ==
  ASSUME Alone, NEW p \in Range(Paths), NEW gone \in Codes, Open(p, gone)
  PROVE  \/ /\ Plain(p) /\ at' = at /\ todo' = todo /\ verdict' = verdict
            /\ \E f : tree[p] = {f} /\ held' = {[path |-> p, file |-> f, moved |-> FALSE]}
         \/ ~Plain(p) /\ held' = {} /\ at' = "done" /\ verdict' # "ok"
<1> DEFINE code == FirstFailure(OpenChecks(p, gone))
           f == CHOOSE f \in tree[p] : TRUE
<1>1. code = "ok" <=> Plain(p)
  BY OpenCoded, FirstFailureOk
<1>2. CASE code # "ok"
  BY <1>1, <1>2 DEF Open, Raise
<1>3. CASE code = "ok"
  <2>1. tree[p] = {f}
    BY <1>1, <1>3 DEF Plain, Alone, ManifestInv, TreeHolds
  <2>2. /\ held' = {[path |-> p, file |-> f, moved |-> FALSE]}
        /\ at' = at /\ todo' = todo /\ verdict' = verdict
    BY <1>3 DEF Open
  <2> QED
    BY <1>1, <1>3, <2>1, <2>2
<1> QED
  BY <1>2, <1>3

\* Opening a file keeps what is known, and a file that cannot be opened is one
\* a description asks for.
LEMMA ExactOpen ==
  ASSUME Alone, OpenManifest \/ OpenCase \/ OpenListed
  PROVE  Exact'
<1> USE DEF Alone, ManifestInv, QuietInv
<1>1. PICK p \in Range(Paths), gone \in Codes :
         /\ Open(p, gone)
         /\ \/ at = "manifest" /\ p = "manifest"
            \/ at = "cases" /\ p \in todo
            \/ at = "files" /\ p \in todo
  <2>1. CASE OpenManifest
    BY <2>1, NamedPaths DEF OpenManifest, Codes
  <2>2. CASE OpenCase
    <3>1. First(todo) \in todo /\ First(todo) \in CasePaths
      BY <2>2, NamedPaths, FirstIn DEF OpenCase, Stages
    <3> QED
      BY <2>2, <3>1, NamedPaths DEF OpenCase, Codes
  <2>3. CASE OpenListed
    <3>1. todo \subseteq Corpus \cup AllowedSources \cup RunnerPaths
      BY <2>3 DEF OpenListed, Stages, Bounded, Allowlist
    <3>2. First(todo) \in todo
      BY <2>3, <3>1, NamedPaths, FirstIn DEF OpenListed
    <3> QED
      BY <2>3, <3>1, <3>2, NamedPaths DEF OpenListed, Codes
  <2> QED
    BY <2>1, <2>2, <2>3
<1>2. inventory' = inventory /\ sources' = sources
  BY DEF OpenManifest, OpenCase, OpenListed
<1>3. CASE ~Plain(p)
  <2>1. ~Describes
    BY <1>1, <1>3, DescribedPlain DEF Exact, Stages
  <2> QED
    BY <1>1, <1>3, <2>1, OpenExact, Refused
<1>4. CASE Plain(p)
  <2>1. at' = at /\ todo' = todo /\ verdict' = verdict
    BY <1>1, <1>4, OpenExact
  <2>2. \A h \in held' : ~h.moved /\ tree[h.path] = {h.file} /\ h.path = p
    BY <1>1, <1>4, OpenExact
  <2>3. /\ Walked' = Walked /\ RolesFit' = RolesFit
        /\ CasesRead(todo)' = CasesRead(todo) /\ CasesRead({})' = CasesRead({})
    <3>1. Walked' = Walked /\ RolesFit' = RolesFit
      BY <1>2, SameTree DEF Walked, RolesFit
    <3>2. CasesRead(todo)' = CasesRead(todo) /\ CasesRead({})' = CasesRead({})
      BY <1>2, <2>1 DEF CasesRead, DocsOf
    <3> QED
      BY <3>1, <3>2
  <2>4. \A h \in held' : ~h.moved /\ tree'[h.path] = {h.file} /\ Plain(h.path)'
    BY <1>4, <2>2, SameTree
  <2>5. /\ at = "manifest" => \A h \in held' : h.path = "manifest"
        /\ at = "cases" => \A h \in held' : h.path \in todo
    BY <1>1, <2>2
  <2>6. at = "files" => \A e \in Entries : e.path \notin todo => Fits(e)'
    BY SameTree DEF Exact
  <2>7. at # "done" /\ at # "walk"
    BY <1>1
  <2> QED
    BY <1>2, <2>1, <2>3, <2>4, <2>5, <2>6, <2>7, SameTree DEF Exact
<1> QED
  BY <1>3, <1>4

\* The manifest is read in one piece, and is well formed when it is accepted.
LEMMA ExactManifest ==
  ASSUME Alone, ReadManifest
  PROVE  Exact'
<1> USE DEF Alone, ManifestInv, QuietInv
<1> DEFINE still == \A h \in held : ~h.moved
           code == FirstFailure(<< <<"INVARIANT", still>> >> \o ManifestFileChecks(manifest))
<1>1. still \in BOOLEAN /\ still /\ Plain("manifest") /\ at = "manifest" /\ sources = {}
  BY DEF Exact, ReadManifest
<1>2. code = "ok" <=> WellFormed(manifest)
  <2>1. still \in BOOLEAN
    BY <1>1
  <2> HIDE DEF still
  <2>2. code = "ok" <=> still /\ WellFormed(manifest)
    BY <2>1, ManifestCoded
  <2> QED
    BY <1>1, <2>2
<1>3. /\ inventory' = inventory /\ sources' = sources
      /\ \/ code # "ok" /\ held' = {} /\ at' = "done" /\ verdict' = code
         \/ code = "ok" /\ held' = {} /\ at' = "walk"
  BY DEF ReadManifest, Raise
<1> HIDE DEF code, still
<1>4. CASE code = "ok"
  <2>1. WellFormed(manifest)' /\ Plain("manifest")'
    BY <1>1, <1>2, <1>4, SameTree
  <2> QED
    BY <1>1, <1>3, <1>4, <2>1 DEF Exact
<1>5. CASE code # "ok"
  BY <1>2, <1>3, <1>5, Refused DEF Describes
<1> QED
  BY <1>4, <1>5

\* The walk refuses only what no manifest describes.
LEMMA ExactWalk ==
  ASSUME Alone, Walk
  PROVE  Exact'
<1> USE DEF Alone, ManifestInv, QuietInv
<1>1. at = "walk" /\ sources = {} /\ sources' = sources
  BY DEF Exact, Walk
<1>2. CASE at' = "done"
  <2>1. held' = {} /\ verdict' # "ok"
    BY <1>2, WalkExact
  <2>2. ~ /\ {"cases", "corpus"} \cap linked = {}
          /\ \A p \in Present : \A f \in tree[p] : f.kind = "file"
          /\ Present = Listed \cap Corpus
    BY <1>2, WalkExact
  <2>3. Describes => \A p \in Present : \A f \in tree[p] : f.kind = "file"
    BY DescribedPlain DEF Plain
  <2>4. ~Describes
    BY <2>2, <2>3, DescribedPlain DEF Describes
  <2> QED
    BY <1>2, <2>1, <2>4, Refused
<1>3. CASE at' # "done"
  <2>1. /\ at' = "cases" /\ inventory' = Present /\ todo' = CasePaths \cap Present
        /\ held' = held /\ verdict' = verdict /\ {"cases", "corpus"} \cap linked = {}
        /\ Present = Listed \cap Corpus
    BY <1>3, WalkExact
  <2>2. held = {}
    BY <1>1 DEF Exact
  <2>3. \A p \in CasePaths \ todo' : tree'[p] = {}
    BY <2>1, NamedPaths DEF Present
  <2>4. DocsOf(CasePaths \ todo)' = {}
    BY <2>3 DEF DocsOf
  <2>5. CasesRead(todo)'
    BY <1>1, <2>4 DEF CasesRead
  <2>6. Walked'
    BY <2>1, SameTree DEF Walked
  <2>7. Plain("manifest")' /\ WellFormed(manifest)'
    BY <1>1, SameTree DEF Exact
  <2> QED
    BY <2>1, <2>2, <2>5, <2>6, <2>7, SameTree DEF Exact
<1> QED
  BY <1>2, <1>3

\* A case is accepted when it is pinned, and its source collected.
LEMMA ExactCase ==
  ASSUME Alone, ReadCase
  PROVE  Exact'
<1> USE DEF Alone, ManifestInv, QuietInv
<1> DEFINE h == CHOOSE h \in held : TRUE
           code == FirstFailure(CaseFileChecks(h))
<1>1. /\ h \in held /\ at = "cases" /\ inventory' = inventory
      /\ \/ code # "ok" /\ held' = {} /\ at' = "done" /\ verdict' = code
         \/ /\ code = "ok" /\ held' = {} /\ todo' = todo \ {h.path} /\ at' = at
            /\ sources' = sources \cup {d.source : d \in h.file.doc} /\ verdict' = verdict
  BY DEF ReadCase, Raise
<1> HIDE DEF h
<1>2. /\ ~h.moved /\ tree[h.path] = {h.file} /\ h.path \in todo /\ todo \subseteq CasePaths
      /\ IsFile(h.file)
  BY <1>1 DEF Exact, Stages, HeldHolds
<1>3. code = "ok" <=> \A d \in h.file.doc : Pinned(d)
  BY <1>2, CaseFileExact
<1> HIDE DEF code
<1>4. CASE code # "ok"
  <2>1. h.file.doc \subseteq DocsOf(CasePaths)
    BY <1>2 DEF DocsOf
  <2>2. ~Describes
    BY <1>3, <1>4, <2>1 DEF Describes
  <2> QED
    BY <1>1, <1>4, <2>2, Refused
<1>5. CASE code = "ok"
  <2>1. CasePaths \ todo' = (CasePaths \ todo) \cup {h.path}
    BY <1>1, <1>2, <1>5
  <2>2. DocsOf(CasePaths \ todo)' = DocsOf(CasePaths \ todo) \cup h.file.doc
    BY <1>2, <2>1 DEF DocsOf
  <2>3. CasesRead(todo)
    BY <1>1 DEF Exact
  <2>4. CasesRead(todo)'
    BY <1>1, <1>3, <1>5, <2>2, <2>3 DEF CasesRead
  <2>5. Walked'
    BY <1>1, SameTree DEF Walked, Exact
  <2>6. Plain("manifest")' /\ WellFormed(manifest)'
    BY <1>1, SameTree DEF Exact
  <2>7. todo' \subseteq Present'
    BY <1>1, <1>5, SameTree DEF Exact
  <2> QED
    BY <1>1, <1>5, <2>4, <2>5, <2>6, <2>7 DEF Exact
<1> QED
  BY <1>4, <1>5

\* The roles of a list that is the allowlist are the ones its paths call for.
LEMMA Roles ==
  ASSUME Walked, Listed = Allowlist, sources \subseteq AllowedSources
  PROVE  RolesFit <=>
            \A e \in Entries : e.role = CASE e.path \in Corpus -> RoleFor(e.path)
                                          [] e.path \in RunnerPaths -> "runner"
                                          [] OTHER -> "source"
<1> DEFINE fit(e) == /\ e.path \in sources => e.role = "source"
                     /\ e.path \in RunnerPaths <=> e.role = "runner"
                     /\ e.role = "case" => e.path \in CasePaths
                     /\ e.path \in inventory => e.role = RoleFor(e.path)
           called(e) == e.role = CASE e.path \in Corpus -> RoleFor(e.path)
                                   [] e.path \in RunnerPaths -> "runner"
                                   [] OTHER -> "source"
<1>1. ASSUME NEW e \in Entries PROVE fit(e) <=> called(e)
  <2>1. e.path \in inventory \cup sources \cup RunnerPaths
    BY DEF Listed, Allowlist
  <2>2. e.path \in Corpus <=> e.path \in inventory
    BY DEF Walked, Listed, Present
  <2>3. CASE e.path \in Corpus
    BY <2>1, <2>2, <2>3 DEF Corpus, RunnerPaths, CasePaths, AllowedSources, RoleFor
  <2>4. CASE e.path \in RunnerPaths
    BY <2>1, <2>2, <2>4 DEF Corpus, RunnerPaths, CasePaths, AllowedSources
  <2>5. CASE e.path \notin Corpus /\ e.path \notin RunnerPaths
    BY <2>1, <2>2, <2>5 DEF Corpus, RunnerPaths, CasePaths, AllowedSources
  <2> QED
    BY <2>3, <2>4, <2>5
<1> HIDE DEF called
<1>2. RolesFit <=> \A e \in Entries : fit(e)
  BY DEF RolesFit
<1> HIDE DEF fit
<1>3. RolesFit <=> \A e \in Entries : called(e)
  BY <1>1, <1>2
<1> QED
  BY <1>3 DEF called

\* The list is read when it is the allowlist in its roles.
LEMMA ExactJoin ==
  ASSUME Alone, Join
  PROVE  Exact'
<1> USE DEF Alone, ManifestInv, QuietInv
<1> DEFINE called == \A e \in Entries : e.role = CASE e.path \in Corpus -> RoleFor(e.path)
                                                  [] e.path \in RunnerPaths -> "runner"
                                                  [] OTHER -> "source"
<1>1. /\ at = "cases" /\ todo = {} /\ inventory' = inventory /\ sources' = sources
      /\ Walked /\ CasesRead({}) /\ sources \subseteq AllowedSources
      /\ Plain("manifest") /\ WellFormed(manifest)
  BY DEF Join, Exact, Bounded
<1>2. CASE at' = "done"
  <2>1. held' = {} /\ verdict' # "ok" /\ ~(sources # {} /\ Listed = Allowlist /\ RolesFit)
    BY <1>2, JoinExact
  <2>2. DocsOf(CasePaths \ {}) = DocsOf(CasePaths)
    OBVIOUS
  <2>3. sources = {d.source : d \in DocsOf(CasePaths)}
    BY <1>1, <2>2 DEF CasesRead
  <2>4. Describes => sources # {} /\ Listed = Allowlist
    BY <1>1, <2>3 DEF Describes, Walked, Allowlist
  <2>5. Describes => called
    BY DEF Describes
  <2>6. Listed = Allowlist => (RolesFit <=> called)
    BY <1>1, Roles
  <2> HIDE DEF called
  <2>7. ~Describes
    BY <2>1, <2>4, <2>5, <2>6
  <2> QED
    BY <1>2, <2>1, <2>7, Refused
<1>3. CASE at' # "done"
  <2>1. /\ at' = "files" /\ todo' = Listed /\ held' = {} /\ verdict' = verdict
        /\ sources # {} /\ Listed = Allowlist /\ RolesFit
    BY <1>3, JoinExact
  <2>2. CasesRead({})'
    BY <1>1 DEF CasesRead, DocsOf
  <2>3. Walked' /\ RolesFit'
    BY <1>1, <2>1, SameTree DEF Walked, RolesFit
  <2>4. Plain("manifest")' /\ WellFormed(manifest)'
    BY <1>1, SameTree
  <2>5. \A e \in Entries' : e.path \in todo'
    BY <2>1, SameTree DEF Listed
  <2> QED
    BY <1>1, <2>1, <2>2, <2>3, <2>4, <2>5 DEF Exact
<1> QED
  BY <1>2, <1>3

\* A listed file is accepted with the size and the hash of its entry.
LEMMA ExactListed ==
  ASSUME Alone, ReadListed
  PROVE  Exact'
<1> USE DEF Alone, ManifestInv, QuietInv
<1> DEFINE h == CHOOSE h \in held : TRUE
           good == ~h.moved /\ \A e \in Entries : e.path = h.path =>
                                  e.size = SizeOf(h.file.data) /\ e.sha256 = h.file.data
<1>1. /\ h \in held /\ at = "files" /\ inventory' = inventory /\ sources' = sources
      /\ \/ ~good /\ held' = {} /\ at' = "done" /\ verdict' # "ok"
         \/ good /\ held' = {} /\ todo' = todo \ {h.path} /\ at' = at /\ verdict' = verdict
  BY DEF ReadListed, Raise
<1> HIDE DEF h
<1>2. ~h.moved /\ tree[h.path] = {h.file} /\ Plain(h.path)
  BY <1>1 DEF Exact
<1>3. good <=> \A e \in Entries : e.path = h.path => Fits(e)
  BY <1>2 DEF Fits
<1> HIDE DEF good
<1>4. CASE ~good
  BY <1>1, <1>3, <1>4, DescribedPlain, Refused
<1>5. CASE good
  <2>1. Walked' /\ RolesFit' /\ CasesRead({})'
    <3>1. CasesRead({}) /\ Walked /\ RolesFit
      BY <1>1 DEF Exact
    <3>2. Walked' /\ RolesFit'
      BY <1>1, <3>1, SameTree DEF Walked, RolesFit
    <3>3. CasesRead({})'
      BY <1>1, <3>1 DEF CasesRead, DocsOf
    <3> QED
      BY <3>2, <3>3
  <2>2. Plain("manifest")' /\ WellFormed(manifest)'
    BY <1>1, SameTree DEF Exact
  <2>3. \A e \in Entries' : e.path \notin todo' => Fits(e)'
    BY <1>1, <1>3, <1>5, SameTree DEF Exact
  <2> QED
    BY <1>1, <1>5, <2>1, <2>2, <2>3 DEF Exact
<1> QED
  BY <1>4, <1>5

\* What has passed every stage describes the tree.
LEMMA ExactAccept ==
  ASSUME Alone, Accept
  PROVE  Exact'
<1> USE DEF Alone, ManifestInv, QuietInv
<1>1. /\ at = "files" /\ todo = {} /\ held' = {} /\ at' = "done" /\ verdict' = "ok"
      /\ Walked /\ CasesRead({}) /\ sources # {} /\ RolesFit
      /\ \A e \in Entries : Fits(e)
      /\ Plain("manifest") /\ WellFormed(manifest)
  BY DEF Accept, Exact
<1>2. Listed = Allowlist /\ sources \subseteq AllowedSources
  BY <1>1 DEF Stages, Bounded
<1>3. DocsOf(CasePaths \ {}) = DocsOf(CasePaths)
  OBVIOUS
<1>4. /\ sources = {d.source : d \in DocsOf(CasePaths)}
      /\ \A d \in DocsOf(CasePaths) : Pinned(d)
  BY <1>1, <1>3 DEF CasesRead
<1>5. \A e \in Entries : e.role = CASE e.path \in Corpus -> RoleFor(e.path)
                                    [] e.path \in RunnerPaths -> "runner"
                                    [] OTHER -> "source"
  BY <1>1, <1>2, Roles
<1>6. DocsOf(CasePaths) # {}
  BY <1>1, <1>4
<1>7. Listed = Present \cup {d.source : d \in DocsOf(CasePaths)} \cup RunnerPaths
  BY <1>1, <1>2, <1>4 DEF Walked, Allowlist
<1>8. \A e \in Entries :
         /\ Plain(e.path)
         /\ \A f \in tree[e.path] : f.data = e.sha256 /\ e.size = SizeOf(f.data)
  BY <1>1 DEF Fits
<1>9. Describes
  BY <1>1, <1>4, <1>5, <1>6, <1>7, <1>8, Zenon DEF Describes, Walked
<1> QED
  BY <1>1, <1>9, SameTree DEF Exact

\* Where nobody edits the tree, the check accepts exactly the manifests that
\* describe it (validate_manifest_at): no gate is missing, and none refuses
\* what the others would have let through.
THEOREM ManifestExactCorrect == SpecM => []ManifestExact
<1> DEFINE Inv == ManifestInv /\ QuietInv
<1>1. InitM => Inv
  <2> SUFFICES ASSUME InitM PROVE Inv
    OBVIOUS
  <2>1. PICK t \in Trees : tree = t.tree
    BY DEF InitM
  <2>2. TreeHolds
    BY <2>1, TreesAssumption DEF InitM, TreeHolds
  <2>3. ManifestInv
    BY <2>2 DEF InitM, ManifestInv, HeldHolds, Bounded, Stages
  <2>4. QuietInv
    BY ManifestsAssumption DEF InitM, QuietInv, Exact
  <2> QED
    BY <2>3, <2>4
<1>2. Inv /\ [NextM]_mvars => Inv'
  <2> SUFFICES ASSUME Inv, [NextM]_mvars PROVE Inv'
    OBVIOUS
  <2>1. ManifestInv'
    <3>1. CASE NextM
      BY <3>1, TreeNext, HeldNext, BoundedNext, StagesNext DEF ManifestInv
    <3>2. CASE UNCHANGED mvars
      BY <3>2 DEF mvars, ManifestInv, TreeHolds, HeldHolds, Bounded, Stages, Listed, Entries,
                  Allowlist, WasThere
    <3> QED
      BY <3>1, <3>2
  <2>2. ASSUME Edit PROVE QuietInv'
    BY <2>2 DEF Edit, QuietInv
  <2>3. ASSUME NextM, ~Edit PROVE QuietInv'
    <3>1. manifest' = manifest /\ edits' = edits /\ linked' = linked /\ tree' = tree
      BY <2>3 DEF NextM, OpenManifest, ReadManifest, Walk, OpenCase, ReadCase, Join,
                  OpenListed, ReadListed, Accept
    <3>2. edits = 0 => Alone
      BY <3>1 DEF Alone
    <3>3. edits = 0 => Exact'
      BY <2>3, <3>2, ExactOpen, ExactManifest, ExactWalk, ExactCase, ExactJoin, ExactListed,
         ExactAccept DEF NextM
    <3> QED
      BY <3>1, <3>3 DEF QuietInv
  <2>4. ASSUME UNCHANGED mvars PROVE QuietInv'
    <3>1. UNCHANGED <<tree, manifest, linked, at, held, todo, inventory, sources, verdict, edits>>
      BY <2>4 DEF mvars
    <3>2. /\ Walked' = Walked /\ RolesFit' = RolesFit /\ CasesRead(todo)' = CasesRead(todo)
          /\ CasesRead({})' = CasesRead({})
      BY <3>1 DEF Walked, RolesFit, CasesRead, DocsOf, Present, Listed, Entries
    <3> QED
      BY <3>1, <3>2, SameTree DEF QuietInv, Exact
  <2> QED
    BY <2>1, <2>2, <2>3, <2>4
<1>3. Inv => ManifestExact
  BY DEF QuietInv, Exact, ManifestExact
<1> QED
  BY <1>1, <1>2, <1>3, PTL DEF SpecM

=============================================================================
