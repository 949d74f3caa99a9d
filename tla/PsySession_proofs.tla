------------------------- MODULE PsySession_proofs -------------------------
(* The theorems of PsySession, for every package, argument list, number of    *)
(* calls and modulus.  The invariant says that the commands which have run    *)
(* are an initial part of the list, that this part ends at the step the call  *)
(* has reached, and that the command to run is the next: no read finds an     *)
(* earlier write left to run first, no result is taken of a command that has  *)
(* not run, and no command is left after the last definition.  With it the    *)
(* call is, between any two commands or definitions, where the simulator is   *)
(* that runs the commands of each definition and then binds it.               *)
EXTENDS PsySession, WellFoundedInduction, TLAPS

Calling == psyPc \in {"define", "rest"}

\* The commands that have run are the first ones, up to the step.
Prefix ==
    /\ Len(ran) \in Nat /\ ran = [i \in 1..Len(ran) |-> i]
    /\ Len(ran) <= Len(fn.cmds)
    /\ \A i \in 1..Len(ran) : fn.res[i] <= psyStep
    /\ \A i \in DOMAIN fn.cmds : fn.res[i] < psyStep => i <= Len(ran)

\* The command that is to run is the next, at its step.
Turn ==
    running # 0 => running = Len(ran) + 1 /\ running \in DOMAIN fn.cmds /\ fn.res[running] = psyStep

Inv ==
    /\ pkg \in Packages
    /\ Calling => IsMethod(fn)
    /\ Calling /\ Scheduled(fn) =>
          /\ psyStep \in 0..Len(fn.defs)
          /\ Prefix /\ Turn
          /\ psyPc = "rest" => Len(ran) = Len(fn.cmds) /\ running = 0

----------------------------------------------------------------------------
\* The least of a set of numbers is its one member below all others (the loops of
\* run_cmd and run go upwards).
LEMMA LeastIs ==
    ASSUME NEW S \in SUBSET Int, NEW m \in S, \A j \in S : m <= j
    PROVE  Least(S) = m
<1>1. \E i \in S : \A j \in S : i <= j
  OBVIOUS
<1>2. Least(S) \in S /\ \A j \in S : Least(S) <= j
  BY <1>1 DEF Least
<1>3. Least(S) <= m /\ m <= Least(S)
  BY <1>2
<1>4. Least(S) \in Int /\ m \in Int
  BY <1>2
<1> QED
  BY <1>3, <1>4

\* What is left to run is the rest of the list (run_cmd).
LEMMA RestIsLeft ==
    ASSUME IsMethod(fn), Prefix
    PROVE  NotDone = (Len(ran) + 1)..Len(fn.cmds)
<1>1. done = 1..Len(ran)
  BY DEF done, ToSet, Prefix
<1> QED
  BY <1>1 DEF NotDone, IsMethod, IsSequence, Prefix

\* A command due at the step is the next of the list, since the places ascend
\* (run_cmds_at_step).
LEMMA DueIsNext ==
    ASSUME IsMethod(fn), Scheduled(fn), Prefix, psyStep \in 0..Len(fn.defs), NEW i \in Due
    PROVE  Len(ran) + 1 \in Due /\ Least(Due) = Len(ran) + 1
<1> DEFINE n == Len(ran)
<1>1. NotDone = (n + 1)..Len(fn.cmds)
  BY RestIsLeft
<1>2. n \in Nat /\ i \in (n + 1)..Len(fn.cmds) /\ fn.res[i] = psyStep
  BY <1>1 DEF Due, Prefix
<1>3. n + 1 \in NotDone /\ n + 1 <= i
  BY <1>1, <1>2
<1>4. /\ DOMAIN fn.cmds = 1..Len(fn.cmds) /\ DOMAIN fn.res = 1..Len(fn.cmds)
      /\ Len(fn.cmds) \in Nat /\ Len(fn.defs) \in Nat
  BY DEF IsMethod, IsSequence, Scheduled
<1>5. n + 1 \in DOMAIN fn.res /\ i \in DOMAIN fn.res
  BY <1>2, <1>4
<1>6. fn.res[n + 1] <= fn.res[i] /\ fn.res[n + 1] \in 0..Len(fn.defs)
  BY <1>3, <1>5 DEF Scheduled
<1>7. ~(fn.res[n + 1] < psyStep)
  BY <1>2, <1>4, <1>5 DEF Prefix
<1>8. fn.res[n + 1] = psyStep
  BY <1>2, <1>4, <1>6, <1>7
<1>9. n + 1 \in Due
  BY <1>3, <1>8 DEF Due
<1>10. \A j \in Due : j \in Int /\ n + 1 <= j
  BY <1>1, <1>2, <1>4 DEF Due
<1> QED
  BY <1>9, <1>10, LeastIs

\* When none is due, every command listed up to the step has run.
LEMMA NoneDue ==
    ASSUME IsMethod(fn), Scheduled(fn), Prefix, psyStep \in 0..Len(fn.defs), Due = {},
           NEW i \in DOMAIN fn.cmds, fn.res[i] <= psyStep
    PROVE  i <= Len(ran)
<1>1. NotDone = (Len(ran) + 1)..Len(fn.cmds)
  BY RestIsLeft
<1>2. /\ i \in 1..Len(fn.cmds) /\ fn.res[i] \in 0..Len(fn.defs)
      /\ Len(fn.cmds) \in Nat /\ Len(fn.defs) \in Nat /\ Len(ran) \in Nat
  BY DEF IsMethod, IsSequence, Scheduled, Prefix
<1>3. CASE fn.res[i] = psyStep
  BY <1>1, <1>2, <1>3 DEF Due
<1>4. CASE fn.res[i] < psyStep
  BY <1>4 DEF Prefix
<1> QED
  BY <1>2, <1>3, <1>4

----------------------------------------------------------------------------
(* The invariant holds at the start.                                       *)
LEMMA InvInit ==
    ASSUME PackagesAreLists PROVE PsyInit => Inv
  BY DEF PsyInit, Started, Inv, Calling

(* Every step of a session keeps the invariant.                            *)
LEMMA InvNext ==
    ASSUME PackagesAreLists, Inv, [PsyNext]_psyVars PROVE Inv'
<1> USE DEF Calling
<1>1. CASE StartCall
  <2>1. PICK m \in DOMAIN pkg, args \in Arguments :
          /\ fn' = pkg[m] /\ arguments' = args
          /\ psyPc' = "define" \/ psyPc' = "failed"
    BY <1>1 DEF StartCall
  <2>2. pkg' \in Packages /\ IsMethod(fn')
    BY <1>1, <2>1 DEF StartCall, Inv, PackagesAreLists
  <2>3. psyStep' = 0 /\ ran' = <<>> /\ running' = 0 /\ psyPc' # "rest"
    BY <1>1, <2>1 DEF StartCall
  <2>4. ASSUME Scheduled(fn)' PROVE Prefix' /\ Turn' /\ psyStep' \in 0..Len(fn'.defs)
    <3>1. Len(ran') = 0 /\ Len(fn'.cmds) \in Nat /\ Len(fn'.defs) \in Nat
      BY <2>2, <2>3 DEF IsMethod, IsSequence
    <3>2. \A i \in DOMAIN fn'.cmds : fn'.res[i] \in Nat
      BY <2>2, <2>4 DEF Scheduled, IsMethod, IsSequence
    <3> QED
      BY <2>3, <3>1, <3>2 DEF Prefix, Turn
  <2> QED
    BY <2>2, <2>3, <2>4 DEF Inv
<1>2. CASE Unknown
  BY <1>2 DEF Unknown, Inv
<1>3. CASE StartDue
  <2>1. ASSUME Scheduled(fn) PROVE Turn'
    <3>1. PICK i \in Due : TRUE
      BY <1>3 DEF StartDue
    <3>2. Least(Due) = Len(ran) + 1 /\ Len(ran) + 1 \in Due
      BY <1>3, <2>1, <3>1, DueIsNext DEF StartDue, Inv
    <3> QED
      BY <1>3, <3>2 DEF StartDue, Turn, Due, NotDone
  <2> QED
    BY <1>3, <2>1 DEF StartDue, Inv, Prefix, Scheduled, IsMethod, IsSequence
<1>4. CASE RunCommand
  <2>1. ASSUME Calling', Scheduled(fn) PROVE Prefix' /\ Turn' /\ psyPc' # "rest"
    <3>1. /\ IsMethod(fn) /\ Prefix /\ psyStep \in 0..Len(fn.defs) /\ psyPc = "define"
          /\ running = Len(ran) + 1 /\ running \in DOMAIN fn.cmds /\ fn.res[running] = psyStep
      BY <1>4, <2>1 DEF RunCommand, Inv, Turn
    <3>2. NotDone = (Len(ran) + 1)..Len(fn.cmds) /\ Len(ran) \in Nat
      BY <3>1, RestIsLeft DEF Prefix
    <3>3. Earlier(running) = {}
      BY <3>1, <3>2 DEF Earlier
    <3>4. RunsNext = running
      BY <3>3 DEF RunsNext
    <3>5. ran' = Append(ran, Len(ran) + 1) /\ running' = 0 /\ UNCHANGED <<psyPc, fn, psyStep>>
      BY <1>4, <2>1, <3>1, <3>4 DEF RunCommand, Fail
    <3>6. Len(ran') = Len(ran) + 1 /\ ran' = [i \in 1..(Len(ran) + 1) |-> i]
      BY <3>2, <3>1, <3>5 DEF Prefix
    <3>7. \A i \in 1..Len(ran') : fn.res[i] <= psyStep
      BY <3>1, <3>2, <3>6 DEF Prefix
    <3>8. Len(ran') <= Len(fn.cmds)
      BY <3>1, <3>6 DEF IsMethod, IsSequence
    <3> QED
      BY <3>1, <3>2, <3>5, <3>6, <3>7, <3>8 DEF Prefix, Turn, IsMethod, IsSequence, Scheduled
  <2> QED
    BY <1>4, <2>1 DEF RunCommand, Fail, Inv, Scheduled, IsMethod, IsSequence
<1>5. CASE StartTaken
  <2>1. ASSUME Scheduled(fn) PROVE FALSE
    <3> DEFINE c == Definition.lit
    <3>1. /\ IsMethod(fn) /\ Prefix /\ psyStep \in 0..Len(fn.defs) /\ Due = {}
          /\ psyStep < Len(fn.defs) /\ TakesResult(Definition) /\ c \in NotDone
      BY <1>5, <2>1 DEF StartTaken, Inv
    <3>2. psyStep + 1 \in DOMAIN fn.defs
      BY <3>1 DEF IsMethod, IsSequence
    <3>3. c \in DOMAIN fn.cmds /\ fn.res[c] < psyStep + 1
      BY <2>1, <3>1, <3>2 DEF Scheduled, Definition
    <3>4. fn.res[c] \in 0..Len(fn.defs) /\ Len(fn.defs) \in Nat
      BY <2>1, <3>1, <3>3 DEF Scheduled, IsMethod, IsSequence
    <3>5. c <= Len(ran)
      BY <2>1, <3>1, <3>3, <3>4, NoneDue
    <3>6. c \in (Len(ran) + 1)..Len(fn.cmds) /\ Len(ran) \in Nat
      BY <3>1, RestIsLeft DEF Prefix
    <3> QED
      BY <3>5, <3>6
  <2> QED
    BY <1>5, <2>1 DEF StartTaken, Inv, IsMethod, IsSequence, Scheduled
<1>6. ASSUME TakeResult \/ Define PROVE Inv'
  <2>1. psyPc' = "failed" \/ (psyStep' = psyStep + 1 /\ UNCHANGED <<psyPc, fn, running, ran>>)
    BY <1>6 DEF TakeResult, Define, Fail
  <2>2. /\ psyPc = "define" /\ running = 0 /\ Due = {} /\ psyStep < Len(fn.defs)
        /\ UNCHANGED <<pkg, fn>>
    BY <1>6 DEF TakeResult, Define, Fail, call
  <2>3. ASSUME psyStep' = psyStep + 1, UNCHANGED <<psyPc, fn, running, ran>>, Scheduled(fn)
        PROVE  Prefix' /\ Turn' /\ psyStep' \in 0..Len(fn.defs)
    <3>1. IsMethod(fn) /\ Prefix /\ psyStep \in 0..Len(fn.defs) /\ Len(fn.defs) \in Nat
      BY <2>2, <2>3 DEF Inv, IsMethod, IsSequence
    <3>2. \A i \in DOMAIN fn.cmds : fn.res[i] <= psyStep => i <= Len(ran)
      BY <2>2, <2>3, <3>1, NoneDue
    <3>3. \A i \in DOMAIN fn.cmds : i \in DOMAIN fn.res /\ fn.res[i] \in 0..Len(fn.defs)
      BY <2>3, <3>1 DEF Scheduled, IsMethod, IsSequence
    <3>4. \A i \in 1..Len(ran) : i \in DOMAIN fn.cmds
      BY <3>1 DEF Prefix, IsMethod, IsSequence
    <3>5. psyStep' \in 0..Len(fn.defs)
      BY <2>2, <2>3, <3>1
    <3>6. Turn'
      BY <2>2, <2>3 DEF Turn
    <3>7. \A i \in 1..Len(ran) : fn.res[i] <= psyStep + 1
      BY <3>1, <3>3, <3>4 DEF Prefix
    <3>8. \A i \in DOMAIN fn.cmds : fn.res[i] < psyStep + 1 => i <= Len(ran)
      BY <3>1, <3>2, <3>3
    <3>9. Len(ran) \in Nat /\ ran = [i \in 1..Len(ran) |-> i] /\ Len(ran) <= Len(fn.cmds)
      BY <3>1 DEF Prefix
    <3>10. Prefix'
      <4>1. ran' = ran /\ fn' = fn /\ psyStep' = psyStep + 1
        BY <2>2, <2>3
      <4> QED
        BY <4>1, <3>7, <3>8, <3>9 DEF Prefix
    <3> QED
      BY <3>5, <3>6, <3>10
  <2> QED
    BY <2>1, <2>2, <2>3 DEF Inv, IsMethod, IsSequence, Scheduled
<1>7. CASE Defined
  <2>1. psyPc = "define" /\ running = 0 /\ Due = {} /\ psyStep = Len(fn.defs) /\ psyPc' = "rest"
        /\ UNCHANGED <<pkg, fn, psyStep, running, ran>>
    BY <1>7 DEF Defined, call
  <2>2. ASSUME Scheduled(fn) PROVE Len(ran) = Len(fn.cmds)
    <3>1. IsMethod(fn) /\ Prefix /\ psyStep \in 0..Len(fn.defs) /\ Len(fn.cmds) \in Nat
      BY <2>1, <2>2 DEF Inv, IsMethod, IsSequence
    <3>2. \A i \in DOMAIN fn.cmds : fn.res[i] <= psyStep
      BY <2>1, <2>2, <3>1 DEF Scheduled, IsMethod, IsSequence
    <3>3. \A i \in DOMAIN fn.cmds : i <= Len(ran)
      BY <2>1, <2>2, <3>1, <3>2, NoneDue
    <3> QED
      BY <3>1, <3>3 DEF Prefix, IsMethod, IsSequence
  <2> QED
    BY <2>1, <2>2 DEF Inv, IsMethod, IsSequence, Scheduled, Prefix, Turn
<1>8. CASE StartLate
  <2>1. ASSUME Scheduled(fn) PROVE FALSE
    <3>1. IsMethod(fn) /\ Prefix /\ Len(ran) = Len(fn.cmds) /\ Late # {}
      BY <1>8, <2>1 DEF StartLate, Inv
    <3>2. NotDone = {}
      BY <3>1, RestIsLeft DEF Prefix
    <3> QED
      BY <3>1, <3>2 DEF Late
  <2> QED
    BY <1>8, <2>1 DEF StartLate, Inv, IsMethod, IsSequence, Scheduled
<1>9. CASE Return
  BY <1>9 DEF Return, Fail, Inv
<1>10. CASE UNCHANGED psyVars
  BY <1>10 DEF psyVars, call, Inv, Prefix, Turn, IsMethod, IsSequence, Scheduled
<1> QED
  BY <1>1, <1>2, <1>3, <1>4, <1>5, <1>6, <1>7, <1>8, <1>9, <1>10 DEF PsyNext

\* On a method whose commands are listed in the order of their places, as the
\* compiler lists them, the commands run in the order of the list, none ahead of
\* its place and none twice, and all have run when the call returns: what the
\* script adds to the simulator's schedule (run_cmd's earlier writes, the results
\* taken early, the commands left over) never acts.
THEOREM InOrderCorrect ==
    ASSUME PackagesAreLists PROVE PsySpec => []RunsInOrder
<1>1. Inv => RunsInOrder
  <2> SUFFICES ASSUME Inv, Calling, Scheduled(fn)
               PROVE  /\ ran = [i \in 1..Len(ran) |-> i]
                      /\ \A i \in DOMAIN ran : fn.res[i] <= psyStep
                      /\ \A i \in DOMAIN fn.cmds : fn.res[i] < psyStep => i \in 1..Len(ran)
                      /\ psyPc = "rest" => Len(ran) = Len(fn.cmds)
    BY DEF RunsInOrder, Calling
  <2>1. Prefix /\ IsMethod(fn)
    BY DEF Inv
  <2>2. DOMAIN ran = 1..Len(ran)
    BY <2>1 DEF Prefix
  <2> QED
    BY <2>1, <2>2 DEF Inv, Prefix, IsMethod, IsSequence
<1> QED
  BY <1>1, InvInit, InvNext, PTL DEF PsySpec

----------------------------------------------------------------------------
(* The simulator: its two recursions, and that a failure stays.             *)

\* A set of numbers has a least one.
LEMMA HasLeast ==
    ASSUME NEW S \in SUBSET Nat, S # {} PROVE \E x \in S : \A y \in S : x <= y
<1> DEFINE R == OpToRel(<, Nat)
<1>1. PICK x \in S : \A y \in S : ~(<<y, x>> \in R)
  <2> HIDE DEF R
  <2> QED
    BY NatLessThanWellFounded, WFMin DEF R
<1>2. ASSUME NEW y \in S PROVE x <= y
  <2>1. x \in Nat /\ y \in Nat /\ <<y, x>> \notin R
    BY <1>1
  <2>2. R = {ss \in Nat \X Nat : ss[1] < ss[2]}
    BY DEF OpToRel
  <2> HIDE DEF R
  <2>3. y < x => <<y, x>> \in R
    BY <2>1, <2>2
  <2> QED
    BY <2>1, <2>3
<1> QED
  BY <1>2

\* What holds of k and passes on to the next number holds from k up to N.
LEMMA Climb ==
    ASSUME NEW N \in Nat, NEW k \in 0..N, NEW S, k \in S,
           \A n \in k..(N - 1) : n \in S => n + 1 \in S
    PROVE  \A n \in k..N : n \in S
<1> DEFINE T == {n \in k..N : n \notin S}
<1>1. SUFFICES ASSUME T # {} PROVE FALSE
  OBVIOUS
<1>2. PICK m \in T : \A y \in T : m <= y
  <2>1. T \in SUBSET Nat
    OBVIOUS
  <2> HIDE DEF T
  <2> QED
    BY <1>1, <2>1, HasLeast
<1>3. m # k /\ m - 1 \in k..(N - 1) /\ m - 1 \notin T
  BY <1>2
<1> QED
  BY <1>2, <1>3

\* The recursion over the commands has a value.
LEMMA ListedUnfolds ==
    ASSUME NEW p, NEW f, NEW s, NEW n, Len(f.cmds) \in Nat
    PROVE  /\ OfficialListed(p, f, s, n)[0] = s
           /\ \A i \in 1..Len(f.cmds) :
                OfficialListed(p, f, s, n)[i] =
                  IF f.res[i] = n THEN OfficialRun(p, f, OfficialListed(p, f, s, n)[i - 1], i)
                  ELSE OfficialListed(p, f, s, n)[i - 1]
<1> DEFINE N == Len(f.cmds)
           Then(t, i) == IF f.res[i] = n THEN OfficialRun(p, f, t, i) ELSE t
           S == {m \in 0..N : \E g : g = [k \in 0..m |-> IF k = 0 THEN s ELSE Then(g[k - 1], k)]}
           A == OfficialListed(p, f, s, n)
<1>1. A = CHOOSE g : g = [k \in 0..N |-> IF k = 0 THEN s ELSE Then(g[k - 1], k)]
  BY DEF OfficialListed
<1>2. N \in Nat
  OBVIOUS
<1> HIDE DEF Then, A, N
<1>3. 0 \in S
  <2> DEFINE h == [k \in 0..0 |-> s]
  <2>1. h = [k \in 0..0 |-> IF k = 0 THEN s ELSE Then(h[k - 1], k)]
    OBVIOUS
  <2> HIDE DEF h
  <2> QED
    BY <1>2, <2>1
<1>4. ASSUME NEW m \in 0..(N - 1), m \in S PROVE m + 1 \in S
  <2>1. PICK g : g = [k \in 0..m |-> IF k = 0 THEN s ELSE Then(g[k - 1], k)]
    BY <1>4
  <2> DEFINE h == [k \in 0..(m + 1) |-> IF k <= m THEN g[k] ELSE Then(g[m], m + 1)]
  <2>2. ASSUME NEW k \in 0..(m + 1) PROVE h[k] = IF k = 0 THEN s ELSE Then(h[k - 1], k)
    <3>1. CASE k <= m
      <4>1. k \in 0..m /\ h[k] = g[k] /\ (k # 0 => k - 1 \in 0..m /\ h[k - 1] = g[k - 1])
        BY <1>2, <3>1
      <4> HIDE DEF h
      <4> QED
        BY <2>1, <4>1
    <3>2. CASE k = m + 1
      <4>1. k # 0 /\ k - 1 = m /\ h[k] = Then(g[m], m + 1) /\ h[m] = g[m]
        BY <1>2, <3>2
      <4> HIDE DEF h
      <4> QED
        BY <3>2, <4>1
    <3> QED
      BY <1>2, <3>1, <3>2
  <2>3. DOMAIN h = 0..(m + 1) /\ h = [k \in 0..(m + 1) |-> h[k]]
    OBVIOUS
  <2> HIDE DEF h
  <2>4. h = [k \in 0..(m + 1) |-> IF k = 0 THEN s ELSE Then(h[k - 1], k)]
    BY <2>2, <2>3
  <2>5. m + 1 \in 0..N
    BY <1>2
  <2> QED
    BY <2>4, <2>5
<1>5. \A m \in 0..N : m \in S
  <2> HIDE DEF S
  <2> QED
    BY <1>2, <1>3, <1>4, Climb
<1>6. \E g : g = [k \in 0..N |-> IF k = 0 THEN s ELSE Then(g[k - 1], k)]
  BY <1>2, <1>5
<1>7. A = [k \in 0..N |-> IF k = 0 THEN s ELSE Then(A[k - 1], k)]
  BY <1>1, <1>6
<1>8. A[0] = s /\ \A i \in 1..N : A[i] = Then(A[i - 1], i)
  <2>1. 0 \in 0..N /\ \A i \in 1..N : i \in 0..N /\ i # 0
    BY <1>2
  <2> QED
    BY <1>7, <2>1
<1> QED
  BY <1>8 DEF Then, A, N

\* The recursion over the definitions has a value.
LEMMA BoundUnfolds ==
    ASSUME NEW p, NEW f, NEW args, NEW w0, Len(f.defs) \in Nat
    PROVE  /\ OfficialBound(p, f, args, w0)[0] = OfficialStart(f, args, w0)
           /\ \A n \in 1..Len(f.defs) :
                OfficialBound(p, f, args, w0)[n] =
                  OfficialBind(f, args,
                    OfficialListed(p, f, OfficialBound(p, f, args, w0)[n - 1], n - 1)[Len(f.cmds)], n)
<1> DEFINE N == Len(f.defs)
           s == OfficialStart(f, args, w0)
           Then(t, n) == OfficialBind(f, args, OfficialListed(p, f, t, n - 1)[Len(f.cmds)], n)
           S == {m \in 0..N : \E g : g = [k \in 0..m |-> IF k = 0 THEN s ELSE Then(g[k - 1], k)]}
           A == OfficialBound(p, f, args, w0)
<1>1. A = CHOOSE g : g = [k \in 0..N |-> IF k = 0 THEN s ELSE Then(g[k - 1], k)]
  BY DEF OfficialBound
<1>2. N \in Nat
  OBVIOUS
<1> HIDE DEF Then, A, N, s
<1>3. 0 \in S
  <2> DEFINE h == [k \in 0..0 |-> s]
  <2>1. h = [k \in 0..0 |-> IF k = 0 THEN s ELSE Then(h[k - 1], k)]
    OBVIOUS
  <2> HIDE DEF h
  <2> QED
    BY <1>2, <2>1
<1>4. ASSUME NEW m \in 0..(N - 1), m \in S PROVE m + 1 \in S
  <2>1. PICK g : g = [k \in 0..m |-> IF k = 0 THEN s ELSE Then(g[k - 1], k)]
    BY <1>4
  <2> DEFINE h == [k \in 0..(m + 1) |-> IF k <= m THEN g[k] ELSE Then(g[m], m + 1)]
  <2>2. ASSUME NEW k \in 0..(m + 1) PROVE h[k] = IF k = 0 THEN s ELSE Then(h[k - 1], k)
    <3>1. CASE k <= m
      <4>1. k \in 0..m /\ h[k] = g[k] /\ (k # 0 => k - 1 \in 0..m /\ h[k - 1] = g[k - 1])
        BY <1>2, <3>1
      <4> HIDE DEF h
      <4> QED
        BY <2>1, <4>1
    <3>2. CASE k = m + 1
      <4>1. k # 0 /\ k - 1 = m /\ h[k] = Then(g[m], m + 1) /\ h[m] = g[m]
        BY <1>2, <3>2
      <4> HIDE DEF h
      <4> QED
        BY <3>2, <4>1
    <3> QED
      BY <1>2, <3>1, <3>2
  <2>3. DOMAIN h = 0..(m + 1) /\ h = [k \in 0..(m + 1) |-> h[k]]
    OBVIOUS
  <2> HIDE DEF h
  <2>4. h = [k \in 0..(m + 1) |-> IF k = 0 THEN s ELSE Then(h[k - 1], k)]
    BY <2>2, <2>3
  <2>5. m + 1 \in 0..N
    BY <1>2
  <2> QED
    BY <2>4, <2>5
<1>5. \A m \in 0..N : m \in S
  <2> HIDE DEF S
  <2> QED
    BY <1>2, <1>3, <1>4, Climb
<1>6. \E g : g = [k \in 0..N |-> IF k = 0 THEN s ELSE Then(g[k - 1], k)]
  BY <1>2, <1>5
<1>7. A = [k \in 0..N |-> IF k = 0 THEN s ELSE Then(A[k - 1], k)]
  BY <1>1, <1>6
<1>8. A[0] = s /\ \A n \in 1..N : A[n] = Then(A[n - 1], n)
  <2>1. 0 \in 0..N /\ \A i \in 1..N : i \in 0..N /\ i # 0
    BY <1>2
  <2> QED
    BY <1>7, <2>1
<1> QED
  BY <1>8 DEF Then, A, N, s

\* Commands listed elsewhere change nothing.
LEMMA ListedSkips ==
    ASSUME NEW p, NEW f, NEW s, NEW n, Len(f.cmds) \in Nat,
           NEW m \in 0..Len(f.cmds), NEW k \in 0..m, \A i \in (k + 1)..m : f.res[i] # n
    PROVE  OfficialListed(p, f, s, n)[m] = OfficialListed(p, f, s, n)[k]
<1> DEFINE A == OfficialListed(p, f, s, n)
           S == {j \in k..m : A[j] = A[k]}
<1>1. \A i \in 1..Len(f.cmds) : f.res[i] # n => A[i] = A[i - 1]
  BY ListedUnfolds
<1> HIDE DEF A
<1>2. k \in S /\ m \in Nat /\ k \in Nat
  OBVIOUS
<1>3. ASSUME NEW j \in k..(m - 1), j \in S PROVE j + 1 \in S
  <2>1. /\ j + 1 \in 1..Len(f.cmds) /\ j + 1 \in (k + 1)..m /\ j + 1 \in k..m
        /\ (j + 1) - 1 = j /\ A[j] = A[k]
    BY <1>3
  <2>2. A[j + 1] = A[(j + 1) - 1]
    BY <1>1, <2>1
  <2> QED
    BY <2>1, <2>2
<1>4. \A j \in k..m : j \in S
  <2> HIDE DEF S
  <2> QED
    BY <1>2, <1>3, Climb
<1>5. m \in S
  BY <1>4
<1> QED
  BY <1>5 DEF A

\* What has failed stays so: through the commands at a definition,
LEMMA ListedFails ==
    ASSUME NEW p, NEW f, NEW s, NEW n, Len(f.cmds) \in Nat,
           NEW k \in 0..Len(f.cmds), ~OfficialListed(p, f, s, n)[k].ok
    PROVE  ~OfficialListed(p, f, s, n)[Len(f.cmds)].ok
<1> DEFINE N == Len(f.cmds)
           A == OfficialListed(p, f, s, n)
           S == {j \in k..N : ~A[j].ok}
<1>1. \A i \in 1..N : A[i] = A[i - 1] \/ A[i] = OfficialRun(p, f, A[i - 1], i)
  BY ListedUnfolds
<1>2. \A i \in 1..N : ~A[i - 1].ok => A[i] = A[i - 1] \/ A[i] = Failed
  BY <1>1 DEF OfficialRun
<1>3. N \in Nat /\ k \in 0..N /\ ~A[k].ok
  OBVIOUS
<1> HIDE DEF A, N
<1>4. k \in S /\ k \in Nat
  BY <1>3
<1>5. ASSUME NEW j \in k..(N - 1), j \in S PROVE j + 1 \in S
  <2>1. j + 1 \in 1..N /\ j + 1 \in k..N /\ (j + 1) - 1 = j /\ ~A[j].ok
    BY <1>3, <1>4, <1>5
  <2>2. A[j + 1] = A[j] \/ A[j + 1] = Failed
    BY <1>2, <2>1
  <2>3. ~A[j + 1].ok
    BY <2>1, <2>2 DEF Failed
  <2> QED
    BY <2>1, <2>3
<1>6. \A j \in k..N : j \in S
  <2> HIDE DEF S
  <2> QED
    BY <1>3, <1>4, <1>5, Climb
<1>7. N \in S
  BY <1>3, <1>4, <1>6
<1> QED
  BY <1>7 DEF A, N

\* and through the definitions, to the end of the call.
LEMMA BoundFails ==
    ASSUME NEW p, NEW f, NEW args, NEW w0, Len(f.cmds) \in Nat, Len(f.defs) \in Nat,
           NEW n \in 0..Len(f.defs), ~OfficialBound(p, f, args, w0)[n].ok
    PROVE  ~Official(p, f, args, w0).ok
<1> DEFINE N == Len(f.defs)
           A == OfficialBound(p, f, args, w0)
           E(k) == OfficialListed(p, f, A[k], k)[Len(f.cmds)]
           S == {j \in n..N : ~A[j].ok}
<1>1. ASSUME NEW k, ~A[k].ok PROVE ~E(k).ok
  <2>1. OfficialListed(p, f, A[k], k)[0] = A[k]
    BY ListedUnfolds
  <2>2. 0 \in 0..Len(f.cmds)
    OBVIOUS
  <2> QED
    BY <1>1, <2>1, <2>2, ListedFails
<1>2. \A k \in 1..N : A[k] = OfficialBind(f, args, E(k - 1), k)
  BY BoundUnfolds
<1>3. \A k \in 1..N : ~E(k - 1).ok => A[k] = Failed
  BY <1>2 DEF OfficialBind
<1>4. N \in Nat /\ n \in 0..N /\ ~A[n].ok
  OBVIOUS
<1>5. Official(p, f, args, w0).ok => E(N).ok
  BY DEF Official, Failed
<1> HIDE DEF A, N, E
<1>6. n \in S /\ n \in Nat
  BY <1>4
<1>7. ASSUME NEW j \in n..(N - 1), j \in S PROVE j + 1 \in S
  <2>1. j + 1 \in 1..N /\ j + 1 \in n..N /\ (j + 1) - 1 = j /\ ~A[j].ok
    BY <1>4, <1>6, <1>7
  <2>2. A[j + 1] = Failed
    BY <1>1, <1>3, <2>1
  <2>3. ~A[j + 1].ok
    BY <2>2 DEF Failed
  <2> QED
    BY <2>1, <2>3
<1>8. \A j \in n..N : j \in S
  <2> HIDE DEF S
  <2> QED
    BY <1>4, <1>6, <1>7, Climb
<1>9. N \in S
  BY <1>4, <1>6, <1>8
<1> QED
  BY <1>1, <1>5, <1>9

----------------------------------------------------------------------------
\* The simulator at the place the call has reached, and the call as such a state.
Place(k) == OfficialListed(pkg, fn, OfficialBound(pkg, fn, arguments, before)[psyStep], psyStep)[k]
Here == [ok |-> TRUE, v |-> v, h |-> hashes, world |-> world, res |-> cmdRes, log |-> psyLog]

\* The call is where the simulator is.
Follows ==
    Calling /\ Scheduled(fn) =>
        /\ Place(Len(ran)) = Here
        /\ psyPc = "rest" => psyStep = Len(fn.defs)
Listed == \E S : results \in Seq(S)
Ahead == Inv /\ Follows /\ Listed /\ AsOfficial

\* A command that fails at the place of the call fails the simulator's.
LEMMA PlaceFails ==
    ASSUME IsMethod(fn), psyStep \in 0..Len(fn.defs), NEW k \in 0..Len(fn.cmds), ~Place(k).ok
    PROVE  ~Official(pkg, fn, arguments, before).ok
<1> DEFINE A == OfficialBound(pkg, fn, arguments, before)
           e == OfficialListed(pkg, fn, A[psyStep], psyStep)[Len(fn.cmds)]
<1>1. Len(fn.cmds) \in Nat /\ Len(fn.defs) \in Nat
  BY DEF IsMethod, IsSequence
<1>2. ~e.ok
  BY <1>1, ListedFails DEF Place
<1>3. CASE psyStep = Len(fn.defs)
  BY <1>2, <1>3 DEF Official, Failed
<1>4. CASE psyStep # Len(fn.defs)
  <2>1. psyStep + 1 \in 1..Len(fn.defs) /\ psyStep + 1 \in 0..Len(fn.defs) /\ (psyStep + 1) - 1 = psyStep
    BY <1>1, <1>4
  <2>2. A[psyStep + 1] = OfficialBind(fn, arguments, OfficialListed(pkg, fn, A[(psyStep + 1) - 1], (psyStep + 1) - 1)[Len(fn.cmds)], psyStep + 1)
    BY <1>1, <2>1, BoundUnfolds
  <2>3. A[psyStep + 1] = OfficialBind(fn, arguments, e, psyStep + 1)
    BY <2>1, <2>2
  <2>4. ~A[psyStep + 1].ok
    BY <1>2, <2>3 DEF OfficialBind, Failed
  <2> QED
    BY <1>1, <2>1, <2>4, BoundFails
<1> QED
  BY <1>3, <1>4

\* When no command is due, the simulator binds the definition the call is at.
LEMMA BindsNext ==
    ASSUME IsMethod(fn), Scheduled(fn), Prefix, psyStep \in 0..Len(fn.defs), Due = {},
           psyStep < Len(fn.defs), Place(Len(ran)) = Here
    PROVE  OfficialBound(pkg, fn, arguments, before)[psyStep + 1] = OfficialBind(fn, arguments, Here, psyStep + 1)
<1> DEFINE A == OfficialBound(pkg, fn, arguments, before)
<1>1. /\ Len(fn.cmds) \in Nat /\ Len(fn.defs) \in Nat /\ Len(ran) \in 0..Len(fn.cmds)
      /\ DOMAIN fn.cmds = 1..Len(fn.cmds) /\ DOMAIN fn.res = 1..Len(fn.cmds)
  BY DEF IsMethod, IsSequence, Prefix, Scheduled
<1>2. \A i \in (Len(ran) + 1)..Len(fn.cmds) : fn.res[i] # psyStep
  <2> SUFFICES ASSUME NEW i \in (Len(ran) + 1)..Len(fn.cmds), fn.res[i] = psyStep PROVE FALSE
    OBVIOUS
  <2>1. i \in DOMAIN fn.cmds /\ fn.res[i] <= psyStep /\ Len(ran) \in Int /\ ~(i <= Len(ran))
    BY <1>1
  <2> QED
    BY <2>1, NoneDue
<1>3. Place(Len(fn.cmds)) = Here
  <2>1. Len(fn.cmds) \in 0..Len(fn.cmds) /\ Len(ran) \in 0..Len(fn.cmds)
    BY <1>1
  <2>2. Place(Len(fn.cmds)) = Place(Len(ran))
    BY <1>1, <1>2, <2>1, ListedSkips DEF Place
  <2> QED
    BY <2>2
<1>4. psyStep + 1 \in 1..Len(fn.defs) /\ (psyStep + 1) - 1 = psyStep
  BY <1>1
<1>5. A[psyStep + 1] = OfficialBind(fn, arguments, OfficialListed(pkg, fn, A[(psyStep + 1) - 1], (psyStep + 1) - 1)[Len(fn.cmds)], psyStep + 1)
  BY <1>1, <1>4, BoundUnfolds
<1> QED
  BY <1>3, <1>4, <1>5 DEF Place

\* The call starts where the simulator does.
LEMMA CallFollows ==
    ASSUME PackagesAreLists, Ahead, StartCall PROVE Follows' /\ AsOfficial'
<1>1. PICK m \in DOMAIN pkg, args \in Arguments :
        /\ fn' = pkg[m] /\ arguments' = args
        /\ IF Len(args) = Len(pkg[m].inputs) /\ Len(pkg[m].res) = Len(pkg[m].cmds)
           THEN psyPc' = "define" /\ v' = BoundInputs(pkg[m], args)
           ELSE psyPc' = "failed" /\ v' = <<>>
  BY DEF StartCall
<1>2. IsMethod(fn')
  BY <1>1 DEF Ahead, Inv, PackagesAreLists
<1>3. /\ psyStep' = 0 /\ hashes' = <<>> /\ ran' = <<>> /\ cmdRes' = <<>> /\ psyLog' = <<>>
      /\ before' = world /\ world' = world /\ pkg' = pkg
  BY DEF StartCall
<1>4. CASE psyPc' = "failed"
  <2>1. ~(Len(arguments') = Len(fn'.inputs) /\ Len(fn'.res) = Len(fn'.cmds))
    BY <1>1, <1>4
  <2> QED
    BY <1>4, <2>1 DEF Follows, Calling, AsOfficial, Scheduled
<1>5. CASE psyPc' = "define"
  <2>1. v' = BoundInputs(fn', arguments')
    BY <1>1, <1>5
  <2>2. Here' = OfficialStart(fn', arguments', before')
    BY <1>3, <2>1 DEF Here, OfficialStart
  <2>3. Len(fn'.cmds) \in Nat /\ Len(fn'.defs) \in Nat
    BY <1>2 DEF IsMethod, IsSequence
  <2>4. OfficialBound(pkg', fn', arguments', before')[0] = OfficialStart(fn', arguments', before')
    BY <2>3, BoundUnfolds
  <2>5. OfficialListed(pkg', fn', Here', 0)[0] = Here'
    BY <2>3, ListedUnfolds
  <2>6. Len(ran') = 0
    BY <1>3
  <2>7. Place(Len(ran))' = OfficialListed(pkg', fn', OfficialBound(pkg', fn', arguments', before')[0], 0)[0]
    BY <1>3, <2>6 DEF Place
  <2>8. Place(Len(ran))' = Here'
    BY <2>2, <2>4, <2>5, <2>7
  <2> QED
    BY <1>5, <2>8 DEF Follows, AsOfficial
<1> QED
  BY <1>1, <1>4, <1>5

\* A command that is run is the simulator's next.
LEMMA RunFollows ==
    ASSUME Ahead, RunCommand PROVE Follows' /\ AsOfficial'
<1>1. Calling /\ psyPc \notin {"idle", "failed"} /\ UNCHANGED <<pkg, fn, arguments, psyStep, before>>
  BY DEF RunCommand, Fail, call, Calling
<1>2. CASE ~Scheduled(fn)
  BY <1>1, <1>2 DEF Follows, AsOfficial, Scheduled
<1>3. CASE Scheduled(fn)
  <2> DEFINE i == Len(ran) + 1
             effect == Effect(pkg, fn, world, v, fn.cmds[i])
  <2>1. /\ IsMethod(fn) /\ Prefix /\ Turn /\ psyStep \in 0..Len(fn.defs) /\ Place(Len(ran)) = Here
        /\ psyPc = "define" /\ running = i /\ i \in DOMAIN fn.cmds /\ fn.res[i] = psyStep
    BY <1>1, <1>3 DEF RunCommand, Ahead, Inv, Turn, Follows
  <2>2. NotDone = (Len(ran) + 1)..Len(fn.cmds) /\ Len(ran) \in Nat
    BY <2>1, RestIsLeft DEF Prefix
  <2>3. Earlier(running) = {}
    BY <2>1, <2>2 DEF Earlier
  <2>4. RunsNext = i
    BY <2>1, <2>3 DEF RunsNext
  <2>5. i \in 1..Len(fn.cmds) /\ i - 1 = Len(ran) /\ Len(fn.cmds) \in Nat
    BY <2>1, <2>2 DEF IsMethod, IsSequence
  <2> HIDE DEF i
  <2>6. Place(i) = OfficialRun(pkg, fn, Here, i)
    BY <2>1, <2>5, ListedUnfolds DEF Place
  <2>7. CASE ~effect.ok
    <3>1. Fail
      BY <2>1, <2>4, <2>7 DEF RunCommand
    <3>2. ~Place(i).ok
      BY <2>6, <2>7 DEF OfficialRun, Here, Failed
    <3>3. i \in 0..Len(fn.cmds)
      BY <2>5
    <3>4. ~Official(pkg, fn, arguments, before).ok
      BY <2>1, <3>2, <3>3, PlaceFails
    <3> QED
      BY <1>1, <3>1, <3>4 DEF Fail, Follows, Calling, AsOfficial
  <2>8. CASE effect.ok
    <3>1. /\ world' = effect.world /\ cmdRes' = Put(cmdRes, i, effect.limbs)
          /\ psyLog' = psyLog \o effect.entries /\ ran' = Append(ran, i)
          /\ UNCHANGED <<psyPc, v, hashes>>
      BY <2>1, <2>4, <2>8 DEF RunCommand
    <3>2. Place(i) = Here'
      BY <2>6, <2>8, <3>1 DEF OfficialRun, Here
    <3>3. Len(ran') = i
      BY <2>1, <2>5, <3>1 DEF Prefix, i
    <3>4. Place(Len(ran))' = Place(i)
      BY <1>1, <3>3 DEF Place
    <3> QED
      BY <2>1, <3>1, <3>2, <3>4 DEF Follows, AsOfficial
  <2> QED
    BY <2>7, <2>8
<1> QED
  BY <1>2, <1>3

\* A definition that is bound is the simulator's next.
LEMMA BindFollows ==
    ASSUME Ahead, TakeResult \/ Define PROVE Follows' /\ AsOfficial'
<1>1. /\ Calling /\ psyPc = "define" /\ Due = {} /\ psyStep < Len(fn.defs)
      /\ UNCHANGED <<pkg, fn, arguments, before>>
  BY DEF TakeResult, Define, Fail, call, Calling
<1>2. CASE ~Scheduled(fn)
  BY <1>1, <1>2 DEF Follows, AsOfficial, Scheduled, TakeResult, Define, Fail
<1>3. CASE Scheduled(fn)
  <2> DEFINE A == OfficialBound(pkg, fn, arguments, before)
             d == fn.defs[psyStep + 1]
             value == IF TakesResult(d) THEN {FirstLimb(cmdRes[d.lit])} ELSE Value(d, v, hashes, arguments)
  <2>1. /\ IsMethod(fn) /\ Prefix /\ psyStep \in 0..Len(fn.defs) /\ Place(Len(ran)) = Here
        /\ Len(fn.defs) \in Nat /\ Len(fn.cmds) \in Nat /\ Len(ran) \in Nat
    BY <1>1, <1>3 DEF Ahead, Inv, Follows, IsMethod, IsSequence, Prefix
  <2>2. A[psyStep + 1] = OfficialBind(fn, arguments, Here, psyStep + 1)
    BY <1>1, <1>3, <2>1, BindsNext
  <2>3. psyStep + 1 \in 0..Len(fn.defs) /\ psyStep + 1 \in DOMAIN fn.defs
    BY <1>1, <2>1 DEF IsMethod, IsSequence
  <2>4. TakesResult(d) => d.lit \in DOMAIN fn.cmds
    BY <1>3, <2>3 DEF Scheduled
  <2>5. CASE value = {}
    <3>1. Fail
      <4>1. ~TakesResult(Definition) /\ Value(Definition, v, hashes, arguments) = {}
        BY <2>5 DEF Definition
      <4>2. Define
        BY <4>1 DEF TakeResult
      <4> QED
        BY <4>1, <4>2 DEF Define
    <3>2. ~A[psyStep + 1].ok
      BY <2>2, <2>5 DEF OfficialBind, Here, Failed
    <3>3. ~Official(pkg, fn, arguments, before).ok
      BY <2>1, <2>3, <3>2, BoundFails
    <3> QED
      BY <1>1, <3>1, <3>3 DEF Fail, Follows, Calling, AsOfficial
  <2>6. CASE value # {}
    <3>1. /\ v' = Put(v, d.wire, Reduced(d, CHOOSE x \in value : TRUE))
          /\ hashes' = IF TakesResult(d) THEN Kept(d, hashes, cmdRes[d.lit]) ELSE ContextHash(d, hashes)
          /\ psyStep' = psyStep + 1
          /\ UNCHANGED <<psyPc, ran, cmdRes, world, psyLog>>
      <4>1. CASE TakesResult(d)
        <5>1. TakeResult /\ d = Definition
          BY <4>1 DEF Define, Definition
        <5>2. value = {FirstLimb(cmdRes[d.lit])}
          BY <4>1
        <5>3. (CHOOSE x \in value : TRUE) = FirstLimb(cmdRes[d.lit])
          BY <5>2
        <5> QED
          BY <2>4, <4>1, <5>1, <5>3 DEF TakeResult
      <4>2. CASE ~TakesResult(d)
        <5>1. Define /\ d = Definition
          BY <4>2 DEF TakeResult, Definition
        <5>2. value = Value(Definition, v, hashes, arguments)
          BY <4>2, <5>1
        <5> QED
          BY <2>6, <4>2, <5>1, <5>2 DEF Define
      <4> QED
        BY <4>1, <4>2
    <3>2. A[psyStep + 1] = Here'
      BY <2>2, <2>6, <3>1 DEF OfficialBind, Here
    <3>3. \A i \in 1..Len(ran) : fn.res[i] # psyStep + 1
      BY <1>3, <2>1 DEF Prefix, Scheduled
    <3>4. OfficialListed(pkg, fn, A[psyStep + 1], psyStep + 1)[Len(ran)]
            = OfficialListed(pkg, fn, A[psyStep + 1], psyStep + 1)[0]
      <4>1. Len(ran) \in 0..Len(fn.cmds) /\ 0 \in 0..Len(ran) /\ 0 + 1 = 1
        BY <2>1 DEF Prefix
      <4> QED
        BY <2>1, <3>3, <4>1, ListedSkips
    <3>5. OfficialListed(pkg, fn, A[psyStep + 1], psyStep + 1)[0] = A[psyStep + 1]
      BY <2>1, ListedUnfolds
    <3>6. Place(Len(ran))' = OfficialListed(pkg, fn, A[psyStep + 1], psyStep + 1)[Len(ran)]
      BY <1>1, <3>1 DEF Place
    <3>7. Place(Len(ran))' = Here'
      BY <3>2, <3>4, <3>5, <3>6
    <3> QED
      BY <1>1, <3>1, <3>7 DEF Follows, AsOfficial
  <2> QED
    BY <2>5, <2>6
<1> QED
  BY <1>2, <1>3

\* A call that returns is at the simulator's end.
LEMMA ReturnFollows ==
    ASSUME Ahead, Return PROVE Follows' /\ AsOfficial'
<1>1. /\ psyPc = "rest" /\ UNCHANGED <<pkg, fn, arguments, before, world, v, psyLog>>
      /\ psyPc' \in {"idle", "failed"}
  BY DEF Return, Fail, call
<1>2. Follows'
  BY <1>1 DEF Follows, Calling
<1>3. CASE ~Scheduled(fn)
  BY <1>1, <1>2, <1>3 DEF AsOfficial, Scheduled
<1>4. CASE Scheduled(fn)
  <2> DEFINE end == Place(Len(fn.cmds))
  <2>1. Len(ran) = Len(fn.cmds) /\ psyStep = Len(fn.defs) /\ end = Here
    BY <1>1, <1>4 DEF Ahead, Inv, Follows, Calling
  <2>2. Official(pkg, fn, arguments, before) =
          IF AssertsHold(fn, v) /\ AllBound(v, fn.outputs)
          THEN [ok |-> TRUE, world |-> world, result |-> Result(fn, v, psyLog)] ELSE Failed
    BY <2>1 DEF Official, Place, Here
  <2>3. CASE AssertsHold(fn, v) /\ AllBound(v, fn.outputs)
    <3>1. psyPc' = "idle" /\ results' = Append(results, Result(fn, v, psyLog))
      BY <2>3 DEF Return
    <3>2. Last(results') = Result(fn, v, psyLog)
      <4>1. PICK S : results \in Seq(S)
        BY DEF Ahead, Listed
      <4> DEFINE r == Result(fn, v, psyLog)
      <4> HIDE DEF r
      <4>2. results \in Seq(S \cup {r}) /\ r \in S \cup {r}
        BY <4>1
      <4>3. Append(results, r)[Len(Append(results, r))] = r
        BY <4>2
      <4> QED
        BY <3>1, <4>3 DEF Last, r
    <3>3. Scheduled(fn)' /\ Official(pkg, fn, arguments, before)' = Official(pkg, fn, arguments, before)
      BY <1>1, <1>4 DEF Scheduled
    <3> QED
      BY <1>1, <1>2, <2>2, <2>3, <3>1, <3>2, <3>3 DEF AsOfficial
  <2>4. CASE ~(AssertsHold(fn, v) /\ AllBound(v, fn.outputs))
    <3>1. psyPc' = "failed"
      BY <2>4 DEF Return, Fail
    <3>2. ~Official(pkg, fn, arguments, before).ok
      BY <2>2, <2>4 DEF Failed
    <3> QED
      BY <1>1, <1>2, <3>1, <3>2 DEF AsOfficial
  <2> QED
    BY <2>3, <2>4
<1> QED
  BY <1>3, <1>4

\* On a method as the compiler lists it, a call that returns has the outputs,
\* events, log and storage the simulator ends with, and one that fails is one the
\* simulator fails: running commands early and after the last definition (run_cmd,
\* run) never shows.
THEOREM AsOfficialCorrect ==
    ASSUME PackagesAreLists PROVE PsySpec => []AsOfficial
<1>1. PsyInit => Ahead
  <2>1. <<>> \in Seq({})
    OBVIOUS
  <2> QED
    BY <2>1, InvInit DEF PsyInit, Started, Ahead, Follows, Listed, Calling, AsOfficial
<1>2. Ahead /\ [PsyNext]_psyVars => Ahead'
  <2> SUFFICES ASSUME Ahead, [PsyNext]_psyVars PROVE Ahead'
    OBVIOUS
  <2>1. Inv'
    BY InvNext DEF Ahead
  <2>2. ASSUME UNCHANGED <<pkg, fn, arguments, psyStep, v, hashes, ran, cmdRes, world, psyLog, results, before>>,
               \/ psyPc' = psyPc
               \/ psyPc = "define" /\ psyPc' = "rest" /\ psyStep = Len(fn.defs)
               \/ psyPc' = "unknown"
        PROVE  Follows' /\ AsOfficial'
    <3>1. Scheduled(fn)' = Scheduled(fn) /\ Here' = Here /\ Place(Len(ran))' = Place(Len(ran))
      BY <2>2 DEF Scheduled, Here, Place
    <3> QED
      BY <2>2, <3>1 DEF Ahead, Follows, Calling, AsOfficial
  <2>3. ASSUME Unknown \/ StartDue \/ StartTaken \/ Defined \/ StartLate \/ UNCHANGED psyVars
        PROVE  Follows' /\ AsOfficial'
    BY <2>2, <2>3 DEF Unknown, StartDue, StartTaken, Defined, StartLate, psyVars, call
  <2>4. Follows' /\ AsOfficial'
    BY <2>3, CallFollows, RunFollows, BindFollows, ReturnFollows DEF PsyNext, psyVars
  <2>5. Listed'
    <3>1. results' = results \/ results' = Append(results, Result(fn, v, psyLog))
      BY DEF PsyNext, StartCall, Unknown, StartDue, RunCommand, StartTaken, TakeResult, Define,
             Defined, StartLate, Return, Fail, psyVars
    <3>2. PICK S : results \in Seq(S)
      BY DEF Ahead, Listed
    <3> DEFINE r == Result(fn, v, psyLog)
    <3> HIDE DEF r
    <3>3. results \in Seq(S \cup {r}) /\ Append(results, r) \in Seq(S \cup {r})
      BY <3>2
    <3> QED
      BY <3>1, <3>3 DEF Listed, r
  <2> QED
    BY <2>1, <2>4, <2>5 DEF Ahead
<1>3. Ahead => AsOfficial
  BY DEF Ahead
<1> QED
  BY <1>1, <1>2, <1>3, PTL DEF PsySpec
=============================================================================
