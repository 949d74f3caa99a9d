-------------------------- MODULE Toolchain_proofs --------------------------
(* The whole program: each half runs as it does alone, so that what is proved *)
(* of ToolRoot holds of every command of toolchain-assets; and what an        *)
(* observation of an installed Lean compiler reports is of one tree, whatever *)
(* other processes do meanwhile.                                              *)
EXTENDS Toolchain, ToolRoot_proofs, WellFoundedInduction

\* The input the half that does not run is given is one of its inputs.
LEMMA InputsExist == AnyTask \in Tasks /\ AnyCase \in Cases
<1>1. Tasks # {} /\ Cases # {}
  BY ToolchainAssumption
<1>2. \E t \in Tasks : Lockless # {} => t \in Lockless
  BY <1>1 DEF Lockless
<1> QED BY <1>1, <1>2 DEF AnyTask, AnyCase

\* The half about locks, hosts and tool roots is not disturbed by the other.
LEMMA ToolHalf == MainSpec => Spec
<1>1. MainInit => Init
  BY InputsExist DEF MainInit, Init
<1>2. [MainNext]_allVars => [Next]_vars
  BY DEF MainNext, LeanCommand, ToolCommand, allVars
<1> QED BY <1>1, <1>2, PTL DEF MainSpec, Spec

\* What a command about hosts or roots has accepted was so while it ran, for
\* all commands, hosts, roots and changes by others.
THEOREM ToolchainAccepted == MainSpec => []AcceptedWasSo
<1>1. TasksAreSound
  BY ToolchainAssumption
<1> QED BY <1>1, ToolHalf, AcceptedWasSoCorrect, PTL

-----------------------------------------------------------------------------
(* The invariant of an observation                                         *)
(*                                                                         *)
(* Every name from "/" to an image is opened from the directory held above *)
(* it, so that what is held leads from one to the next as long as no stamp *)
(* of a held directory changed.  The inspector opens the paths anew, and   *)
(* finds what is held if the names still lead there.  A directory or file   *)
(* that passes at the end has the stamp it was opened with, and stamps only *)
(* grow: it did not change in between either, and what was printed then is  *)
(* of what was hashed.                                                     *)

\* The images an observation is asked for, and the names of one from "/" down.
Asked == ToSet(images)
Prefix(p, n) == SubSeq(Full(p), 1, n)
RootLen == Len(TreeRoot)

\* What is held has not changed since it was opened.
Steady(d) == fs.stamp[window.held[d]] = window.stat[d].stamp
ChainSteady(p) == \A n \in RootLen..(Len(Full(p)) - 1) : Steady(Prefix(p, n))

Installs == {"zip", "extract", "tree", "hash", "probe", "replace", "installed"}
Opens == {"open", "opening", "read"}
Inspects == {"head", "rpaths", "loads", "ids", "admit", "walk"}
Closes == {"files", "dirs", "root"}
Observes == job = "observe" /\ step \in Opens \cup Inspects \cup Closes

\* What each of the three functions goes through, and reports.
PhaseInv ==
  /\ case \in Cases /\ job \in {"install", "observe", "witness"}
  /\ step \in Installs \cup Opens \cup Inspects \cup Closes \cup {"bind", "end"}
  /\ step \in Installs => job = "install"
  /\ job = "install" => step \notin Opens \cup Closes \cup {"bind"} /\ window = NoWindow
  /\ job = "witness" => step \in Opens \cup Closes \cup {"end"}
  /\ outcome = "observed" => job = "observe" /\ step \in {"bind", "end"} /\ OneTree
  /\ IsList(meddled)
  /\ window = [held |-> window.held, stat |-> window.stat, body |-> window.body]
  /\ DOMAIN window.stat = DOMAIN window.held

\* From the extraction on the disk holds the two trees of a sound archive.
DiskInv ==
  /\ step \notin {"zip", "end"} => ValidZip(case)
  /\ step \notin {"zip", "extract", "end"} =>
    /\ manifest = ManifestOf(case)
    /\ fs = [at |-> fs.at, stamp |-> fs.stamp, file |-> fs.file]
    /\ fs.at \in [Inodes(case) -> {1, 2}] /\ fs.stamp \in [Inodes(case) -> Nat]
    /\ DOMAIN fs.file = {<<b, Full(p)>> : b \in {1, 2}, p \in FilesOf(case)}

\* The images are files of the archive, none under another; what is to be done
\* of them and what the inspector printed is of them.
Printed(r) ==
  r = [types |-> r.types, rpaths |-> r.rpaths, runpaths |-> r.runpaths, loads |-> r.loads, ids |-> r.ids]
AskedInv ==
  /\ images \in Seq(Asked) /\ pending \in Seq(Asked)
  /\ Asked \subseteq FilesOf(case) \ {<< >>}
  /\ \A p, q \in Asked : q \notin Ancestors(p)
  /\ step \in Opens => pending = images /\ insp = << >>
  /\ DOMAIN insp \subseteq Asked /\ \A p \in DOMAIN insp : Printed(insp[p])

\* A held name still leads to what is held, unless its directory, or for the
\* root of the tree the root, has changed, or something above it moved.
Stays(p, n) ==
  IF n < RootLen THEN ~AboveMoved
  ELSE IF n = RootLen THEN Steady(Prefix(p, n)) ELSE Steady(Prefix(p, n - 1))
Linked(p, n) ==
  /\ window.held[Prefix(p, n)] \in {1, 2} \X {Prefix(p, n)}
  /\ window.stat[Prefix(p, n)].stamp \in Nat
  /\ window.stat[Prefix(p, n)].stamp <= fs.stamp[window.held[Prefix(p, n)]]
  /\ n > 1 => Prefix(p, n - 1) \in DOMAIN window.held
  /\ Stays(p, n) => FromHeld(Prefix(p, n)) = window.held[Prefix(p, n)]
LinkInv ==
  \A p \in Asked : \A n \in 1..Len(Full(p)) : Prefix(p, n) \in DOMAIN window.held => Linked(p, n)

\* What was hashed of an image is its content until it changes.
Unhashed(p) == Full(p) \in DOMAIN window.held /\ p \notin DOMAIN window.body
BodyInv ==
  /\ \A p \in DOMAIN window.body :
       /\ p \in Asked /\ Full(p) \in DOMAIN window.held
       /\ Steady(Full(p)) => fs.file[window.held[Full(p)]].body = window.body[p]
  /\ \A p, q \in Asked : Unhashed(p) /\ Unhashed(q) => p = q /\ step = "read"
  /\ step = "read" => \E p \in Asked : Unhashed(p)
  /\ step = "opening" => ~AllOpen
  /\ step \notin Opens => \A p \in Asked : Full(p) \in DOMAIN window.held

\* What the inspector has printed so far is of what was hashed, as far as
\* nothing held has changed.
Waiting(p) == p \in ToSet(pending)
TypesTold(p) ==
  /\ p \in DOMAIN insp => insp[p].types = window.body[p].types
  /\ p \notin DOMAIN insp => (step = "head" /\ Waiting(p)) \/ IsObject(window.body[p].types)
RpathsTold(p) == case.platform = "darwin" => insp[p].rpaths = window.body[p].rpaths
LoadsTold(p) == insp[p].loads = window.body[p].loads
Trusted(p) ==
  /\ ~AboveMoved
  /\ step # "root" => ChainSteady(p)
  /\ step \in Inspects \/ (step = "files" /\ Waiting(p)) => Steady(Full(p))
ToldSoFar(p) ==
  /\ TypesTold(p)
  /\ p \in DOMAIN insp =>
       /\ step \in {"loads", "ids"} /\ p = Head(pending) => RpathsTold(p)
       /\ step = "ids" /\ p = Head(pending) => LoadsTold(p)
       /\ step = "admit" /\ p = Head(pending) => Told(p)
       /\ step \in {"rpaths", "loads", "ids", "admit"} /\ ~Waiting(p) => Told(p)
       /\ step \in {"walk"} \cup Closes => Told(p)
ToldInv ==
  step \notin Opens => \A p \in Asked : Trusted(p) => ToldSoFar(p)
PendingInv ==
  /\ step \in {"loads", "ids", "admit"} => pending # << >>
  /\ step \in {"loads", "ids"} => case.platform = "darwin"
  /\ step \in {"dirs", "root"} => pending = << >>

Observing == Observes /\ AskedInv /\ LinkInv /\ BodyInv /\ ToldInv /\ PendingInv
ObservationInv == PhaseInv /\ DiskInv /\ (Observes => Observing)

-----------------------------------------------------------------------------
(* Numbers and paths                                                       *)

(* A set of numbers that is not empty has a first one.                     *)
LEMMA FirstIn ==
  ASSUME NEW S \in SUBSET Nat, S # {}
  PROVE  First(S) \in S /\ \A m \in S : First(S) <= m
<1> DEFINE R == OpToRel(<, Nat)
<1>1. PICK x \in S : \A y \in S : ~(<<y, x>> \in R)
  <2> HIDE DEF R
  <2> QED BY NatLessThanWellFounded, WFMin DEF R
<1>2. ASSUME NEW y \in S PROVE x <= y
  <2>1. <<y, x>> \notin R /\ <<y, x>> \in Nat \X Nat
    BY <1>1
  <2>2. R = {ss \in Nat \X Nat : ss[1] < ss[2]}
    BY DEF OpToRel
  <2> HIDE DEF R
  <2> QED BY <2>1, <2>2
<1> HIDE DEF R
<1> QED BY <1>2 DEF First

(* What holds of 0 and passes from each number to the next holds of all.   *)
LEMMA Counting ==
  ASSUME NEW N \in Nat, NEW G, 0 \in G, \A n \in 1..N : n - 1 \in G => n \in G
  PROVE  0..N \subseteq G
<1> DEFINE Wrong == {n \in 0..N : n \notin G}
<1>1. ASSUME Wrong # {} PROVE FALSE
  <2>1. Wrong \in SUBSET Nat
    OBVIOUS
  <2>2. First(Wrong) \in Wrong /\ \A m \in Wrong : First(Wrong) <= m
    BY <1>1, <2>1, FirstIn
  <2> DEFINE k == First(Wrong)
  <2>3. k \in 0..N /\ k \notin G /\ \A m \in Wrong : k <= m
    BY <2>2
  <2> HIDE DEF k
  <2>4. k \in 1..N /\ k - 1 \in 0..N
    <3>1. k # 0
      BY <2>3
    <3> QED BY <2>3, <3>1
  <2>5. k - 1 \in G
    BY <2>3, <2>4
  <2> QED BY <2>3, <2>4, <2>5
<1> QED BY <1>1

(* The names from "/" to the tree, and those below.                        *)
LEMMA RootFacts == RootLen \in Nat \ {0} /\ Above \in Seq(ToSet(Above))
<1>1. Above \in Seq(ToSet(Above)) /\ Above # << >>
  BY RuntimeAssumption, GraphAssumption DEF IsList
<1> QED BY <1>1, EmptySeq, LenProperties DEF RootLen, TreeRoot

(* A path below the tree is the names of the tree, then its own. *)
LEMMA FullFacts ==
  ASSUME NEW p, IsList(p)
  PROVE  /\ Full(p) \in Seq(ToSet(Above) \cup ToSet(p)) /\ Len(p) \in Nat
         /\ Len(Full(p)) = RootLen + Len(p) /\ Len(Full(p)) \in Nat \ {0}
         /\ \A i \in 1..Len(p) : Full(p)[RootLen + i] = p[i]
         /\ Prefix(p, Len(Full(p))) = Full(p)
<1> DEFINE U == ToSet(Above) \cup ToSet(p)
<1>1. Above \in Seq(U) /\ p \in Seq(U)
  BY RootFacts, SeqMonotonic DEF IsList
<1> HIDE DEF U
<1>2. /\ Above \o p \in Seq(U) /\ Len(Above \o p) = Len(Above) + Len(p)
      /\ \A i \in 1..(Len(Above) + Len(p)) : (Above \o p)[i] = IF i <= Len(Above) THEN Above[i] ELSE p[i - Len(Above)]
  BY <1>1, ConcatProperties
<1>3. Len(p) \in Nat /\ Len(Above) \in Nat \ {0}
  BY <1>1, LenProperties, RootFacts DEF RootLen, TreeRoot
<1>4. ASSUME NEW i \in 1..Len(p) PROVE (Above \o p)[Len(Above) + i] = p[i]
  <2>1. Len(Above) + i \in 1..(Len(Above) + Len(p)) /\ ~(Len(Above) + i <= Len(Above)) /\ (Len(Above) + i) - Len(Above) = i
    BY <1>3
  <2> QED BY <1>2, <2>1
<1>5. SubSeq(Above \o p, 1, Len(Above \o p)) = Above \o p
  BY <1>2, <1>3, SubSeqFull
<1> QED BY <1>2, <1>3, <1>4, <1>5 DEF U, Full, TreeRoot, RootLen, Prefix

(* The names of a path, one below the other.                               *)
LEMMA PrefixFacts ==
  ASSUME NEW p, IsList(p), NEW n \in 1..Len(Full(p))
  PROVE  /\ Len(Prefix(p, n)) = n
         /\ n > 1 => Parent(Prefix(p, n)) = Prefix(p, n - 1)
<1> DEFINE U == ToSet(Above) \cup ToSet(p)
           s == Full(p)
<1>1. s \in Seq(U) /\ Len(s) \in Nat \ {0} /\ \A i \in 1..Len(s) : s[i] \in U
  BY FullFacts, ElementOfSeq
<1> HIDE DEF U, s
<1>2. SubSeq(s, 1, n) \in Seq(U) /\ Len(SubSeq(s, 1, n)) = n
  <2>1. 1 \in Int /\ n \in Int /\ (\A i \in 1..n : s[i] \in U) /\ (1 <= n) /\ n - 1 + 1 = n
    BY <1>1 DEF s
  <2> QED BY <2>1, SubSeqProperties
<1>4. ASSUME n > 1 PROVE SubSeq(SubSeq(s, 1, n), 1, n - 1) = SubSeq(s, 1, n - 1)
  <2>1. /\ 1 \in 1..Len(s) /\ n \in 1..Len(s) /\ 1 \in 1..(n - 1 + 1) /\ n - 1 \in 1..(n - 1 + 1)
        /\ 1 + 1 - 1 = 1 /\ 1 + (n - 1) - 1 = n - 1
    BY <1>1, <1>4 DEF s
  <2> QED BY <1>1, <2>1, SubSeqOfSubSeq
<1> QED BY <1>2, <1>4 DEF Prefix, Parent, s

(* A path is under no file, so that a file's name is a proper part of it    *)
(* only if the file's path is an ancestor.                                 *)
LEMMA NestedPaths ==
  ASSUME NEW p, NEW q, IsList(p), IsList(q), q # << >>,
         NEW n \in 1..(Len(Full(p)) - 1), Prefix(p, n) = Full(q)
  PROVE  q \in Ancestors(p)
<1>1. /\ Len(p) \in Nat /\ Len(q) \in Nat /\ Len(Full(p)) = RootLen + Len(p) /\ Len(Full(q)) = RootLen + Len(q)
      /\ RootLen \in Nat
  BY FullFacts, RootFacts
<1>2. Len(q) # 0
  BY EmptySeq DEF IsList
<1>3. n \in 1..Len(Full(p)) /\ n = RootLen + Len(q)
  <2>1. n \in 1..Len(Full(p))
    BY <1>1
  <2> QED BY <1>1, <2>1, PrefixFacts
<1>4. Len(q) \in 1..(Len(p) - 1)
  BY <1>1, <1>2, <1>3
<1>5. \A i \in 1..Len(q) : q[i] = p[i]
  <2> SUFFICES ASSUME NEW i \in 1..Len(q) PROVE q[i] = p[i]
    OBVIOUS
  <2> DEFINE U == ToSet(Above) \cup ToSet(p)
             s == Full(p)
  <2>1. s \in Seq(U) /\ \A j \in 1..Len(s) : s[j] \in U
    BY FullFacts, ElementOfSeq
  <2>2. Full(q)[RootLen + i] = q[i] /\ s[RootLen + i] = p[i]
    <3>1. i \in 1..Len(p)
      BY <1>1, <1>4
    <3> QED BY <3>1, FullFacts
  <2> HIDE DEF U, s
  <2>3. SubSeq(s, 1, n)[RootLen + i] = s[RootLen + i]
    <3>1. /\ 1 \in Int /\ n \in Int /\ (\A j \in 1..n : s[j] \in U)
          /\ RootLen + i \in 1..(n - 1 + 1) /\ 1 + (RootLen + i) - 1 = RootLen + i
      BY <1>1, <1>3, <2>1 DEF s
    <3> QED BY <3>1, SubSeqProperties
  <2> QED BY <2>2, <2>3 DEF Prefix, s
<1>6. SubSeq(p, 1, Len(q)) = q
  <2> DEFINE T == ToSet(p) \cup ToSet(q)
  <2>1. p \in Seq(T) /\ q \in Seq(T) /\ \A i \in 1..Len(p) : p[i] \in T
    BY SeqMonotonic, ElementOfSeq DEF IsList
  <2> HIDE DEF T
  <2>2. /\ SubSeq(p, 1, Len(q)) \in Seq(T) /\ Len(SubSeq(p, 1, Len(q))) = Len(q)
        /\ \A i \in 1..Len(q) : SubSeq(p, 1, Len(q))[i] = p[i]
    <3>1. /\ 1 \in Int /\ Len(q) \in Int /\ (\A i \in 1..Len(q) : p[i] \in T) /\ 1 <= Len(q)
          /\ Len(q) - 1 + 1 = Len(q) /\ \A i \in 1..Len(q) : 1 + i - 1 = i
      BY <1>1, <1>4, <2>1
    <3> QED BY <3>1, SubSeqProperties
  <2> QED BY <1>5, <2>1, <2>2, SeqEqual
<1> QED BY <1>4, <1>6 DEF Ancestors

(* Two paths with one full name are one.                                   *)
LEMMA FullInjective ==
  ASSUME NEW p, NEW q, IsList(p), IsList(q), Full(p) = Full(q)
  PROVE  p = q
<1> DEFINE T == ToSet(p) \cup ToSet(q)
<1>1. p \in Seq(T) /\ q \in Seq(T)
  BY SeqMonotonic DEF IsList
<1>2. /\ Len(Full(p)) = RootLen + Len(p) /\ Len(Full(q)) = RootLen + Len(q)
      /\ Len(p) \in Nat /\ Len(q) \in Nat /\ RootLen \in Nat
  BY FullFacts, RootFacts
<1>3. Len(p) = Len(q)
  BY <1>2
<1>4. \A i \in 1..Len(p) : p[i] = q[i]
  BY <1>3, FullFacts
<1> HIDE DEF T
<1> QED BY <1>1, <1>3, <1>4, SeqEqual

(* The walk from "/" along a path follows what is held, if every name of   *)
(* the path leads from what is held above it to what is held of it.        *)
LEMMA LookupHeld ==
  ASSUME NEW p, IsList(p),
         \A n \in 1..Len(Full(p)) : FromHeld(Prefix(p, n)) = window.held[Prefix(p, n)]
  PROVE  Lookup(Full(p)) = window.held[Full(p)]
<1> DEFINE L == Len(Full(p))
           Next1(h, n) == IF n = 0 THEN <<1, << >>>> ELSE Below(h[n - 1], SubSeq(Full(p), 1, n))
           Eq(h) == h = [n \in 0..L |-> Next1(h, n)]
           g == [n \in 0..L |-> IF n = 0 THEN <<1, << >>>> ELSE window.held[Prefix(p, n)]]
<1>1. L \in Nat \ {0}
  BY FullFacts
<1>2. ASSUME NEW n \in 1..L PROVE g[n] = Below(g[n - 1], SubSeq(Full(p), 1, n))
  <2>1. n \in 0..L /\ n - 1 \in 0..L /\ n # 0 /\ (n = 1 <=> n - 1 = 0) /\ (n > 1 <=> n # 1)
    BY <1>1
  <2>2. g[n] = FromHeld(Prefix(p, n))
    BY <2>1
  <2>3. HeldParent(Prefix(p, n)) = g[n - 1]
    BY <2>1, PrefixFacts DEF HeldParent
  <2> QED BY <2>2, <2>3 DEF FromHeld, Prefix
<1>3. Eq(g)
  <2>1. \A n \in 0..L : g[n] = Next1(g, n)
    <3>1. \A n \in 0..L : n = 0 \/ n \in 1..L
      BY <1>1
    <3> QED BY <1>2, <3>1
  <2> QED BY <2>1
<1>4. Walked(Full(p)) = CHOOSE h : Eq(h)
  BY DEF Walked
<1>5. Eq(Walked(Full(p)))
  <2> HIDE DEF Eq, g
  <2> QED BY <1>3, <1>4
<1> DEFINE w == Walked(Full(p))
           Right == {n \in 0..L : w[n] = g[n]}
<1>6. w[0] = g[0] /\ \A n \in 1..L : w[n] = Below(w[n - 1], SubSeq(Full(p), 1, n))
  <2> HIDE DEF w
  <2>1. w = [n \in 0..L |-> Next1(w, n)]
    BY <1>5 DEF w
  <2>2. 0 \in 0..L /\ \A n \in 1..L : n \in 0..L /\ n # 0
    BY <1>1
  <2> QED BY <2>1, <2>2
<1> HIDE DEF w, g, Eq
<1>7. 0..L \subseteq Right
  <2>1. 0 \in Right
    BY <1>1, <1>6
  <2>2. \A n \in 1..L : n - 1 \in Right => n \in Right
    BY <1>1, <1>2, <1>6
  <2> HIDE DEF Right
  <2> QED BY <1>1, <2>1, <2>2, Counting
<1>8. w[L] = g[L]
  BY <1>1, <1>7
<1>9. g[L] = window.held[Full(p)]
  <2>1. Prefix(p, Len(Full(p))) = Full(p)
    BY FullFacts
  <2>2. L \in 0..L /\ L # 0
    BY <1>1
  <2> QED BY <2>1, <2>2 DEF g
<1> QED BY <1>8, <1>9 DEF w, Lookup

(* The images found to be of a runtime type, in their order.               *)
LEMMA RuntimeImagesAre ==
  ASSUME NEW S, images \in Seq(S)
  PROVE  RuntimeImages \in Seq(S) /\ \A p \in DOMAIN insp : p \in ToSet(images) => p \in ToSet(RuntimeImages)
<1> DEFINE N == Len(images)
           Longer(s, n) == IF images[n] \in DOMAIN insp THEN Append(s, images[n]) ELSE s
           Grows(h, k) == h[0] = << >> /\ \A n \in 1..k : h[n] = Longer(h[n - 1], n)
           Eq(h) == h = [n \in 0..N |-> IF n = 0 THEN << >> ELSE Longer(h[n - 1], n)]
<1>1. N \in Nat /\ DOMAIN images = 1..N /\ \A n \in 1..N : images[n] \in S
  BY LenProperties, ElementOfSeq
<1>2. ASSUME NEW n \in 1..N, NEW s \in Seq(S)
      PROVE  /\ Longer(s, n) \in Seq(S) /\ ToSet(s) \subseteq ToSet(Longer(s, n))
             /\ images[n] \in DOMAIN insp => images[n] \in ToSet(Longer(s, n))
  <2>1. CASE images[n] \in DOMAIN insp
    <3> DEFINE e == images[n]
               t == Append(s, e)
    <3>1. e \in S
      BY <1>1
    <3> HIDE DEF e
    <3>2. /\ t \in Seq(S) /\ Len(t) = Len(s) + 1
          /\ \A i \in 1..Len(s) : t[i] = s[i]
          /\ t[Len(s) + 1] = e
      BY <3>1, AppendProperties
    <3> HIDE DEF t
    <3>3. Len(s) \in Nat /\ DOMAIN s = 1..Len(s) /\ DOMAIN t = 1..Len(t)
      BY <3>2, LenProperties
    <3>4. ToSet(s) \subseteq ToSet(t)
      <4>1. \A i \in 1..Len(s) : i \in 1..Len(t)
        BY <3>2, <3>3
      <4> QED BY <3>2, <3>3, <4>1 DEF ToSet
    <3>5. e \in ToSet(t)
      <4>1. Len(s) + 1 \in 1..Len(t)
        BY <3>2, <3>3
      <4> QED BY <3>2, <3>3, <4>1 DEF ToSet
    <3> QED BY <2>1, <3>2, <3>4, <3>5 DEF e, t
  <2>2. CASE images[n] \notin DOMAIN insp
    BY <2>2
  <2> QED BY <2>1, <2>2
<1> HIDE DEF Longer
<1>3. \E h : h \in [0..N -> Seq(S)] /\ Grows(h, N)
  <2> DEFINE G == {k \in 0..N : \E h : h \in [0..k -> Seq(S)] /\ Grows(h, k)}
  <2>1. 0 \in G
    <3> DEFINE h == [n \in 0..0 |-> << >>]
    <3>1. << >> \in Seq(S) /\ 0 \in 0..0 /\ 1..0 = {} /\ 0 \in 0..N
      BY <1>1, EmptySeq
    <3>2. h \in [0..0 -> Seq(S)]
      BY <3>1
    <3>3. Grows(h, 0)
      BY <3>1
    <3> HIDE DEF h, Grows
    <3>4. \E z : z \in [0..0 -> Seq(S)] /\ Grows(z, 0)
      BY <3>2, <3>3
    <3> QED BY <3>1, <3>4
  <2>2. ASSUME NEW k \in 1..N, k - 1 \in G PROVE k \in G
    <3>1. PICK h : h \in [0..(k - 1) -> Seq(S)] /\ Grows(h, k - 1)
      BY <2>2
    <3> DEFINE new == Longer(h[k - 1], k)
               f == [n \in 0..k |-> IF n = k THEN new ELSE h[n]]
    <3>2. k - 1 \in 0..(k - 1) /\ k \in 0..k
      BY <1>1
    <3>3. new \in Seq(S)
      BY <1>2, <3>1, <3>2
    <3>4. f \in [0..k -> Seq(S)]
      <4> HIDE DEF new
      <4>1. \A n \in 0..k : n = k \/ n \in 0..(k - 1)
        BY <1>1
      <4> QED BY <3>1, <3>3, <4>1
    <3>5. Grows(f, k)
      <4>1. 0 \in 0..k /\ 0 # k
        BY <1>1
      <4>2. f[0] = << >>
        BY <3>1, <4>1
      <4>3. ASSUME NEW n \in 1..k PROVE f[n] = Longer(f[n - 1], n)
        <5>1. n - 1 \in 0..k /\ n \in 0..k /\ n - 1 # k
          BY <1>1
        <5>2. CASE n = k
          BY <5>1, <5>2
        <5>3. CASE n # k
          <6>1. n \in 1..(k - 1)
            BY <1>1, <5>3
          <6> QED BY <3>1, <5>1, <5>3, <6>1
        <5> QED BY <5>2, <5>3
      <4> QED BY <4>2, <4>3
    <3> HIDE DEF f, Grows
    <3> QED BY <1>1, <3>4, <3>5
  <2> HIDE DEF G
  <2>3. N \in G
    <3>1. 0..N \subseteq G
      BY <1>1, <2>1, <2>2, Counting
    <3> QED BY <1>1, <3>1
  <2> QED BY <2>3 DEF G
<1>4. PICK h : h \in [0..N -> Seq(S)] /\ Grows(h, N)
  BY <1>3
<1>5. Eq(h)
  <2>1. \A n \in 0..N : h[n] = IF n = 0 THEN << >> ELSE Longer(h[n - 1], n)
    <3>1. \A n \in 0..N : n = 0 \/ n \in 1..N
      BY <1>1
    <3> QED BY <1>4, <3>1
  <2> QED BY <1>4, <2>1
<1>6. RuntimeUpTo = CHOOSE z : Eq(z)
  BY DEF RuntimeUpTo, Longer
<1>7. Eq(RuntimeUpTo)
  <2> HIDE DEF Eq
  <2> QED BY <1>5, <1>6
<1> DEFINE f == RuntimeUpTo
           Good(n) == f[n] \in Seq(S) /\ \A m \in 1..n : images[m] \in DOMAIN insp => images[m] \in ToSet(f[n])
           G == {n \in 0..N : Good(n)}
<1>8. f[0] = << >> /\ \A n \in 1..N : f[n] = Longer(f[n - 1], n)
  <2> HIDE DEF f
  <2>1. f = [n \in 0..N |-> IF n = 0 THEN << >> ELSE Longer(f[n - 1], n)]
    BY <1>7 DEF f
  <2>2. 0 \in 0..N /\ \A n \in 1..N : n \in 0..N /\ n # 0
    BY <1>1
  <2> QED BY <2>1, <2>2
<1> HIDE DEF f
<1>9. 0 \in G
  <2>1. << >> \in Seq(S) /\ 1..0 = {} /\ 0 \in 0..N
    BY <1>1, EmptySeq
  <2>2. f[0] \in Seq(S)
    BY <1>8, <2>1
  <2> QED BY <2>1, <2>2
<1>10. ASSUME NEW n \in 1..N, n - 1 \in G PROVE n \in G
  <2>1. f[n - 1] \in Seq(S) /\ f[n] = Longer(f[n - 1], n)
    BY <1>8, <1>10
  <2>2. f[n] \in Seq(S) /\ ToSet(f[n - 1]) \subseteq ToSet(f[n])
        /\ (images[n] \in DOMAIN insp => images[n] \in ToSet(f[n]))
    BY <1>2, <2>1
  <2>3. ASSUME NEW m \in 1..n, images[m] \in DOMAIN insp PROVE images[m] \in ToSet(f[n])
    <3>1. m = n \/ m \in 1..(n - 1)
      BY <1>1
    <3> QED BY <1>10, <2>2, <2>3, <3>1
  <2> QED BY <1>1, <2>2, <2>3
<1>11. Good(N)
  <2> HIDE DEF Good
  <2>1. 0 \in G /\ \A n \in 1..N : n - 1 \in G => n \in G
    BY <1>9, <1>10
  <2> HIDE DEF G
  <2>2. 0..N \subseteq G
    BY <1>1, <2>1, Counting
  <2> QED BY <1>1, <2>2 DEF G
<1> QED BY <1>1, <1>11 DEF RuntimeImages, ToSet, f

(* The paths of an archive are lists of names.                             *)
LEMMA CasePaths ==
  ASSUME case \in Cases, NEW p \in PathsOf(case)
  PROVE  IsList(p) /\ \A n \in 1..Len(Full(p)) : Prefix(p, n) \in NamesIn(case)
<1>1. IsList(p)
  BY RuntimeAssumption DEF CasesAreLists, PathsOf, ToSet
<1>2. ASSUME NEW n \in 1..Len(Full(p)) PROVE Prefix(p, n) \in NamesIn(case)
  BY DEF Prefix, NamesIn
<1> QED BY <1>1, <1>2

(* A file of an archive is one of its paths. *)
LEMMA FilesArePaths ==
  ASSUME NEW p \in FilesOf(case) PROVE p \in PathsOf(case)
BY DEF FilesOf, PathsOf

(* What an observation is asked for are files of the archive, and none is  *)
(* under another, since what a path is under is a directory.               *)
LEMMA AskedFiles ==
  ASSUME PathsOk(images), ValidZip(case), manifest = ManifestOf(case)
  PROVE  /\ images \in Seq(Asked) /\ Asked \subseteq FilesOf(case) \ {<< >>}
         /\ \A p, q \in Asked : q \notin Ancestors(p)
<1>1. ASSUME NEW p \in Asked
      PROVE  p \in PathsOf(case) \ {<< >>} /\ ~EntryAt(case, p).dir
  <2>1. p \in DOMAIN manifest /\ manifest[p].kind = "file"
    BY DEF PathsOk, Asked
  <2>2. p \in PathsOf(case) \ {<< >>} /\ RecordOf(EntryAt(case, p)).kind = "file"
    BY <2>1 DEF ManifestOf
  <2> QED BY <2>2 DEF RecordOf
<1>2. ASSUME NEW p \in Asked PROVE p \in FilesOf(case)
  <2> DEFINE i == CHOOSE k \in DOMAIN case.entries : case.entries[k].path = p
  <2>1. \E k \in DOMAIN case.entries : case.entries[k].path = p
    BY <1>1, <1>2 DEF PathsOf
  <2>2. i \in DOMAIN case.entries /\ case.entries[i].path = p
    BY <2>1
  <2>3. ~case.entries[i].dir
    BY <1>1, <1>2 DEF EntryAt
  <2> HIDE DEF i
  <2> QED BY <2>2, <2>3 DEF FilesOf
<1>3. ASSUME NEW p \in Asked, NEW q \in Asked, q \in Ancestors(p) PROVE FALSE
  <2>1. p \in PathsOf(case) /\ q \in PathsOf(case) /\ ~EntryAt(case, q).dir
    BY <1>1, <1>3
  <2>2. EntryAt(case, q).dir
    BY <1>3, <2>1 DEF ValidZip
  <2> QED BY <2>1, <2>2
<1>4. images \in Seq(Asked)
  BY DEF PathsOk, Asked
<1> QED BY <1>1, <1>2, <1>3, <1>4

(* Of a sequence that is not empty.                                        *)
LEMMA HeadAndTail ==
  ASSUME NEW S, NEW s \in Seq(S), s # << >>
  PROVE  /\ Head(s) \in S /\ Head(s) \in ToSet(s) /\ Tail(s) \in Seq(S)
         /\ ToSet(s) = {Head(s)} \cup ToSet(Tail(s))
<1>1. /\ Head(s) \in S /\ Tail(s) \in Seq(S) /\ Len(s) \in Nat \ {0} /\ DOMAIN s = 1..Len(s)
      /\ Len(Tail(s)) = Len(s) - 1 /\ DOMAIN Tail(s) = 1..(Len(s) - 1)
      /\ \A i \in 1..(Len(s) - 1) : Tail(s)[i] = s[i + 1]
  <2>1. Len(s) \in Nat /\ DOMAIN s = 1..Len(s) /\ Len(s) # 0
    BY LenProperties, EmptySeq
  <2>2. /\ Head(s) \in S /\ Tail(s) \in Seq(S) /\ Len(Tail(s)) = Len(s) - 1
        /\ \A i \in 1..Len(Tail(s)) : Tail(s)[i] = s[i + 1]
    BY HeadTailProperties
  <2> QED BY <2>1, <2>2, LenProperties
<1>2. Head(s) = s[1]
  OBVIOUS
<1>3. \A i \in 1..Len(s) : i = 1 \/ (i - 1 \in 1..(Len(s) - 1) /\ (i - 1) + 1 = i)
  BY <1>1
<1>4. ToSet(s) \subseteq {Head(s)} \cup ToSet(Tail(s))
  <2> SUFFICES ASSUME NEW i \in 1..Len(s), i # 1 PROVE s[i] \in ToSet(Tail(s))
    BY <1>1, <1>2 DEF ToSet
  <2>1. i - 1 \in DOMAIN Tail(s) /\ Tail(s)[i - 1] = s[i]
    BY <1>1, <1>3
  <2> QED BY <2>1 DEF ToSet
<1>5. 1 \in DOMAIN s /\ \A i \in DOMAIN Tail(s) : i + 1 \in DOMAIN s
  BY <1>1
<1>6. {Head(s)} \cup ToSet(Tail(s)) \subseteq ToSet(s)
  BY <1>1, <1>2, <1>5 DEF ToSet
<1> QED BY <1>1, <1>4, <1>6

(* A list with one more at its end is a list. *)
LEMMA LongerList ==
  ASSUME NEW s, NEW e, IsList(s)
  PROVE  /\ IsList(Append(s, e)) /\ Len(Append(s, e)) = Len(s) + 1 /\ Len(s) \in Nat
         /\ DOMAIN s = 1..Len(s) /\ DOMAIN Append(s, e) = 1..(Len(s) + 1)
         /\ \A i \in DOMAIN s : Append(s, e)[i] = s[i]
         /\ Append(s, e)[Len(s) + 1] = e
<1> DEFINE T == ToSet(s) \cup {e}
           t == Append(s, e)
<1>1. s \in Seq(T) /\ e \in T
  BY SeqMonotonic DEF IsList
<1> HIDE DEF T
<1>2. /\ t \in Seq(T) /\ Len(t) = Len(s) + 1 /\ Len(s) \in Nat
      /\ \A i \in 1..Len(s) : t[i] = s[i]
      /\ t[Len(s) + 1] = e
  BY <1>1, AppendProperties, LenProperties
<1>3. DOMAIN s = 1..Len(s) /\ DOMAIN t = 1..Len(t)
  BY <1>1, <1>2, LenProperties
<1>4. IsList(t)
  <2> HIDE DEF t
  <2>1. \A i \in 1..Len(t) : t[i] \in ToSet(t)
    BY <1>3 DEF ToSet
  <2>2. t = [i \in 1..Len(t) |-> t[i]] /\ Len(t) \in Nat
    <3>1. t \in [1..Len(t) -> T] /\ Len(t) \in Nat
      BY <1>2, ElementOfSeq, LenProperties
    <3> QED BY <3>1
  <2>3. t \in [1..Len(t) -> ToSet(t)]
    BY <2>1, <2>2
  <2>4. t \in UNION {[1..n -> ToSet(t)] : n \in Nat}
    BY <2>2, <2>3
  <2>5. t \in Seq(ToSet(t))
    BY <2>4, SeqDef
  <2> QED BY <2>5 DEF IsList
<1> QED BY <1>2, <1>3, <1>4

(* The next name to open is one of an image that is not held, and what is  *)
(* above it is held.                                                       *)
LEMMA OpeningFacts ==
  ASSUME pending \in Seq(Asked), \A p \in Asked : IsList(p), ~AllOpen
  PROVE  \E p \in Asked : \E n \in 1..Len(Full(p)) :
           /\ Opening = Prefix(p, n) /\ Opening \notin DOMAIN window.held
           /\ n > 1 => Prefix(p, n - 1) \in DOMAIN window.held
<1> DEFINE i == First(Unopened)
           p == pending[i]
           Wrong == {n \in 1..Len(Full(p)) : Prefix(p, n) \notin DOMAIN window.held}
           k == First(Wrong)
<1>1. i \in Unopened
  <2>1. Unopened \in SUBSET Nat
    <3>1. Len(pending) \in Nat /\ DOMAIN pending = 1..Len(pending)
      BY LenProperties
    <3> QED BY <3>1 DEF Unopened
  <2> QED BY <2>1, FirstIn DEF AllOpen
<1>2. p \in Asked /\ Full(p) \notin DOMAIN window.held
  <2>1. i \in DOMAIN pending /\ Full(pending[i]) \notin DOMAIN window.held
    BY <1>1 DEF Unopened
  <2>2. DOMAIN pending = 1..Len(pending)
    BY LenProperties
  <2> QED BY <2>1, <2>2, ElementOfSeq
<1>3. Opening = Prefix(p, k)
  BY DEF Opening, Prefix
<1> HIDE DEF p, i
<1>4. Len(Full(p)) \in Nat \ {0} /\ Prefix(p, Len(Full(p))) = Full(p)
  BY <1>2, FullFacts
<1>5. Wrong \in SUBSET Nat /\ Wrong # {}
  BY <1>2, <1>4
<1>6. k \in Wrong /\ \A m \in Wrong : k <= m
  <2> HIDE DEF Wrong
  <2> QED BY <1>5, FirstIn
<1> HIDE DEF k
<1>7. ASSUME k > 1 PROVE Prefix(p, k - 1) \in DOMAIN window.held
  <2>1. k - 1 \in 1..Len(Full(p)) /\ ~(k <= k - 1)
    BY <1>4, <1>6, <1>7
  <2> QED BY <1>6, <2>1
<1> QED BY <1>2, <1>3, <1>6, <1>7

(* If a path is held, so is everything it is in.                           *)
LEMMA HeldAbove ==
  ASSUME NEW p \in Asked, IsList(p), Full(p) \in DOMAIN window.held,
         \A n \in 1..Len(Full(p)) : Prefix(p, n) \in DOMAIN window.held => Linked(p, n)
  PROVE  \A n \in 1..Len(Full(p)) : Prefix(p, n) \in DOMAIN window.held
<1> DEFINE L == Len(Full(p))
           G == {k \in 0..(L - 1) : Prefix(p, L - k) \in DOMAIN window.held}
<1>1. L \in Nat \ {0} /\ Prefix(p, L) = Full(p)
  BY FullFacts
<1> HIDE DEF L
<1>2. 0 \in G
  <2>1. L - 0 = L /\ 0 \in 0..(L - 1)
    BY <1>1
  <2> QED BY <1>1, <2>1
<1>3. ASSUME NEW k \in 1..(L - 1), k - 1 \in G PROVE k \in G
  <2>1. L - (k - 1) \in 1..L /\ L - (k - 1) > 1 /\ L - (k - 1) - 1 = L - k /\ k \in 0..(L - 1)
    BY <1>1
  <2>2. Prefix(p, L - (k - 1)) \in DOMAIN window.held
    BY <1>3
  <2>3. Linked(p, L - (k - 1))
    BY <2>1, <2>2 DEF L
  <2> QED BY <2>1, <2>3 DEF Linked
<1>4. 0..(L - 1) \subseteq G
  <2>1. L - 1 \in Nat
    BY <1>1
  <2> HIDE DEF G
  <2> QED BY <1>2, <1>3, <2>1, Counting
<1>5. ASSUME NEW n \in 1..L PROVE Prefix(p, n) \in DOMAIN window.held
  <2>1. L - n \in 0..(L - 1) /\ L - (L - n) = n
    BY <1>1
  <2> QED BY <1>4, <2>1
<1> QED BY <1>5 DEF L

(* While nothing held of an image has changed, and nothing above the tree  *)
(* moved, its path leads to what was hashed of it.                         *)
LEMMA TrustedImage ==
  ASSUME PhaseInv, DiskInv, Observing, step \in Inspects,
         NEW p \in Asked, Trusted(p)
  PROVE  ImageNow(p) = window.body[p]
<1>1. IsList(p) /\ p # << >>
  BY CasePaths, FilesArePaths DEF PhaseInv, Observing, AskedInv
<1>2. Len(Full(p)) \in Nat /\ RootLen \in Nat \ {0} /\ RootLen < Len(Full(p))
  <2>1. Len(p) # 0 /\ Len(p) \in Nat
    BY <1>1, EmptySeq, FullFacts DEF IsList
  <2>2. Len(Full(p)) \in Nat /\ RootLen \in Nat \ {0} /\ Len(Full(p)) = RootLen + Len(p)
    BY <1>1, FullFacts, RootFacts
  <2> QED BY <2>1, <2>2
<1>3. Full(p) \in DOMAIN window.held /\ p \in DOMAIN window.body
  BY DEF Observing, BodyInv, Unhashed, Inspects, Opens
<1>4. \A n \in 1..Len(Full(p)) : Prefix(p, n) \in DOMAIN window.held => Linked(p, n)
  BY DEF Observing, LinkInv
<1>5. \A n \in 1..Len(Full(p)) : Linked(p, n)
  BY <1>1, <1>3, <1>4, HeldAbove
<1>6. ~AboveMoved /\ ChainSteady(p) /\ Steady(Full(p))
  BY DEF Trusted, Inspects
<1>7. ASSUME NEW n \in 1..Len(Full(p)) PROVE Stays(p, n)
  <2>1. CASE n < RootLen
    BY <1>6, <2>1 DEF Stays
  <2>2. CASE n = RootLen
    <3>1. n \in RootLen..(Len(Full(p)) - 1)
      BY <1>2, <2>2
    <3> QED BY <1>2, <1>6, <2>2, <3>1 DEF Stays, ChainSteady
  <2>3. CASE n > RootLen
    <3>1. n - 1 \in RootLen..(Len(Full(p)) - 1) /\ ~(n < RootLen) /\ n # RootLen
      BY <1>2, <2>3
    <3> QED BY <1>6, <3>1 DEF Stays, ChainSteady
  <2> QED BY <1>2, <2>1, <2>2, <2>3
<1>8. Lookup(Full(p)) = window.held[Full(p)]
  BY <1>1, <1>5, <1>7, LookupHeld DEF Linked
<1> QED BY <1>3, <1>6, <1>8 DEF Observing, BodyInv, ImageNow

(* The two trees have an entry for every file of the archive. *)
LEMMA FilesAreInodes ==
  ASSUME case \in Cases
  PROVE  {<<b, Full(p)>> : b \in {1, 2}, p \in FilesOf(case)} \subseteq Inodes(case)
<1> SUFFICES ASSUME NEW p \in FilesOf(case) PROVE Full(p) \in NamesIn(case)
  BY DEF Inodes
<1>1. IsList(p) /\ p \in PathsOf(case)
  BY CasePaths, FilesArePaths
<1>2. Len(Full(p)) \in 1..Len(Full(p)) /\ Prefix(p, Len(Full(p))) = Full(p)
  <2>1. Len(Full(p)) \in Nat \ {0} /\ Prefix(p, Len(Full(p))) = Full(p)
    BY <1>1, FullFacts
  <2> QED BY <2>1
<1> QED BY <1>1, <1>2, CasePaths

(* What another process does leaves a new stamp on what it changes.        *)
LEMMA TamperFacts ==
  ASSUME PhaseInv, DiskInv, Tamper
  PROVE  /\ step \notin {"zip", "extract", "bind", "end"}
         /\ UNCHANGED <<case, step, job, disk, manifest, images, pending, insp, unread, walk, outcome, bound>>
         /\ IsList(meddled') /\ (AboveMoved => AboveMoved')
         /\ fs' = [at |-> fs'.at, stamp |-> fs'.stamp, file |-> fs'.file]
         /\ fs'.at \in [Inodes(case) -> {1, 2}] /\ fs'.stamp \in [Inodes(case) -> Nat]
         /\ DOMAIN fs'.file = DOMAIN fs.file
         /\ \A i \in Inodes(case) : fs.stamp[i] <= fs'.stamp[i]
         /\ \A i \in DOMAIN fs.file : fs'.stamp[i] = fs.stamp[i] => fs'.file[i] = fs.file[i]
         /\ \A i \in Inodes(case) : fs'.at[i] # fs.at[i] =>
              /\ Len(i[2]) < RootLen => AboveMoved'
              /\ \A j \in Inodes(case) : j[2] \in {i[2], Parent(i[2])} => fs'.stamp[j] # fs.stamp[j]
<1>0. /\ step \notin {"zip", "extract", "bind", "end"} /\ IsList(meddled) /\ case \in Cases
      /\ fs = [at |-> fs.at, stamp |-> fs.stamp, file |-> fs.file]
      /\ fs.at \in [Inodes(case) -> {1, 2}] /\ fs.stamp \in [Inodes(case) -> Nat]
      /\ DOMAIN fs.file \subseteq Inodes(case)
  <2>1. step \notin {"zip", "extract", "bind", "end"}
    BY DEF Tamper, Edit, Exchange, Reading, PhaseInv, Installs
  <2>2. case \in Cases /\ IsList(meddled)
    BY DEF PhaseInv
  <2> QED BY <2>1, <2>2, FilesAreInodes DEF DiskInv
<1>1. ASSUME NEW what, meddled' = Append(meddled, what)
      PROVE  /\ IsList(meddled') /\ (AboveMoved => AboveMoved')
             /\ what[1] = "exchange" /\ Len(what[2]) < RootLen => AboveMoved'
  <2>1. /\ IsList(meddled') /\ DOMAIN meddled' = 1..(Len(meddled) + 1) /\ DOMAIN meddled = 1..Len(meddled)
        /\ Len(meddled) \in Nat /\ meddled'[Len(meddled) + 1] = what
        /\ \A i \in DOMAIN meddled : meddled'[i] = meddled[i]
    BY <1>0, <1>1, LongerList
  <2>2. DOMAIN meddled \subseteq DOMAIN meddled' /\ Len(meddled) + 1 \in DOMAIN meddled'
    BY <2>1
  <2> QED BY <2>1, <2>2 DEF AboveMoved, RootLen
<1>2. CASE \E p : Edit(p)
  <2>1. PICK p : Edit(p)
    BY <1>2
  <2> DEFINE i == Lookup(Full(p))
             new == FileNode(case, IF fs.file[i] = FileNode(case, 1, p) THEN 2 ELSE 1, p)
  <2>2. /\ fs' = [fs EXCEPT !.file[i] = new, !.stamp = Touched({i})]
        /\ meddled' = Append(meddled, <<"edit", p>>)
        /\ UNCHANGED <<case, step, job, disk, manifest, images, pending, insp, unread, walk, outcome, bound>>
    BY <2>1 DEF Edit
  <2> HIDE DEF i, new
  <2>3. /\ fs'.at = fs.at /\ fs'.stamp = Touched({i}) /\ fs'.file = [fs.file EXCEPT ![i] = new]
        /\ fs' = [at |-> fs'.at, stamp |-> fs'.stamp, file |-> fs'.file]
    BY <1>0, <2>2
  <2>4. \A j \in Inodes(case) : fs'.stamp[j] = IF j = i THEN fs.stamp[j] + 1 ELSE fs.stamp[j]
    BY <1>0, <2>3 DEF Touched
  <2>5. fs'.stamp \in [Inodes(case) -> Nat] /\ \A j \in Inodes(case) : fs.stamp[j] <= fs'.stamp[j]
    BY <1>0, <2>3, <2>4 DEF Touched
  <2>6. \A j \in DOMAIN fs.file : fs'.stamp[j] = fs.stamp[j] => fs'.file[j] = fs.file[j]
    BY <1>0, <2>3, <2>4
  <2> QED BY <1>0, <1>1, <2>2, <2>3, <2>5, <2>6
<1>3. CASE \E path : Exchange(path)
  <2>1. PICK path : Exchange(path)
    BY <1>3
  <2> DEFINE T == {1, 2} \X {path, Parent(path)}
  <2>2. /\ fs' = [fs EXCEPT !.at[<<1, path>>] = fs.at[<<2, path>>], !.at[<<2, path>>] = fs.at[<<1, path>>],
                            !.stamp = Touched(T)]
        /\ meddled' = Append(meddled, <<"exchange", path>>)
        /\ UNCHANGED <<case, step, job, disk, manifest, images, pending, insp, unread, walk, outcome, bound>>
    BY <2>1 DEF Exchange
  <2>3. /\ fs'.at = [[fs.at EXCEPT ![<<1, path>>] = fs.at[<<2, path>>]] EXCEPT ![<<2, path>>] = fs.at[<<1, path>>]]
        /\ fs'.stamp = Touched(T) /\ fs'.file = fs.file
        /\ fs' = [at |-> fs'.at, stamp |-> fs'.stamp, file |-> fs'.file]
    <3> HIDE DEF T
    <3> QED BY <1>0, <2>2
  <2>4. \A j \in Inodes(case) : fs'.stamp[j] = IF j \in T THEN fs.stamp[j] + 1 ELSE fs.stamp[j]
    BY <1>0, <2>3 DEF Touched
  <2>5. fs'.stamp \in [Inodes(case) -> Nat] /\ \A j \in Inodes(case) : fs.stamp[j] <= fs'.stamp[j]
    <3> HIDE DEF T
    <3> QED BY <1>0, <2>3, <2>4 DEF Touched
  <2>6. fs'.at \in [Inodes(case) -> {1, 2}]
    <3>1. <<1, path>> \in Inodes(case) <=> <<2, path>> \in Inodes(case)
      BY DEF Inodes
    <3> QED BY <1>0, <2>3, <3>1
  <2>7. ASSUME NEW i \in Inodes(case), fs'.at[i] # fs.at[i] PROVE i[2] = path
    BY <1>0, <2>3, <2>7
  <2>8. ASSUME NEW i \in Inodes(case), fs'.at[i] # fs.at[i],
               NEW j \in Inodes(case), j[2] \in {i[2], Parent(i[2])}
        PROVE  fs'.stamp[j] # fs.stamp[j]
    <3>1. j \in T
      BY <2>7, <2>8 DEF Inodes
    <3>2. fs'.stamp[j] = fs.stamp[j] + 1 /\ fs.stamp[j] \in Nat
      <4> HIDE DEF T
      <4> QED BY <1>0, <2>4, <3>1
    <3> QED BY <3>2
  <2>9. ASSUME NEW i \in Inodes(case), fs'.at[i] # fs.at[i], Len(i[2]) < RootLen PROVE AboveMoved'
    BY <1>1, <2>2, <2>7, <2>9
  <2> HIDE DEF T
  <2> QED BY <1>0, <1>1, <2>2, <2>3, <2>5, <2>6, <2>8, <2>9
<1> QED BY <1>2, <1>3 DEF Tamper

(* The steps that leave the disk alone.                                    *)
Quiet ==
  \/ HashExecutables \/ VerifyTree \/ Probe \/ RenameTree \/ RivalTree \/ Discover \/ Observation

(* They keep the trees, and only after the extraction do they run. *)
LEMMA QuietKeeps ==
  ASSUME Quiet
  PROVE  UNCHANGED <<case, fs, manifest, meddled>> /\ step \notin {"zip", "extract", "end"}
BY DEF Quiet, VerifyTree, HashExecutables, Probe, RenameTree, RivalTree, Discover, Classify, Classified, ReadRpaths,
       ReadLoads, ReadIds, Admit, StartWalk, Walk, EndWalk, Observation, Observe, Witness, Look, Open, Read, Opened,
       VerifyFile, FilesVerified, VerifyDirs, VerifyRoot, Bind, Fails, GoOn

(* The disk holds the two trees of the archive after every step. *)
LEMMA DiskKept ==
  ASSUME PhaseInv, DiskInv, LeanNext
  PROVE  DiskInv'
<1>1. CASE ValidateZip
  BY <1>1 DEF ValidateZip, GoOn, Fails, DiskInv
<1>2. CASE Extract
  <2>1. CASE step' = "end"
    BY <2>1 DEF DiskInv
  <2>2. CASE step' # "end"
    <3>1. fs' = Trees(case) /\ manifest' = ManifestOf(case) /\ UNCHANGED case /\ ValidZip(case)
      BY <1>2, <2>2 DEF Extract, Fails, GoOn, DiskInv
    <3> DEFINE t == Trees(case)
    <3>2. /\ t = [at |-> t.at, stamp |-> t.stamp, file |-> t.file]
          /\ t.at \in [Inodes(case) -> {1, 2}] /\ t.stamp \in [Inodes(case) -> Nat]
          /\ DOMAIN t.file = {<<b, Full(p)>> : b \in {1, 2}, p \in FilesOf(case)}
      <4>1. \A i \in Inodes(case) : i[1] \in {1, 2}
        BY DEF Inodes
      <4> QED BY <4>1 DEF Trees
    <3> HIDE DEF t
    <3>3. fs' = t
      BY <3>1 DEF t
    <3> QED BY <3>1, <3>2, <3>3 DEF DiskInv
  <2> QED BY <2>1, <2>2
<1>3. CASE Quiet
  <2>1. UNCHANGED <<case, fs, manifest>> /\ step \notin {"zip", "extract", "end"}
    BY <1>3, QuietKeeps
  <2> QED BY <2>1 DEF DiskInv
<1>4. CASE Tamper
  BY <1>4, TamperFacts DEF DiskInv
<1> QED BY <1>1, <1>2, <1>3, <1>4 DEF LeanNext, Install, Quiet

(* The phase, but for what an observation reports last.                    *)
LEMMA PhaseKept ==
  ASSUME PhaseInv, DiskInv, LeanNext, outcome' = "observed" => outcome = "observed" \/ OneTree'
  PROVE  PhaseInv'
<1> USE DEF Installs, Opens, Inspects, Closes, unread, disk
<1>1. CASE Install
  BY <1>1 DEF PhaseInv, Install, ValidateZip, Extract, VerifyTree, HashExecutables, Probe, RenameTree, GoOn, Fails, NoWindow
<1>2. CASE Discover
  BY <1>2 DEF PhaseInv, Discover, Classify, Classified, ReadRpaths,
       ReadLoads, ReadIds, Admit, StartWalk, Walk, EndWalk, GoOn, Fails, Rejected, NoWindow
<1>3. CASE RivalTree
  BY <1>3 DEF PhaseInv, RivalTree
<1>4. CASE Tamper
  BY <1>4, TamperFacts DEF PhaseInv
<1>5. CASE Observation /\ ~Bind
  <2>1. CASE Observe
    BY <2>1 DEF PhaseInv, Observe, GoOn, Fails, NoWindow
  <2>2. CASE Witness
    BY <2>2 DEF PhaseInv, Witness, GoOn, Fails, NoWindow
  <2>3. CASE Look
    BY <2>3 DEF PhaseInv, Look, GoOn, Fails, NoWindow
  <2>4. CASE Open
    <3>1. CASE Fails("IO")
      BY <2>4, <3>1 DEF PhaseInv, Open, Fails, NoWindow
    <3>2. CASE ~Fails("IO")
      <4> DEFINE held == Extend(window.held, Opening, FromHeld(Opening))
                 stat == Extend(window.stat, Opening, Stat(FromHeld(Opening)))
      <4>1. /\ UNCHANGED <<case, job, outcome, meddled>> /\ step = "opening" /\ step' \in Opens
            /\ window' = [window EXCEPT !.held = held, !.stat = stat]
        BY <2>4, <3>2 DEF Open, GoOn
      <4>2. DOMAIN held = DOMAIN window.held \cup {Opening} /\ DOMAIN stat = DOMAIN window.stat \cup {Opening}
        BY DEF Extend
      <4> HIDE DEF held, stat
      <4> QED BY <4>1, <4>2 DEF PhaseInv
    <3> QED BY <3>1, <3>2
  <2>5. CASE Read
    BY <2>5 DEF PhaseInv, Read, GoOn, Fails, NoWindow
  <2>6. CASE Opened
    BY <2>6 DEF PhaseInv, Opened, GoOn, Fails, NoWindow
  <2>7. CASE VerifyFile
    BY <2>7 DEF PhaseInv, VerifyFile, GoOn, Fails, NoWindow
  <2>8. CASE FilesVerified
    BY <2>8 DEF PhaseInv, FilesVerified, GoOn, Fails, NoWindow
  <2>9. CASE VerifyDirs
    BY <2>9 DEF PhaseInv, VerifyDirs, GoOn, Fails, NoWindow
  <2>10. CASE VerifyRoot
    BY <2>10 DEF PhaseInv, VerifyRoot, GoOn, Fails, NoWindow
  <2> QED BY <1>5, <2>1, <2>2, <2>3, <2>4, <2>5, <2>6, <2>7, <2>8, <2>9, <2>10 DEF Observation
<1>7. CASE Bind
  BY <1>7 DEF PhaseInv, Bind, OneTree, AboveMoved, Told
<1> QED BY <1>1, <1>2, <1>3, <1>4, <1>5, <1>7 DEF LeanNext, Observation

-----------------------------------------------------------------------------
(* The inspection                                                          *)

(* The inspection touches neither what is held nor what was hashed.        *)
LEMMA InspectFrame ==
  ASSUME PhaseInv, DiskInv, Observing, step \in Inspects,
         UNCHANGED <<case, job, fs, manifest, images, meddled, window>>,
         step' \in Inspects \/ (step' = "files" /\ pending' = images)
  PROVE  /\ Observes' /\ LinkInv' /\ BodyInv' /\ Asked' = Asked
         /\ \A p \in Asked : Trusted(p)' => Trusted(p)
         /\ \A p \in Asked : Trusted(p) => ToldSoFar(p) /\ ImageNow(p) = window.body[p]
<1>1. Asked' = Asked /\ AboveMoved' = AboveMoved /\ step \notin Opens /\ step' \notin Opens
  BY DEF Asked, AboveMoved, Inspects, Opens
<1>2. \A d : Steady(d)' = Steady(d)
  BY DEF Steady
<1>3. LinkInv'
  <2>1. \A d : FromHeld(d)' = FromHeld(d)
    BY DEF FromHeld, HeldParent, Below
  <2>2. \A p, n : Stays(p, n)' = Stays(p, n)
    BY <1>1, <1>2 DEF Stays
  <2> QED BY <1>1, <2>1, <2>2 DEF Observing, LinkInv, Linked
<1>4. BodyInv'
  <2>1. \A p : Unhashed(p)' = Unhashed(p)
    BY DEF Unhashed
  <2> QED BY <1>1, <1>2, <2>1 DEF Observing, BodyInv, Inspects, Opens
<1>5. ASSUME NEW p \in Asked, Trusted(p)' PROVE Trusted(p)
  <2>1. ~AboveMoved /\ ChainSteady(p)
    BY <1>1, <1>2, <1>5 DEF Trusted, ChainSteady, Inspects
  <2>2. Steady(Full(p))
    BY <1>2, <1>5 DEF Trusted, Waiting, Asked
  <2> QED BY <2>1, <2>2 DEF Trusted
<1>6. ASSUME NEW p \in Asked, Trusted(p) PROVE ToldSoFar(p) /\ ImageNow(p) = window.body[p]
  BY <1>1, <1>6, TrustedImage DEF Observing, ToldInv
<1>7. Observes'
  BY DEF Observing, Observes, Inspects, Opens, Closes
<1> QED BY <1>1, <1>3, <1>4, <1>5, <1>6, <1>7

(* One image is looked at, and is no longer waiting.                       *)
LEMMA ClassifyKeeps ==
  ASSUME PhaseInv, DiskInv, Observing, Classify, step' # "end"
  PROVE  Observing'
<1> DEFINE h == Head(pending)
           types == ImageNow(h).types
<1>1. /\ step = "head" /\ step' = "head" /\ pending # << >> /\ pending' = Tail(pending)
      /\ insp' = IF IsObject(types) THEN insp ELSE Extend(insp, h, Typed(types))
      /\ UNCHANGED <<case, job, fs, manifest, images, meddled, window>>
  BY DEF Classify, Fails, GoOn, unread
<1>2. /\ Observes' /\ LinkInv' /\ BodyInv' /\ Asked' = Asked
      /\ \A p \in Asked : Trusted(p)' => Trusted(p)
      /\ \A p \in Asked : Trusted(p) => ToldSoFar(p) /\ ImageNow(p) = window.body[p]
  BY <1>1, InspectFrame DEF Inspects
<1>3. h \in Asked /\ Tail(pending) \in Seq(Asked) /\ ToSet(pending) = {h} \cup ToSet(Tail(pending))
  BY <1>1, HeadAndTail DEF Observing, AskedInv
<1>4. /\ IsObject(types) => insp' = insp
      /\ ~IsObject(types) => /\ DOMAIN insp' = DOMAIN insp \cup {h} /\ insp'[h] = Typed(types)
                             /\ \A p \in DOMAIN insp : p # h => insp'[p] = insp[p]
  BY <1>1 DEF Extend
<1>5. Typed(types).types = types /\ Printed(Typed(types))
  BY DEF Typed, Printed
<1> HIDE DEF h, types
<1>6. AskedInv'
  <2>1. DOMAIN insp' \subseteq Asked /\ \A p \in DOMAIN insp' : Printed(insp'[p])
    BY <1>3, <1>4, <1>5 DEF Observing, AskedInv
  <2> QED BY <1>1, <1>2, <1>3, <2>1 DEF Observing, AskedInv, Opens
<1>7. ToldInv'
  <2> SUFFICES ASSUME NEW p \in Asked, Trusted(p)' PROVE ToldSoFar(p)'
    BY <1>2 DEF ToldInv
  <2>1. TypesTold(p) /\ ImageNow(p) = window.body[p]
    BY <1>2 DEF ToldSoFar
  <2>2. TypesTold(p)'
    <3>1. CASE p = h
      <4>1. types = window.body[p].types
        BY <2>1, <3>1 DEF types
      <4> QED BY <1>1, <1>4, <1>5, <2>1, <3>1, <4>1 DEF TypesTold
    <3>2. CASE p # h
      BY <1>1, <1>3, <1>4, <2>1, <3>2 DEF TypesTold, Waiting
    <3> QED BY <3>1, <3>2
  <2> QED BY <1>1, <2>2 DEF ToldSoFar, Closes
<1> QED BY <1>1, <1>2, <1>6, <1>7 DEF Observing, PendingInv

(* Then the images of a runtime type wait, and they are all of insp. *)
LEMMA ClassifiedKeeps ==
  ASSUME PhaseInv, DiskInv, Observing, Classified, step' # "end"
  PROVE  Observing'
<1>1. /\ step = "head" /\ step' = "rpaths" /\ pending = << >> /\ pending' = RuntimeImages
      /\ UNCHANGED <<case, job, fs, manifest, images, insp, meddled, window>>
  BY DEF Classified, Fails, GoOn, unread
<1>2. /\ Observes' /\ LinkInv' /\ BodyInv' /\ Asked' = Asked
      /\ \A p \in Asked : Trusted(p)' => Trusted(p)
      /\ \A p \in Asked : Trusted(p) => ToldSoFar(p) /\ ImageNow(p) = window.body[p]
  BY <1>1, InspectFrame DEF Inspects
<1>3. RuntimeImages \in Seq(Asked) /\ DOMAIN insp \subseteq ToSet(RuntimeImages)
  <2>1. images \in Seq(Asked) /\ DOMAIN insp \subseteq ToSet(images)
    BY DEF Observing, AskedInv, Asked
  <2> QED BY <2>1, RuntimeImagesAre
<1>4. AskedInv'
  BY <1>1, <1>2, <1>3 DEF Observing, AskedInv, Opens
<1>5. ToldInv'
  <2> SUFFICES ASSUME NEW p \in Asked, Trusted(p)' PROVE ToldSoFar(p)'
    BY <1>2 DEF ToldInv
  <2>1. TypesTold(p)
    BY <1>2 DEF ToldSoFar
  <2>2. ~Waiting(p)
    BY <1>1 DEF Waiting, ToSet
  <2>3. TypesTold(p)'
    BY <1>1, <2>1, <2>2 DEF TypesTold
  <2>4. p \in DOMAIN insp => Waiting(p)'
    BY <1>1, <1>3 DEF Waiting
  <2> QED BY <1>1, <2>3, <2>4 DEF ToldSoFar, Closes
<1> QED BY <1>1, <1>2, <1>4, <1>5 DEF Observing, PendingInv

(* An inspector prints something of the first image that waits.            *)
LEMMA ReadKeeps ==
  ASSUME PhaseInv, DiskInv, Observing, step \in {"rpaths", "loads", "ids"},
         UNCHANGED <<case, job, fs, manifest, images, meddled, window, pending>>,
         step' \in {"loads", "ids", "admit"}, pending # << >>, DOMAIN insp' = DOMAIN insp,
         step' # "admit" => case.platform = "darwin",
         \A p \in DOMAIN insp :
           /\ Printed(insp'[p]) /\ insp'[p].types = insp[p].types
           /\ p # Head(pending) => insp'[p] = insp[p],
         Head(pending) \in DOMAIN insp /\ Trusted(Head(pending)) =>
           /\ step' # "admit" => RpathsTold(Head(pending))'
           /\ step' = "ids" => LoadsTold(Head(pending))'
           /\ step' = "admit" => Told(Head(pending))'
  PROVE  Observing'
<1> DEFINE h == Head(pending)
<1>1. /\ Observes' /\ LinkInv' /\ BodyInv' /\ Asked' = Asked
      /\ \A p \in Asked : Trusted(p)' => Trusted(p)
      /\ \A p \in Asked : Trusted(p) => ToldSoFar(p)
  BY InspectFrame DEF Inspects
<1>2. Waiting(h) /\ h \in Asked
  BY HeadAndTail DEF Observing, AskedInv, Waiting
<1>3. AskedInv'
  BY <1>1 DEF Observing, AskedInv, Opens
<1>4. PendingInv'
  BY DEF PendingInv
<1>5. ToldInv'
  <2> SUFFICES ASSUME NEW p \in Asked, Trusted(p)' PROVE ToldSoFar(p)'
    BY <1>1 DEF ToldInv
  <2>1. ToldSoFar(p) /\ Trusted(p)
    BY <1>1
  <2>2. TypesTold(p)'
    BY <2>1 DEF ToldSoFar, TypesTold
  <2>3. CASE p = h
    BY <1>2, <2>1, <2>2, <2>3 DEF ToldSoFar, Waiting, Closes
  <2>4. CASE p # h
    <3>1. p \in DOMAIN insp /\ ~Waiting(p) => Told(p)
      BY <2>1 DEF ToldSoFar
    <3>2. p \in DOMAIN insp /\ ~Waiting(p)' => Told(p)'
      BY <2>4, <3>1 DEF Waiting, Told
    <3> QED BY <2>2, <2>4, <3>2 DEF ToldSoFar, Closes
  <2> QED BY <2>3, <2>4
<1> QED BY <1>1, <1>3, <1>4, <1>5 DEF Observing

(* otool -l, or readelf -d. *)
LEMMA ReadRpathsKeeps ==
  ASSUME PhaseInv, DiskInv, Observing, ReadRpaths
  PROVE  Observing'
<1> DEFINE h == Head(pending)
           now == ImageNow(h)
<1>1. /\ step = "rpaths" /\ pending # << >>
      /\ UNCHANGED <<case, job, fs, manifest, images, meddled, window, pending>>
      /\ IF case.platform = "darwin"
         THEN step' = "loads" /\ insp' = [insp EXCEPT ![h].rpaths = now.rpaths]
         ELSE step' = "admit" /\ insp' = [insp EXCEPT ![h].runpaths = now.runpaths, ![h].loads = now.loads]
  BY DEF ReadRpaths, GoOn, unread
<1>2. h \in Asked /\ \A p \in DOMAIN insp : Printed(insp[p])
  BY <1>1, HeadAndTail DEF Observing, AskedInv
<1>3. Trusted(h) => TypesTold(h) /\ now = window.body[h]
  BY <1>1, <1>2, InspectFrame, TrustedImage DEF Observing, ToldInv, ToldSoFar, Inspects, Opens
<1>0. h' = h
  BY <1>1
<1> HIDE DEF h, now
<1>4. /\ DOMAIN insp' = DOMAIN insp
      /\ \A p \in DOMAIN insp : p # h => insp'[p] = insp[p]
  BY <1>1
<1>5. ASSUME h \in DOMAIN insp
      PROVE  insp'[h] = IF case.platform = "darwin" THEN [insp[h] EXCEPT !.rpaths = now.rpaths]
                        ELSE [insp[h] EXCEPT !.runpaths = now.runpaths, !.loads = now.loads]
  BY <1>1, <1>5
<1>6. ASSUME h \in DOMAIN insp
      PROVE  /\ Printed(insp'[h]) /\ insp'[h].types = insp[h].types
             /\ IF case.platform = "darwin" THEN insp'[h].rpaths = now.rpaths
                ELSE insp'[h].runpaths = now.runpaths /\ insp'[h].loads = now.loads
  BY <1>2, <1>5, <1>6 DEF Printed
<1>7. ASSUME h \in DOMAIN insp, Trusted(h)
      PROVE  (step' # "admit" => RpathsTold(h)') /\ (step' = "admit" => Told(h)')
  BY <1>0, <1>1, <1>3, <1>6, <1>7 DEF RpathsTold, Told, TypesTold
<1>8. \A p \in DOMAIN insp :
        /\ Printed(insp'[p]) /\ insp'[p].types = insp[p].types
        /\ p # h => insp'[p] = insp[p]
  BY <1>2, <1>4, <1>6
<1>9. step' \in {"loads", "ids", "admit"} /\ step' # "ids" /\ (step' # "admit" => case.platform = "darwin")
  BY <1>1
<1> QED BY <1>1, <1>4, <1>7, <1>8, <1>9, ReadKeeps DEF h

(* otool -L, after otool -l. *)
LEMMA ReadLoadsKeeps ==
  ASSUME PhaseInv, DiskInv, Observing, ReadLoads
  PROVE  Observing'
<1> DEFINE h == Head(pending)
           now == ImageNow(h)
<1>1. /\ step = "loads" /\ pending # << >> /\ case.platform = "darwin"
      /\ UNCHANGED <<case, job, fs, manifest, images, meddled, window, pending>>
      /\ step' = "ids" /\ insp' = [insp EXCEPT ![h].loads = now.loads]
  BY DEF ReadLoads, GoOn, unread, Observing, PendingInv
<1>2. h \in Asked /\ \A p \in DOMAIN insp : Printed(insp[p])
  BY <1>1, HeadAndTail DEF Observing, AskedInv
<1>3. Trusted(h) => (h \in DOMAIN insp => RpathsTold(h)) /\ now = window.body[h]
  BY <1>1, <1>2, TrustedImage DEF Observing, ToldInv, ToldSoFar, Inspects, Opens
<1>0. h' = h
  BY <1>1
<1> HIDE DEF h, now
<1>4. /\ DOMAIN insp' = DOMAIN insp
      /\ \A p \in DOMAIN insp : p # h => insp'[p] = insp[p]
      /\ h \in DOMAIN insp => insp'[h] = [insp[h] EXCEPT !.loads = now.loads]
  BY <1>1
<1>5. ASSUME h \in DOMAIN insp
      PROVE  /\ Printed(insp'[h]) /\ insp'[h].types = insp[h].types
             /\ insp'[h].rpaths = insp[h].rpaths /\ insp'[h].loads = now.loads
  BY <1>2, <1>4, <1>5 DEF Printed
<1>6. ASSUME h \in DOMAIN insp, Trusted(h) PROVE RpathsTold(h)' /\ LoadsTold(h)'
  BY <1>0, <1>1, <1>3, <1>5, <1>6 DEF RpathsTold, LoadsTold
<1>7. \A p \in DOMAIN insp :
        /\ Printed(insp'[p]) /\ insp'[p].types = insp[p].types
        /\ p # h => insp'[p] = insp[p]
  BY <1>2, <1>4, <1>5
<1>8. step' \in {"loads", "ids", "admit"} /\ step' # "admit"
  BY <1>1
<1> QED BY <1>1, <1>4, <1>6, <1>7, <1>8, ReadKeeps DEF h

(* otool -D, after which all is known of the image. *)
LEMMA ReadIdsKeeps ==
  ASSUME PhaseInv, DiskInv, Observing, ReadIds
  PROVE  Observing'
<1> DEFINE h == Head(pending)
           now == ImageNow(h)
<1>1. /\ step = "ids" /\ pending # << >> /\ case.platform = "darwin"
      /\ UNCHANGED <<case, job, fs, manifest, images, meddled, window, pending>>
      /\ step' = "admit" /\ insp' = [insp EXCEPT ![h].ids = now.ids]
  BY DEF ReadIds, GoOn, unread, Observing, PendingInv
<1>2. h \in Asked /\ \A p \in DOMAIN insp : Printed(insp[p])
  BY <1>1, HeadAndTail DEF Observing, AskedInv
<1>3. Trusted(h) => /\ h \in DOMAIN insp => TypesTold(h) /\ RpathsTold(h) /\ LoadsTold(h)
                    /\ now = window.body[h]
  BY <1>1, <1>2, TrustedImage DEF Observing, ToldInv, ToldSoFar, Inspects, Opens
<1>0. h' = h
  BY <1>1
<1> HIDE DEF h, now
<1>4. /\ DOMAIN insp' = DOMAIN insp
      /\ \A p \in DOMAIN insp : p # h => insp'[p] = insp[p]
      /\ h \in DOMAIN insp => insp'[h] = [insp[h] EXCEPT !.ids = now.ids]
  BY <1>1
<1>5. ASSUME h \in DOMAIN insp
      PROVE  /\ Printed(insp'[h]) /\ insp'[h].types = insp[h].types
             /\ insp'[h].rpaths = insp[h].rpaths /\ insp'[h].loads = insp[h].loads /\ insp'[h].ids = now.ids
  BY <1>2, <1>4, <1>5 DEF Printed
<1>6. ASSUME h \in DOMAIN insp, Trusted(h) PROVE Told(h)'
  BY <1>0, <1>1, <1>3, <1>5, <1>6 DEF TypesTold, RpathsTold, LoadsTold, Told
<1>7. \A p \in DOMAIN insp :
        /\ Printed(insp'[p]) /\ insp'[p].types = insp[p].types
        /\ p # h => insp'[p] = insp[p]
  BY <1>2, <1>4, <1>5
<1>8. step' \in {"loads", "ids", "admit"} /\ step' = "admit"
  BY <1>1
<1> QED BY <1>1, <1>4, <1>6, <1>7, <1>8, ReadKeeps DEF h

(* An image that is admitted has been told of. *)
LEMMA AdmitKeeps ==
  ASSUME PhaseInv, DiskInv, Observing, Admit, step' # "end"
  PROVE  Observing'
<1>1. /\ step = "admit" /\ step' = "rpaths" /\ pending # << >> /\ pending' = Tail(pending)
      /\ UNCHANGED <<case, job, fs, manifest, images, insp, meddled, window>>
  BY DEF Admit, Fails, GoOn, unread, Observing, PendingInv
<1>2. /\ Observes' /\ LinkInv' /\ BodyInv' /\ Asked' = Asked
      /\ \A p \in Asked : Trusted(p)' => Trusted(p)
      /\ \A p \in Asked : Trusted(p) => ToldSoFar(p)
  BY <1>1, InspectFrame DEF Inspects
<1>3. /\ Tail(pending) \in Seq(Asked) /\ ToSet(pending) = {Head(pending)} \cup ToSet(Tail(pending))
  BY <1>1, HeadAndTail DEF Observing, AskedInv
<1>4. AskedInv'
  BY <1>1, <1>2, <1>3 DEF Observing, AskedInv, Opens
<1>5. ToldInv'
  <2> SUFFICES ASSUME NEW p \in Asked, Trusted(p)' PROVE ToldSoFar(p)'
    BY <1>2 DEF ToldInv
  <2>1. ToldSoFar(p)
    BY <1>2
  <2>2. TypesTold(p)'
    BY <1>1, <2>1 DEF ToldSoFar, TypesTold
  <2>3. p \in DOMAIN insp /\ ~Waiting(p)' => Told(p)
    BY <1>1, <1>3, <2>1 DEF ToldSoFar, Waiting
  <2>4. Told(p)' = Told(p)
    BY <1>1 DEF Told
  <2> QED BY <1>1, <2>2, <2>3, <2>4 DEF ToldSoFar, Closes
<1> QED BY <1>1, <1>2, <1>4, <1>5 DEF Observing, PendingInv

(* The walk is over what was printed, and then all files are verified. *)
LEMMA WalkKeeps ==
  ASSUME PhaseInv, DiskInv, Observing, StartWalk \/ Walk \/ EndWalk, step' # "end"
  PROVE  Observing'
<1>1. /\ UNCHANGED <<case, job, fs, manifest, images, insp, meddled, window>>
      /\ \/ step = "rpaths" /\ pending = << >> /\ step' = "walk" /\ UNCHANGED pending
         \/ step = "walk" /\ step' = "walk" /\ UNCHANGED pending
         \/ step = "walk" /\ step' = "files" /\ pending' = images
  BY DEF StartWalk, Walk, EndWalk, Fails, GoOn, unread, disk, Observing, Observes
<1>2. /\ Observes' /\ LinkInv' /\ BodyInv' /\ Asked' = Asked
      /\ \A p \in Asked : Trusted(p)' => Trusted(p)
      /\ \A p \in Asked : Trusted(p) => ToldSoFar(p)
  BY <1>1, InspectFrame DEF Inspects
<1>3. AskedInv'
  BY <1>1, <1>2 DEF Observing, AskedInv, Opens
<1>4. ToldInv'
  <2> SUFFICES ASSUME NEW p \in Asked, Trusted(p)' PROVE ToldSoFar(p)'
    BY <1>2 DEF ToldInv
  <2>1. ToldSoFar(p)
    BY <1>2
  <2>2. TypesTold(p)'
    BY <1>1, <2>1 DEF ToldSoFar, TypesTold
  <2>3. p \in DOMAIN insp => Told(p)
    <3>1. step = "rpaths" => ~Waiting(p)
      BY <1>1 DEF Waiting, ToSet
    <3> QED BY <1>1, <2>1, <3>1 DEF ToldSoFar
  <2>4. Told(p)' = Told(p)
    BY <1>1 DEF Told
  <2> QED BY <1>1, <2>2, <2>3, <2>4 DEF ToldSoFar, Closes
<1> QED BY <1>1, <1>2, <1>3, <1>4 DEF Observing, PendingInv

-----------------------------------------------------------------------------
(* Opening                                                                 *)

(* Nothing is held when an observation begins. *)
LEMMA ObserveKeeps ==
  ASSUME PhaseInv, DiskInv, Observe
  PROVE  Observing'
<1>1. /\ step = "installed" /\ PathsOk(images) /\ step' = "open" /\ job' = "observe"
      /\ pending' = images /\ insp' = << >>
      /\ UNCHANGED <<case, fs, manifest, images, window>>
  BY DEF Observe, unread
<1>2. ValidZip(case) /\ manifest = ManifestOf(case)
  BY <1>1 DEF DiskInv
<1>3. AskedInv'
  <2>1. /\ images \in Seq(Asked) /\ Asked \subseteq FilesOf(case) \ {<< >>}
        /\ \A p, q \in Asked : q \notin Ancestors(p)
    BY <1>1, <1>2, AskedFiles
  <2>2. Asked' = Asked
    BY <1>1 DEF Asked
  <2> QED BY <1>1, <2>1, <2>2 DEF AskedInv
<1>4. DOMAIN window'.held = {} /\ DOMAIN window'.body = {}
  BY <1>1 DEF PhaseInv, Installs, NoWindow
<1>5. LinkInv' /\ BodyInv'
  BY <1>1, <1>4 DEF LinkInv, BodyInv, Unhashed, Opens
<1> QED BY <1>1, <1>3, <1>5 DEF Observing, Observes, ToldInv, PendingInv, Opens

(* The entry that a name is opened through.                                *)
LEMMA ParentHeld ==
  ASSUME PhaseInv, Observing, NEW p \in Asked, NEW n \in 1..Len(Full(p)),
         n > 1 => Prefix(p, n - 1) \in DOMAIN window.held
  PROVE  <<HeldParent(Prefix(p, n))[1], Prefix(p, n)>> \in Inodes(case)
<1>1. IsList(p) /\ Prefix(p, n) \in NamesIn(case)
  BY CasePaths, FilesArePaths DEF PhaseInv, Observing, AskedInv
<1>2. HeldParent(Prefix(p, n))[1] \in {1, 2}
  <2>1. Len(Prefix(p, n)) = n /\ (n > 1 => Parent(Prefix(p, n)) = Prefix(p, n - 1)) /\ Len(Full(p)) \in Nat
    BY <1>1, PrefixFacts, FullFacts
  <2>2. CASE n = 1
    BY <2>1, <2>2 DEF HeldParent
  <2>3. CASE n # 1
    <3>1. n > 1 /\ HeldParent(Prefix(p, n)) = window.held[Prefix(p, n - 1)] /\ n - 1 \in 1..Len(Full(p))
      BY <2>1, <2>3 DEF HeldParent
    <3>2. Linked(p, n - 1)
      BY <3>1 DEF Observing, LinkInv
    <3> QED BY <3>1, <3>2 DEF Linked
  <2> QED BY <2>2, <2>3
<1> QED BY <1>1, <1>2 DEF Inodes

(* Another name is held, from the directory that was held already.         *)
LEMMA OpenKeeps ==
  ASSUME PhaseInv, DiskInv, Observing, Open, step' # "end"
  PROVE  Observing'
<1> DEFINE o == Opening
           i == FromHeld(o)
<1>1. /\ step = "opening" /\ step' = IF IsFile(o) THEN "read" ELSE "open"
      /\ UNCHANGED <<case, job, fs, manifest, images, meddled, pending, insp>>
      /\ window' = [window EXCEPT !.held = Extend(@, o, i), !.stat = Extend(@, o, Stat(i))]
  BY DEF Open, Fails, GoOn
<1>2. /\ window'.held = Extend(window.held, o, i) /\ window'.stat = Extend(window.stat, o, Stat(i))
      /\ window'.body = window.body
  <2>1. window = [held |-> window.held, stat |-> window.stat, body |-> window.body]
    BY DEF PhaseInv
  <2> HIDE DEF o, i
  <2> QED BY <1>1, <2>1
<1>3. ~AllOpen /\ pending \in Seq(Asked) /\ pending = images /\ \A p \in Asked : p \in FilesOf(case)
  BY <1>1 DEF Observing, BodyInv, AskedInv, Opens
<1>4. \A p \in Asked : IsList(p) /\ \A n \in 1..Len(Full(p)) : Prefix(p, n) \in NamesIn(case)
  BY <1>3, CasePaths, FilesArePaths DEF PhaseInv
<1>5. PICK p \in Asked : \E n \in 1..Len(Full(p)) :
           /\ o = Prefix(p, n) /\ o \notin DOMAIN window.held
           /\ n > 1 => Prefix(p, n - 1) \in DOMAIN window.held
  BY <1>3, <1>4, OpeningFacts
<1>6. PICK n \in 1..Len(Full(p)) :
           /\ o = Prefix(p, n) /\ o \notin DOMAIN window.held
           /\ n > 1 => Prefix(p, n - 1) \in DOMAIN window.held
  BY <1>5
<1>7. \A q \in Asked : \A k \in 1..Len(Full(q)) :
        /\ Len(Prefix(q, k)) = k /\ (k > 1 => Parent(Prefix(q, k)) = Prefix(q, k - 1))
        /\ k \in Nat \ {0} /\ (k > 1 => k - 1 \in 1..Len(Full(q)))
  <2> SUFFICES ASSUME NEW q \in Asked, NEW k \in 1..Len(Full(q))
               PROVE  /\ Len(Prefix(q, k)) = k /\ (k > 1 => Parent(Prefix(q, k)) = Prefix(q, k - 1))
                      /\ k \in Nat \ {0} /\ (k > 1 => k - 1 \in 1..Len(Full(q)))
    OBVIOUS
  <2>1. IsList(q) /\ Len(Full(q)) \in Nat
    BY <1>4, FullFacts
  <2> QED BY <2>1, PrefixFacts
<1>8. /\ i \in {1, 2} \X {o} /\ i \in Inodes(case)
      /\ Stat(i).stamp = fs.stamp[i] /\ fs.stamp[i] \in Nat
  <2>2. <<HeldParent(o)[1], o>> \in Inodes(case)
    BY <1>6, ParentHeld
  <2>3. fs.at[<<HeldParent(o)[1], o>>] \in {1, 2} /\ fs.stamp \in [Inodes(case) -> Nat]
    BY <1>1, <2>2 DEF DiskInv
  <2>4. i \in {1, 2} \X {o}
    BY <2>3 DEF FromHeld, Below
  <2> HIDE DEF i
  <2>5. i \in Inodes(case)
    BY <1>4, <1>6, <2>4 DEF Inodes
  <2> QED BY <2>3, <2>4, <2>5 DEF Stat
<1> HIDE DEF o, i
<1>9. /\ o \in DOMAIN window'.held /\ window'.held[o] = i /\ window'.stat[o] = Stat(i)
      /\ DOMAIN window'.held = DOMAIN window.held \cup {o}
      /\ \A d \in DOMAIN window.held : window'.held[d] = window.held[d]
      /\ \A d \in DOMAIN window.held : window'.stat[d] = window.stat[d]
  <2>1. DOMAIN window.stat = DOMAIN window.held
    BY DEF PhaseInv
  <2> QED BY <1>2, <1>6, <2>1 DEF Extend
<1>10. Asked' = Asked /\ AboveMoved' = AboveMoved
  BY <1>1 DEF Asked, AboveMoved
<1>11. \A d \in DOMAIN window.held : Steady(d)' = Steady(d)
  BY <1>1, <1>9 DEF Steady
<1>12. ASSUME NEW q \in Asked, NEW k \in 1..Len(Full(q)), Prefix(q, k) \in DOMAIN window'.held
       PROVE  /\ window'.held[Prefix(q, k)] \in {1, 2} \X {Prefix(q, k)}
              /\ window'.stat[Prefix(q, k)].stamp \in Nat
              /\ window'.stat[Prefix(q, k)].stamp <= fs'.stamp[window'.held[Prefix(q, k)]]
              /\ k > 1 => Prefix(q, k - 1) \in DOMAIN window.held
              /\ Stays(q, k)' => FromHeld(Prefix(q, k)) = window'.held[Prefix(q, k)]
  <2> DEFINE d == Prefix(q, k)
  <2>1. k \in Nat \ {0} /\ RootLen \in Nat \ {0}
    BY <1>7, RootFacts
  <2>2. CASE d = o
    <3>1. k = n
      BY <1>6, <1>7, <2>2
    <3>2. k > 1 => Prefix(q, k - 1) \in DOMAIN window.held
      BY <1>6, <1>7, <2>2, <3>1
    <3> QED BY <1>1, <1>8, <1>9, <2>2, <3>2 DEF i
  <2>3. CASE d # o
    <3>1. d \in DOMAIN window.held
      BY <1>9, <1>12, <2>3
    <3>2. Linked(q, k)
      BY <3>1 DEF Observing, LinkInv
    <3>3. Stays(q, k)' => Stays(q, k)
      <4>1. CASE k < RootLen
        BY <1>10, <4>1 DEF Stays, RootLen
      <4>2. CASE k = RootLen
        <5>1. Steady(Prefix(q, k))' = Steady(Prefix(q, k))
          BY <1>11, <3>1
        <5> QED BY <2>1, <4>2, <5>1 DEF Stays
      <4>3. CASE k > RootLen
        <5>1. Steady(Prefix(q, k - 1))' = Steady(Prefix(q, k - 1))
          BY <1>11, <2>1, <3>2, <4>3 DEF Linked
        <5> QED BY <2>1, <4>3, <5>1 DEF Stays
      <4> QED BY <2>1, <4>1, <4>2, <4>3
    <3> QED BY <1>1, <1>9, <3>1, <3>2, <3>3 DEF Linked
  <2> QED BY <2>2, <2>3
<1>13. LinkInv'
  <2> SUFFICES ASSUME NEW q \in Asked, NEW k \in 1..Len(Full(q)), Prefix(q, k) \in DOMAIN window'.held
               PROVE  Linked(q, k)'
    BY <1>10 DEF LinkInv
  <2> DEFINE d == Prefix(q, k)
  <2>1. k > 1 => Prefix(q, k - 1) \in DOMAIN window.held /\ Parent(d) = Prefix(q, k - 1)
    BY <1>7, <1>12
  <2>2. HeldParent(d)' = HeldParent(d)
    <3>1. Len(d) = k /\ k \in Nat \ {0}
      BY <1>7
    <3> QED BY <1>9, <2>1, <3>1 DEF HeldParent
  <2>3. FromHeld(d)' = FromHeld(d)
    BY <1>1, <2>2 DEF FromHeld, Below
  <2>4. k > 1 => Prefix(q, k - 1) \in DOMAIN window'.held
    BY <1>9, <2>1
  <2> QED BY <1>12, <2>3, <2>4 DEF Linked
<1>14. BodyInv'
  <2>1. ASSUME NEW q \in DOMAIN window'.body
        PROVE  /\ q \in Asked /\ Full(q) \in DOMAIN window'.held
               /\ Steady(Full(q))' => fs.file[window'.held[Full(q)]].body = window.body[q]
    BY <1>2, <1>9, <1>11, <2>1 DEF Observing, BodyInv
  <2>2. \A q \in Asked : ~Unhashed(q)
    BY <1>1 DEF Observing, BodyInv
  <2>3. \A q \in Asked : Unhashed(q)' <=> o = Full(q)
    <3>1. \A q \in DOMAIN window.body : Full(q) # o
      BY <1>6 DEF Observing, BodyInv
    <3> QED BY <1>2, <1>9, <2>2, <3>1 DEF Unhashed
  <2>4. \A q, r \in Asked : Unhashed(q)' /\ Unhashed(r)' => q = r
    BY <1>4, <2>3, FullInjective
  <2>5. IsFile(o) <=> \E q \in Asked : o = Full(q)
    BY <1>3 DEF IsFile, Asked
  <2> QED BY <1>1, <1>2, <1>10, <2>1, <2>3, <2>4, <2>5 DEF BodyInv, Opens
<1>15. AskedInv'
  BY <1>1, <1>10 DEF Observing, AskedInv, Opens
<1> QED BY <1>1, <1>13, <1>14, <1>15 DEF Observing, Observes, ToldInv, PendingInv, Opens

(* A stat is taken of the next name. *)
LEMMA LookKeeps ==
  ASSUME PhaseInv, DiskInv, Observing, Look, step' # "end"
  PROVE  Observing'
<1>1. /\ step = "open" /\ step' = "opening" /\ ~AllOpen
      /\ UNCHANGED <<case, job, fs, manifest, images, meddled, pending, insp, window>>
  BY DEF Look, Fails, GoOn
<1>2. Asked' = Asked /\ AboveMoved' = AboveMoved /\ ~AllOpen'
  BY <1>1 DEF Asked, AboveMoved, AllOpen, Unopened
<1>3. (\A d : Steady(d)' = Steady(d)) /\ (\A d : FromHeld(d)' = FromHeld(d)) /\ (\A p : Unhashed(p)' = Unhashed(p))
  BY <1>1 DEF Steady, FromHeld, HeldParent, Below, Unhashed
<1>4. LinkInv'
  <2>1. \A p, n : Stays(p, n)' = Stays(p, n)
    BY <1>2, <1>3 DEF Stays
  <2> QED BY <1>1, <1>2, <1>3, <2>1 DEF Observing, LinkInv, Linked
<1>5. BodyInv'
  BY <1>1, <1>2, <1>3 DEF Observing, BodyInv, Opens
<1> QED BY <1>1, <1>2, <1>4, <1>5 DEF Observing, Observes, AskedInv, ToldInv, PendingInv, Opens

(* What was opened last is hashed.                                         *)
LEMMA ReadFileKeeps ==
  ASSUME PhaseInv, DiskInv, Observing, Read, step' # "end"
  PROVE  Observing'
<1> DEFINE f == Fresh
           i == window.held[Full(f)]
<1>1. /\ step = "read" /\ step' = "open"
      /\ UNCHANGED <<case, job, fs, manifest, images, meddled, pending, insp>>
      /\ window' = [window EXCEPT !.body = Extend(@, f, fs.file[i].body)]
  BY DEF Read, Fails, GoOn
<1>2. /\ window'.held = window.held /\ window'.stat = window.stat
      /\ window'.body = Extend(window.body, f, fs.file[i].body)
  <2>1. window = [held |-> window.held, stat |-> window.stat, body |-> window.body]
    BY DEF PhaseInv
  <2> HIDE DEF f, i
  <2> QED BY <1>1, <2>1
<1>3. f \in Asked /\ Unhashed(f)
  <2> DEFINE Held == {q \in ToSet(pending) : Full(q) \in DOMAIN window.held}
  <2>1. pending = images
    BY <1>1 DEF Observing, AskedInv, Opens
  <2>2. \E p \in Held : p \notin DOMAIN window.body
    BY <1>1, <2>1 DEF Observing, BodyInv, Unhashed, Asked
  <2>3. f \in Held /\ f \notin DOMAIN window.body
    BY <2>2 DEF Fresh
  <2> QED BY <2>1, <2>3 DEF Unhashed, Asked
<1>4. /\ DOMAIN window'.body = DOMAIN window.body \cup {f}
      /\ window'.body[f] = fs.file[window.held[Full(f)]].body
      /\ \A p \in DOMAIN window.body : window'.body[p] = window.body[p]
  <2> HIDE DEF f
  <2> QED BY <1>2, <1>3 DEF Extend, Unhashed
<1> HIDE DEF f, i
<1>5. Asked' = Asked /\ AboveMoved' = AboveMoved
  BY <1>1 DEF Asked, AboveMoved
<1>6. (\A d : Steady(d)' = Steady(d)) /\ (\A d : FromHeld(d)' = FromHeld(d))
  BY <1>1, <1>2 DEF Steady, FromHeld, HeldParent, Below
<1>7. LinkInv'
  <2>1. \A p, n : Stays(p, n)' = Stays(p, n)
    BY <1>5, <1>6 DEF Stays
  <2> QED BY <1>1, <1>2, <1>5, <1>6, <2>1 DEF Observing, LinkInv, Linked
<1>8. BodyInv'
  <2>1. \A p \in Asked : ~Unhashed(p)'
    BY <1>2, <1>3, <1>4 DEF Observing, BodyInv, Unhashed
  <2>2. ASSUME NEW p \in DOMAIN window'.body
        PROVE  /\ p \in Asked /\ Full(p) \in DOMAIN window.held
               /\ Steady(Full(p)) => fs.file[window.held[Full(p)]].body = window'.body[p]
    BY <1>3, <1>4, <2>2 DEF Observing, BodyInv, Unhashed
  <2> QED BY <1>1, <1>2, <1>5, <1>6, <2>1, <2>2 DEF BodyInv, Opens
<1> QED BY <1>1, <1>5, <1>7, <1>8 DEF Observing, Observes, AskedInv, ToldInv, PendingInv, Opens

(* All is open: nothing is printed yet, and all images wait.               *)
LEMMA OpenedKeeps ==
  ASSUME PhaseInv, DiskInv, Observing, Opened, step' # "end"
  PROVE  Observing'
<1>1. /\ step = "open" /\ step' = "head" /\ AllOpen
      /\ UNCHANGED <<case, job, fs, manifest, images, meddled, pending, insp, window>>
  BY DEF Opened, Fails, GoOn, unread, Observing, Observes
<1>2. Asked' = Asked /\ AboveMoved' = AboveMoved
  BY <1>1 DEF Asked, AboveMoved
<1>3. (\A d : Steady(d)' = Steady(d)) /\ (\A d : FromHeld(d)' = FromHeld(d)) /\ (\A p : Unhashed(p)' = Unhashed(p))
  BY <1>1 DEF Steady, FromHeld, HeldParent, Below, Unhashed
<1>4. LinkInv'
  <2>1. \A p, n : Stays(p, n)' = Stays(p, n)
    BY <1>2, <1>3 DEF Stays
  <2> QED BY <1>1, <1>2, <1>3, <2>1 DEF Observing, LinkInv, Linked
<1>5. pending = images /\ insp = << >>
  BY <1>1 DEF Observing, AskedInv, Opens
<1>6. \A p \in Asked : Full(p) \in DOMAIN window.held
  BY <1>1, <1>5 DEF Asked, ToSet, AllOpen, Unopened
<1>7. BodyInv'
  BY <1>1, <1>2, <1>3, <1>6 DEF Observing, BodyInv, Opens
<1>8. ToldInv'
  <2>1. DOMAIN insp' = {}
    BY <1>1, <1>5
  <2> QED BY <1>1, <1>2, <1>5, <2>1 DEF ToldInv, ToldSoFar, TypesTold, Waiting, Asked
<1> QED BY <1>1, <1>2, <1>4, <1>7, <1>8 DEF Observing, Observes, AskedInv, PendingInv, Opens, Inspects

-----------------------------------------------------------------------------
(* Closing                                                                 *)

(* The files and directories that passed had not changed when they did.    *)
LEMMA CloseFrame ==
  ASSUME PhaseInv, DiskInv, Observing, step \in {"files", "dirs"}, step' \in Closes,
         UNCHANGED <<case, job, fs, manifest, images, meddled, insp, window>>
  PROVE  /\ Observes' /\ LinkInv' /\ BodyInv' /\ Asked' = Asked /\ AboveMoved' = AboveMoved
         /\ \A d : Steady(d)' = Steady(d)
         /\ \A p \in Asked : Trusted(p) => ToldSoFar(p)'
<1>1. Asked' = Asked /\ AboveMoved' = AboveMoved /\ step \notin Opens /\ step' \notin Opens
  BY DEF Asked, AboveMoved, Closes, Opens
<1>2. \A d : Steady(d)' = Steady(d)
  BY DEF Steady
<1>3. LinkInv'
  <2>1. \A d : FromHeld(d)' = FromHeld(d)
    BY DEF FromHeld, HeldParent, Below
  <2>2. \A p, n : Stays(p, n)' = Stays(p, n)
    BY <1>1, <1>2 DEF Stays
  <2> QED BY <1>1, <2>1, <2>2 DEF Observing, LinkInv, Linked
<1>4. BodyInv'
  <2>1. \A p : Unhashed(p)' = Unhashed(p)
    BY DEF Unhashed
  <2> QED BY <1>1, <1>2, <2>1 DEF Observing, BodyInv, Closes, Opens
<1>5. ASSUME NEW p \in Asked, Trusted(p) PROVE ToldSoFar(p)'
  <2>1. ToldSoFar(p)
    BY <1>1, <1>5 DEF Observing, ToldInv
  <2>2. TypesTold(p)'
    BY <2>1 DEF ToldSoFar, TypesTold, Closes
  <2>3. p \in DOMAIN insp => Told(p)
    BY <2>1 DEF ToldSoFar, Closes
  <2>4. Told(p)' = Told(p)
    BY DEF Told
  <2> QED BY <2>2, <2>3, <2>4 DEF ToldSoFar, Closes
<1>6. Observes'
  BY DEF Observing, Observes, Opens, Inspects, Closes
<1> QED BY <1>1, <1>2, <1>3, <1>4, <1>5, <1>6

(* A file that passes has not changed since it was opened. *)
LEMMA VerifyFileKeeps ==
  ASSUME PhaseInv, DiskInv, Observing, VerifyFile, step' # "end"
  PROVE  Observing'
<1> DEFINE h == Head(pending)
<1>1. /\ step = "files" /\ step' = "files" /\ pending # << >> /\ pending' = Tail(pending)
      /\ UNCHANGED <<case, job, fs, manifest, images, meddled, insp, window>>
      /\ Still(Full(h))
  BY DEF VerifyFile, Fails, GoOn, unread
<1>2. /\ Observes' /\ LinkInv' /\ BodyInv' /\ Asked' = Asked /\ AboveMoved' = AboveMoved
      /\ \A d : Steady(d)' = Steady(d)
      /\ \A p \in Asked : Trusted(p) => ToldSoFar(p)'
  BY <1>1, CloseFrame DEF Closes
<1>3. Tail(pending) \in Seq(Asked) /\ ToSet(pending) = {h} \cup ToSet(Tail(pending))
  BY <1>1, HeadAndTail DEF Observing, AskedInv
<1>4. AskedInv'
  BY <1>1, <1>2, <1>3 DEF Observing, AskedInv, Opens
<1>5. Steady(Full(h))
  BY <1>1 DEF Still, Stat, Steady
<1>6. ToldInv'
  <2> SUFFICES ASSUME NEW p \in Asked, Trusted(p)' PROVE Trusted(p)
    BY <1>2 DEF ToldInv
  <2>1. ~AboveMoved /\ ChainSteady(p)
    BY <1>1, <1>2 DEF Trusted, ChainSteady
  <2>2. Waiting(p) => Steady(Full(p))
    <3>1. CASE p = h
      BY <1>5, <3>1
    <3>2. CASE p # h
      BY <1>1, <1>2, <1>3, <3>2 DEF Trusted, Waiting
    <3> QED BY <3>1, <3>2
  <2> QED BY <1>1, <2>1, <2>2 DEF Trusted, Inspects
<1> QED BY <1>1, <1>2, <1>4, <1>6 DEF Observing, PendingInv

(* All files have passed. *)
LEMMA FilesVerifiedKeeps ==
  ASSUME PhaseInv, DiskInv, Observing, FilesVerified
  PROVE  Observing'
<1>1. /\ step = "files" /\ step' = "dirs" /\ pending = << >>
      /\ UNCHANGED <<case, job, fs, manifest, images, meddled, pending, insp, window>>
  BY DEF FilesVerified, GoOn, unread
<1>2. /\ Observes' /\ LinkInv' /\ BodyInv' /\ Asked' = Asked /\ AboveMoved' = AboveMoved
      /\ \A d : Steady(d)' = Steady(d)
      /\ \A p \in Asked : Trusted(p) => ToldSoFar(p)'
  BY <1>1, CloseFrame DEF Closes
<1>3. AskedInv'
  BY <1>1, <1>2 DEF Observing, AskedInv, Opens
<1>4. ToldInv'
  <2> SUFFICES ASSUME NEW p \in Asked, Trusted(p)' PROVE Trusted(p)
    BY <1>2 DEF ToldInv
  <2>1. ~Waiting(p)
    BY <1>1 DEF Waiting, ToSet
  <2>2. ~AboveMoved /\ ChainSteady(p)
    BY <1>1, <1>2 DEF Trusted, ChainSteady
  <2> QED BY <1>1, <2>1, <2>2 DEF Trusted, Inspects
<1> QED BY <1>1, <1>2, <1>3, <1>4 DEF Observing, PendingInv

(* Every directory in the tree that leads to an image is held, and is not  *)
(* itself one, so that it is among those compared.                         *)
LEMMA VerifyDirsKeeps ==
  ASSUME PhaseInv, DiskInv, Observing, VerifyDirs, step' # "end"
  PROVE  Observing'
<1>1. /\ step = "dirs" /\ step' = "root" /\ \A d \in HeldDirs : Still(d)
      /\ UNCHANGED <<case, job, fs, manifest, images, meddled, pending, insp, window>>
  BY DEF VerifyDirs, Fails, GoOn, unread
<1>2. /\ Observes' /\ LinkInv' /\ BodyInv' /\ Asked' = Asked /\ AboveMoved' = AboveMoved
      /\ \A d : Steady(d)' = Steady(d)
      /\ \A p \in Asked : Trusted(p) => ToldSoFar(p)'
  BY <1>1, CloseFrame DEF Closes
<1>3. AskedInv'
  BY <1>1, <1>2 DEF Observing, AskedInv, Opens
<1>4. \A p \in Asked : IsList(p) /\ p # << >>
  BY CasePaths, FilesArePaths DEF PhaseInv, Observing, AskedInv
<1>5. ASSUME NEW p \in Asked PROVE ChainSteady(p)
  <2> SUFFICES ASSUME NEW n \in RootLen..(Len(Full(p)) - 1) PROVE Steady(Prefix(p, n))
    BY DEF ChainSteady
  <2>1. /\ n \in 1..(Len(Full(p)) - 1) /\ n \in 1..Len(Full(p)) /\ n >= RootLen
        /\ IsList(p)
    <3>1. Len(Full(p)) \in Nat /\ RootLen \in Nat \ {0} /\ IsList(p)
      BY <1>4, FullFacts, RootFacts
    <3> QED BY <3>1
  <2>2. Prefix(p, n) \in DOMAIN window.held
    <3>1. Full(p) \in DOMAIN window.held
      BY <1>1 DEF Observing, BodyInv, Opens
    <3>2. \A k \in 1..Len(Full(p)) : Prefix(p, k) \in DOMAIN window.held => Linked(p, k)
      BY DEF Observing, LinkInv
    <3> QED BY <2>1, <3>1, <3>2, HeldAbove
  <2>3. \A q \in DOMAIN window.body : Prefix(p, n) # Full(q)
    <3> SUFFICES ASSUME NEW q \in DOMAIN window.body, Prefix(p, n) = Full(q) PROVE FALSE
      OBVIOUS
    <3>1. q \in Asked
      BY DEF Observing, BodyInv
    <3>2. q \in Ancestors(p)
      BY <1>4, <2>1, <3>1, NestedPaths
    <3> QED BY <3>1, <3>2 DEF Observing, AskedInv
  <2>4. Len(Prefix(p, n)) >= Len(TreeRoot)
    <3>1. Len(Prefix(p, n)) = n
      BY <2>1, PrefixFacts
    <3> QED BY <2>1, <3>1 DEF RootLen
  <2>5. Prefix(p, n) \in HeldDirs
    BY <2>2, <2>3, <2>4 DEF HeldDirs
  <2>6. Still(Prefix(p, n))
    BY <1>1, <2>5
  <2> QED BY <2>6 DEF Still, Stat, Steady
<1>6. ToldInv'
  <2> SUFFICES ASSUME NEW p \in Asked, Trusted(p)' PROVE Trusted(p)
    BY <1>2 DEF ToldInv
  <2>1. ~AboveMoved
    BY <1>2 DEF Trusted
  <2> QED BY <1>1, <1>5, <2>1 DEF Trusted, Inspects
<1> QED BY <1>1, <1>2, <1>3, <1>6 DEF Observing, PendingInv

(* With the root as it was, what was printed is of what was hashed.        *)
LEMMA VerifyRootReports ==
  ASSUME PhaseInv, DiskInv, Observes => Observing, VerifyRoot, outcome' = "observed"
  PROVE  OneTree'
<1>1. /\ step = "root" /\ job = "observe"
      /\ UNCHANGED <<case, images, meddled, insp>> /\ window'.body = window.body
  BY DEF VerifyRoot, Fails, NoWindow
<1>2. Observing
  BY <1>1 DEF Observes, Closes
<1>3. ASSUME NEW p \in Asked, ~AboveMoved
      PROVE  IF p \in DOMAIN insp THEN Told(p) ELSE IsObject(window.body[p].types)
  <2>1. Trusted(p)
    BY <1>1, <1>3 DEF Trusted, Inspects
  <2>2. ToldSoFar(p)
    BY <1>1, <1>2, <2>1 DEF Observing, ToldInv, Opens
  <2> QED BY <1>1, <2>2 DEF ToldSoFar, TypesTold, Closes
<1>4. AboveMoved' = AboveMoved /\ \A p : Told(p)' = Told(p)
  BY <1>1 DEF AboveMoved, Told
<1> QED BY <1>1, <1>3, <1>4 DEF OneTree, Asked

-----------------------------------------------------------------------------
(* Other processes                                                         *)

(* An entry that is exchanged leaves a new stamp on its directory, or moves *)
(* something above the tree; a file that is edited, on itself.             *)
LEMMA TamperKeeps ==
  ASSUME PhaseInv, DiskInv, Observing, Tamper
  PROVE  Observing'
<1>1. /\ UNCHANGED <<case, step, job, manifest, images, pending, insp, window>> /\ (AboveMoved => AboveMoved')
      /\ fs'.stamp \in [Inodes(case) -> Nat] /\ fs.stamp \in [Inodes(case) -> Nat]
      /\ \A i \in Inodes(case) : fs.stamp[i] <= fs'.stamp[i]
      /\ \A i \in DOMAIN fs.file : fs'.stamp[i] = fs.stamp[i] => fs'.file[i] = fs.file[i]
      /\ \A i \in Inodes(case) : fs'.at[i] # fs.at[i] =>
           /\ Len(i[2]) < RootLen => AboveMoved'
           /\ \A j \in Inodes(case) : j[2] \in {i[2], Parent(i[2])} => fs'.stamp[j] # fs.stamp[j]
      /\ DOMAIN fs.file = {<<b, Full(p)>> : b \in {1, 2}, p \in FilesOf(case)}
  BY TamperFacts DEF DiskInv, unread
<1>2. Asked' = Asked
  BY <1>1 DEF Asked
<1>3. \A p \in Asked : /\ p \in FilesOf(case) /\ IsList(p) /\ Len(Full(p)) \in Nat \ {0}
                       /\ Prefix(p, Len(Full(p))) = Full(p)
                       /\ \A n \in 1..Len(Full(p)) : Prefix(p, n) \in NamesIn(case)
  <2> SUFFICES ASSUME NEW p \in Asked
               PROVE  /\ p \in FilesOf(case) /\ IsList(p) /\ Len(Full(p)) \in Nat \ {0}
                      /\ Prefix(p, Len(Full(p))) = Full(p)
                      /\ \A n \in 1..Len(Full(p)) : Prefix(p, n) \in NamesIn(case)
    OBVIOUS
  <2>1. p \in FilesOf(case) /\ IsList(p) /\ \A n \in 1..Len(Full(p)) : Prefix(p, n) \in NamesIn(case)
    BY CasePaths, FilesArePaths DEF PhaseInv, Observing, AskedInv
  <2> QED BY <2>1, FullFacts
<1>4. ASSUME NEW p \in Asked, NEW n \in 1..Len(Full(p)), Prefix(p, n) \in DOMAIN window.held
      PROVE  /\ Linked(p, n) /\ window.held[Prefix(p, n)] \in Inodes(case)
             /\ window.stat[Prefix(p, n)].stamp <= fs'.stamp[window.held[Prefix(p, n)]]
             /\ Steady(Prefix(p, n))' => /\ Steady(Prefix(p, n))
                                         /\ fs'.stamp[window.held[Prefix(p, n)]] = fs.stamp[window.held[Prefix(p, n)]]
  <2> DEFINE d == Prefix(p, n)
             i == window.held[d]
             s == window.stat[d].stamp
  <2>1. Linked(p, n)
    BY <1>4 DEF Observing, LinkInv
  <2>2. i \in Inodes(case)
    BY <1>3, <2>1 DEF Linked, Inodes
  <2>3. s \in Nat /\ s <= fs.stamp[i] /\ fs.stamp[i] <= fs'.stamp[i] /\ fs.stamp[i] \in Nat /\ fs'.stamp[i] \in Nat
    BY <1>1, <2>1, <2>2 DEF Linked
  <2>4. (Steady(d) <=> fs.stamp[i] = s) /\ (Steady(d)' <=> fs'.stamp[i] = s)
    BY <1>1 DEF Steady
  <2> HIDE DEF d, i, s
  <2>5. s <= fs'.stamp[i] /\ (Steady(d)' => Steady(d) /\ fs'.stamp[i] = fs.stamp[i])
    BY <2>3, <2>4
  <2> QED BY <2>1, <2>2, <2>5 DEF d, i, s
<1>5. LinkInv'
  <2> SUFFICES ASSUME NEW p \in Asked, NEW n \in 1..Len(Full(p)), Prefix(p, n) \in DOMAIN window.held
               PROVE  Linked(p, n)'
    BY <1>1, <1>2 DEF LinkInv
  <2> DEFINE d == Prefix(p, n)
             j == <<HeldParent(d)[1], d>>
  <2>1. /\ Linked(p, n) /\ window.held[d] \in Inodes(case) /\ window.held[d][2] = d
        /\ window.stat[d].stamp <= fs'.stamp[window.held[d]]
        /\ Steady(d)' => Steady(d) /\ fs'.stamp[window.held[d]] = fs.stamp[window.held[d]]
    BY <1>4 DEF Linked
  <2>2. j \in Inodes(case)
    BY <2>1, ParentHeld DEF Linked
  <2>3. n \in Nat \ {0} /\ RootLen \in Nat \ {0} /\ Len(d) = n /\ (n > 1 => Parent(d) = Prefix(p, n - 1))
        /\ (n > 1 => n - 1 \in 1..Len(Full(p)))
    <3>1. IsList(p) /\ Len(Full(p)) \in Nat
      BY <1>3
    <3> QED BY <3>1, PrefixFacts, RootFacts
  <2>4. ASSUME Stays(p, n)' PROVE Stays(p, n) /\ fs'.at[j] = fs.at[j]
    <3>1. CASE n < RootLen
      <4>1. ~AboveMoved'
        BY <2>4, <3>1 DEF Stays, RootLen
      <4> QED BY <1>1, <2>2, <2>3, <3>1, <4>1 DEF Stays
    <3>2. CASE n = RootLen
      <4>1. Steady(d)'
        BY <2>3, <2>4, <3>2 DEF Stays, RootLen
      <4>2. fs'.stamp[window.held[d]] = fs.stamp[window.held[d]] /\ Steady(d)
        BY <2>1, <4>1
      <4>3. fs'.at[j] = fs.at[j]
        BY <1>1, <2>1, <2>2, <4>2
      <4> QED BY <2>3, <3>2, <4>2, <4>3 DEF Stays
    <3>3. CASE n > RootLen
      <4> DEFINE e == Prefix(p, n - 1)
      <4>1. Steady(e)' /\ n > 1
        BY <2>3, <2>4, <3>3 DEF Stays, RootLen
      <4>2. e \in DOMAIN window.held /\ n - 1 \in 1..Len(Full(p)) /\ e = Parent(d)
        BY <2>1, <2>3, <4>1 DEF Linked
      <4>3. /\ window.held[e] \in Inodes(case) /\ window.held[e][2] = e /\ Steady(e)
            /\ fs'.stamp[window.held[e]] = fs.stamp[window.held[e]]
        BY <1>4, <4>1, <4>2 DEF Linked
      <4>4. fs'.at[j] = fs.at[j]
        BY <1>1, <2>2, <4>2, <4>3
      <4> QED BY <2>3, <3>3, <4>3, <4>4 DEF Stays
    <3> QED BY <2>3, <3>1, <3>2, <3>3
  <2>5. fs'.at[j] = fs.at[j] => FromHeld(d)' = FromHeld(d)
    BY <1>1 DEF FromHeld, Below, HeldParent
  <2> QED BY <1>1, <2>1, <2>4, <2>5 DEF Linked
<1>6. ASSUME NEW p \in Asked, Full(p) \in DOMAIN window.held, Steady(Full(p))'
      PROVE  Steady(Full(p)) /\ fs'.file[window.held[Full(p)]] = fs.file[window.held[Full(p)]]
  <2> DEFINE n == Len(Full(p))
  <2>1. n \in 1..Len(Full(p)) /\ Prefix(p, n) = Full(p)
    BY <1>3
  <2>2. /\ Linked(p, n) /\ Steady(Full(p))
        /\ fs'.stamp[window.held[Full(p)]] = fs.stamp[window.held[Full(p)]]
    BY <1>4, <1>6, <2>1
  <2>3. window.held[Full(p)] \in DOMAIN fs.file
    BY <1>1, <1>3, <2>1, <2>2 DEF Linked
  <2> QED BY <1>1, <2>2, <2>3
<1>7. BodyInv'
  <2>1. (\A p : Unhashed(p)' = Unhashed(p)) /\ AllOpen' = AllOpen
    BY <1>1 DEF Unhashed, AllOpen, Unopened
  <2> QED BY <1>1, <1>2, <1>6, <2>1 DEF Observing, BodyInv
<1>8. ToldInv'
  <2> SUFFICES ASSUME step \notin Opens, NEW p \in Asked, Trusted(p)' PROVE ToldSoFar(p)'
    BY <1>1, <1>2 DEF ToldInv
  <2>1. Full(p) \in DOMAIN window.held
    BY DEF Observing, BodyInv
  <2>2. ~AboveMoved /\ (Steady(Full(p))' => Steady(Full(p)))
    BY <1>1, <1>6, <2>1 DEF Trusted
  <2>3. ChainSteady(p)' => ChainSteady(p)
    <3> SUFFICES ASSUME NEW n \in RootLen..(Len(Full(p)) - 1), Steady(Prefix(p, n))' PROVE Steady(Prefix(p, n))
      BY DEF ChainSteady, RootLen
    <3>1. n \in 1..Len(Full(p)) /\ IsList(p)
      <4>1. Len(Full(p)) \in Nat /\ RootLen \in Nat \ {0} /\ IsList(p)
        BY <1>3, RootFacts
      <4> QED BY <4>1
    <3>2. Prefix(p, n) \in DOMAIN window.held
      <4>1. \A k \in 1..Len(Full(p)) : Prefix(p, k) \in DOMAIN window.held => Linked(p, k)
        BY DEF Observing, LinkInv
      <4> QED BY <2>1, <3>1, <4>1, HeldAbove
    <3> QED BY <1>4, <3>1, <3>2
  <2>4. Trusted(p)
    BY <1>1, <2>2, <2>3 DEF Trusted, Waiting
  <2>5. ToldSoFar(p)
    BY <2>4 DEF Observing, ToldInv
  <2> QED BY <1>1, <2>5 DEF ToldSoFar, TypesTold, RpathsTold, LoadsTold, Told, Waiting
<1> QED BY <1>1, <1>2, <1>5, <1>7, <1>8 DEF Observing, Observes, AskedInv, PendingInv

-----------------------------------------------------------------------------
(* Every step of an observation, and of others meanwhile, keeps its parts. *)
LEMMA ObservingKept ==
  ASSUME ObservationInv, LeanNext, Observes'
  PROVE  Observing'
<1> USE DEF ObservationInv
<1>1. step' # "end"
  BY DEF Observes, Opens, Inspects, Closes
<1>2. CASE Observe
  BY <1>2, ObserveKeeps
<1>3. CASE Tamper
  <2>1. Observes
    BY <1>3, TamperFacts DEF Observes
  <2> QED BY <1>3, <2>1, TamperKeeps
<1>4. CASE Look \/ Open \/ Read \/ Opened \/ VerifyFile \/ FilesVerified \/ VerifyDirs
  <2>1. Observes
    BY <1>1, <1>4 DEF Look, Open, Read, Opened, VerifyFile, FilesVerified, VerifyDirs, GoOn, Fails, Observes, Opens, Closes
  <2> QED BY <1>1, <1>4, <2>1, LookKeeps, OpenKeeps, ReadFileKeeps, OpenedKeeps, VerifyFileKeeps, FilesVerifiedKeeps,
             VerifyDirsKeeps
<1>5. CASE Discover
  <2>1. Observes
    BY <1>1, <1>5 DEF Discover, Classify, Classified, ReadRpaths, ReadLoads, ReadIds, Admit, StartWalk, Walk, EndWalk,
                      GoOn, Fails, Observes, Inspects
  <2> QED BY <1>1, <1>5, <2>1, ClassifyKeeps, ClassifiedKeeps, ReadRpathsKeeps, ReadLoadsKeeps, ReadIdsKeeps,
             AdmitKeeps, WalkKeeps DEF Discover
<1>6. CASE Install \/ RivalTree
  <2>1. job = "install" /\ job' = job
    BY <1>6 DEF PhaseInv, Installs, Install, ValidateZip, Extract, VerifyTree, HashExecutables, Probe, RenameTree,
                RivalTree, GoOn, Fails
  <2> QED BY <2>1 DEF Observes
<1>7. CASE Witness \/ VerifyRoot \/ Bind
  BY <1>7 DEF Witness, VerifyRoot, Bind, Fails, Observes, Opens, Inspects, Closes
<1> QED BY <1>2, <1>3, <1>4, <1>5, <1>6, <1>7 DEF LeanNext, Observation

(* The invariant holds of materialize_lean and of what reads its tree. *)
LEMMA ObservationCorrect == LeanSpec => []ObservationInv
<1>1. LeanInit => ObservationInv
  <2>1. LeanInit => IsList(meddled)
    <3>1. << >> \in Seq(ToSet(<< >>))
      BY EmptySeq
    <3> QED BY <3>1 DEF LeanInit, LeanStarted, IsList
  <2> QED BY <2>1 DEF LeanInit, LeanStarted, ObservationInv, PhaseInv, DiskInv, Observes, NoWindow,
                      Installs, Opens, Inspects, Closes
<1>2. ObservationInv /\ [LeanNext]_leanVars => ObservationInv'
  <2> SUFFICES ASSUME ObservationInv, [LeanNext]_leanVars PROVE ObservationInv'
    OBVIOUS
  <2>1. CASE LeanNext
    <3>1. outcome' = "observed" => outcome = "observed" \/ OneTree'
      <4> SUFFICES ASSUME outcome' = "observed", outcome # "observed" PROVE OneTree'
        OBVIOUS
      <4>1. VerifyRoot
        BY <2>1 DEF LeanNext, Install, ValidateZip, Extract, VerifyTree, HashExecutables, Probe, RenameTree, RivalTree,
             Discover, Classify, Classified, ReadRpaths, ReadLoads, ReadIds, Admit, StartWalk, Walk, EndWalk,
             Observation, Observe, Witness, Look, Open, Read, Opened, VerifyFile, FilesVerified, VerifyDirs, Bind,
             Tamper, Edit, Exchange, Fails, GoOn, Rejected
      <4> QED BY <4>1, VerifyRootReports DEF ObservationInv
    <3>2. PhaseInv' /\ DiskInv'
      BY <2>1, <3>1, PhaseKept, DiskKept DEF ObservationInv
    <3> QED BY <2>1, <3>2, ObservingKept DEF ObservationInv
  <2>2. CASE UNCHANGED leanVars
    <3>1. PhaseInv'
      BY <2>2 DEF ObservationInv, leanVars, unread, disk, PhaseInv, OneTree, AboveMoved, Told
    <3>2. DiskInv'
      BY <2>2 DEF ObservationInv, leanVars, unread, disk, DiskInv
    <3>3. Observes' => Observing'
      <4> SUFFICES ASSUME Observing PROVE Observing'
        BY <2>2 DEF ObservationInv, leanVars, Observes
      <4> USE <2>2 DEF leanVars, unread, disk
      <4>1. Asked' = Asked /\ AboveMoved' = AboveMoved /\ AllOpen' = AllOpen
        BY DEF Asked, AboveMoved, AllOpen, Unopened
      <4>2. (\A d : Steady(d)' = Steady(d)) /\ (\A d : FromHeld(d)' = FromHeld(d)) /\ (\A p : Unhashed(p)' = Unhashed(p))
        BY DEF Steady, FromHeld, HeldParent, Below, Unhashed
      <4>3. LinkInv'
        <5>1. \A p, n : Stays(p, n)' = Stays(p, n)
          BY <4>1, <4>2 DEF Stays
        <5> QED BY <4>1, <4>2, <5>1 DEF Observing, LinkInv, Linked
      <4>4. BodyInv'
        BY <4>1, <4>2 DEF Observing, BodyInv
      <4>5. ToldInv'
        <5>1. \A p : Trusted(p)' = Trusted(p)
          BY <4>1, <4>2 DEF Trusted, ChainSteady, Waiting
        <5>2. \A p : ToldSoFar(p)' = ToldSoFar(p)
          BY DEF ToldSoFar, TypesTold, RpathsTold, LoadsTold, Told, Waiting
        <5> QED BY <4>1, <5>1, <5>2 DEF Observing, ToldInv
      <4> QED BY <4>1, <4>3, <4>4, <4>5 DEF Observing, Observes, AskedInv, PendingInv
    <3> QED BY <3>1, <3>2, <3>3 DEF ObservationInv
  <2> QED BY <2>1, <2>2
<1> QED BY <1>1, <1>2, PTL DEF LeanSpec

(* The half about the Lean compiler is not disturbed by the other. *)
LEMMA LeanHalf == MainSpec => LeanSpec
<1>1. MainInit => LeanInit
  BY InputsExist DEF MainInit, LeanInit
<1>2. [MainNext]_allVars => [LeanNext]_leanVars
  BY DEF MainNext, LeanCommand, ToolCommand, allVars
<1> QED BY <1>1, <1>2, PTL DEF MainSpec, LeanSpec

(* What an accepted observation of observe_compiler_runtime says the
   inspector printed of each image is of the bytes that were hashed, for every
   archive, every depth of the tree and every number of changes that others make
   in the tree or at its root. *)
THEOREM OneTreeCorrect == LeanSpec => []OneTree
<1>1. ObservationInv => OneTree
  BY DEF ObservationInv, PhaseInv, OneTree
<1> QED BY <1>1, ObservationCorrect, PTL

(* So does the observation that the whole program makes. *)
THEOREM ToolchainOneTree == MainSpec => []OneTree
BY LeanHalf, OneTreeCorrect, PTL
=============================================================================
