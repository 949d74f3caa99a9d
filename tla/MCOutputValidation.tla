------------------------- MODULE MCOutputValidation -------------------------
(* The staging roots that are validated: the one a build of both programs    *)
(* leaves, and that root with one of its directories changed in one way: a    *)
(* path added, removed or of another kind, a leaf, a sidecar or a field of   *)
(* the manifest changed, alone or with everything that depends on it.        *)
EXTENDS Integers, Sequences, FiniteSets, SequencesExt, TLC

Bundle(program, mutate, view) ==
    LET Package(stem) == <<<<"relations", stem, "Nargo.toml">>, <<"relations", stem, "src", "main.nr">>>>
    IN  <<<<program \o ".noir-relations.json">>>> \o Package("r0-init")
            \o Package("r1-" \o mutate) \o Package("r2-" \o view)

\* The leaves of each directory in UTF-8 order, the finalizer's last.
LeavesIn ==
    [evm |-> <<<<"StateCell.abi.json">>, <<"StateCell.yul">>, <<"StateCell.bin">>>>,
     solana |-> <<<<"StateCell.idl.json">>, <<"StateCell.sbpf-plan">>>>,
     near |-> <<<<"StateCell.near-abi.json">>, <<"StateCell.wat">>, <<"StateCell.wasm">>>>,
     noir |-> Bundle("StateCell", "increment", "get")]
    @@ ("evm-accumulator" :> <<<<"Accumulator.abi.json">>, <<"Accumulator.yul">>, <<"Accumulator.bin">>>>)
    @@ ("solana-accumulator" :> <<<<"Accumulator.idl.json">>, <<"Accumulator.sbpf-plan">>>>)
    @@ ("near-accumulator" :> <<<<"Accumulator.near-abi.json">>, <<"Accumulator.wat">>, <<"Accumulator.wasm">>>>)
    @@ ("noir-accumulator" :> Bundle("Accumulator", "add", "current"))
Finalized == {<<"StateCell.bin">>, <<"StateCell.wasm">>, <<"Accumulator.bin">>, <<"Accumulator.wasm">>}

TargetOf(d) ==
    CASE d \in {"evm", "evm-accumulator"} -> "evm" [] d \in {"solana", "solana-accumulator"} -> "solana"
      [] d \in {"near", "near-accumulator"} -> "near" [] OTHER -> "noir"
ProgramOf(d) == IF d \in {"evm", "solana", "near", "noir"} THEN "StateCell" ELSE "Accumulator"
Profiles ==
    [evm |-> "evm-yul-solc-0.8.34-v1", solana |-> "solana-sbpf-plan-v1",
     near |-> "near-wasm-raw-u64-v1", noir |-> "noir-source-u64-relations-v1"]
Interfaces == {<<"StateCell.noir-relations.json">>, <<"Accumulator.noir-relations.json">>}

\* The order of the paths that occur.
MCUTF8Before(p, q) ==
    \E d \in DOMAIN LeavesIn : \E i, j \in DOMAIN LeavesIn[d] : i < j /\ p = LeavesIn[d][i] /\ q = LeavesIn[d][j]

Content(doc, hashes) == [is |-> "text", doc |-> doc, hashes |-> hashes]
LeafContent(p, hashes) == Content(p[Len(p)], IF p \in Interfaces THEN hashes ELSE <<>>)
EvidenceOf(hashes) == Content("evidence", hashes)

Node(kind, content) == [kind |-> kind, links |-> 1, size |-> 1, content |-> content]
Dir == Node("dir", Content("none", <<>>))
Above(paths) == UNION {{SubSeq(p, 1, i) : i \in 0 .. Len(p) - 1} : p \in paths}

Listed(d, hashes) ==
    [i \in DOMAIN LeavesIn[d] |->
        LET p == LeavesIn[d][i] IN
        [role |-> IF p \in Finalized THEN "finalized-extra" ELSE "materialized-base", path |-> p,
         size |-> 1, contentSha256 |-> LeafContent(p, hashes), bad |-> {}]]
ManifestOf(d, hashes) ==
    [is |-> "manifest", bad |-> {}, target |-> TargetOf(d), profile |-> Profiles[TargetOf(d)],
     program |-> ProgramOf(d), deployable |-> TargetOf(d) \in {"evm", "near"}, hashes |-> hashes,
     evidenceSha256 |-> EvidenceOf(hashes), files |-> Listed(d, hashes)]

MJ == <<"manifest.json">>
EJ == <<"evidence.json">>
With(m, e, leaf) ==
    LET files == DOMAIN leaf IN
    [p \in Above(files) |-> Dir] @@ (MJ :> Node("file", m)) @@ (EJ :> Node("file", e))
        @@ [p \in files |-> Node("file", leaf[p])]
TreeOf(d, hashes) ==
    With(ManifestOf(d, hashes), EvidenceOf(hashes), [p \in ToSet(LeavesIn[d]) |-> LeafContent(p, hashes)])

HashesOf(d) == <<ProgramOf(d), ProgramOf(d)>>
Built == [d \in DOMAIN LeavesIn |-> TreeOf(d, HashesOf(d))]

Without(t, gone) == [p \in DOMAIN t \ gone |-> t[p]]
Below(t, d) == {p \in DOMAIN t : Len(p) > Len(d) /\ SubSeq(p, 1, Len(d)) = d}

\* The tree of d with one path otherwise.
Altered(d) ==
    LET t == Built[d]
        last == LeavesIn[d][Len(LeavesIn[d])]
        At(p, node) == [t EXCEPT ![p] = node]
        file == t[last]
    IN  {Without(t, {p} \cup Below(t, p)) : p \in {q \in DOMAIN t : q \in {<<>>, MJ, EJ, last, <<"relations">>}}}
        \cup {Without(t, Below(t, <<>>))}
        \cup {Without(At(p, Node(kind, Content("none", <<>>))), Below(t, p)) :
                 p \in {q \in DOMAIN t : q \in {<<>>, MJ, last, <<"relations">>}}, kind \in {"link", "dir", "file"}}
        \cup {At(last, [file EXCEPT !.links = 2]), At(last, [file EXCEPT !.size = 2]),
              At(last, [file EXCEPT !.size = 3]), At(last, [file EXCEPT !.kind = "special"]),
              At(last, [file EXCEPT !.content = Content("other", <<>>)]),
              At(EJ, [t[EJ] EXCEPT !.links = 2]),
              At(MJ, [t[MJ] EXCEPT !.links = 2]), At(EJ, [t[EJ] EXCEPT !.content = Content("other", <<>>)])}
        \cup {t @@ (p :> Node(kind, Content("none", <<>>))) :
                 p \in {q \in {<<"stray">>, <<"relations", "stray">>} : SubSeq(q, 1, Len(q) - 1) \in DOMAIN t},
                 kind \in {"dir", "file"}}
        \cup {t @@ ([i \in {<<"a">>, <<"b">>, <<"c">>} |-> Node("file", Content("none", <<>>))])}

\* The tree of d with a field of the manifest otherwise, and nothing else.
Misdescribed(d) ==
    LET t == Built[d]
        m == ManifestOf(d, HashesOf(d))
        n == Len(m.files)
        With1(x) == [t EXCEPT ![MJ].content = x]
    IN  {With1(x) : x \in
          {[m EXCEPT !.bad = {"planDigest"}], [m EXCEPT !.target = "other"], [m EXCEPT !.profile = "other"],
           [m EXCEPT !.program = "other"], [m EXCEPT !.deployable = ~@], [m EXCEPT !.evidenceSha256 = Content("other", <<>>)],
           [m EXCEPT !.hashes = <<"other", "other">>], [m EXCEPT !.files = <<>>], [m EXCEPT !.files = Reverse(@)],
           [m EXCEPT !.files = Tail(@)], [m EXCEPT !.files = @ \o <<m.files[n]>>],
           [m EXCEPT !.files[1].bad = {"path"}], [m EXCEPT !.files[1].role = "other"],
           [m EXCEPT !.files[1].path = EJ], [m EXCEPT !.files[n].path = m.files[1].path \o <<"x">>],
           [m EXCEPT !.files[n].size = 2], [m EXCEPT !.files[n].size = 3],
           [m EXCEPT !.files[n].contentSha256 = Content("other", <<>>)]}}

\* The output of another build: everything in it agrees, but for the program it
\* is of, or a leaf, or the list of files.
Consistent(d) ==
    LET h == HashesOf(d)
        other == <<"other", ProgramOf(d)>>
        m == ManifestOf(d, h)
        n == Len(m.files)
        last == LeavesIn[d][Len(LeavesIn[d])]
        leaf == [p \in ToSet(LeavesIn[d]) |-> LeafContent(p, h)]
        late == Content("other", <<>>)
    IN  {TreeOf(d, other), TreeOf(d, <<ProgramOf(d), "other">>),
         With([m EXCEPT !.files[n].contentSha256 = late], EvidenceOf(h), [leaf EXCEPT ![last] = late]),
         With([m EXCEPT !.files = SubSeq(@, 1, n - 1)], EvidenceOf(h), Without(leaf, {last})),
         With([m EXCEPT !.evidenceSha256 = late], late, leaf),
         With([m EXCEPT !.deployable = ~@], EvidenceOf(h), leaf)}

MCOutputs ==
    {Built}
    \cup UNION {{[Built EXCEPT ![d] = t] : t \in Altered(d) \cup Misdescribed(d) \cup Consistent(d)} :
                  d \in DOMAIN LeavesIn}

\* What the passes want of the files' contents: the contracts of Accumulator
\* and of the Noir bundle, and main() of two leaves of StateCell.
Fixed(d) ==
    [p \in ToSet(LeavesIn[d]) |-> [docs |-> {p[Len(p)]}, hashed |-> p \in Interfaces]]
Evidenced(d) == Fixed(d) @@ (EJ :> [docs |-> {"evidence"}, hashed |-> TRUE])
Only(d, p) == [q \in {p} |-> Fixed(d)[p]]
MCContract ==
    <<Only("evm", <<"StateCell.bin">>), <<>>, Only("near", <<"StateCell.wasm">>), <<>>, Evidenced("noir"),
      Fixed("evm-accumulator"), Evidenced("solana-accumulator"), Evidenced("near-accumulator"),
      Evidenced("noir-accumulator")>>
=============================================================================
