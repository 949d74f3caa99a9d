------------------------------- MODULE Checks -------------------------------
(* The shape every validator of scripts/ has: a document is tested in a      *)
(* fixed order and the first test that does not hold raises, so that its code *)
(* is the verdict.  A validator is a sequence of checks <<code, condition>>.  *)
(* A document is a record; leaves whose only property is to be well formed   *)
(* (hashes, versions, identifiers, key sets) are abstracted to "bad", the set *)
(* of the parts that hold a malformed one; names that are sorted are numbers. *)
EXTENDS Naturals, Sequences, SequencesExt

\* fail(code, ...) at the first test that does not hold.
FirstFailure(checks) ==
    LET failing == {i \in DOMAIN checks : ~checks[i][2]}
    IN  IF failing = {} THEN "ok" ELSE checks[Min(failing)][1]

\* require_sorted_unique_strings and unique_sorted: no duplicate, and sorted.
Ascending(names) == \A i, j \in DOMAIN names : i < j => names[i] < names[j]

\* All the checks f(x) of the elements of a sequence, in its order.
ForEach(f(_), seq) == FlattenSeq([i \in DOMAIN seq |-> f(seq[i])])

\* The checks f(x) of a nullable part, a set of at most one element.
IfAny(f(_), part) == IF part = {} THEN <<>> ELSE f(CHOOSE x \in part : TRUE)

\* The part p of a document holds only well-formed leaves.
Well(doc, p) == p \notin doc.bad
=============================================================================
