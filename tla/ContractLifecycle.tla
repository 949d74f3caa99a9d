---------------------------- MODULE ContractLifecycle ----------------------------
(***************************************************************************)
(* What the reference semantics promises to whoever holds a contract's     *)
(* logical state: invocations are atomic.  A fresh contract becomes live   *)
(* through its initializer and only so, it becomes live once, entries      *)
(* change a live contract, views change nothing, and state and effects are *)
(* published together or not at all.  (docs/specs/semantic-core.md,        *)
(* "Reference Semantics"; ReferenceMachine.tla is shown to implement it.)  *)
(***************************************************************************)
EXTENDS Naturals, Sequences

CONSTANTS Contents,   \* what the logical state's slots may hold, all together
          Blank       \* the default contents of a program's state

VARIABLES status,     \* "fresh" before the initializer returned, then "live"
          contents,   \* the committed logical state
          outbox,     \* every effect published so far, in order
          asked,      \* the kind of the invocation in progress, or "nothing"
          answer      \* "pending", or how the last invocation ended

vars == <<status, contents, outbox, asked, answer>>

Init == /\ status \in {"fresh", "live"}
        /\ contents \in Contents
        /\ outbox = << >>
        /\ asked = "nothing" /\ answer = "pending"

\* An invocation is taken up only where the life cycle admits its kind.
Ask == /\ asked = "nothing"
       /\ \/ /\ asked' = "initializer"
             /\ status = "fresh" /\ contents = Blank
          \/ /\ asked' \in {"entry", "view"}
             /\ status = "live"
       /\ answer' = "pending"
       /\ UNCHANGED <<status, contents, outbox>>

\* It is refused, or it fails on its way, and leaves no trace.
Fail == /\ asked' = "nothing" /\ answer' = "failed"
        /\ UNCHANGED <<status, contents, outbox>>

\* A view answers and leaves no trace either.
Observe == /\ asked = "view"
           /\ asked' = "nothing" /\ answer' = "returned"
           /\ UNCHANGED <<status, contents, outbox>>

\* An initializer or an entry that returns publishes its contents and its
\* effects at once, the effects behind those published before.
Publish == /\ asked \in {"initializer", "entry"}
           /\ asked' = "nothing" /\ answer' = "returned"
           /\ status' = "live"
           /\ contents' \in Contents
           /\ Len(outbox') >= Len(outbox)
           /\ SubSeq(outbox', 1, Len(outbox)) = outbox

Next == Ask \/ Fail \/ Observe \/ Publish

Spec == Init /\ [][Next]_vars

==================================================================================
