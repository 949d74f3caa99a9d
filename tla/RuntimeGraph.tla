---------------------------- MODULE RuntimeGraph ----------------------------
(***************************************************************************)
(* The runtime images of a Lean toolchain and what each of them loads:     *)
(* scripts/compiler_runtime_graph.py, which walks the images from every    *)
(* compiler executable and resolves each load under the search paths of    *)
(* the chain of images it was reached through, and the static discovery of *)
(* scripts/toolchain_assets.py, which turns what otool or readelf prints   *)
(* into the resolver's input.                                              *)
(*                                                                         *)
(* A path is the sequence of its names below the toolchain's root.  A load *)
(* or a search path is a form [base, rest]: a keyword the loader expands   *)
(* (@loader_path, @executable_path, @rpath, $ORIGIN) or "/", and the names *)
(* that follow; a soname; or a path below the root ("rel").                *)
(***************************************************************************)
EXTENDS Naturals, Sequences, FiniteSets, SequencesExt

CONSTANTS
  MaxContexts,   \* _MAX_INHERITED_CONTEXTS_PER_IMAGE
  MaxWalk,       \* _MAX_WALK_CONTEXTS
  MaxFiles,      \* MAX_RUNTIME_FILES
  Above,         \* the names from "/" to the toolchain's root
  SystemRoots,   \* allowedSystemLoadRoots
  Missing,       \* absolute directories that do not exist
  Controls       \* names that hold a control character

ASSUME GraphAssumption == {MaxContexts, MaxWalk, MaxFiles} \subseteq Nat \ {0} /\ Above # << >>

VARIABLE walk    \* the resolver: its input, its work list and what it found

Up == ".."
Outside == <<Up>>
Failed == <<"failed">>
System == <<"system">>

Parent(p) == SubSeq(p, 1, Len(p) - 1)

\* One segment of a join: ".." drops a name, and a path that drops more
\* names than it has leaves the root for good.
Segment(at, name) ==
  IF at = Outside \/ (name = Up /\ at = << >>) THEN Outside
  ELSE IF name = Up THEN Parent(at) ELSE Append(at, name)
Join(base, rest) == FoldLeft(Segment, base, rest)

\* Absolute paths: a system library is one whose canonical path lies under
\* an allowed root, so /usr/lib/../x is none.
Canonical(names) == names # << >> /\ {Up, ""} \cap Range(names) = {}
UnderSystem(names) == \E r \in SystemRoots : r # names /\ IsPrefix(r, names)
IsSystem(form) == form.base = "/" /\ Canonical(form.rest) /\ UnderSystem(form.rest)
InTree(form) == form.base = "/" /\ IsStrictPrefix(Above, form.rest)

\* Discovery resolves a path from "/" before it asks where it lies, so one
\* that leaves the root and comes back lies in the toolchain.
Resolved(names) ==
  FoldLeft(LAMBDA at, name : IF name # Up THEN Append(at, name) ELSE IF at = << >> THEN at ELSE Parent(at),
           << >>, names)
BelowRoot(at) == IF IsPrefix(Above, at) THEN SubSeq(at, Len(Above) + 1, Len(at)) ELSE Outside
Within(names) == BelowRoot(Resolved(names))
Spelled(form, loader, exe) ==
  CASE form.base = "/"                             -> form.rest
    [] form.base \in {"@loader_path", "$ORIGIN"}   -> Above \o Parent(loader) \o form.rest
    [] form.base = "@executable_path"              -> Above \o Parent(exe) \o form.rest
    [] OTHER                                       -> << >>
TreePath(form) == Within(form.rest)

Special(form, loader, exe) ==
  Join(Parent(IF form.base = "@loader_path" THEN loader ELSE exe), form.rest)
IsSpecial(form) == form.base \in {"@loader_path", "@executable_path"}

\* A search path of an image: absolute ones are refused, the system's too.
RpathDir(form, loader, exe) ==
  IF IsSpecial(form) THEN Special(form, loader, exe) ELSE Outside

\* What a load names: an image, System, or Failed.
OnRpaths(rest, dirs, known) ==
  LET hits == {i \in DOMAIN dirs : Join(dirs[i], rest) \in known}
  IN IF rest = << >> \/ Up \in Range(rest) \/ hits = {} THEN Failed
     ELSE Join(dirs[CHOOSE i \in hits : \A j \in hits : i <= j], rest)
LoadTarget(form, loader, exe, dirs, known) ==
  LET named == IF IsSpecial(form) THEN Special(form, loader, exe) ELSE form.rest
  IN CASE IsSystem(form) -> System
       [] form.base = "@rpath" -> OnRpaths(form.rest, dirs, known)
       [] (IsSpecial(form) \/ form.base = "rel") /\ named \in known -> named
       [] OTHER -> Failed

OwnDirs(img, p, exe) == [i \in DOMAIN img.rpaths |-> RpathDir(img.rpaths[i], p, exe)]
Internal(img, p, exe, dirs, known) ==
  {f \in Range(img.loads) : LoadTarget(f, p, exe, dirs, known) # System}
Edges(img, p, exe, dirs, known) ==
  [f \in Internal(img, p, exe, dirs, known) |-> LoadTarget(f, p, exe, dirs, known)]
Resolves(img, p, exe, dirs, known, entries) ==
  /\ Outside \notin Range(OwnDirs(img, p, exe))
  /\ \A f \in Range(img.loads) : LoadTarget(f, p, exe, dirs, known) \notin {Failed} \cup entries

\* What the resolver requires of its input beyond its order.
Acceptable(images, entries) ==
  /\ entries # {} /\ entries \subseteq DOMAIN images
  /\ \A p \in DOMAIN images :
       /\ IsInjective(images[p].rpaths) /\ IsInjective(images[p].loads)
       /\ Controls \cap Range(p) = {}
       /\ \A f \in Range(images[p].rpaths) \cup Range(images[p].loads) : Controls \cap Range(f.rest) = {}

Entry == Head(walk.todo)
Idle == [at |-> "idle", images |-> << >>, entries |-> {}, todo |-> << >>, pending |-> << >>,
         seen |-> {}, final |-> << >>, owners |-> {}, why |-> "none"]
Begin(images, entries) ==
  [Idle EXCEPT !.at = IF Acceptable(images, ToSet(entries)) THEN "entry" ELSE "failed",
               !.images = images, !.entries = ToSet(entries), !.todo = entries,
               !.why = IF Acceptable(images, ToSet(entries)) THEN "none" ELSE "input"]

WalkInit == walk = Idle
FailWalk(why) == walk' = [walk EXCEPT !.at = "failed", !.why = why]

\* Wrong resolvers, which the properties must tell apart: one whose contexts
\* survive into the next entrypoint's walk, one that stops a context early.
KeepsSeen ==
  /\ walk.at = "entry" /\ walk.todo # << >>
  /\ walk' = [walk EXCEPT !.at = "walking", !.pending = <<[node |-> Entry, dirs |-> << >>]>>]
EagerLimit(c) == Cardinality({s \in walk.seen : s.node = c.node}) + 1 >= MaxContexts

\* The next entrypoint starts with no context seen; what was resolved and
\* who owns what is kept from the ones before.
NextEntry ==
  /\ walk.at = "entry" /\ walk.todo # << >>
  /\ walk' = [walk EXCEPT !.at = "walking", !.seen = {}, !.pending = <<[node |-> Entry, dirs |-> << >>]>>]

Contexts(node) == {c \in walk.seen : c.node = node}
OwnedFiles == {o[1] : o \in walk.owners}
LimitReached(c) ==
  \/ Cardinality(Contexts(c.node)) >= MaxContexts
  \/ Cardinality(walk.seen) + 1 > MaxWalk
  \/ /\ c.node # Entry /\ c.node \notin OwnedFiles
     /\ Cardinality(OwnedFiles) >= MaxFiles

\* One pair of an image and the search paths it was reached under.
Expand ==
  LET c    == Head(walk.pending)
      img  == walk.images[c.node]
      dirs == OwnDirs(img, c.node, Entry) \o c.dirs
      out  == Edges(img, c.node, Entry, dirs, DOMAIN walk.images)
      kids == SelectSeq(img.loads, LAMBDA f : f \in DOMAIN out)
  IN /\ walk.at = "walking" /\ walk.pending # << >>
     /\ IF c \in walk.seen THEN walk' = [walk EXCEPT !.pending = Tail(@)]
        ELSE IF LimitReached(c) THEN FailWalk("limit")
        ELSE IF ~Resolves(img, c.node, Entry, dirs, DOMAIN walk.images, walk.entries) THEN FailWalk("load")
        ELSE IF c.node \in DOMAIN walk.final /\ walk.final[c.node] # out THEN FailWalk("context")
        ELSE walk' = [walk EXCEPT
               !.seen = @ \cup {c},
               !.final = (c.node :> out) @@ @,
               !.owners = IF c.node = Entry THEN @ ELSE @ \cup {<<c.node, Entry>>},
               !.pending = Tail(@) \o [i \in DOMAIN kids |-> [node |-> out[kids[i]], dirs |-> dirs]]]

EndEntry ==
  /\ walk.at = "walking" /\ walk.pending = << >>
  /\ walk' = [walk EXCEPT !.todo = Tail(@), !.at = IF Len(walk.todo) = 1 THEN "ended" ELSE "entry"]

\* The graph: what each image loads, and what each entrypoint reaches.
ReachedFrom(entry) == {o[1] : o \in {x \in walk.owners : x[2] = entry}}
EntryClosure(entry) == {entry} \cup ReachedFrom(entry)
GraphPaths == walk.entries \cup OwnedFiles

WalkStep == NextEntry \/ Expand \/ EndEntry
-----------------------------------------------------------------------------
\* Static discovery.  An image is [magic, types, rpaths, runpaths, loads, ids].

\* Mach-O.  Objects are link inputs; anything else must be one runtime type.
Runtime == {"EXECUTE", "DYLIB", "DYLINKER", "BUNDLE"}
IsObject(types) == types # {} /\ types \subseteq {"OBJECT", "REL"}
IsRuntime(types, platform) ==
  IF platform = "darwin" THEN types # {} /\ types \subseteq Runtime
  ELSE types # {} /\ types \subseteq {"EXEC", "DYN"}

\* resolve_internal_rpath, asked of every image under the name bin/lean.
Lean == <<"bin", "lean">>
InternalRpath(form, p) ==
  \/ IsSystem(form)
  \/ (InTree(form) \/ IsSpecial(form)) /\ Within(Spelled(form, p, Lean)) # Outside

\* A static load: inside the set of images, a system path, or left to the
\* walk when it is an @rpath.
AdmittedLoad(form, p, known) ==
  CASE IsSystem(form)       -> TRUE
    [] InTree(form) \/ IsSpecial(form) -> Within(Spelled(form, p, Lean)) \in known
    [] form.base = "@rpath" -> form.rest # << >> /\ Up \notin Range(form.rest)
    [] OTHER                -> FALSE

\* An image's own install name is not a load.
Observed(img) == SelectSeq(img.loads, LAMBDA f : f \notin img.ids)
AdmittedMacho(img, p, known) ==
  /\ \A f \in Range(img.rpaths) : InternalRpath(f, p)
  /\ Cardinality(img.ids) <= 1
  /\ \A f \in Range(Observed(img)) : AdmittedLoad(f, p, known)
Normalized(form) == IF InTree(form) THEN [base |-> "rel", rest |-> TreePath(form)] ELSE form
MachoInput(img) ==
  [rpaths |-> img.rpaths, loads |-> [i \in DOMAIN Observed(img) |-> Normalized(Observed(img)[i])]]

\* ELF.  A run path is expanded from $ORIGIN; directories of the toolchain are
\* searched, system ones and missing ones skipped, any other refused.
ElfDir(form, p) == Within(Spelled(form, p, p))
AdmittedRunpath(form, p) ==
  /\ form.base \in {"/", "$ORIGIN"}
  /\ LET dir == Resolved(Spelled(form, p, p))
     IN IsPrefix(Above, dir) \/ UnderSystem(dir) \/ dir \in Missing
Runpath(img) == IF img.runpaths = {} THEN << >> ELSE CHOOSE r \in img.runpaths : TRUE
AdmittedElf(img, p) ==
  /\ Cardinality(img.runpaths) <= 1
  /\ \A f \in Range(Runpath(img)) : AdmittedRunpath(f, p)
SearchDirs(img, p) ==
  SelectSeq([i \in DOMAIN Runpath(img) |-> ElfDir(Runpath(img)[i], p)], LAMBDA d : d # Outside)
ElfLoad(form, dirs, known) ==
  LET found == OnRpaths(form.rest, dirs, known)
  IN IF found = Failed THEN [base |-> "/", rest |-> <<"usr", "lib">> \o form.rest] ELSE [base |-> "rel", rest |-> found]
ElfInput(img, p, known) ==
  LET dirs == SearchDirs(img, p)
  IN [rpaths |-> << >>, loads |-> [i \in DOMAIN img.loads |-> ElfLoad(img.loads[i], dirs, known)]]
=============================================================================
