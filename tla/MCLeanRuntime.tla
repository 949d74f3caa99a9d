---------------------------- MODULE MCLeanRuntime ----------------------------
(* Instances of LeanRuntime for TLC: archives of two executables and a few   *)
(* libraries whose loads and search paths vary, archives with one defect     *)
(* each, and two archives that other processes change while they are read.   *)
EXTENDS LeanRuntime

Opt == <<"opt", "lean">>
Cased == [LibA |-> "liba"]
Bell == {"bell"}
Refused == {<<"lib", "long">>, <<"C:", "a">>}

F(base, rest) == [base |-> base, rest |-> rest]
UsrLib == {<<"usr", "lib">>}
Nix == {<<"nix", "store">>}
Sys == F("/", <<"usr", "lib", "libSystem">>)
Away == F("/", <<"home", "x">>)
Dotted == F("/", <<"usr", "lib", Up, "x">>)
InLean(rest) == F("/", Opt \o rest)
Loader(rest) == F("@loader_path", rest)
Exe(rest) == F("@executable_path", rest)
Rp(name) == F("@rpath", <<name>>)
So(name) == F("soname", <<name>>)
Doc == [magic |-> FALSE]
Mach(type, rpaths, loads) ==
  [magic |-> TRUE, types |-> {type}, rpaths |-> rpaths, runpaths |-> {}, rpath |-> FALSE,
   loads |-> loads, ids |-> {Rp("self")}]
Elf(type, runpaths, rpath, loads) ==
  [magic |-> TRUE, types |-> {type}, rpaths |-> << >>, runpaths |-> runpaths, rpath |-> rpath,
   loads |-> loads, ids |-> {}]

DirEntry(p) == [path |-> p, dir |-> TRUE, type |-> "dir", safe |-> TRUE, plain |-> TRUE,
                exec |-> TRUE, size |-> 0, inflates |-> 0, body |-> Doc]
FileEntry(p, body) == [path |-> p, dir |-> FALSE, type |-> "file", safe |-> TRUE, plain |-> TRUE,
                       exec |-> Head(p) = "bin", size |-> 1, inflates |-> 1, body |-> body]
lean == <<"bin", "lean">>
lake == <<"bin", "lake">>
a == <<"lib", "a">>
b == <<"lib", "b">>

Tree(files) == <<DirEntry(<< >>), DirEntry(<<"bin">>), DirEntry(<<"lib">>)>> \o files
CaseOf(platform, files, executables) ==
  [platform |-> platform, entries |-> Tree(files), count |-> Len(files) + 3, size |-> Len(files),
   executables |-> executables,
   pinned |-> [p \in ToSet(executables) |->
                 (CHOOSE i \in DOMAIN files : files[i].path = p) ] ,
   inspector |-> TRUE, host |-> {<<"usr", "lib", "libc">>, <<"usr", "lib", "libSystem">>}, other |-> << >>]
Pinned(c) == [c EXCEPT !.pinned = [p \in DOMAIN @ |-> c.entries[@[p] + 3].body]]

\* Mach-O graphs: two executables, two libraries.
Lib == <<Up, "lib">>
Graphs ==
  {Pinned(CaseOf("darwin",
     <<FileEntry(lake, Mach("EXECUTE", kr, kl)), FileEntry(lean, Mach("EXECUTE", nr, nl)),
       FileEntry(a, Mach("DYLIB", ar, al)), FileEntry(b, Mach(bt, br, bl))>>, <<lake, lean>>)) :
   kr \in {<< >>, <<Loader(Lib)>>},
   kl \in {<<Sys>>, <<Rp("a")>>, <<Exe(<<Up, "lib", "b">>)>>},
   nr \in {<< >>, <<Exe(Lib)>>, <<Loader(Lib), Exe(<<Up, "lib">>)>>},
   nl \in {<<Sys, Rp("a")>>, <<Rp("a"), Rp("b")>>, <<Loader(<<Up, "lib", "a">>)>>},
   ar \in {<< >>, <<Loader(<< >>)>>},
   al \in {<<Rp("self")>>, <<Rp("b"), Rp("self")>>, <<InLean(<<"lib", "b">>)>>, <<Exe(<<Up, "lib", "b">>)>>,
           <<Exe(lake)>>},
   bt \in {"DYLIB"},
   br \in {<< >>, <<Loader(<<Up, "bin">>)>>},
   bl \in {<< >>, <<Rp("a")>>, <<Away>>, <<Dotted>>}}

\* ELF graphs, on a host that has libraries of its own in /usr/lib/x.
Origin(rest) == F("$ORIGIN", rest)
UsrLibX == F("/", <<"usr", "lib", "x">>)
OnHost(c) == [Pinned(c) EXCEPT !.host = @ \cup {<<"usr", "lib", "x", "a">>, <<"usr", "lib", "x", "y">>}]
ElfGraphs ==
  {OnHost(CaseOf("linux",
     <<FileEntry(lean, Elf("DYN", nr, np, nl)), FileEntry(a, Elf("DYN", ar, FALSE, al)), FileEntry(b, Elf(bt, {}, FALSE, <<So("libc")>>))>>,
     <<lean>>)) :
   nr \in {{}, {<<Origin(Lib)>>}, {<<F("/", <<"nix", "store">>), Origin(Lib)>>}, {<<Origin(Lib)>>, <<UsrLibX>>},
           {<<UsrLibX>>}, {<<UsrLibX, Origin(Lib)>>}, {<<Origin(Lib), UsrLibX>>}, {<<Away>>}},
   np \in BOOLEAN, nl \in {<<So("a"), So("libc")>>, <<So("a"), So("b")>>, <<So("a"), So("y")>>, <<So("zlib")>>},
   ar \in {{}, {<<Origin(<< >>)>>}}, al \in {<< >>, <<So("b")>>}, bt \in {"DYN", "REL", "CORE"}}

\* Paths that leave the tree and come back, that pass through a directory
\* that is not there, and that lead into the tree or out of it under another
\* name; two libraries of one name, one in the tree and one on the host.
ElfPaths ==
  {OnHost(CaseOf("linux",
     <<FileEntry(lean, Elf("DYN", {<<dir>>}, FALSE, <<So("a"), So("libc")>>)), FileEntry(a, Elf("DYN", {}, FALSE, << >>))>>, <<lean>>)) :
   dir \in {Origin(<<Up, Up, "lean", "lib">>), Origin(<<"none", Up, Up, "lib">>), Origin(<<Up, Up, Up, "usr", "lib", "x">>),
            F("/", <<"usr", "lib", Up, Up, "opt", "lean", "lib">>)}}
MachoPaths ==
  {Pinned(CaseOf("darwin",
     <<FileEntry(lean, Mach("EXECUTE", << >>, <<Loader(rest)>>)), FileEntry(a, Mach("DYLIB", << >>, << >>))>>, <<lean>>)) :
   rest \in {<<Up, Up, "lean", "lib", "a">>, <<"none", Up, Up, "lib", "a">>}}
Namesakes ==
  {OnHost(CaseOf("linux",
     <<FileEntry(lean, Elf("DYN", {<<Origin(Lib)>>}, FALSE, loads)), FileEntry(a, Elf("DYN", {<<UsrLibX>>}, FALSE, <<So("y")>>)),
       FileEntry(b, Elf("DYN", {<<Origin(<< >>)>>}, FALSE, <<So("y")>>)), FileEntry(<<"lib", "y">>, Elf("DYN", {}, FALSE, << >>))>>, <<lean>>)) :
   loads \in {<<So("a"), So("b")>>, <<So("b"), So("a")>>}}

\* An image whose load the host has, reached through an image with an RPATH.
Inherited ==
  {[Pinned(CaseOf("linux",
      <<FileEntry(lean, Elf("DYN", {<<Origin(Lib)>>}, old, <<So("a")>>)), FileEntry(a, Elf("DYN", {}, FALSE, <<So("b")>>)),
        FileEntry(b, Elf("DYN", {}, FALSE, << >>))>>, <<lean>>))
    EXCEPT !.host = @ \cup {<<"usr", "lib", "b">>}] : old \in BOOLEAN}

\* One sound archive, and one for each thing that may be wrong with it.
Sound == Pinned(CaseOf("darwin",
  <<FileEntry(lean, Mach("EXECUTE", <<Exe(Lib)>>, <<Rp("a"), Sys>>)), FileEntry(a, Mach("DYLIB", << >>, <<Rp("self")>>)),
    FileEntry(<<"lib", "obj">>, Mach("OBJECT", << >>, << >>)), FileEntry(<<"lib", "doc">>, Doc)>>, <<lean>>))
Entry4(field, value) == [Sound EXCEPT !.entries[4] = (field :> value) @@ @]
With(entry) == [Sound EXCEPT !.entries = Append(@, entry), !.count = @ + 1, !.size = @ + entry.size]
Defects ==
  {Entry4("safe", FALSE), Entry4("plain", FALSE), Entry4("type", "link"), Entry4("inflates", 2),
   Entry4("path", a), Entry4("path", <<"lib", "a", "b">>), Entry4("path", <<"share", "b">>),
   [Sound EXCEPT !.count = @ + 1], [Sound EXCEPT !.size = @ - 1],
   [Sound EXCEPT !.entries[1].path = <<"c">>], [Sound EXCEPT !.entries[2].size = 1, !.size = @ + 1],
   [Sound EXCEPT !.pinned[lean] = Doc], [Sound EXCEPT !.inspector = FALSE],
   [Sound EXCEPT !.executables = <<lean, <<"lib", "obj">>>>, !.pinned = (<<"lib", "obj">> :> Sound.entries[6].body) @@ @],
   Entry4("body", [Sound.entries[4].body EXCEPT !.types = {}]),
   Entry4("body", [Sound.entries[4].body EXCEPT !.types = {"OBJECT", "EXECUTE"}]),
   With(FileEntry(<<"lib", "LibA">>, Mach("DYLIB", << >>, << >>))),
   Pinned(CaseOf("darwin",
     <<FileEntry(lean, Mach("EXECUTE", <<Exe(Lib)>>, <<Rp("LibA"), Rp("liba")>>)), FileEntry(<<"lib", "LibA">>, Mach("DYLIB", << >>, << >>)),
       FileEntry(<<"lib", "liba">>, Mach("DYLIB", << >>, << >>))>>, <<lean>>)),
   Pinned(CaseOf("darwin", <<FileEntry(lean, Mach("EXECUTE", <<Exe(Lib), Exe(Lib)>>, <<Rp("a")>>)), FileEntry(a, Mach("DYLIB", << >>, << >>))>>, <<lean>>))}
\* Paths that other functions than the binding take.
Lone(p) == FileEntry(p, Mach("DYLIB", << >>, << >>))
Paths ==
  {Pinned(CaseOf("darwin",
     <<FileEntry(lean, Mach("EXECUTE", <<Exe(Lib)>>, <<Rp("long")>>)), Lone(<<"lib", "long">>)>>, <<lean>>)),
   [Pinned(CaseOf("darwin",
      <<FileEntry(lean, Mach("EXECUTE", <<Exe(<<Up, "C:">>)>>, <<Rp("a")>>)), Lone(<<"C:", "a">>), DirEntry(<<"C:">>)>>, <<lean>>))
    EXCEPT !.size = 2],
   Pinned(CaseOf("darwin",
     <<FileEntry(lean, Mach("EXECUTE", <<Exe(Lib)>>, <<Rp("bell")>>)), Lone(<<"lib", "bell">>)>>, <<lean>>))}
\* A library reached along two chains that give its load different targets;
\* one reached under more contexts, and more of them, than the limits.
Wide ==
  {Pinned(CaseOf("darwin",
     <<FileEntry(lean, Mach("EXECUTE", <<Exe(Lib)>>, <<Rp("a"), Rp("b")>>)),
       FileEntry(a, Mach("DYLIB", <<Loader(<<Up, "bin">>)>>, <<Rp("b")>>)), FileEntry(b, Mach("DYLIB", << >>, <<Rp("x")>>)),
       Lone(<<"bin", "x">>), Lone(<<"lib", "x">>)>>, <<lean>>)),
   Pinned(CaseOf("darwin",
     <<FileEntry(lean, Mach("EXECUTE", <<Exe(Lib)>>, <<Rp("a"), Rp("b"), Rp("c")>>)),
       FileEntry(a, Mach("DYLIB", <<Loader(<< >>)>>, <<Rp("b")>>)), Lone(b),
       FileEntry(<<"lib", "c">>, Mach("DYLIB", <<Loader(<<Up, "bin">>)>>, <<Rp("b")>>))>>, <<lean>>)),
   Pinned(CaseOf("darwin",
     <<FileEntry(lean, Mach("EXECUTE", <<Exe(Lib)>>, <<Rp("a"), Rp("b"), Rp("c"), Rp("d")>>)),
       Lone(a), Lone(b), Lone(<<"lib", "c">>), Lone(<<"lib", "d">>)>>, <<lean>>))}
Quiet == Wide \cup Graphs \cup ElfGraphs \cup ElfPaths \cup MachoPaths \cup Namesakes \cup Inherited \cup Paths \cup Defects \cup {Sound}

\* Archives read while the library is changed for one that loads otherwise.
OtherBytes(body) == [size |-> 1, mode |-> "0444", body |-> body]
Shaken ==
  {[Pinned(CaseOf("darwin",
      <<FileEntry(lean, Mach("EXECUTE", <<Exe(Lib)>>, <<Rp("a")>>)), FileEntry(a, Mach("DYLIB", << >>, <<Rp("self")>>))>>, <<lean>>))
    EXCEPT !.other = (a :> OtherBytes(Mach("DYLIB", <<Loader(<< >>)>>, <<Sys>>)))],
   [Pinned(CaseOf("linux",
      <<FileEntry(lean, Elf("EXEC", {<<Origin(Lib)>>}, FALSE, <<So("a")>>)), FileEntry(a, Elf("DYN", {}, FALSE, <<So("libc")>>))>>, <<lean>>))
    EXCEPT !.other = (a :> OtherBytes(Elf("REL", {}, FALSE, << >>)))]}
Checked == Quiet \cup Shaken
=============================================================================
