---------------------------- MODULE MCToolTasks ----------------------------
(* Commands for the model: the documents of the self-test, hosts whose       *)
(* profile is observed and verified, and roots that are built and verified.  *)
EXTENDS ToolLockTests

----------------------------------------------------------------------------
(* Hosts                                                                    *)

Regular(ino) == [type |-> "regular", root |-> TRUE, to |-> "none", ino |-> ino]
Link(ino, to) == [type |-> "symlink", root |-> TRUE, to |-> to, ino |-> ino]
Program(hash, ino) ==
    [hash |-> hash, root |-> TRUE, nlink |-> 1, mode |-> 1, ino |-> ino, exposed |-> FALSE,
     says |-> 1, works |-> TRUE, setuid |-> FALSE, loads |-> {1}]
Programs == {"openssl", "python3.12", "python3.11", "readelf"}
Host(kind, platform) ==
    [kind |-> kind, platform |-> platform, roots |-> <<1, 2>>,
     node |-> [openssl |-> Regular(1), python3 |-> Link(1, "python3.12"), readelf |-> Regular(1)],
     file |-> [p \in Programs |-> Program(p, 1)],
     xcode |-> [asLocked |-> TRUE, exposed |-> TRUE]]
LinuxHost == Host("linux", LinuxPlatform)
DarwinHost == Host("darwin", DarwinPlatform)
Secured(h) == [h EXCEPT !.platform.boot = "enabled"]
Sealed(h) == [h EXCEPT !.xcode.exposed = FALSE]

Own(path) == [path |-> path, hash |-> path, says |-> 1]
WithOwn(p) == [p EXCEPT !.own = <<Own("python3.12"), Own("readelf")>>]
Hosts == [SoundHosts EXCEPT !.profiles = <<WithOwn(@[1]), WithOwn(@[2])>>]
LinuxFirst == [Hosts EXCEPT !.profiles = <<[@[2] EXCEPT !.id = 1], [@[1] EXCEPT !.id = 2]>>]
EligibleHosts == [Hosts EXCEPT !.profiles = <<Eligible(@[1]), Eligible(@[2])>>]
\* The profile of the host after an upgrade of python, and one written while
\* the upgrade ran: the metadata of the old file with the bytes of the new one.
Newer(mode) ==
    [Hosts EXCEPT !.profiles[2].tools[2].hash = "new", !.profiles[2].tools[2].mode = mode,
                  !.profiles[2].own = <<[path |-> "python3.12", hash |-> "new", says |-> 2], Own("readelf")>>]
Blank == [LinuxProfile EXCEPT !.tools = <<>>]

----------------------------------------------------------------------------
(* Tasks                                                                    *)

Code(image, loads, says) == [image |-> image, name |-> {}, loads |-> loads, says |-> says]
Lib(name, loads) == [Code(TRUE, loads, 0) EXCEPT !.name = {name}]
\* The files of the sound lock, what cargo builds, and what another process
\* leaves.
Bodies == (1 :> Code(TRUE, {11}, 1)) @@ (2 :> Code(TRUE, {}, 1)) @@ (11 :> Lib(11, {12}))
          @@ (12 :> Lib(12, {})) @@ (13 :> Code(FALSE, {}, 0)) @@ (CargoOutput :> Code(TRUE, {}, 1))
          @@ (Foreign :> Code(TRUE, {90}, 7))

Base(command, lock, hosts) ==
    [command |-> command, lock |-> lock, hosts |-> hosts, verdicts |-> {"ok"},
     host |-> IF lock.platform = "darwin" THEN DarwinHost ELSE LinuxHost, blank |-> Blank,
     index |-> IF lock.platform = "darwin" THEN 1 ELSE 2,
     paths |-> <<"openssl", "python3", "readelf">>, required |-> {1, 2}, strict |-> FALSE,
     upgraded |-> FALSE, dest |-> Absent, requested |-> <<1, 2>>, asset |-> 2,
     bodies |-> Bodies, system |-> {90}]

\* "toolchain-assets validate", of every document.
Validated ==
    {[Base("validate", d.lock, d.hosts) EXCEPT !.verdicts = d.verdicts] : d \in SelfTests \cup Varied}

\* verify-host, on the host the profile is of and on hosts that differ from it
\* in one thing.
OtherHosts(h) ==
    {h, Secured(LinuxHost), [Secured(LinuxHost) EXCEPT !.file["openssl"].exposed = TRUE],
     [h EXCEPT !.file["python3.12"].root = FALSE],
     [h EXCEPT !.file["openssl"].works = FALSE], [h EXCEPT !.file["openssl"].exposed = TRUE],
     [h EXCEPT !.file["readelf"].exposed = TRUE], [h EXCEPT !.file["readelf"].says = 2],
     [h EXCEPT !.file["readelf"].hash = "other"], [h EXCEPT !.node["python3"].to = "python3.11"],
     [h EXCEPT !.file["openssl"].ino = 2], Sealed(DarwinHost),
     [DarwinHost EXCEPT !.xcode.asLocked = FALSE], [DarwinHost EXCEPT !.file["readelf"].loads = {3}],
     DarwinHost, [DarwinHost EXCEPT !.platform.sip = "disabled"]}
Verified ==
    {[Base("verify-host", lock, hosts) EXCEPT !.host = h, !.strict = strict] :
        lock \in Sound, hosts \in {Hosts, EligibleHosts}, h \in OtherHosts(LinuxHost), strict \in BOOLEAN}
    \cup {[Base("verify-host", SoundLock("linux"), hosts) EXCEPT !.upgraded = TRUE] :
            hosts \in {Hosts, Newer(1), Newer(2)}}
    \cup {[Base("verify-host", SoundLock("linux"), EligibleHosts)
            EXCEPT !.host = Secured(LinuxHost), !.upgraded = TRUE]}

\* observe-host, on a host and on hosts that cannot be written down, or are
\* eligible, or would be if nobody could replace their tools.
Observed ==
    {[Base("observe-host", SoundLock("linux"), Hosts) EXCEPT !.host = h] :
        h \in OtherHosts(LinuxHost) \cup
              {[LinuxHost EXCEPT !.file["openssl"].setuid = TRUE], [LinuxHost EXCEPT !.roots = <<2>>],
               [LinuxHost EXCEPT !.node["openssl"] = Link(1, "python3.11")],
               [LinuxHost EXCEPT !.node["readelf"].type = "fifo"]}}
    \cup {[Base("observe-host", SoundLock("linux"), Hosts) EXCEPT !.upgraded = TRUE]}

\* The files a sound lock says are there, in a root.
RootOf(files) == [is |-> "dir", dirs |-> {Dir(f.path) : f \in files},
                  files |-> [p \in {f.path : f \in files} |-> FileOf(BundleFile([bundle |-> SetToSeq(files)], p))]]
FullRoot(lock) == Put(RootOf(ToSet(lock.bundle)), 3, Built)
Part(lock) == RootOf(ToSet(lock.bundle))
Spoiled(root) ==
    {[root EXCEPT !.is = "link"], Put(root, 13, Stray), Put(root, 21, Stray), [root EXCEPT !.dirs = @ \cup {2}],
     [root EXCEPT !.files[1].mode = "0444"], [root EXCEPT !.files[2].bad = {"owner"}]}

\* materialize-external and materialize-tool-closure, beside a rival; then of
\* locks whose policy, versions or loads are not what the files have.
Liars ==
    {[Bodies EXCEPT ![1].says = 2], [Bodies EXCEPT ![1].loads = {11, 90}], [Bodies EXCEPT ![2].loads = {91}],
     [Bodies EXCEPT ![13].image = TRUE], [Bodies EXCEPT ![CargoOutput].says = 3],
     [Bodies EXCEPT ![11].name = {12}], [Bodies EXCEPT ![1].name = {91}], [Bodies EXCEPT ![1].name = {90}],
     [Bodies EXCEPT ![12].loads = {12}]}
Made ==
    {[Base(command, lock, Hosts) EXCEPT !.requested = requested, !.dest = before] :
        command \in {BuiltBy.all, BuiltBy.some}, lock \in Sound \cup {WithData(SoundLock("linux"))},
        requested \in {<<1, 2>>, <<2>>, <<9>>, <<1, 1>>, <<3>>}, before \in {Absent, EmptyDir}}
    \cup {Base(command, lock, LinuxFirst) : command \in {BuiltBy.all, BuiltBy.some}, lock \in Sound}
    \cup {[Base(BuiltBy.all, WithData(lock), Hosts) EXCEPT !.bodies = bodies] : lock \in Sound, bodies \in Liars}

\* verify-external, verify-tool-closure and verify-asset-members, of a sound
\* root, of spoiled ones, and of a sound one that others change.
Inspected ==
    UNION {{[Base("verify-external", lock, Hosts) EXCEPT !.dest = root] :
              root \in Spoiled(FullRoot(lock)) \cup {FullRoot(lock), Part(lock), Absent}}
           \cup {[Base("verify-external", lock, Hosts) EXCEPT !.dest = FullRoot(lock), !.host.file["readelf"].hash = "other"]}
           \cup {[Base("verify-tool-closure", lock, Hosts) EXCEPT !.dest = root, !.requested = requested] :
              root \in {FullRoot(lock), Part(lock)}, requested \in {<<1, 2>>, <<2>>}}
           \cup {[Base("verify-asset-members", lock, Hosts) EXCEPT !.dest = root, !.asset = asset] :
              root \in {FullRoot(lock), Part(lock), Absent}, asset \in {2, 3}} : lock \in Sound}

AllTasks == Validated \cup Verified \cup Observed \cup Made \cup Inspected
=============================================================================
