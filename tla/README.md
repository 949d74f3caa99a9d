# ProofForge V2 in TLA+

Specifications of `proof-forge-next`, the Lean 4 compiler that turns one
`program … where` source into artifacts for thirteen platforms, and of the
scripts that install its tools, observe them and compare what it produces. All
of them are model-checked with TLC; what they promise is also proved with TLAPS
where the last column names a module of proofs:

| part | code | specification | proofs |
|---|---|---|---|
| proof-worker supervisor | `Compiler/Native/proof_forge_proof_worker_supervisor_v1.c`, `Compiler/ProofWorkerSupervisorV1.lean` | `ProofWorkerSupervisor` | `ProofWorkerSupervisor_proofs` |
| semantic reference machine | `Semantic/ReferenceMachineV1.lean` and the shapes it admits | `ReferenceMachine`, abstractly `ContractLifecycle` | `ReferenceMachine_proofs` |
| output publication, inspection and validation | `CLI/Emit.lean`, `Materialization/ArtifactContentV1.lean`, `scripts/validate_artifacts.py` | `OutputPublish`, `OutputInspect`, `OutputValidation` | `Output_proofs` |
| tool cache, install and doctor | `scripts/proof_forge_install.py`, `proof_forge_doctor.py`, the cache of `toolchain_assets.py` | `ToolInstall` | `ToolInstall_proofs` |
| tool locks, host profiles, tool roots | `scripts/toolchain_assets.py` | `ToolLock`, `HostGate`, `ToolRoot` | `ToolRoot_proofs` |
| compiler runtime | `scripts/toolchain_assets.py`, `compiler_runtime_graph.py`, `compiler_runtime_manifest.py` | `RuntimeGraph`, `LeanRuntime`; with the previous row `Toolchain` | `Toolchain_proofs` |
| source wire reference codec | `scripts/reference_source_*.py` | `SourceCodec` | |
| EVM corpus | `scripts/evm_corpus_v1.py`, `evm_corpus_runtime.sh` | `EvmCorpusCase`, `EvmCorpus`, `EvmManifest` | `EvmCorpus_proofs` |
| Psy session | `scripts/psy_dpn_session.py` | `PsySession` | `PsySession_proofs` |

Paths of the form `Compiler/…`, `Semantic/…` are under `src/ProofForgeV2/`,
those of the form `scripts/…` under `src/`.
`PROJECT.json` gives the source lines of every definition.

Contents: 1 the system · 2 the modules · 3 the runs · 4 the proofs ·
5 what the models leave out · 6 findings · 7 plan.

---------------------------------------------------------------------------
## 1. The system

A build is one run of the command line:

    source ─ loader/parser ─ validated source ─ typed checks ─ NormalizeV1
                                                                    │
               proof worker ◄── supervisor ◄── inline proofs ── semantic program
                                                                    │
       reference machine (what the program means) ◄── structure gate│
                                                                    │
    requirements ─ target resolution ─ materializer (1 of 13) ─ finalizer
                                                                    │
                                          staging ─ scan ─ manifest ─ rename
                                                                    │
                                      inspect --output-dir, validate_artifacts

and, beside a build, over the same machine's files:

    tool lock ─ assets in the cache ─ install ─► tool root ◄─ doctor, verify-*
        │                                            ▲
        └─ Lean archive ─ extract ─ derive loads ─ probe ─ observe ─ bind
    host profile ◄─ observe-host / verify-host ─ the host's own tools
    corpus cases ─ Reference leg, Anvil leg ─ observations ─ close_case

Every stage before the supervisor is a pure function. The state of the system
is in a few places only, and there is no lock on any of them: a worker process
and its pipes, the machine's provisional state within a step, the file system
around an output directory, the shared tool cache and tool root, an installed
compiler while it is observed, the directory of corpus observations, and the
proof files.

| component | state | operations | interacts through | hard behaviours | correct when |
|---|---|---|---|---|---|
| **proof-worker supervisor** | one worker, four pipes, two counts, a verdict, a signal mask | launch, poll, write, drain, judge, wait, kill, reap, restore, decode | pipes, signals, process groups, a binary result read by Lean | worker and helper act between any two system calls; deadline against exit; full pipes; SIGPIPE of several origins | a response is the worker's whole answer, one verdict, cleanup honestly reported, the call returns |
| **reference machine** | overlay, effects, occurrence counters, response cursor, vault, frames, loop counts, fuel | admission, gate, every instruction and terminator, packaging | the host supplies state, invocation and responses, and gets an outcome | nested frames, long sequences of invocations, responses out of order, counters at limits, failure after partial effects | invocations are atomic, effects are identified, responses consumed once, pure functions inert, loops bounded, vault not overdrawn |
| **output publication** | a staging directory, two inventories | check, allocate, write, finalize, scan, write sidecars, rescan, recheck, rename, clean up | the file system, other builds, the target's tool | races to one destination, crash, failed clean-up, reused process ids, files changed between scans | nothing of others is lost, a receipt stands, what is published is what its manifest says |
| **output inspection** | what it read so far | read manifest, evidence, walk, read files, compare | the file system, beside publishing builds | directory replaced between reads | what it accepts is one build's output; untouched output is accepted |
| **output validation** | a pass, its step, the manifests read, a work list | find and parse a manifest, walk, compare leaves, evidence, peers and contract, pass by pass | finished output directories | a work list with a bound of its own; what one pass checks another relies on | ok exactly of valid staging roots; the walk ends by itself |
| **tool cache, install, doctor** | cached assets, trees built from git, installed files, partial files, what a run reports | ensure, prune, fetch, save, publish, unlink, write, replace, verify; the doctor's walk | shared directories, `os.replace`, links | two installs at once, kill between unlink and replace, an inode replaced while it is read | no locked name leads to torn bytes; a run alone succeeds over any leftovers; reports stand and the doctor agrees |
| **tool locks, hosts, tool roots** | two lock documents, a host's tools, a tool root under construction | load and join locks, observe-host, verify-host, materialize, verify whole and in part | the host's files beside a package manager, rival builds | an upgrade between two looks, a file added behind a walk, a destination that appears | locks are accepted iff they describe a closed tool root; what is accepted was so; honest input is accepted |
| **compiler runtime** | the extracted tree, images and their loads, open descriptors and stats | unzip, derive loads, walk, probe, replace, observe, witness, bind | inspector programs, other processes | an image changed between hashing and inspection, several search-path contexts, load cycles | the graph is what the loader loads; an observation is of one tree |
| **source wire codec** | a wire, two budgets, a traversal | encode, decode, traverse, validate | values | budgets over nested arrays and options, early refusals, leaf rules that differ between scripts | encoder and decoder agree both ways but for their stated differences; budgets are exact |
| **Psy session** | wires, slots and a keyed store, results of state commands | call, bind a definition, run a command, take a result, run what is left, assert, return | the package the compiler emitted | a read runs earlier writes ahead of their turn; a result is taken before its command's turn; commands left over | a call ends as the simulator's schedule of the same commands does |
| **EVM corpus** | cases, a shared directory of observations, a manifest | check, wipe, write, count, close; walk, compare, read | files, other runs, edits of the tree | two runs in one directory, half-written leftovers, edits during the check | a pass rests on agreeing executions; a manifest is accepted iff it describes the tree |
| stable proof file readers | open descriptors, digests | two-file read, manifest, whole-tree read | files other processes write | file replaced, linked or changed between two reads or two walks | what is accepted existed at one instant |
| proof worker process | one request | read, check, answer, exit 64/65/70 | the supervisor's pipes | short reads, limits on both sides | every exit maps to one supervisor event |
| frontend worker | one request | the same for parsing | pipes | the same | the same |
| command line | options | parse, build, check, inspect, spawn scripts | all of the above | order of diagnostics | — |
| inline proof certification | elaborator environment | elaborate, audit axioms | the proof worker | — | no theorem on a forbidden axiom |
| compile pipeline, loader, typed checks, source tree | none | pure functions | values | — | agreement with the reference, canonical encodings |
| semantic wire, certificates, invariants | none | encode, decode, structure gate | values | — | proved in Lean |
| requirements resolver | none | freeze, match | values | — | resolves iff the target supports every requirement |
| tool lock in Lean, finalizers | a tool run | run a locked tool in staging, compare its output | child process, files | tool leaves out or adds files | the output is the tool's for these inputs |
| targets | none | 13 code generators | values | the loop counter, shared by all | preserve the reference's behaviour |
| core | none | hashes, canonical bytes, diagnostics, Unicode | values | — | canonical |
| repeatability gate | none | rebuild, compare | finished outputs | — | equal bytes |
| clients, guidance server, SDK | none | front ends (pf-mcp, pf-cli, MCP server, Python SDK) | the command line | — | — |
| documentation check, Unicode tables | none | compare files with fixed tables | files | — | — |

The rows in bold are modelled: they are where several actors, partial failure
or long sequences of calls meet state, and where a wrong validator would let
everything after it down. `PROJECT.json` says of each other row whether it is
planned or why it will not be modelled (pure functions over text or values, or
facts Lean's kernel has already checked), and lists the hazards, each at its
line.

---------------------------------------------------------------------------
## 2. The modules

### ProofWorkerSupervisor

One supervised call. `pc` walks through the C function: `start` (Lean
wrapper, `Refuse`, `LaunchFault`, `Launch`), the turn of the poll loop
(`Poll`, `WriteInput`, `Drain` of stdout, stderr and the exec status, `Judge`,
`WaitLeader`), and the exit (`KillGroup`, `Reap`, `ReapFault`, `Conclude`, the
last including the restoring of the signal mask and Lean's `DecodeNative`).
Each action is one system call or the arithmetic between two, so the
environment can move between any two system calls of a turn, but not within the
arithmetic.

| model | code |
|---|---|
| `event` | `event`, -1 is `"none"` |
| `count`, `eof`, `inputOffset`, `revents` | `output_count`…, `output_eof`…, `input_offset`, `poll_fds[i].revents` |
| `leaderInfo`, `reaped` | `waitid(…WNOWAIT)`'s answer, `waitpid` done |
| `elapsed`, `cleaning` | monotonic time since `start` and since `cleanup_start` |
| `masked`, `before`, `generated` | `signal_masked`, `sigpipe_was_pending`, `generated_sigpipe` |
| `previous`, `blocked`, `pending` | `previous`, the thread's mask now, SIGPIPEs pending on the thread and on the process |
| `kept` | bytes copied into `output`, allocated with `stdout_cap` |
| `outcome` | `DevelopmentSupervisorOutcomeV1` or its error |

The world is external: the leader and one helper (forking, writing, closing,
leaving the group with `setsid`, exiting, failing to exec), the kernel's pipe
buffers, the clock, other senders of SIGPIPE, who may direct one at the
supervising thread or at its process. A SIGPIPE directed at the thread after
the call's own write raised one there is the same pending bit: `sigtimedwait`
takes both, no code could tell them apart, and `SigpipeRestored` says so (`Owed`).
A process-directed one that another thread of the process accepts is one that
never arrived. Bytes are counted. A written byte
is never lost by the model, so "the whole output" is an equation between
`written`, `buf` and `count`.

### ReferenceMachine and ContractLifecycle

A host holds a contract's logical state and calls `stepReferenceSliceV1`.
`RefuseProgram` (admission), `RefuseInvocation` and `RefuseLifecycle` (gate)
answer without running; `Start` builds the machine; `Step` is one turn of
`runMachine`: an instruction (`Value`, `Store`, `Assertion`, `Emit`,
`Schedule`, the four ways an external call ends, `PureCall`), a terminator
(`Jump` for jump, branch and switch with `noteBackEdge`, `ReturnToCaller`,
`ReturnToHost`, `Revert`, `Trap`, `SwitchMiss`) or running out of fuel;
`Finalize` packages the answer.

A program is a value of the constant `Programs`: callables with kinds, blocks,
bodies, terminators and loop bounds. `WellFormed` is what the wire's structure
gate has checked (one initializer, effects numbered in order, bounds on exactly
the back edges, pure calls to pure functions) and is an assumption on
`Programs`; `Admitted` is what admission checks again and is *not* assumed.

`at` and each member of `frames` is an activation: callable, block,
instruction, `loops` (the reference's back-edge counts) and `region`, a history
variable: the counter the targets' lowered loops keep, cleared when the loop is
entered. It influences nothing.

`ContractLifecycle` is the abstract promise: an invocation is asked where the
life cycle admits its kind, and then fails without a trace, observes without a
trace, or publishes state and effects together. `LifecycleSpec` instantiates it
with `asked` and `answer` computed from the machine's variables.

### OutputPublish, OutputInspect, OutputValidation

`OutputPublish` is several builds and the other processes of a file system.
`entry` says what each name in the destination's parent stands for, `dirs` the
files of the directory each build made; a build's `pc` walks through
`emitProgram` and `renderIntoStaging` one file operation at a time. `attempt`
and `Home` are `createSiblingStaging`'s counter and its candidate name
`.<name>.staging-<pid>-<attempt>`. `Throw` is any failing operation of the try
block; `Clean` and `CleanFails` its handler; `Crash` a kill at any point.
`OtherProcess` makes and removes what stands at the destination and writes and
deletes files inside the builds' directories at any moment. Initially the
destination is anything, and each staging name is free or taken by a leftover.

`late` and `removed` are history variables: which files another process wrote
since the build last looked at them, and which published directories were
removed. They appear in no guard.

`OutputInspect` EXTENDS it with one `inspect --output-dir`: manifest, evidence,
validation, walk, one read per file, verdict, each opened anew through the
destination's name.

`OutputValidation` is one run of `validate_artifacts.py` over a staging root,
to which nobody writes meanwhile. `Passes` are the nine calls `main` makes of its
validators, each with the directory, what the call fixes (target, program,
files, peers) and its steps in their order, which differs: some look for the
manifest before they walk, some walk first. One action is one step, of the walk
one turn of its work list (`VisitDirectory`), refused, too large or gone on
with (`RefuseEntry`, `LimitEntry`, `BeginWalk`, `EndWalk`). A tree is a function
from paths to nodes (kind, links, size, content), a manifest a content, a hash
stands for what it is of. `ValidRoot` says what a valid root is in one formula,
with no pass, step or walk in it.

### ToolInstall

Several install runs share a tool root and an asset cache, with no lock
between them. A run takes the tools of the lock in any order; a tool is either
the members of an archive, pinned by digest, or a program built from a git
commit, pinned by nothing. `pc` walks through `run_install`, `provision_asset`,
`materialize_*` and the cargo-git build one file operation at a time: every
`unlink`, `replace`, `open`, `rename` and comparison is a step, a run may be
killed at any of them (`Kill`) and network, build and disk may fail at them.
The prune lists the names of the tool root (`ScanRoot`), looks at each
(`VisitNodes`: a name that another run has taken away by then ends the run) and
removes what the lock does not have, name by name (`Prune`). The looks are one
step: they change nothing, and the walk gets through exactly if no name goes
before its turn.
Files are `"absent"`, `"torn"`, `"old"` or `"good"`, a cached tree `"partial"` or
`"whole"`. The doctor only reads, so it is an operator on the state
(`Inspect`, `Diagnosis`). `met`, `faulted` and `gap` are history variables:
which runs overlapped, which met a failure, and what a run unlinked without
writing it again. No guard reads them.

### Checks, ToolLock, HostGate, ToolRoot

Every validator of the scripts raises at its first failing test, and callers
and tests look at the code raised. `Checks` turns that into data: a validator
is a sequence of `<<code, condition>>` and its verdict the first condition that
fails. `ToolLock` gives the validators of the two locks that way, with the
closure of loads (`Closure`). `HostGate` adds `observe-host` and `verify-host`, one system call per
step (`ToolNode`, `ToolResolved`, `ToolFile`, `ToolHash`, `ToolAgain`), while
`Upgrade` and `Relink` replace files and links in between. `ToolRoot` adds the building and
verifying of whole and partial tool roots: list a directory, then look at its
entries one by one, with edits by others in between, or a rival at the
destination; then every binary's install ID or runpath (`NameAgrees`) and loads
are compared with the policy (`BinaryClosure`). `was` and `roots` are history variables: the hosts and roots there
have been since a verification began. `TasksAreSound` says what a command may be
given. `ToolLockTests` holds the documents the
script's own self-test builds, with the verdict it expects of each.

### RuntimeGraph, LeanRuntime and Toolchain

`RuntimeGraph` is the resolver of `compiler_runtime_graph.py`: a variable
`walk` with its work list, contexts and edges, and path arithmetic over
sequences of names. The resolver joins names below the root, and `..` from the
root leaves it for good (`Join`); discovery resolves a path from `/` before it
asks where it lies (`Within`), so one that leaves the toolchain and comes back
passes there.
`LeanRuntime` EXTENDS it with extraction (`ValidateZip` … `RenameTree`), the
discovery of loads from what otool or readelf prints, and the observation
window: images are opened, read and kept open (`window`), inspected by path,
and looked at again at the end, while `Tamper` writes files, or exchanges
directories with those of another build. Its `step`, `stagingTree`,
`destination` and `pending` are what `ToolRoot` calls `pc`, `staging`, `dest`
and `todo`: `Toolchain` EXTENDS both, and `main()` runs a command of one half or
of the other; nothing is shared but the process. The loader the probe runs
(`Sought`, `Trace`) is a model of its own that takes nothing from discovery: it
searches every directory of a run path in order, system ones too, follows a path
only through directories that exist, maps an image once and asks for a soname
once; `case.host` says which libraries the host has.

### SourceCodec

Sixteen scripts define encoders and decoders for the same wire. The model has
one table of node families (which tags, which fields, which of them nodes) and
one machine that writes (`made`), reads (`got`) and traverses. A behaviour
either starts from a value the encoder writes or from a wire the decoder
chooses cell by cell as it asks (`origin`), so that every accepted wire of the
bounds occurs. `case.oracle` says which script's variant decodes,
`case.writer` which encoder it is paired with: the one the script checks itself
with, the builders of the golden files, or the declaration and program scripts
(`ast_decl_v1.py`, `ast_program_v1.py`). Their rules for leaves differ, so there
are two tables: `Readable` (a decoder's names, lengths, widths, versions) and
`Writable` (`Checks`: what each encoder verifies, often nothing). They disagree
in the code: `ast_decl_v1.py` writes the versions `1.0.0-a+`, `1.0.0-` and those
with a number over 64 bits, which the declaration decoder refuses, and refuses
`1.0.0+b`, which that decoder takes; most decoders' own encoders write any name;
the program decoder takes names with control characters; the root script
writes every returned literal as `true`; two encoders write empty arrays; the
declaration scripts have no bytes for three types. `RoundTrip` and
`OneSpelling` name these cases (`Looser`, `Speechless`, `Told`) and hold for
everything else. The program oracle reads two items only, byte for byte
(`Fixture`).

### EvmCorpusCase, EvmCorpusTests, EvmCorpus, EvmManifest

`EvmCorpusCase` has the validators and `close_case` as `Checks`;
`EvmCorpusTests` the script's probes as a table of document and expected code.
`EvmCorpus` is the shell script around them: runs that empty a shared
directory, write observations with open-truncate-write, count, list, read and
close, and can be killed and started again over what is left; a run also dies
when its `rm -rf` meets a file another run has just written, or its write a
directory another run has just removed (`Wipe`, `Truncate`); `left` are the
listed observations of the case being closed, `reads` what has been read of
them. `EvmManifest` is `validate_manifest_at`, one file at a time (`held` is the
open one, `todo` those to come), the manifest's own bytes, their limit and
spelling first (`ManifestFileChecks`), while others edit the tree; `was` is a history
variable, what each path has held. `CasesAssumption`, `TreesAssumption` and
`ManifestsAssumption` say that the arrays of documents are sequences and that a
path holds one file at most.

### PsySession

A session calls the methods of one package one after another on shared
storage (`world`). A call walks through the method's definitions (`Define`, or
`TakeResult`, which runs the command whose result it takes), before each of
them the commands due there (`StartDue`), after the last the commands left over
(`StartLate`), then assertions, events and outputs (`Return`). `RunCommand` is
one turn of `run_cmd`; a command names its slot by a wire or by its number
(`Slot`), and a write waits for its condition, values and array bounds
(`Ready`). A read first runs the earlier writes whose inputs are
bound (`Earlier`). `Official` is the schedule of the simulator the script
stands in for: each command at its place, in the order of the list.

### The MC modules

`MCReferenceMachine` holds small contracts and response lists, `MCOutputPublish`
the instance of the three output modules with the staging roots of
`MCOutputValidation`, `MCToolInstall` an archive of two
members, `MCSourceCodec` 28 cases of decoder, encoder and budgets, `MCLeanRuntime`
archives, `MCToolTasks` locks, hosts and roots, `MCToolchain` both together,
`MCEvmCorpus` cases, faults, manifests and trees, `MCPsySession` packages, and
`MCTargetScripts` these two together. `ProofWorkerSupervisor` needs
only numbers and is run as it is.

---------------------------------------------------------------------------
## 3. The runs

| run | properties | what it asks | size |
|---|---|---|---|
| `supervisor_safety` | `ResponseIsWhole`, `CleanupHonest`, `WireAccepted`, `ExecFailureNotAnExit` | a worker with a helper that can hold the pipes open, overflow, escape the group, or that fails to exec: is a response whole, an "empty" group empty, and does the C side always write what the Lean side accepts? | 2.4 M states |
| `supervisor_signals` | `SigpipeRestored` | SIGPIPE raised by the call's own write, pending before, or directed meanwhile at the thread or the process, for callers that block it or not: what others sent stays pending (but for one merged with the call's own), and the mask comes back | 4.0 M |
| `supervisor_returns` | `Returns` | does the call end whatever the worker and a helper that outlives it do? (liveness) | 1.7 M |
| `machine_logic` | `EffectIdentity`, `ResponsesConsumed`, `LoopsCovered`, `NativeNoOverdraft`, `PureFramesInert`, `LifecycleSpec` | two invocations of seven contracts, one with a loop in a loop whose body calls a looping function, one that moves the vault; refinement of `ContractLifecycle` | 55 k |
| `publish` | `ReceiptStands`, `NoResidue`, `Described`, `AcceptedIsOneBuild`, `NoFalseRejection`, `NothingLost`, `RulingIsRight` | two builds with one process id race, and an inspection runs beside them; crashes, leftovers, failed clean-ups, a meddler. Is a staging root ruled valid exactly if it is? | 2.3 M |
| `tool_install` | `NothingTorn`, `NoResidue`, `AloneSucceeds`, `ReportStands`, `DoctorAgrees` | two installs over one cache and one tool root, each killed, failing or delayed at any step, the other working over what it left | 817 k |
| `source_codec` | `RoundTrip`, `OneSpelling`, `Traversable` | every decoder over every wire of its bounds, and over everything its own encoder, or another script's, writes | 1.1 M |
| `target_scripts` | `PassIsAgreement`, `QuietRunCloses`, `ManifestExact`, `AcceptedWasThere`, `SelfTestsHold`, `AsOfficial` | the EVM corpus: two runs in one directory, one killed; every mutated manifest over every mutated tree with an edit during the check; the script's own probes. The Psy session: two calls on the golden package and on every small schedule of state commands | 795 k |
| `toolchain` | `GraphIsLoaded`, `RejectionsExplained`, `OneTree`, `QuietAccepts`, `LockVerdicts`, `AcceptedWasSo`, `HonestAccepted` | every command of `toolchain-assets`: archives, load graphs and observations beside a meddler; locks, hosts and tool roots beside upgrades, edits and rivals | 384 k |
| `machine_tokens` | `TokenNoOverdraft` | finding 1 below: TLC finds the violation | |
| `machine_loop_bounds` | `TargetsStopToo` | finding 2 below: TLC finds the violation | |
| `tool_versions` | `OkIsLocked` | finding 3 below: TLC finds the violation | |

Every property has a mutant in `PROJECT.json`: one mapped definition with a
plausible bug (the clean-up recomputes the staging name from attempt 0, a frame
restores cleared counts, a child keeps its parent's depth budget, the pathname
of a tool is not looked at again), under which its run fails.

**Bounds, and why they suffice.**

*Supervisor.* Caps are one byte, so `MaxWritten` 2 reaches below, at and one
above the cap, the only cases the code tells apart; the pipe holds one byte
(safety, returns: writers block) or two (signals). A request of 0 or 2 bytes gives
none and several writes, the second more than the pipe of `supervisor_returns`
holds. Both clocks are asked only whether their budget is used up, so a budget
of one tick that saturates loses nothing. One helper suffices for every
condition the code has on processes other than the leader: the group is empty
or not, a pipe has a holder or not. `MayFork` is on where a helper makes the
difference, `Senders` and both masks of the caller in `supervisor_signals`. In the liveness run the worker
closes its pipes but writes nothing (`MaxWritten` 0): nothing is assumed of its
progress, so one that waits to write and one that idles are alike, and with
output the search exceeds a few minutes.

*Machine.* Contracts are chosen so that each action fires: `Ledger` (loops,
emits, typed and void calls, a view), `Guards` (asserts, reverts, traps, switch
misses, no initializer), `Spin` (recursion until the fuel ends), `Rogue` and
`Meddler` (to be refused), `Nested`, `Bank`; `Tokens` has a run of its own. `MaxOccurrence` 2
exhausts an occurrence counter inside a two-iteration loop; `MaxBalance` 3
overflows after two deposits; `Fuel` covers the longest terminating
path of the other contracts and still runs out for `Spin`. Two invocations include every ordered pair
of initializer, entry, view, refused and failed ones. Response lists are
complete, short, long, misordered, mistyped, non-canonical and reverting.

*Output.* Two builds, because the code distinguishes only itself and others,
with equal process ids, the harder case; two staging attempts where the code
has 128, one to collide and one to succeed; one base file and one file of the
tool. One step of another process (`MaxMeddles`), at any moment: each clause of
the properties is broken by a single such step if at all, and what two would
add, a removal and a replacement, the second build does. Sizes 1 and 3 against
a limit of 4 put a build's own output below it and any file of another process
at or above it.

*Validation.* A behaviour of `publish` is one of builds or one validation. The
389 staging roots are what a build of both programs leaves, and that root with
one directory changed: a path missing, linked twice, of another kind or too
many, a leaf of other bytes or size, a field of the manifest wrong, or a change
with which all that depends on it agrees (the output of another program, a
shorter list of files), which only a comparison between directories or with a
contract can see. The limits on files, bytes and entries are just above what a
valid root has (9 files, 2 bytes each, 9 in all, one entry more than expected).

*Install.* Two runs: the code distinguishes itself and others, and the runs
are alike (`SYMMETRY`). Two members give an archive installed in part; two
attempts a retry that succeeds and one that does not. A run starts once; each
may be killed, or fail, before, while or after the other runs, so each works
over whatever the other left. `ReportStands` speaks of a run's *company*, the
runs it overlapped directly or through others: with three runs, one that never
met it can still undo its work after a run both met. Two runs cannot show
that; the theorem is for any number.

*Codec.* Each case is a decoder with budgets just large enough for its
deepest production and too small for others, so both refusals occur next to
acceptance; arrays have up to two elements, where order, the remaining budget
and the early refusal of a count first matter. `MaxKids` bounds what the input
offers, not what the decoder allows. `MaxOdd` = 1: a written value holds at most
one part its decoder does not take, since the first one is refused.

*Corpus.* One adapter case with an optional leg and one primitive case of two
steps; eight faults of one leg (a different state, kind, status, program or
tool, a missing file); two runs, one kill, after which the killed run starts
again. Every manifest of the probes meets every tree of the probes, with one
edit at any moment.

*Psy session.* Two calls, the second on what the first left. Methods have two
or three state commands of every kind, each at every place of the schedule,
listed in order or not, and every kind of definition; the moduli are 16 and 8,
where sums, products and shifts wrap.

*Toolchain.* Two executables and two libraries: the least in which one library
is reached under different search paths and loads can cycle. `MaxContexts` 2,
`MaxWalk` 6 and `MaxFiles` 3 (64, 4,096 and 1,024 in the code) are reached by
some graphs and not by others. Two changes by another process are an exchange and its
undoing. A lock has a tool with two libraries, one without and one built
from source; every mutation of the script's self-test, and every way the loads of three
files can lead to each other and to the runtime files listed, is a case. Hosts differ from the
locked one in one thing at a time.

**Deadlock** is checked for the supervisor, whose last state steps to itself.
The machine's runs say `CHECK_DEADLOCK FALSE` because a host stops after
`MaxInvocations`; the others because builds, inspections, installs, runs and
commands end. `source_codec` steps to itself at its end.

**Fairness.** Only `Returns` needs it: weak fairness of the supervisor's own
next step (`SupervisorStep`) and of the clock. `ReapFault`, a clock or waitpid
that fails in the reaping loop, may happen but is not relied on: the cleanup
budget has to end that loop. The supervisor is one thread with no lock, and each
of its system calls either does not block or is a `poll` or a sleep with a timeout;
the clock is CLOCK_MONOTONIC. Nothing is assumed of the worker, the helper,
init or of signals: a worker that never reads, writes or dies is allowed, even after SIGKILL.

---------------------------------------------------------------------------
## 4. The proofs

Each theorem is about a module's specification for every value of the constants that meets the
modules' `ASSUME`s: every cap, pipe size and request; every set of well-formed
programs, states, response lists, seeds and bounds; every set of builds, ids,
paths, sizes and limits. The assumptions are types of the constants, names that differ from each other, and
`WellFormed`.

**ProofWorkerSupervisor_proofs.** `TypeCorrect` is inductive as it stands.
`WireAcceptedCorrect`, `ResponseIsWholeCorrect`, `ExecFailureNotAnExitCorrect`
and `FaultSticksCorrect` (a verdict once given stays, whatever limit is found later) rest on
`IInv == Phase /\ Verdicts /\ Conservation /\ Ends /\ Reported`. None of the
four is inductive: that a response is whole needs that no byte is lost
(`Conservation`), that an end of file is final because no process can come to
hold the pipe again (`Ends`), what each verdict said of counts and leader when
it was given (`Verdicts`) and at which points of the turn it can be given
(`Phase`).
`PayloadKeptCorrect` follows too: the bytes the wire copies were kept, and fit
the buffer, whose fill `TypeCorrect` carries as a function of the count.
`SigpipeRestoredCorrect` rests on `Raised`: what is pending is what was pending
before the call, what the call's own write raised and what others sent, until
the own one is taken back. `CleanupHonestCorrect` rests on `Collected`: a
collected leader stays collected, and an empty group is not reported before.

**ReferenceMachine_proofs**, the stack. `FramesNested`: every reachable state is a stack
of pure functions over one initializer, entry or view, of an admitted program
(`Place`, `Nesting`). `PureFramesInertCorrect` follows: inside a pure function
admission has excluded every instruction that stores or has an effect, at any
depth. `EffectIdentityCorrect` needs that each pushed occurrence is below its
counter (`Identities`). `LifecycleImplemented` is the refinement of
`ContractLifecycle`; it needs that nothing provisional has leaked and that a
view's overlay still equals the contents it started from (`HeldBack`), which in
turn needs admission. `LoopsCoveredCorrect` is inductive with `Place` and
`Nesting`: the clause on *suspended* frames carries it through a return.

**ReferenceMachine_proofs**, the run. `ResponsesConsumedCorrect` rests on `Heard`:
while a run goes on the cursor is the number of calls in the effect buffer
(after a trap it can be one behind), and each call that got a response got the
one at its own place. Every step is `Silent` or `Asks`; nothing else of the
actions is used. `Delivered` carries this to the host: it answers with the run's
candidate only if the list is used up. `TypeOKCorrect` adds fuel and verdicts
(`Ledgers`) and the vault, where a debit must find the last row of a mint
(`LastRowIn`, from the well-foundedness of the naturals).

**ReferenceMachine_proofs**, the vault. `NativeNoOverdraftCorrect` rests on `Solvent`:
what the native vault holds and has paid by settled transfers is no more than
its seed and the settled deposits. It is an inequality because an asynchronous
transfer takes from the vault when it can and its row does not say whether it
did. The sums are recursive functions over the buffer: they have a value
(`SumsUnfold`), a row more adds its share (`SumAppend`). Only a call without a
result is settled, and a row does not say that either; it follows from its
static effect, since a callable has finitely many effect sites and the structure
gate numbers them apart (`SitesFinite`, `SitesDiffer`, `CallSite`). The
property is stated of those calls for this reason: a call that binds a result
and names a transfer is answered without looking at the vault.

**Output_proofs**, the publisher. `TypeOKCorrect`: `TypeOK == Types /\ Placed`, where
`Placed` says where every build's directory is at every stage; `NoResidueCorrect`,
`NothingLostCorrect` and `ReceiptStandsCorrect` follow from it (the last with
an induction of its own). The argument that two builds with one process id do
not take each other's directories is in `Placed`: a directory is at `Home(b)`
of its own builder only, and createDir, not the name, decides.
`DescribedCorrect` and `LimitKeptCorrect` need what a build
*knows* of its directory at each stage (`Records`, from `Known`): that
the limit held of the first scan and the sidecars as rendered (`SidecarBytes`), what the manifest says, that each file reread
still is what the second scan saw unless somebody wrote it late, that both
scans agree.

**Output_proofs**, an inspection. Proved of `InspectSpec`, whose builds behave as in
`Spec` (`BuildsAlone`). `AcceptedIsOneBuildCorrect` rests on `OwnManifests`: a
manifest that parses lies in the directory of the build that wrote it and still
is what that build's first scan gives, so that the manifest read belongs to a
build that published, and to which it still belongs at the verdict
(`ManifestRead`). `NoFalseRejectionCorrect` follows the reads of an untouched
output one by one (`Following`): while the count of other processes' steps
stays what it was, each read finds what `Described` says. The assumption that a
foreign file is no manifest of a build is the module's own.

**Output_proofs**, a validation. `RulingIsRightCorrect`: "ok" is said only of a
`ValidRoot`, "differs" only of one that is not, and the work list's own bound
stops no walk, for every family of staging roots, every limit and every
contract. The ruling is given at one moment and speaks of all nine passes, so
the invariant, `ValidationInv`, has to say what each pass behind has
established (`Behind`: of each step made, `Says` is what it means; `SaidAllIsValid` and
`ValidSaysAll` show that all steps together mean `ValidRoot`), that the
manifests kept are those of the root (`ParsedRight`) and where the walk stands
(`WalkRight`). Of the walk `Walked` says that the children of every directory
it is done with were met and expected, that every directory met is done with or
still in the list, and that there were as many visits as directories read. Completeness is
that each path of a tree is met (`AllIsFound`, by well-founded induction over the
length of a path: its parent is a directory that was read); together with what
was refused this makes "nothing missing" equal to `Exact` (`WalkEnds`). That
the bound is never reached follows from counting: directories read are expected
ones and the top one. Assumed is that a tree is finite, that each path lies in
a directory, and that a manifest's files are an array (`OutputsAssumption`).

**ToolInstall_proofs.** `TypeOKCorrect` needs that a staged tree is whole when it
is published, which `Own` says, with all else a run holds under a temporary
name at each place; `NothingTornCorrect` and `NoResidueCorrect` follow from it.
`ReportStandsCorrect` rests on `Working` (a run's place says which tool it works
on and that nothing of it is reported yet), `Overlap` (runs under way together
have met) and `Kept`: for every set of runs closed under having met, a path one
of them claims is sound and no run outside is about to unlink it, or another of
them unlinked it and did not write it again. `Kept` counts from the moment a
member is found in order, not from the report: the run goes on comparing while
others unlink. Each action is shown once to be `Lawful`; the induction on
`Kept` uses nothing else of it.

`AloneSucceedsCorrect` and `DoctorAgreesCorrect` are about a run that meets no
other, over whatever killed and failed runs left. `AloneInv` adds to the above:
such a run's prune takes away exactly what is outside the lock and afterwards
only its own temporary file is (`Cleared`), and, unless network, build or disk
failed it, it finds all as it left it (`Undisturbed`: the blob it checked, the
members before its own, the tree it built, its temporary file). Since runs under
way have met, another run's only possible step is to start, and then the run is
no longer alone. That the lock lists no path twice is not needed: a member is
unlinked only when it does not match. The doctor's "ok"
comes of `Cleared` and of `Kept` for the company of the run alone; it holds of a
run that failed a tool too, for the other.

**PsySession_proofs.** `InOrderCorrect`: on a method that lists its commands in
the order of their places, as the compiler does (`Scheduled`), nothing the
script adds to the simulator's schedule ever acts. The invariant: what has run
is an initial part of the list that ends at the present step (`Prefix`), and
the command about to run is the next (`Turn`); then a read finds no earlier
write left, a result is taken of a command that has run, and none is left over.
`AsOfficialCorrect` is that the effects agree too. `Official` is two recursions,
over the commands listed at a definition and over the definitions; each has a
value (`ListedUnfolds`, `BoundUnfolds`, by the least number without one), a
command listed elsewhere changes nothing (`ListedSkips`), and a failure stays
(`ListedFails`, `BoundFails`). The invariant `Follows`: the state of the call is
the simulator's after as many commands at the present definition as have run
(`Place`). Running the next command is one step of the inner recursion; binding
a definition is one of the outer, since none of the commands left is listed at
it and none of those run is listed at the next.
Assumed: that a method's parts are lists.

**ToolRoot_proofs.** `AcceptedWasSoCorrect`, for every host, lock, root, profile
and number of changes by others. `HostInv` follows verify-host and observe-host:
each host there has been (`was`) is `NotAfter` the present one, that is, no
inode number is greater, and equal numbers mean equal contents; for the tool
whose turn it is, each thing already read was so on one of them (`NodeSeen`,
`Led`, `FileSeen`, `Summed`). The second look at the pathname then shows that
these are one host, on which the whole tool was as the profile says. `RootInv`
follows the walk through a root: each file seen had the locked bytes in one of
the `roots`, and for each directory entered there was one whose entries are
those seen and those still to be looked at; a root under construction is the
only one there has been, so what is renamed to the destination is the whole
root. The invariant was checked by TLC on the instance of `toolchain` before it
was proved. Assumed is `TasksAreSound`, which TLC evaluates on every task of
the run: a command is one of main()'s; numbers of inodes are naturals; no link
of the host dangles and the pathnames of the profile exist (where they do not,
the code raises, which refuses); bundles, tools and profiles are lists; and of a
profile in *accepted* locks what their validation has established (it has
tools, and an eligible Darwin profile is not mutable).

**EvmCorpus_proofs.** A validator is put together from lists of checks. `Coded`
is what all of them have in common, that they raise codes other than "ok" where
a check fails, so that a verdict "ok" and the truth of every check are the same
(`FirstFailureOk`); that it carries over to a concatenation of any number of
lists needs that the recursive function of `FlattenSeq` has a value
(`JoinsExist`, `FlattenIsJoin`, by the least number without one). With it
`PassAgrees` reads off `close_case` what a pass means, and
`PassIsAgreementCorrect` needs only that what a run has read was written by a
leg (`FilesHold`, `ReadsHold`) and which case it is closing (`ClosedInOrder`).
`AcceptedWasThereCorrect` follows a check of the manifest among edits
(`ManifestInv`): an open file was in the tree, at each stage the paths to read
come from the corpus, the allowed sources and the runners only, and a listed
path that is no longer to be read had the size and hash of its entry.
`ManifestExactCorrect` follows it where nobody edits (`Exact`): what has passed
describes the tree so far, and each refusal is one that `Describes` calls for.
Both are theorems of `SpecM`, the manifest check alone.

**Toolchain_proofs.** `ToolHalf`: the composed program's behaviours, hidden from
the Lean half, are behaviours of `ToolRoot`. `ToolchainAccepted` carries the
theorem over; its assumptions, that the tasks are ones
`main()` may be given and that there is a task and an archive, are `Toolchain`'s
own ASSUME.
`OneTreeCorrect` is about `LeanSpec`, and `LeanHalf` and `ToolchainOneTree`
carry it to the composed program in the same way. `OneTree` says nothing until
an observation ends, so what makes it inductive describes the window meanwhile.
`LinkInv`: a held name still leads from what is held above it to what is held
of it, unless the stamp of the held directory has changed, or for the root of
the tree its own, or something above the tree moved (`Stays`). `BodyInv`: what
was hashed of an image is its content while its stamp is the one it was opened
with. Hence, while all of them are unchanged, the path by which an inspector
opens an image leads to what was hashed (`TrustedImage`, by `LookupHeld`: the
walk from "/" is a recursive function with one value). `ToldInv`: what was
printed so far is of what was hashed, if nothing held has changed *until now*
(`Trusted`). A change by others only falsifies its premise for good, since
stamps grow (`TamperFacts`); the checks at the end establish it, a file at a
time and then all directories at once, each of which is among those compared
because no image is under another (`NestedPaths`, from what `ValidateZip`
accepts). TLC checked the invariant on the instance of `toolchain` before it
was proved. Assumed is that the paths and entries of an archive are lists
(`CasesAreLists`).

`FaultSticks`, `RunsInOrder`, `LimitKept` and the type invariants of
`ProofWorkerSupervisor`, `OutputPublish`, `ReferenceMachine` and `ToolInstall` are not asked of a run any more where a
theorem says more than the run did; each module still states one `TypeOK`.

**Only model-checked.** Of `toolchain`
everything but `AcceptedWasSo` and `OneTree` (`GraphIsLoaded`, `RejectionsExplained` and
`LockVerdicts` are about what recursive functions compute, `HonestAccepted` and
`QuietAccepts` about every check of a command at once); `source_codec`; of the
EVM corpus `QuietRunCloses`, which needs that every check of a whole run
passes, and the table of probes. `Returns` is liveness, which TLAPS does not
reach, as it does not reach ENABLED. The library's induction over the naturals
is not usable here; where a proof needs an induction (the simulator's schedule,
the sums of the vault, the files of a tree) it goes through a least number or a
well-founded relation, for that function only. What the codec's readers, the
paths and the load chains compute for all inputs stays with TLC. No module declares a
RECURSIVE operator.

---------------------------------------------------------------------------
## 5. What the models leave out

*Supervisor.* Process ids do not wrap: the probe of a reaped leader's group
could meet a new group of the same id. Contents of requests and responses, and
which errno a refusal carries, are not represented.

*Machine.* What a value instruction computes, which branch is taken and the
amounts and mints of calls are chosen nondeterministically, so every property
holds whatever they are; types, codecs and arithmetic are not modelled, only
that a value instruction may revert or trap. Arms that trap `invalidCore` on
programs the structure gate excludes are left out. Fuel, occurrences and
balances keep their limits, as constants.

*Output.* A read or a write of a file is one step: a torn read, which the
source says it does not exclude either, does not happen. Contents are compared
for equality only; a manifest forged by another process so that it is
consistent with forged files is outside, as it is for the code, which holds no
key. Other processes leave the staging names themselves alone. rename(2)
replaces an empty directory that appears after the recheck, and `NothingLost`
says so. Sidecars count towards the limit with their sizes; the scanner's own size limits are
not modelled. Path validation, JSON, link counts and the scanner's caps are
abstracted. The manifest is not read back after it is written, in the code as
in the model: hence its exception in `Described`.

*Validation.* A malformed leaf of a document (a key set, a digest, an unsafe
path) is a member of its `bad`; that a path has no more than so many bytes or
segments is part of it. Which of several wrong things is named is left open,
and all refusals but those for a limit are one. What a contract says of the
text of an artifact (an ABI, a Noir relation, a plan) is whether it is one of
the contents wanted. The script is not made to run beside writers, and is not.

*Install.* One archive and one program from git; lock validation is
`ToolLock`'s. URL redirects, headers and sizes of downloads, `--dry-run` and
what a report looks like are left out. A disk keeps what was synced: power
loss is not modelled, only killed processes.

*Locks, hosts, roots.* The leaves of a record (hashes, versions, paths,
modes) are well formed or not, as one set `bad` per record, and two of them are
compared where the code compares them. What a host program prints is what its
bytes say; that it fails, times out or prints too much is one outcome, a
refusal. Extended attributes and code signatures are one flag.

*Compiler runtime.* The bytes of headers and the texts of otool, readelf and
the loaders are the images they describe; parsers that refuse a text are one
outcome. What the dynamic loader itself does (`Trace`) is external,
modelled from how the probe uses it: ld.so by requested names (not by the
`DT_SONAME` of what it found), without its cache or environment. A directory *above* the tree that is
exchanged and put back goes unnoticed, in the code as in the model: `OneTree`
says so. The exceptions of `GraphIsLoaded` are named in `Exact`, and each has an
archive among the inputs that needs it: a path spelled through a directory that
is not there (`Walkable`); for ELF an inherited RPATH, a run path that enters or
leaves the tree under another spelling (`Straight`), a library neither in the
tree nor on the host, one that a system directory of the run path has ahead of
the tree (`Hides`: discovery passes such directories over at
`toolchain_assets.py:4400`, ld.so searches them), and one name that leads two
images to two libraries. In each of these the probe refuses the toolchain, or
may. The exceptions of `QuietAccepts` are paths only the binding refuses: two
that differ in case alone, and one over 1024 bytes or with a drive letter
(`Unportable`), where the archive allows 4096 bytes. That the binding also wants
install names in ASCII refuses nothing a probe has passed: a load is spelled
through directories of the archive, whose names are ASCII.

*Codec.* The wire is a sequence of cells: of the bytes of a leaf only which
rule they break is kept (a name's length, normalization, control characters,
guillemet); the components of a qualified id are its number of components.
Values are made of the tags the paired decoder has a branch for. Hashing and
the writing of golden files are left out.

*Psy session.* The last comparison of main, of the results with the file the
caller names, and the reading of the package's JSON are left out; a hash is
its limbs.

*Corpus.* The Lean and Anvil legs are what they write; JSON text is a
document or the code its parsing raises.

### Not modelled

`PROJECT.json` lists these parts with `not_modelled` and the reason. Three
kinds remain: pure functions over text or values (loader, parser, typed
checks, normalisation, thirteen code generators, canonical encodings, the
documentation check and the Unicode tables), whose state space is their input
and which the repository tests or proves in Lean; thin front ends around
another program (clients, guidance server, SDK, command line); and those worth
a module, which the plan below lists.

---------------------------------------------------------------------------
## 6. Findings

1. **A token debit writes row 0** (`Semantic/ReferenceMachineV1.lean:1926`,
   run `machine_tokens`). `vaultTokenDebitV1` declares `let mut idx : Nat := 0`
   and never advances it. With the vault A=1, B=2, a transfer of 1 B overwrites
   row A with (B, 1); the last row still reads B=2, and two more B can be
   transferred. The file says (line 203) that within a step the transfers "keep
   the vault coherent".

2. **A nested loop stops earlier in the reference than in its targets**
   (`Semantic/ReferenceMachineV1.lean:1276`, run `machine_loop_bounds`).
   `noteBackEdge` counts over the whole activation; the targets clear their
   counter on entry (`Targets/Near/EmitIRV1.lean:3620`) and state that they
   match the reference (`Targets/Solana/EmitIRV1.lean:94`). An inner loop run to its
   bound in the first outer iteration reverts `boundExceeded` in the second.
   The other direction, that no target stops before the reference, is
   `LoopsCovered` and proved.

3. **The doctor's `ok` for a program built from source does not mean the
   locked version** (`scripts/proof_forge_doctor.py:274`, run `tool_versions`).
   Such a program is pinned by no digest: after the lock moves to another
   commit, `source_build_present` makes install skip it and the doctor reports
   the old one `ok`. `docs/product/01-toolchain-install-surface.md:156` says a
   tool is `ok` when it is installed and its digest and version match.

Three smaller observations, which have no run of their own:

- A comment at `scripts/proof_forge_install.py:415` says a mismatched tool is
  replaced atomically; the code unlinks it first, and between the two its name
  leads nowhere. `ReplacedAtomically` in `ToolInstall` states the comment, and
  TLC finds it violated with `ToolVersions.cfg`'s constants; what does hold is
  `NothingTorn`.
- "Shared exact equality" (`scripts/evm_corpus_v1.py:1623`) compares with
  Python's `==`, under which `True` and `1` are equal. `SharedExactEquality` in
  `EvmCorpus` states it for JSON values and is violated; `PassIsAgreement`
  uses the comparison of the code.
- `scripts/toolchain_assets.py:2729` takes `profiles[0]` whatever its kind.
  Locks order profiles by id, so a valid host lock in which the Linux profile
  comes first makes verify-external fail on Darwin. `HonestAccepted` assumes
  the kinds agree.

---------------------------------------------------------------------------
## 7. Plan

In this order; each module is written to be checked and proved about
(parameters as CONSTANTS with named assumptions, one action per operation, no
RECURSIVE operator).

1. **StableProofFiles**: the native readers of the proof subject (two files)
   and the proof bundle (manifest, then the tree, walked twice) beside
   processes that write, replace and link. Abstract specification: a read that
   returns a snapshot of one instant, or fails. Parameter: whether timestamps
   can miss a change. Theorem: acceptance implies the snapshot, for timestamps
   that do not.
2. **ProofWorker**: request, checks, answer and exit codes of the worker,
   composed with `ProofWorkerSupervisor` by INSTANCE, replacing its arbitrary
   worker; then the frontend worker.
3. **AtomicOutput**: "the destination holds nothing, or one build's whole
   output", refined by `OutputPublish`; the NEAR finalizer's comparison.
4. **RequirementResolver**: freezing and matching as operators, checked against
   a set definition.
5. **Lowering**: the control flow graphs `NormalizeV1` produces, as the
   programs `ReferenceMachine` admits.
6. The time limit of the SDK's child process, and the message loop of the
   guidance server.

Theorems next: what `QuietAccepts` and `HonestAccepted` say of one command at a
time; then snapshot refinement for the readers.
