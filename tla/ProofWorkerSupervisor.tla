------------------------ MODULE ProofWorkerSupervisor ------------------------
(***************************************************************************)
(* One supervised run of the compiler's proof worker.                      *)
(*                                                                         *)
(* The supervisor is a single thread: Lean code that checks its arguments, *)
(* a C call that forks the worker, pumps three pipes and an exec-status    *)
(* pipe through a poll loop under a monotonic deadline, kills and reaps    *)
(* the worker's process group, and a Lean decoder of the fixed binary      *)
(* result.  Around it runs everything it does not control: the worker (the *)
(* group leader), one helper process the worker may fork, the clock, and   *)
(* other senders of SIGPIPE.  Every system call of the loop is a step of   *)
(* its own, so that the worker may write, close, fork, escape its group or *)
(* die between any two of them.  Bytes are counted, not represented.       *)
(***************************************************************************)
EXTENDS Integers, FiniteSets

CONSTANTS
  InputSize,      \* bytes of the encoded request
  MaxInput,       \* maxProofWorkerProtocolBytesV1
  StdoutCap,      \* limits.stdoutBytes
  StderrCap,      \* limits.stderrBytes
  WallMillis,     \* limits.wallMillis
  CleanupMillis,  \* the reaping budget, 1000 in the code
  PipeSize,       \* kernel buffer of a pipe
  MaxWritten,     \* bound on the bytes the processes write to one pipe
  MayFork,        \* whether the worker may fork a helper
  Senders,        \* the SIGPIPEs others may send: "thread", "process"
  CallerBlocks    \* whether the caller may have SIGPIPE blocked: {FALSE} or BOOLEAN

ASSUME LimitsAssumption ==
  /\ InputSize \in Nat /\ MaxInput \in Nat /\ MaxWritten \in Nat
  /\ StdoutCap \in Nat \ {0} /\ StderrCap \in Nat \ {0}
  /\ WallMillis \in Nat \ {0} /\ CleanupMillis \in Nat \ {0}
  /\ PipeSize \in Nat \ {0}
  /\ MayFork \in BOOLEAN /\ Senders \subseteq {"thread", "process"}
  /\ CallerBlocks \subseteq BOOLEAN

VARIABLES
  pc,             \* where the supervisor is
  event,          \* the C variable event; "none" is -1
  revents,        \* the pipes the last poll reported
  inputOpen,      \* input_pipe[1] >= 0
  inputOffset,
  count,          \* output_count, error_count, exec_count
  kept,           \* bytes of stdout copied into output, malloc'ed with stdout_cap
  eof,            \* the pipes at end of file: output_eof, error_eof, exec_eof
  leaderInfo,     \* what waitid told of the leader; "none" until it exited
  reaped,
  elapsed,        \* now - start, saturating at WallMillis
  cleaning,       \* now - cleanup_start, saturating at CleanupMillis
  generated,      \* generated_sigpipe
  masked,         \* signal_masked
  before,         \* SIGPIPEs pending when the mask was taken
  previous,       \* the caller's mask: was SIGPIPE blocked
  blocked,        \* SIGPIPE is blocked now
  pending,        \* SIGPIPEs pending now, thread- and process-directed
  arrived,        \* the SIGPIPEs others directed here while the call had them blocked
  proc,           \* life cycle of the leader and its helper
  fds,            \* the pipe ends each process holds
  escaped,        \* the helper called setsid
  doomed,         \* processes the group SIGKILL was sent to
  status,         \* how the leader ended
  buf,            \* bytes in each pipe
  written,        \* bytes ever written to each pipe by the worker's side
  outcome         \* what the Lean caller gets

supervisor == <<pc, event, revents, inputOpen, inputOffset, count, kept, eof,
                leaderInfo, reaped, cleaning, generated, masked, before, previous,
                outcome>>
signals    == <<blocked, pending, arrived>>
world      == <<proc, fds, escaped, doomed, status, buf, written>>
vars       == <<supervisor, elapsed, signals, world>>

-----------------------------------------------------------------------------
(* Names.                                                                  *)

Pipes   == {"in", "out", "err", "exec"}
Outputs == {"out", "err", "exec"}           \* read by the supervisor
Procs   == {"leader", "helper"}

Events == {"SUCCESS", "STDOUT_LIMIT", "STDERR_LIMIT", "DEADLINE", "SIGNALED",
           "NONZERO_EXIT", "SUPERVISOR_FAULT"}

Cap(p) == CASE p = "out" -> StdoutCap [] p = "err" -> StderrCap [] OTHER -> 0

Alive(q)   == proc[q] \in {"forked", "failing", "running"}
Holders(p) == {q \in Procs : p \in fds[q]}

\* Mutant: only the leader is asked for.
LeaderGone(pr) == pr["leader"] \in {"none", "reaped"}

\* kill(-pid, 0) reports ESRCH: no member of the group is left, zombies included.
GroupEmpty(pr) ==
  /\ pr["leader"] \in {"none", "reaped"}
  /\ escaped \/ pr["helper"] \in {"none", "reaped"}

Ready ==
  {p \in Pipes :
     IF p = "in" THEN inputOpen /\ (buf["in"] < PipeSize \/ Holders("in") = {})
                 ELSE buf[p] > 0 \/ Holders(p) = {}}

NoOutcome == [fault |-> "none", event |-> "none", cleanup |-> "none",
              response |-> "none", stdout |-> 0, stderr |-> 0]

Init ==
  /\ pc = "start" /\ event = "none" /\ revents = {}
  /\ inputOpen = FALSE /\ inputOffset = 0
  /\ count = [p \in Outputs |-> 0] /\ kept = 0 /\ eof = {}
  /\ leaderInfo = "none" /\ reaped = FALSE
  /\ elapsed = 0 /\ cleaning = 0
  /\ generated = FALSE /\ masked = FALSE /\ before = {} /\ previous = FALSE
  /\ blocked \in CallerBlocks /\ arrived = {}
  /\ pending \in IF blocked THEN SUBSET Senders ELSE {{}}
  /\ proc = [q \in Procs |-> "none"] /\ fds = [q \in Procs |-> {}]
  /\ escaped = FALSE /\ doomed = {} /\ status = "none"
  /\ buf = [p \in Pipes |-> 0] /\ written = [p \in Outputs |-> 0]
  /\ outcome = NoOutcome

-----------------------------------------------------------------------------
(* The supervisor: launching.                                              *)

\* An early return of the Lean wrapper or of the C call, before any resource
\* outlives it: a request that cannot be encoded, no linux, a request too large,
\* bad arguments, no memory, or a worker path that cannot be opened safely.
Refuse ==
  /\ pc = "start"
  /\ \E fault \in {"nativeProtocol", "unsupportedHost", "inputTooLarge", "invalidWorker",
                     "native"} :
       /\ fault = "inputTooLarge" => InputSize > MaxInput
       /\ fault \in {"invalidWorker", "native"} => InputSize <= MaxInput
       /\ outcome' = [NoOutcome EXCEPT !.fault = fault]
  /\ pc' = "done"
  /\ UNCHANGED <<event, revents, inputOpen, inputOffset, count, kept, eof, leaderInfo,
                 reaped, elapsed, cleaning, generated, masked, before, previous, signals, world>>

\* SIGPIPE is blocked and the pending set read; a SIGPIPE that arrives between
\* the two calls counts as pending before.
BlockSigpipe ==
  /\ masked' = TRUE /\ previous' = blocked /\ blocked' = TRUE
  /\ arrived' \in SUBSET (Senders \ pending)
  /\ pending' = pending \cup arrived' /\ before' = pending'

\* A null device, a pipe, the mask, the SIGCHLD check or fork fails: nothing
\* was forked; SIGPIPE may or may not have been blocked by then.
LaunchFault ==
  /\ pc = "start" /\ InputSize <= MaxInput
  /\ event' = "SUPERVISOR_FAULT" /\ pc' = "conclude"
  /\ BlockSigpipe \/ UNCHANGED <<masked, before, previous, signals>>
  /\ UNCHANGED <<revents, inputOpen, inputOffset, count, kept, eof, leaderInfo, reaped,
                 elapsed, cleaning, generated, world, outcome>>

\* Behind the blocked SIGPIPE the worker is forked into its own
\* group holding one end of every pipe; an empty request closes its pipe.  A
\* descriptor that cannot be made non-blocking is a fault with a child to kill.
Launch ==
  /\ pc = "start" /\ InputSize <= MaxInput
  /\ BlockSigpipe
  /\ proc' = [proc EXCEPT !["leader"] = "forked"]
  /\ fds' = [fds EXCEPT !["leader"] = Pipes]
  /\ \/ pc' = "poll" /\ inputOpen' = (InputSize > 0) /\ UNCHANGED event
     \/ pc' = "kill" /\ inputOpen' = TRUE /\ event' = "SUPERVISOR_FAULT"
  /\ UNCHANGED <<revents, inputOffset, count, kept, eof, leaderInfo, reaped, elapsed,
                 cleaning, generated, escaped, doomed, status, buf, written, outcome>>

-----------------------------------------------------------------------------
(* The supervisor: one turn of the poll loop.                              *)

\* Mutant: the deadline is not tested.
NoDeadline == FALSE

Expired == elapsed >= WallMillis

\* The deadline is tested before every poll; poll itself waits at most 10 ms,
\* and an interrupted or timed-out poll reports nothing.
Poll ==
  /\ pc = "poll"
  /\ \/ /\ Expired
        /\ event' = "DEADLINE" /\ pc' = "kill" /\ UNCHANGED revents
     \/ /\ ~Expired
        /\ revents' \in {Ready, {}} /\ pc' = "write" /\ UNCHANGED event
     \/ event' = "SUPERVISOR_FAULT" /\ pc' = "kill" /\ UNCHANGED revents
  /\ UNCHANGED <<inputOpen, inputOffset, count, kept, eof, leaderInfo, reaped, elapsed,
                 cleaning, generated, masked, before, previous, signals, world, outcome>>

SendBytes ==
  \E k \in 1 .. InputSize - inputOffset :
    /\ buf["in"] + k <= PipeSize
    /\ buf' = [buf EXCEPT !["in"] = @ + k]
    /\ inputOffset' = inputOffset + k
    /\ inputOpen' = (inputOffset' < InputSize)

\* A non-blocking write: it takes what the pipe has room for, or finds it full
\* or is interrupted, or raises the blocked SIGPIPE because the last reader is
\* gone, or fails.
WriteInput ==
  /\ pc = "write" /\ pc' = "drain-out"
  /\ \/ "in" \notin revents /\ UNCHANGED <<event, inputOpen, inputOffset, generated, pending, buf>>
     \/ /\ "in" \in revents /\ Holders("in") # {}
        /\ \/ SendBytes
           \/ UNCHANGED <<inputOpen, inputOffset, buf>>
        /\ UNCHANGED <<event, generated, pending>>
     \/ /\ "in" \in revents /\ Holders("in") = {}
        /\ generated' = TRUE /\ pending' = pending \cup {"thread"}
        /\ inputOpen' = FALSE
        /\ UNCHANGED <<event, inputOffset, buf>>
     \/ /\ "in" \in revents
        /\ event' = "SUPERVISOR_FAULT"
        /\ UNCHANGED <<inputOpen, inputOffset, generated, pending, buf>>
  /\ UNCHANGED <<revents, count, kept, eof, leaderInfo, reaped, elapsed, cleaning, masked,
                 before, previous, blocked, arrived, proc, fds, escaped, doomed, status, written, outcome>>

\* The two output counts last for the call; exec_count starts over every turn.
Seen(p) == IF p = "exec" THEN 0 ELSE count[p]

\* What pf_drain_fd may still consume: an overflow is observed through a single
\* byte more than the cap.
Allowance(p) == Cap(p) + 1 - Seen(p)

\* Of k bytes of stdout as many are copied as the buffer of the cap has room for.
Copied(k) ==
  IF count["out"] >= StdoutCap THEN 0
  ELSE IF k < StdoutCap - count["out"] THEN k ELSE StdoutCap - count["out"]

\* pf_drain_fd: at most one successful read; end of file once the pipe is empty
\* and has no writer left; nothing once the overflow was observed.
ReadPipe(p) ==
  \/ Allowance(p) <= 0 /\ UNCHANGED <<buf, count, kept, eof>>
  \/ \E k \in 1 .. Allowance(p) :
       /\ k <= buf[p]
       /\ buf' = [buf EXCEPT ![p] = @ - k]
       /\ count' = [count EXCEPT ![p] = Seen(p) + k]
       /\ kept' = IF p = "out" THEN kept + Copied(k) ELSE kept
       /\ UNCHANGED eof
  \/ /\ Allowance(p) > 0 /\ buf[p] = 0
     /\ eof' = IF Holders(p) = {} THEN eof \cup {p} ELSE eof
     /\ UNCHANGED <<buf, count, kept>>

\* Mutant: the byte on the exec pipe is drained and forgotten.
ExecByteIgnored(p) == FALSE

\* Any byte of the exec pipe says that the child never became the worker.
ExecFailureSeen(p) == p = "exec" /\ count'[p] # 0

\* One pipe of the turn: skipped, drained, or in error.
Drain(p, here, next) ==
  /\ pc = here /\ pc' = next
  /\ \/ p \notin revents /\ UNCHANGED <<event, buf, count, kept, eof>>
     \/ /\ p \in revents /\ ReadPipe(p)
        /\ event' = IF ExecFailureSeen(p) THEN "SUPERVISOR_FAULT" ELSE event
     \/ p \in revents /\ event' = "SUPERVISOR_FAULT" /\ UNCHANGED <<buf, count, kept, eof>>
  /\ UNCHANGED <<revents, inputOpen, inputOffset, leaderInfo, reaped, elapsed, cleaning,
                 generated, masked, before, previous, signals, proc, fds, escaped, doomed,
                 status, written, outcome>>

DrainStdout == Drain("out", "drain-out", "drain-err")
DrainStderr == Drain("err", "drain-err", "drain-exec")
DrainExec   == Drain("exec", "drain-exec", "judge")

\* Mutant: the limit counts as reached one byte early.
EarlyLimit ==
  CASE event # "none"               -> event
    [] event = "none" /\ Expired   -> "DEADLINE"
    [] event = "none" /\ ~Expired /\ count["out"] >= StdoutCap -> "STDOUT_LIMIT"
    [] OTHER                        -> "none"

\* The deadline wins over the byte limits, stdout over stderr, and none of them
\* replaces an event this turn already decided.
Verdict ==
  IF event # "none" THEN event
  ELSE IF Expired THEN "DEADLINE"
  ELSE IF count["out"] > StdoutCap THEN "STDOUT_LIMIT"
  ELSE IF count["err"] > StderrCap THEN "STDERR_LIMIT"
  ELSE "none"

\* The clock is read once more, or fails.
Judge ==
  /\ pc = "judge" /\ pc' = "wait"
  /\ event' \in {Verdict, "SUPERVISOR_FAULT"}
  /\ UNCHANGED <<revents, inputOpen, inputOffset, count, kept, eof, leaderInfo, reaped, elapsed,
                 cleaning, generated, masked, before, previous, signals, world, outcome>>

ExitEvent(info) ==
  CASE info = "signal" -> "SIGNALED"
    [] info = "exit0"  -> "SUCCESS"
    [] OTHER           -> "NONZERO_EXIT"

\* Mutant: the leader's exit ends the run, whoever still holds its pipes.
LeaderExited(info) == info # "none"

\* The run is over only when the leader exited and all three pipes reached end
\* of file.
Finished(info) == info # "none" /\ eof = Outputs

\* waitid(WNOHANG | WNOWAIT) leaves the leader a zombie, so its process group id
\* cannot be reused before the group is killed.
WaitLeader ==
  /\ pc = "wait"
  /\ \/ /\ leaderInfo' = IF leaderInfo = "none" /\ proc["leader"] = "zombie"
                         THEN status ELSE leaderInfo
        /\ event' = IF event = "none" /\ Finished(leaderInfo')
                    THEN ExitEvent(leaderInfo') ELSE event
     \/ /\ leaderInfo = "none"                  \* waitid fails
        /\ event' = "SUPERVISOR_FAULT" /\ UNCHANGED leaderInfo
  /\ pc' = IF event' = "none" THEN "poll" ELSE "kill"
  /\ UNCHANGED <<revents, inputOpen, inputOffset, count, kept, eof, reaped, elapsed, cleaning,
                 generated, masked, before, previous, signals, world, outcome>>

-----------------------------------------------------------------------------
(* The supervisor: killing, reaping and concluding.                        *)

\* SIGKILL to the group.  Without a clock there is no reaping loop.
KillGroup ==
  /\ pc = "kill" /\ pc' \in {"reap", "conclude"}
  /\ doomed' = {q \in Procs : Alive(q) /\ (q = "helper" => ~escaped)}
  /\ UNCHANGED <<event, revents, inputOpen, inputOffset, count, kept, eof, leaderInfo, reaped,
                 elapsed, cleaning, generated, masked, before, previous, signals, proc, fds,
                 escaped, status, buf, written, outcome>>

\* Mutant: the loop waits for the group however long it takes.
NoCleanupLimit == FALSE

CleanupOver == cleaning >= CleanupMillis

\* One turn of the reaping loop, then a 1 ms sleep.
Reap ==
  /\ pc = "reap"
  /\ reaped' = (reaped \/ proc["leader"] = "zombie")
  /\ proc' = IF proc["leader"] = "zombie" THEN [proc EXCEPT !["leader"] = "reaped"] ELSE proc
  /\ pc' = IF \/ reaped' /\ GroupEmpty(proc')
              \/ CleanupOver
           THEN "conclude" ELSE "reap"
  /\ UNCHANGED <<event, revents, inputOpen, inputOffset, count, kept, eof, leaderInfo, elapsed,
                 cleaning, generated, masked, before, previous, signals, fds, escaped,
                 doomed, status, buf, written, outcome>>

\* waitpid or the clock fails: the loop is left with the group as it is.
ReapFault ==
  /\ pc = "reap" /\ pc' = "conclude"
  /\ UNCHANGED <<event, revents, inputOpen, inputOffset, count, kept, eof, leaderInfo, reaped,
                 elapsed, cleaning, generated, masked, before, previous, signals, world, outcome>>

\* decodeNative on the wire the C call builds from its locals.
DecodeNative(e, out, err, payload) ==
  IF /\ out <= StdoutCap + 1 /\ err <= StderrCap + 1
     /\ IF e = "SUCCESS" THEN payload = out /\ out <= StdoutCap ELSE payload = 0
     /\ e = "STDOUT_LIMIT" => out = StdoutCap + 1
     /\ e = "STDERR_LIMIT" => err = StderrCap + 1
  THEN "none" ELSE "nativeProtocol"

\* Mutant: the signal is taken whether or not the caller had one pending.
AnySigpipe == masked /\ generated

\* The call made a SIGPIPE pending that was not pending before.
OwnSigpipe == masked /\ generated /\ before = {}

\* sigtimedwait takes one pending SIGPIPE, the thread's before the process's.
Dequeue(p) == p \ (IF "thread" \in p THEN {"thread"} ELSE {"process"})

\* The mask the caller had; a call that fails to set it is a fault.
RestoreMask(e) ==
  \/ blocked' = (IF masked THEN previous ELSE blocked) /\ event' = e
  \/ masked /\ event' = "SUPERVISOR_FAULT" /\ UNCHANGED blocked

\* The tail of the C call (take one SIGPIPE if ours is pending, restore the mask,
\* build the wire) and the Lean caller's reading of it: a response is decoded
\* only from a clean success, and may still fail to decode or to bind.
Conclude ==
  /\ pc = "conclude" /\ pc' = "done"
  /\ pending' = IF OwnSigpipe THEN Dequeue(pending) ELSE pending
  /\ RestoreMask(IF OwnSigpipe /\ pending = {} THEN "SUPERVISOR_FAULT" ELSE event)
  /\ inputOpen' = FALSE
  /\ \E decodes \in BOOLEAN :
       LET complete == reaped /\ GroupEmpty(proc)
           payload  == IF event' = "SUCCESS" THEN count["out"] ELSE 0
           fault    == DecodeNative(event', count["out"], count["err"], payload)
           clean    == event' = "SUCCESS" /\ complete /\ count["err"] = 0
       IN outcome' \in
            {[NoOutcome EXCEPT !.fault = "native"],    \* no memory for the wire
             IF fault # "none" THEN [NoOutcome EXCEPT !.fault = fault]
             ELSE [fault    |-> "none",
                   event    |-> IF clean /\ ~decodes THEN "workerProtocol" ELSE event',
                   cleanup  |-> IF complete THEN "observedEmpty" ELSE "incomplete",
                   response |-> IF clean /\ decodes THEN "some" ELSE "none",
                   stdout   |-> count["out"],
                   stderr   |-> count["err"]]}
  /\ UNCHANGED <<revents, inputOffset, count, kept, eof, leaderInfo, reaped, elapsed, cleaning,
                 generated, masked, before, previous, arrived, world>>

\* What the supervising thread does when it is scheduled, except that a failing
\* clock or waitpid ends the reaping loop: nothing may rely on that.
SupervisorStep ==
  \/ Refuse \/ LaunchFault \/ Launch
  \/ Poll \/ WriteInput \/ DrainStdout \/ DrainStderr \/ DrainExec \/ Judge \/ WaitLeader
  \/ KillGroup \/ Reap \/ Conclude

SupervisorNext == SupervisorStep \/ ReapFault

-----------------------------------------------------------------------------
(* The worker's side.                                                      *)

\* execveat succeeds; the exec pipe is close-on-exec.
ExecOk ==
  /\ proc["leader"] = "forked"
  /\ proc' = [proc EXCEPT !["leader"] = "running"]
  /\ fds' = [fds EXCEPT !["leader"] = @ \ {"exec"}]
  /\ UNCHANGED <<supervisor, elapsed, signals, escaped, doomed, status, buf, written>>

\* pf_child_fail: one byte on the exec pipe, then _exit(127).
ExecFail ==
  /\ proc["leader"] = "forked"
  /\ proc' = [proc EXCEPT !["leader"] = "failing"]
  /\ buf' = [buf EXCEPT !["exec"] = @ + 1]
  /\ written' = [written EXCEPT !["exec"] = @ + 1]
  /\ UNCHANGED <<supervisor, elapsed, signals, fds, escaped, doomed, status>>

ReadRequest(q) ==
  /\ proc[q] = "running" /\ "in" \in fds[q] /\ buf["in"] > 0
  /\ buf' = [buf EXCEPT !["in"] = @ - 1]
  /\ UNCHANGED <<supervisor, elapsed, signals, proc, fds, escaped, doomed, status, written>>

Write(q, p) ==
  /\ proc[q] = "running" /\ p \in fds[q] \cap {"out", "err"}
  /\ buf[p] < PipeSize /\ written[p] < MaxWritten
  /\ buf' = [buf EXCEPT ![p] = @ + 1]
  /\ written' = [written EXCEPT ![p] = @ + 1]
  /\ UNCHANGED <<supervisor, elapsed, signals, proc, fds, escaped, doomed, status>>

CloseEnd(q, p) ==
  /\ proc[q] = "running" /\ p \in fds[q]
  /\ fds' = [fds EXCEPT ![q] = @ \ {p}]
  /\ UNCHANGED <<supervisor, elapsed, signals, proc, escaped, doomed, status, buf, written>>

\* A process with a SIGKILL pending cannot fork.
ForkHelper ==
  /\ MayFork /\ proc["leader"] = "running" /\ "leader" \notin doomed /\ proc["helper"] = "none"
  /\ proc' = [proc EXCEPT !["helper"] = "running"]
  /\ fds' = [fds EXCEPT !["helper"] = fds["leader"]]
  /\ UNCHANGED <<supervisor, elapsed, signals, escaped, doomed, status, buf, written>>

EscapeGroup ==
  /\ proc["helper"] = "running" /\ "helper" \notin doomed /\ ~escaped
  /\ escaped' = TRUE
  /\ UNCHANGED <<supervisor, elapsed, signals, proc, fds, doomed, status, buf, written>>

\* A process ends: by itself, by a signal of its own or of a third party, or by
\* the group SIGKILL.
Exit(q) ==
  /\ Alive(q)
  /\ proc' = [proc EXCEPT ![q] = "zombie"]
  /\ fds' = [fds EXCEPT ![q] = {}]
  /\ status' \in IF q = "helper" THEN {status}
                 ELSE {"signal"}
                      \cup (IF proc[q] = "running" THEN {"exit0", "exit1"} ELSE {})
                      \cup (IF proc[q] = "failing" THEN {"exit1"} ELSE {})
  /\ UNCHANGED <<supervisor, elapsed, signals, escaped, doomed, buf, written>>

\* The helper's parent, or init after the leader, collects it.
HelperCollected ==
  /\ proc["helper"] = "zombie"
  /\ proc' = [proc EXCEPT !["helper"] = "reaped"]
  /\ UNCHANGED <<supervisor, elapsed, signals, fds, escaped, doomed, status, buf, written>>

\* What the worker's side does after the call returned is of no interest.
WorkerNext ==
  /\ pc # "done"
  /\ \/ ExecOk \/ ExecFail \/ ForkHelper \/ EscapeGroup \/ HelperCollected
     \/ \E q \in Procs : ReadRequest(q) \/ Exit(q)
     \/ \E q \in Procs, p \in {"out", "err"} : Write(q, p)
     \/ \E q \in Procs, p \in {"in", "out", "err"} : CloseEnd(q, p)

-----------------------------------------------------------------------------
(* The clock, other signal senders, and the specification.                 *)

\* Only "has the budget run out" is ever asked, so both clocks saturate.
Tick ==
  /\ \/ pc # "done" /\ elapsed < WallMillis
     \/ pc = "reap" /\ cleaning < CleanupMillis
  /\ elapsed' = IF elapsed < WallMillis THEN elapsed + 1 ELSE elapsed
  /\ cleaning' = IF pc = "reap" /\ cleaning < CleanupMillis THEN cleaning + 1 ELSE cleaning
  /\ UNCHANGED <<pc, event, revents, inputOpen, inputOffset, count, kept, eof, leaderInfo, reaped,
                 generated, masked, before, previous, outcome, signals, world>>

\* Another thread or process sends a SIGPIPE to this thread or to the process
\* while it is blocked; one that is already pending there takes it in.
SigpipeArrives ==
  /\ masked /\ pc # "done"
  /\ \E k \in Senders \ arrived :
       arrived' = arrived \cup {k} /\ pending' = pending \cup {k}
  /\ UNCHANGED <<supervisor, elapsed, blocked, world>>

Returned == pc = "done" /\ UNCHANGED vars

Next == SupervisorNext \/ WorkerNext \/ Tick \/ SigpipeArrives \/ Returned

\* The supervising thread is scheduled and time passes; nothing is assumed of
\* the worker, of init or of other processes.
Fairness == WF_vars(SupervisorStep) /\ WF_vars(Tick)

Spec == Init /\ [][Next]_vars /\ Fairness

-----------------------------------------------------------------------------
(* Properties.                                                             *)

ControlType ==
  /\ pc \in {"start", "poll", "write", "drain-out", "drain-err", "drain-exec", "judge",
             "wait", "kill", "reap", "conclude", "done"}
  /\ event \in Events \cup {"none"}
  /\ revents \subseteq Pipes
  /\ inputOffset \in 0 .. InputSize

CountType ==
  /\ count \in [Outputs -> Nat]
  /\ \A p \in Outputs : count[p] <= Cap(p) + 1
  /\ kept = IF count["out"] < StdoutCap THEN count["out"] ELSE StdoutCap
  /\ eof \subseteq Outputs

ReapType ==
  /\ leaderInfo \in {"none", "exit0", "exit1", "signal"}
  /\ elapsed \in 0 .. WallMillis /\ cleaning \in 0 .. CleanupMillis

FlagType ==
  {inputOpen, reaped, generated, masked, previous, blocked, escaped} \subseteq BOOLEAN

SignalType ==
  /\ before \subseteq {"thread", "process"} /\ pending \subseteq {"thread", "process"}
  /\ arrived \subseteq {"thread", "process"}

WorldType ==
  /\ proc \in [Procs -> {"none", "forked", "failing", "running", "zombie", "reaped"}]
  /\ fds \in [Procs -> SUBSET Pipes]
  /\ doomed \subseteq Procs
  /\ status \in {"none", "exit0", "exit1", "signal"}
  /\ buf \in [Pipes -> Nat] /\ written \in [Outputs -> Nat]

OutcomeType ==
  outcome \in [fault : {"none", "unsupportedHost", "inputTooLarge", "invalidWorker",
                       "native", "nativeProtocol"},
              event : Events \cup {"none", "workerProtocol"},
              cleanup : {"none", "observedEmpty", "incomplete"},
              response : {"none", "some"}, stdout : Nat, stderr : Nat]

\* Every variable stays in its range; in particular no pipe is ever read past
\* the one byte that reveals an overflow, and what is copied of stdout fits the
\* buffer allocated for it (pf_drain_fd).
TypeOK ==
  ControlType /\ CountType /\ ReapType /\ FlagType /\ SignalType /\ WorldType /\ OutcomeType

\* A response reaches the caller only from a worker that was really executed and
\* exited with status 0, whose standard output was read to the last byte written
\* by it or its helper, within the cap, and whose standard error stayed silent.
ResponseIsWhole ==
  outcome.response = "some" =>
    /\ status = "exit0" /\ written["exec"] = 0
    /\ outcome.stdout = written["out"] /\ written["out"] <= StdoutCap
    /\ written["err"] = 0

\* The Lean decoder re-checks every relation between event, sizes and limits the
\* C side promises; it never has to reject a wire (decodeNative). The one fault
\* of that name is a request that could not be encoded, before the C call.
WireAccepted == outcome.fault = "nativeProtocol" => event = "none"

\* The wire's memcpy reads exactly what was copied into the buffer: at a success
\* every byte counted is one that was kept, and none lies beyond the cap.
PayloadKept == event = "SUCCESS" => kept = count["out"] /\ kept <= StdoutCap

\* A child that reported a failure to become the worker is never reported as a
\* worker that exited or was killed, whatever the order of exit and read.
ExecFailureNotAnExit ==
  written["exec"] > 0 => event \notin {"SUCCESS", "NONZERO_EXIT", "SIGNALED"}

\* When the call reports an empty group, none of the worker's processes is left
\* in that group, dead or alive; only one that left it may still exist.
CleanupHonest ==
  outcome.cleanup = "observedEmpty" =>
    /\ proc["leader"] = "reaped"
    /\ proc["helper"] \in {"running", "zombie"} => escaped

\* What others sent and the call must not take. A SIGPIPE directed at the thread
\* while the call's own is pending there is the same bit: the code cannot tell
\* the two apart, and takes both back.
Owed == before \cup (IF generated THEN arrived \ {"thread"} ELSE arrived)

\* Whoever sends SIGPIPE, to the thread or to the process, before the call's own
\* write raises one or after: what the call owes stays pending, its own does not
\* stay when nothing else is, and the caller gets its mask back or hears of a
\* fault. (With one pending before the call, its own may stay beside it.)
SigpipeRestored ==
  pc = "done" /\ masked =>
    /\ Owed \subseteq pending
    /\ Owed = {} => pending = {}
    /\ blocked = previous \/ event = "SUPERVISOR_FAULT"

\* A supervisor fault, once met, is what the call reports, whatever the later
\* steps of the same turn see.
FaultSticks == [][event = "SUPERVISOR_FAULT" => event' = "SUPERVISOR_FAULT"]_vars

\* The call returns whatever the worker and its helper do: neither full pipes
\* nor a pipe held open nor a group that does not die keep it.
Returns == <>(pc = "done")
==============================================================================
