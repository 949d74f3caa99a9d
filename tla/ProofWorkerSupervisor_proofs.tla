-------------------- MODULE ProofWorkerSupervisor_proofs --------------------
(***************************************************************************)
(* Theorems about one supervised run, for every limit, pipe size and       *)
(* request size.                                                           *)
(***************************************************************************)
EXTENDS ProofWorkerSupervisor, TLAPS

(* The response caps are natural numbers.                                  *)
LEMMA CapType == \A p \in Outputs : Cap(p) \in Nat
  BY LimitsAssumption DEF Outputs, Cap

(* The initial values have their types.                                    *)
LEMMA TypeInit == Init => TypeOK
<1> SUFFICES ASSUME Init PROVE TypeOK
  OBVIOUS
<1> USE LimitsAssumption DEF Init
<1>1. ControlType
  BY DEF ControlType
<1>2. CountType
  BY CapType DEF CountType, Outputs
<1>3. ReapType /\ SignalType
  BY DEF ReapType, SignalType
<1>6. FlagType
  BY DEF FlagType
<1>4. WorldType
  BY DEF WorldType
<1>5. OutcomeType
  BY DEF OutcomeType, NoOutcome
<1> QED
  BY <1>1, <1>2, <1>3, <1>4, <1>5, <1>6 DEF TypeOK

(* Every step of the supervisor keeps the types.                           *)
LEMMA TypeSupervisor == TypeOK /\ SupervisorNext => TypeOK'
<1> SUFFICES ASSUME TypeOK, SupervisorNext PROVE TypeOK'
  OBVIOUS
<1> DEFINE Plain == ControlType /\ CountType /\ ReapType /\ SignalType /\ WorldType /\ OutcomeType
<1>0. Plain /\ FlagType
  BY DEF TypeOK
<1>1. CASE Refuse
  <2>1. Plain'
    BY <1>0, <1>1, LimitsAssumption, CapType DEF Refuse, NoOutcome, world, signals, ControlType, CountType, ReapType, SignalType, WorldType, OutcomeType
  <2>2. FlagType'
    BY <1>0, <1>1, Zenon DEF Refuse, NoOutcome, world, signals, FlagType
  <2> QED
    BY <2>1, <2>2 DEF TypeOK
<1>2. CASE LaunchFault
  <2>0. before' \subseteq {"thread", "process"} /\ pending' \subseteq {"thread", "process"}
        /\ arrived' \subseteq {"thread", "process"}
    BY <1>0, <1>2, LimitsAssumption DEF LaunchFault, BlockSigpipe, signals, SignalType
  <2>1. Plain'
    BY <1>0, <1>2, <2>0 DEF LaunchFault, world, Events, ControlType, CountType, ReapType, SignalType, WorldType, OutcomeType
  <2>2. FlagType'
    BY <1>0, <1>2, Zenon DEF LaunchFault, BlockSigpipe, world, signals, Events, FlagType
  <2> QED
    BY <2>1, <2>2 DEF TypeOK
<1>3. CASE Launch
  <2>1. Plain'
    BY <1>0, <1>3, LimitsAssumption, CapType DEF Launch, BlockSigpipe, signals, Events, Pipes, Procs, ControlType, CountType, ReapType, SignalType, WorldType, OutcomeType
  <2>2. FlagType'
    <3>1. inputOpen' = (InputSize > 0) \/ inputOpen' = TRUE
      BY <1>3, Zenon DEF Launch
    <3>2. (InputSize > 0) \in BOOLEAN
      OBVIOUS
    <3> QED
      BY <1>0, <1>3, <3>1, <3>2, Zenon DEF Launch, BlockSigpipe, signals, FlagType
  <2> QED
    BY <2>1, <2>2 DEF TypeOK
<1>4. CASE Poll
  <2>0. Ready \subseteq Pipes
    BY Zenon DEF Ready
  <2>1. Plain'
    BY <1>0, <1>4, <2>0 DEF Poll, world, signals, Events, ControlType, CountType, ReapType, SignalType, WorldType, OutcomeType
  <2>2. FlagType'
    BY <1>0, <1>4, Zenon DEF Poll, Ready, world, signals, Events, Pipes, FlagType
  <2> QED
    BY <2>1, <2>2 DEF TypeOK
<1>5. CASE WriteInput
  <2>1. Plain'
    <3>1. /\ inputOffset' = inputOffset \/ inputOffset' \in 0 .. InputSize
          /\ buf' = buf \/ buf' \in [Pipes -> Nat]
      <4>1. SendBytes => inputOffset' \in 0 .. InputSize /\ buf' \in [Pipes -> Nat]
        <5> SUFFICES ASSUME NEW k \in 1 .. InputSize - inputOffset,
                            buf' = [buf EXCEPT !["in"] = @ + k],
                            inputOffset' = inputOffset + k
                     PROVE  inputOffset' \in 0 .. InputSize /\ buf' \in [Pipes -> Nat]
          BY DEF SendBytes
        <5> QED
          BY <1>0, LimitsAssumption DEF ControlType, WorldType, Pipes
      <4> QED
        BY <1>5, <4>1, Zenon DEF WriteInput
    <3>2. event' \in {event, "SUPERVISOR_FAULT"}
      BY <1>5, Zenon DEF WriteInput
    <3>3. pending' \in {pending, pending \cup {"thread"}}
      BY <1>5, Zenon DEF WriteInput
    <3>4. pc' = "drain-out" /\ UNCHANGED <<revents, count, kept, eof, leaderInfo, elapsed,
             cleaning, before, previous, blocked, arrived, proc, fds, doomed, status, written, outcome>>
      BY <1>5, Zenon DEF WriteInput
    <3> QED
      BY <1>0, <3>1, <3>2, <3>3, <3>4 DEF Events, ControlType, CountType, ReapType, SignalType, WorldType, OutcomeType
  <2>2. FlagType'
    <3>1. SendBytes => inputOpen' \in BOOLEAN
      BY DEF SendBytes
    <3> QED
      BY <1>0, <1>5, <3>1, Zenon DEF WriteInput, FlagType
  <2> QED
    BY <2>1, <2>2 DEF TypeOK
<1>6. CASE DrainStdout
  <2>1. Plain'
    BY <1>0, <1>6, LimitsAssumption, CapType DEF DrainStdout, Drain, ReadPipe, Copied, Seen, Allowance, Cap, signals, Events, Pipes, Outputs, ControlType, CountType, ReapType, SignalType, WorldType, OutcomeType
  <2>2. FlagType'
    BY <1>0, <1>6, Zenon DEF DrainStdout, Drain, ReadPipe, Copied, Seen, Allowance, Cap, signals, Events, Pipes, Outputs, FlagType
  <2> QED
    BY <2>1, <2>2 DEF TypeOK
<1>7. CASE DrainStderr
  <2>1. Plain'
    BY <1>0, <1>7, LimitsAssumption, CapType DEF DrainStderr, Drain, ReadPipe, Copied, Seen, Allowance, Cap, signals, Events, Pipes, Outputs, ControlType, CountType, ReapType, SignalType, WorldType, OutcomeType
  <2>2. FlagType'
    BY <1>0, <1>7, Zenon DEF DrainStderr, Drain, ReadPipe, Copied, Seen, Allowance, Cap, signals, Events, Pipes, Outputs, FlagType
  <2> QED
    BY <2>1, <2>2 DEF TypeOK
<1>8. CASE DrainExec
  <2>1. Plain'
    BY <1>0, <1>8, LimitsAssumption, CapType DEF DrainExec, Drain, ReadPipe, Copied, Seen, Allowance, Cap, signals, Events, Pipes, Outputs, ControlType, CountType, ReapType, SignalType, WorldType, OutcomeType
  <2>2. FlagType'
    BY <1>0, <1>8, Zenon DEF DrainExec, Drain, ReadPipe, Copied, Seen, Allowance, Cap, signals, Events, Pipes, Outputs, FlagType
  <2> QED
    BY <2>1, <2>2 DEF TypeOK
<1>9. CASE Judge
  <2>1. Plain'
    BY <1>0, <1>9, LimitsAssumption, CapType DEF Judge, Verdict, world, signals, Events, ControlType, CountType, ReapType, SignalType, WorldType, OutcomeType
  <2>2. FlagType'
    BY <1>0, <1>9, Zenon DEF Judge, Verdict, world, signals, Events, FlagType
  <2> QED
    BY <2>1, <2>2 DEF TypeOK
<1>10. CASE WaitLeader
  <2>1. Plain'
    BY <1>0, <1>10, LimitsAssumption, CapType DEF WaitLeader, ExitEvent, world, signals, Events, ControlType, CountType, ReapType, SignalType, WorldType, OutcomeType
  <2>2. FlagType'
    BY <1>0, <1>10, Zenon DEF WaitLeader, ExitEvent, world, signals, Events, FlagType
  <2> QED
    BY <2>1, <2>2 DEF TypeOK
<1>11. CASE KillGroup
  <2>1. Plain'
    BY <1>0, <1>11, LimitsAssumption, CapType DEF KillGroup, signals, ControlType, CountType, ReapType, SignalType, WorldType, OutcomeType
  <2>2. FlagType'
    BY <1>0, <1>11, Zenon DEF KillGroup, signals, FlagType
  <2> QED
    BY <2>1, <2>2 DEF TypeOK
<1>12. CASE Reap
  <2>1. Plain'
    BY <1>0, <1>12, LimitsAssumption, CapType DEF Reap, signals, Procs, ControlType, CountType, ReapType, SignalType, WorldType, OutcomeType
  <2>2. FlagType'
    BY <1>0, <1>12, Zenon DEF Reap, signals, Procs, FlagType
  <2> QED
    BY <2>1, <2>2 DEF TypeOK
<1>13. CASE ReapFault
  <2>1. Plain'
    BY <1>0, <1>13, LimitsAssumption, CapType DEF ReapFault, world, signals, ControlType, CountType, ReapType, SignalType, WorldType, OutcomeType
  <2>2. FlagType'
    BY <1>0, <1>13, Zenon DEF ReapFault, world, signals, FlagType
  <2> QED
    BY <2>1, <2>2 DEF TypeOK
<1>14. CASE Conclude
  <2>1. Plain'
    BY <1>0, <1>14, LimitsAssumption, CapType DEF Conclude, RestoreMask, Dequeue, DecodeNative, NoOutcome, world, Events, Outputs, ControlType, CountType, ReapType, SignalType, WorldType, OutcomeType
  <2>2. FlagType'
    BY <1>0, <1>14, Zenon DEF Conclude, RestoreMask, Dequeue, DecodeNative, NoOutcome, world, Events, Outputs, FlagType
  <2> QED
    BY <2>1, <2>2 DEF TypeOK
<1> QED
  BY <1>1, <1>2, <1>3, <1>4, <1>5, <1>6, <1>7, <1>8, <1>9, <1>10, <1>11, <1>12, <1>13, <1>14 DEF SupervisorNext, SupervisorStep

(* Every step of the worker, the clock and SIGPIPE senders keeps the       *)
(* types.                                                                  *)
LEMMA TypeWorld == TypeOK /\ (WorkerNext \/ Tick \/ SigpipeArrives) => TypeOK'
<1> SUFFICES ASSUME TypeOK, WorkerNext \/ Tick \/ SigpipeArrives PROVE TypeOK'
  OBVIOUS
<1> DEFINE Plain == ControlType /\ CountType /\ ReapType /\ SignalType /\ WorldType /\ OutcomeType
<1>0. Plain /\ FlagType
  BY DEF TypeOK
<1>1. CASE ExecOk
  <2>1. Plain'
    BY <1>0, <1>1, LimitsAssumption DEF ExecOk, Procs, supervisor, signals, world, ControlType, CountType, ReapType, SignalType, WorldType, OutcomeType
  <2>2. FlagType'
    BY <1>0, <1>1, Zenon DEF ExecOk, supervisor, signals, world, FlagType
  <2> QED
    BY <2>1, <2>2 DEF TypeOK
<1>2. CASE ExecFail
  <2>1. Plain'
    BY <1>0, <1>2, LimitsAssumption DEF ExecFail, Pipes, Outputs, Procs, supervisor, signals, world, ControlType, CountType, ReapType, SignalType, WorldType, OutcomeType
  <2>2. FlagType'
    BY <1>0, <1>2, Zenon DEF ExecFail, supervisor, signals, world, FlagType
  <2> QED
    BY <2>1, <2>2 DEF TypeOK
<1>3. CASE ForkHelper
  <2>1. Plain'
    BY <1>0, <1>3, LimitsAssumption DEF ForkHelper, Procs, supervisor, signals, world, ControlType, CountType, ReapType, SignalType, WorldType, OutcomeType
  <2>2. FlagType'
    BY <1>0, <1>3, Zenon DEF ForkHelper, supervisor, signals, world, FlagType
  <2> QED
    BY <2>1, <2>2 DEF TypeOK
<1>4. CASE EscapeGroup
  <2>1. Plain'
    BY <1>0, <1>4, LimitsAssumption DEF EscapeGroup, Procs, supervisor, signals, world, ControlType, CountType, ReapType, SignalType, WorldType, OutcomeType
  <2>2. FlagType'
    BY <1>0, <1>4, Zenon DEF EscapeGroup, supervisor, signals, world, FlagType
  <2> QED
    BY <2>1, <2>2 DEF TypeOK
<1>5. CASE HelperCollected
  <2>1. Plain'
    BY <1>0, <1>5, LimitsAssumption DEF HelperCollected, Procs, supervisor, signals, world, ControlType, CountType, ReapType, SignalType, WorldType, OutcomeType
  <2>2. FlagType'
    BY <1>0, <1>5, Zenon DEF HelperCollected, supervisor, signals, world, FlagType
  <2> QED
    BY <2>1, <2>2 DEF TypeOK
<1>6. ASSUME NEW q \in Procs, ReadRequest(q) PROVE TypeOK'
  <2>1. Plain'
    BY <1>0, <1>6, LimitsAssumption DEF ReadRequest, Procs, Pipes, supervisor, signals, world, ControlType, CountType, ReapType, SignalType, WorldType, OutcomeType
  <2>2. FlagType'
    BY <1>0, <1>6, Zenon DEF ReadRequest, supervisor, signals, world, FlagType
  <2> QED
    BY <2>1, <2>2 DEF TypeOK
<1>7. ASSUME NEW q \in Procs, Exit(q) PROVE TypeOK'
  <2>1. Plain'
    BY <1>0, <1>7, LimitsAssumption DEF Exit, Procs, Alive, supervisor, signals, world, ControlType, CountType, ReapType, SignalType, WorldType, OutcomeType
  <2>2. FlagType'
    BY <1>0, <1>7, Zenon DEF Exit, supervisor, signals, world, FlagType
  <2> QED
    BY <2>1, <2>2 DEF TypeOK
<1>8. ASSUME NEW q \in Procs, NEW p \in {"out", "err"}, Write(q, p) PROVE TypeOK'
  <2>1. Plain'
    BY <1>0, <1>8, LimitsAssumption DEF Write, Procs, Pipes, Outputs, supervisor, signals, world, ControlType, CountType, ReapType, SignalType, WorldType, OutcomeType
  <2>2. FlagType'
    BY <1>0, <1>8, Zenon DEF Write, supervisor, signals, world, FlagType
  <2> QED
    BY <2>1, <2>2 DEF TypeOK
<1>9. ASSUME NEW q \in Procs, NEW p \in {"in", "out", "err"}, CloseEnd(q, p) PROVE TypeOK'
  <2>1. Plain'
    BY <1>0, <1>9, LimitsAssumption DEF CloseEnd, Procs, Pipes, supervisor, signals, world, ControlType, CountType, ReapType, SignalType, WorldType, OutcomeType
  <2>2. FlagType'
    BY <1>0, <1>9, Zenon DEF CloseEnd, supervisor, signals, world, FlagType
  <2> QED
    BY <2>1, <2>2 DEF TypeOK
<1>10. CASE Tick
  <2>1. Plain'
    BY <1>0, <1>10, LimitsAssumption DEF Tick, Procs, supervisor, signals, world, ControlType, CountType, ReapType, SignalType, WorldType, OutcomeType
  <2>2. FlagType'
    BY <1>0, <1>10, Zenon DEF Tick, supervisor, signals, world, FlagType
  <2> QED
    BY <2>1, <2>2 DEF TypeOK
<1>11. CASE SigpipeArrives
  <2>1. Plain'
    BY <1>0, <1>11, LimitsAssumption DEF SigpipeArrives, Procs, supervisor, signals, world, ControlType, CountType, ReapType, SignalType, WorldType, OutcomeType
  <2>2. FlagType'
    BY <1>0, <1>11, Zenon DEF SigpipeArrives, supervisor, signals, world, FlagType
  <2> QED
    BY <2>1, <2>2 DEF TypeOK
<1> QED
  BY <1>1, <1>2, <1>3, <1>4, <1>5, <1>6, <1>7, <1>8, <1>9, <1>10, <1>11 DEF WorkerNext

\* No step of any party takes a variable out of its range: in particular the
\* counts never pass the one byte that reveals an overflow, and the bytes copied
\* of stdout never pass the size of the buffer allocated for them.
THEOREM TypeCorrect == Spec => []TypeOK
<1>1. TypeOK /\ [Next]_vars => TypeOK'
  <2>1. TypeOK /\ UNCHANGED vars => TypeOK'
    BY DEF vars, supervisor, signals, world, TypeOK, FlagType, ControlType, CountType, ReapType, SignalType, WorldType, OutcomeType
  <2> QED
    BY <2>1, TypeSupervisor, TypeWorld DEF Next, Returned
<1> QED
  BY TypeInit, <1>1, PTL DEF Spec

-----------------------------------------------------------------------------
(* The inductive invariant behind the safety theorems.                     *)

\* Which events are possible at which point of the turn, and that the turn
\* only continues while both counts are within their caps.
Phase ==
  /\ pc \in {"start", "poll", "write"} => event = "none"
  /\ pc \in {"drain-out", "drain-err", "drain-exec", "judge"} =>
       event \in {"none", "SUPERVISOR_FAULT"}
  /\ pc = "wait" => event \notin {"SUCCESS", "NONZERO_EXIT", "SIGNALED"}
  /\ pc = "wait" /\ event = "none" =>
       count["out"] <= StdoutCap /\ count["err"] <= StderrCap
  /\ pc \in {"start", "poll", "write", "drain-out", "drain-err", "drain-exec"} =>
       count["exec"] = 0
  /\ pc # "done" => outcome = NoOutcome

\* What each event says of the counts, the pipes and the leader.
Verdicts ==
  /\ event = "STDOUT_LIMIT" => count["out"] = StdoutCap + 1
  /\ event = "STDERR_LIMIT" => count["err"] = StderrCap + 1
  /\ event = "SUCCESS" => count["out"] <= StdoutCap /\ leaderInfo = "exit0"
  /\ event \in {"SUCCESS", "NONZERO_EXIT", "SIGNALED"} => eof = Outputs
  /\ count["exec"] # 0 => event = "SUPERVISOR_FAULT"

\* No byte is lost or invented between the processes and the supervisor.
Conservation == \A p \in Outputs : written[p] = buf[p] + count[p]

\* End of file is final: no process can come to hold the pipe again.
Ends ==
  /\ \A p \in eof : buf[p] = 0 /\ \A q \in Procs : p \notin fds[q]
  /\ proc["leader"] \in {"forked", "failing"} => fds["leader"] = Pipes
  /\ pc = "start" => eof = {} /\ leaderInfo = "none" /\ proc["leader"] = "none"
  /\ leaderInfo # "none" => proc["leader"] \in {"zombie", "reaped"} /\ status = leaderInfo

\* An accepted response was built from the counts of a success.
Reported ==
  outcome.response = "some" =>
    event = "SUCCESS" /\ outcome.stdout = count["out"] /\ count["err"] = 0

IInv == Phase /\ Verdicts /\ Conservation /\ Ends /\ Reported

(* The inductive invariant holds when the supervisor is called.            *)
LEMMA InvInit == Init => IInv
<1> SUFFICES ASSUME Init PROVE IInv
  OBVIOUS
<1>1. count["out"] = 0 /\ count["err"] = 0 /\ count["exec"] = 0
  BY DEF Init, Outputs
<1>2. Conservation
  BY DEF Init, Conservation, Outputs, Pipes
<1>3. Ends
  BY DEF Init, Ends, Procs
<1> QED
  BY <1>1, <1>2, <1>3, LimitsAssumption DEF IInv, Init, Phase, Verdicts, Reported, NoOutcome

(* Every step of the supervisor keeps the inductive invariant.             *)
LEMMA InvSupervisor == TypeOK /\ IInv /\ SupervisorNext => IInv'
<1> SUFFICES ASSUME TypeOK, IInv, SupervisorNext PROVE IInv'
  OBVIOUS
<1>0. TypeOK /\ IInv
  OBVIOUS
<1>1. CASE Refuse
  BY <1>0, <1>1, LimitsAssumption DEF Refuse, NoOutcome, world, signals, TypeOK, ControlType, CountType, WorldType, OutcomeType, IInv, Phase, Verdicts, Conservation, Ends, Reported
<1>2. CASE LaunchFault
  BY <1>0, <1>2, LimitsAssumption DEF LaunchFault, BlockSigpipe, world, signals, Events, TypeOK, ControlType, CountType, WorldType, OutcomeType, IInv, Phase, Verdicts, Conservation, Ends, Reported
<1>3. CASE Launch
  BY <1>0, <1>3, LimitsAssumption DEF Launch, BlockSigpipe, signals, Events, Pipes, Procs, Outputs, TypeOK, ControlType, CountType, WorldType, OutcomeType, IInv, Phase, Verdicts, Conservation, Ends, Reported
<1>4. CASE Poll
  BY <1>0, <1>4, LimitsAssumption DEF Poll, Ready, world, signals, Events, Pipes, TypeOK, ControlType, CountType, WorldType, OutcomeType, IInv, Phase, Verdicts, Conservation, Ends, Reported
<1>5. CASE WriteInput
  BY <1>0, <1>5, LimitsAssumption DEF WriteInput, SendBytes, Events, Pipes, Outputs, TypeOK, ControlType, CountType, WorldType, OutcomeType, IInv, Phase, Verdicts, Conservation, Ends, Reported
<1>6. CASE DrainStdout
  BY <1>0, <1>6, LimitsAssumption DEF DrainStdout, Drain, ReadPipe, Copied, Seen, Allowance, Cap, ExecFailureSeen, Holders, signals, Events, Pipes, Outputs, TypeOK, ControlType, CountType, WorldType, OutcomeType, IInv, Phase, Verdicts, Conservation, Ends, Reported
<1>7. CASE DrainStderr
  BY <1>0, <1>7, LimitsAssumption DEF DrainStderr, Drain, ReadPipe, Copied, Seen, Allowance, Cap, ExecFailureSeen, Holders, signals, Events, Pipes, Outputs, TypeOK, ControlType, CountType, WorldType, OutcomeType, IInv, Phase, Verdicts, Conservation, Ends, Reported
<1>8. CASE DrainExec
  BY <1>0, <1>8, LimitsAssumption DEF DrainExec, Drain, ReadPipe, Copied, Seen, Allowance, Cap, ExecFailureSeen, Holders, signals, Events, Pipes, Outputs, TypeOK, ControlType, CountType, WorldType, OutcomeType, IInv, Phase, Verdicts, Conservation, Ends, Reported
<1>9. CASE Judge
  BY <1>0, <1>9, LimitsAssumption DEF Judge, Verdict, Cap, Outputs, world, signals, Events, TypeOK, ControlType, CountType, WorldType, OutcomeType, IInv, Phase, Verdicts, Conservation, Ends, Reported
<1>10. CASE WaitLeader
  BY <1>0, <1>10, LimitsAssumption DEF WaitLeader, ExitEvent, Finished, world, signals, Events, TypeOK, ControlType, CountType, WorldType, OutcomeType, IInv, Phase, Verdicts, Conservation, Ends, Reported
<1>11. CASE KillGroup
  BY <1>0, <1>11, LimitsAssumption DEF KillGroup, signals, TypeOK, ControlType, CountType, WorldType, OutcomeType, IInv, Phase, Verdicts, Conservation, Ends, Reported
<1>12. CASE Reap
  BY <1>0, <1>12, LimitsAssumption DEF Reap, signals, Procs, TypeOK, ControlType, CountType, WorldType, OutcomeType, IInv, Phase, Verdicts, Conservation, Ends, Reported
<1>13. CASE ReapFault
  BY <1>0, <1>13, LimitsAssumption DEF ReapFault, world, signals, TypeOK, ControlType, CountType, WorldType, OutcomeType, IInv, Phase, Verdicts, Conservation, Ends, Reported
<1>14. CASE Conclude
  BY <1>0, <1>14, LimitsAssumption DEF Conclude, RestoreMask, Dequeue, DecodeNative, NoOutcome, world, Events, Outputs, TypeOK, ControlType, CountType, WorldType, OutcomeType, IInv, Phase, Verdicts, Conservation, Ends, Reported
<1> QED
  BY <1>1, <1>2, <1>3, <1>4, <1>5, <1>6, <1>7, <1>8, <1>9, <1>10, <1>11, <1>12, <1>13, <1>14 DEF SupervisorNext, SupervisorStep

(* Every step of the worker, the clock and SIGPIPE senders keeps the       *)
(* inductive invariant.                                                    *)
LEMMA InvWorld == TypeOK /\ IInv /\ (WorkerNext \/ Tick \/ SigpipeArrives) => IInv'
<1> SUFFICES ASSUME TypeOK, IInv, WorkerNext \/ Tick \/ SigpipeArrives PROVE IInv'
  OBVIOUS
<1>0. TypeOK /\ IInv
  OBVIOUS
<1>1. CASE ExecOk
  BY <1>0, <1>1, LimitsAssumption DEF ExecOk, Procs, Pipes, Outputs, supervisor, signals, world, TypeOK, ControlType, CountType, WorldType, OutcomeType, IInv, Phase, Verdicts, Conservation, Ends, Reported
<1>2. CASE ExecFail
  BY <1>0, <1>2, LimitsAssumption DEF ExecFail, Pipes, Outputs, Procs, supervisor, signals, world, TypeOK, ControlType, CountType, WorldType, OutcomeType, IInv, Phase, Verdicts, Conservation, Ends, Reported
<1>3. CASE ForkHelper
  BY <1>0, <1>3, LimitsAssumption DEF ForkHelper, Procs, Outputs, supervisor, signals, world, TypeOK, ControlType, CountType, WorldType, OutcomeType, IInv, Phase, Verdicts, Conservation, Ends, Reported
<1>4. CASE EscapeGroup
  BY <1>0, <1>4, LimitsAssumption DEF EscapeGroup, Procs, supervisor, signals, world, TypeOK, ControlType, CountType, WorldType, OutcomeType, IInv, Phase, Verdicts, Conservation, Ends, Reported
<1>5. CASE HelperCollected
  BY <1>0, <1>5, LimitsAssumption DEF HelperCollected, Procs, supervisor, signals, world, TypeOK, ControlType, CountType, WorldType, OutcomeType, IInv, Phase, Verdicts, Conservation, Ends, Reported
<1>6. ASSUME NEW q \in Procs, ReadRequest(q) PROVE IInv'
  BY <1>0, <1>6, LimitsAssumption DEF ReadRequest, Procs, Pipes, Outputs, supervisor, signals, world, TypeOK, ControlType, CountType, WorldType, OutcomeType, IInv, Phase, Verdicts, Conservation, Ends, Reported
<1>7. ASSUME NEW q \in Procs, Exit(q) PROVE IInv'
  BY <1>0, <1>7, LimitsAssumption DEF Exit, Procs, Alive, Outputs, Pipes, supervisor, signals, world, TypeOK, ControlType, CountType, WorldType, OutcomeType, IInv, Phase, Verdicts, Conservation, Ends, Reported
<1>8. ASSUME NEW q \in Procs, NEW p \in {"out", "err"}, Write(q, p) PROVE IInv'
  BY <1>0, <1>8, LimitsAssumption DEF Write, Procs, Pipes, Outputs, supervisor, signals, world, TypeOK, ControlType, CountType, WorldType, OutcomeType, IInv, Phase, Verdicts, Conservation, Ends, Reported
<1>9. ASSUME NEW q \in Procs, NEW p \in {"in", "out", "err"}, CloseEnd(q, p) PROVE IInv'
  BY <1>0, <1>9, LimitsAssumption DEF CloseEnd, Procs, Pipes, Outputs, supervisor, signals, world, TypeOK, ControlType, CountType, WorldType, OutcomeType, IInv, Phase, Verdicts, Conservation, Ends, Reported
<1>10. CASE Tick
  BY <1>0, <1>10, LimitsAssumption DEF Tick, Procs, supervisor, signals, world, TypeOK, ControlType, CountType, WorldType, OutcomeType, IInv, Phase, Verdicts, Conservation, Ends, Reported
<1>11. CASE SigpipeArrives
  BY <1>0, <1>11, LimitsAssumption DEF SigpipeArrives, Procs, supervisor, signals, world, TypeOK, ControlType, CountType, WorldType, OutcomeType, IInv, Phase, Verdicts, Conservation, Ends, Reported
<1> QED
  BY <1>1, <1>2, <1>3, <1>4, <1>5, <1>6, <1>7, <1>8, <1>9, <1>10, <1>11 DEF WorkerNext

(* Types and the inductive invariant hold in every reachable state.        *)
LEMMA Invariance == Spec => [](TypeOK /\ IInv)
<1>1. TypeOK /\ IInv /\ [Next]_vars => IInv'
  <2>1. IInv /\ UNCHANGED vars => IInv'
    BY DEF vars, supervisor, signals, world, IInv, Phase, Verdicts, Conservation, Ends, Reported
  <2> QED
    BY <2>1, InvSupervisor, InvWorld DEF Next, Returned
<1> QED
  BY InvInit, <1>1, TypeCorrect, PTL DEF Spec

\* The sizes and events of the C side always pass the checks of decodeNative.
LEMMA DecodeAccepts ==
  ASSUME TypeOK, IInv, pc = "conclude", NEW e \in {event, "SUPERVISOR_FAULT"},
         NEW payload, payload = IF e = "SUCCESS" THEN count["out"] ELSE 0
  PROVE  DecodeNative(e, count["out"], count["err"], payload) = "none"
<1>1. count["out"] <= StdoutCap + 1 /\ count["err"] <= StderrCap + 1
  BY DEF TypeOK, CountType, Outputs, Cap
<1> QED
  BY <1>1 DEF DecodeNative, IInv, Verdicts

\* Whatever the limits and the worker do, the Lean decoder accepts the wire the
\* C side builds (pf_ok's 30-byte header against decodeNative).
THEOREM WireAcceptedCorrect == Spec => []WireAccepted
<1>1. Init => WireAccepted
  BY DEF Init, WireAccepted, NoOutcome
<1>2. TypeOK /\ IInv /\ WireAccepted /\ [Next]_vars => WireAccepted'
  <2> SUFFICES ASSUME TypeOK, IInv, WireAccepted, [Next]_vars PROVE WireAccepted'
    OBVIOUS
  <2>0. CASE UNCHANGED outcome
    <3>1. pc # "done" => outcome.fault = "none"
      BY DEF IInv, Phase, NoOutcome
    <3>2. pc = "done" => UNCHANGED event
      BY DEF Next, SupervisorNext, SupervisorStep, WorkerNext, Tick, SigpipeArrives, Returned, vars, supervisor,
             Refuse, LaunchFault, Launch, Poll, WriteInput, DrainStdout, DrainStderr, DrainExec, Drain,
             Judge, WaitLeader, KillGroup, Reap, ReapFault, Conclude
    <3> QED
      BY <2>0, <3>1, <3>2 DEF WireAccepted
  <2>1. CASE ~UNCHANGED outcome
   <3>1. Refuse \/ Conclude
     BY <2>1 DEF Next, SupervisorNext, SupervisorStep, WorkerNext, Tick, SigpipeArrives, Returned, vars,
            supervisor, LaunchFault, Launch, Poll, WriteInput, DrainStdout, DrainStderr, DrainExec, Drain,
            Judge, WaitLeader, KillGroup, Reap, ReapFault, ExecOk, ExecFail, ReadRequest, Write,
            CloseEnd, ForkHelper, EscapeGroup, Exit, HelperCollected
   <3>2. CASE Refuse
     BY <3>2 DEF Refuse, WireAccepted, IInv, Phase
   <3>3. CASE Conclude
     BY <3>3, DecodeAccepts DEF Conclude, RestoreMask, WireAccepted, NoOutcome
   <3> QED
     BY <3>1, <3>2, <3>3
  <2> QED
    BY <2>0, <2>1
<1> QED
  BY <1>1, <1>2, Invariance, PTL DEF Spec

\* At a success the wire carries exactly the bytes kept, which fit the buffer the
\* C side allocated with the caller's cap.
THEOREM PayloadKeptCorrect == Spec => []PayloadKept
<1>1. TypeOK /\ IInv => PayloadKept
  BY DEF TypeOK, CountType, Outputs, IInv, Verdicts, PayloadKept
<1> QED
  BY <1>1, Invariance, PTL

\* An accepted response is the complete output of a worker that was executed,
\* exited with status 0 and wrote nothing to standard error.
THEOREM ResponseIsWholeCorrect == Spec => []ResponseIsWhole
<1>1. TypeOK /\ IInv => ResponseIsWhole
  BY DEF TypeOK, CountType, WorldType, IInv, Reported, Verdicts, Ends, Conservation,
         ResponseIsWhole, Outputs, Pipes
<1> QED
  BY <1>1, Invariance, PTL

\* A child that could not become the worker is never reported as one that ended.
THEOREM ExecFailureNotAnExitCorrect == Spec => []ExecFailureNotAnExit
<1>1. TypeOK /\ IInv => ExecFailureNotAnExit
  BY DEF TypeOK, CountType, WorldType, IInv, Verdicts, Ends, Conservation,
         ExecFailureNotAnExit, Outputs, Pipes
<1> QED
  BY <1>1, Invariance, PTL

\* No later step of a turn replaces a supervisor fault.
THEOREM FaultSticksCorrect == Spec => FaultSticks
<1>1. TypeOK /\ IInv /\ [Next]_vars
        => [event = "SUPERVISOR_FAULT" => event' = "SUPERVISOR_FAULT"]_vars
  <2> SUFFICES ASSUME IInv, Next, event = "SUPERVISOR_FAULT"
               PROVE  event' = "SUPERVISOR_FAULT"
    BY DEF vars
  <2>1. CASE SupervisorNext
    BY <2>1 DEF SupervisorNext, SupervisorStep, IInv, Phase, Refuse, LaunchFault, Launch, Poll, WriteInput,
           DrainStdout, DrainStderr, DrainExec, Drain, Judge, Verdict, WaitLeader, KillGroup,
           Reap, ReapFault, Conclude, RestoreMask
  <2>2. CASE WorkerNext \/ Tick \/ SigpipeArrives \/ Returned
    BY <2>2 DEF WorkerNext, Tick, SigpipeArrives, Returned, vars, supervisor, ExecOk, ExecFail,
           ReadRequest, Write, CloseEnd, ForkHelper, EscapeGroup, Exit, HelperCollected
  <2> QED
    BY <2>1, <2>2 DEF Next
<1> QED
  BY <1>1, Invariance, PTL DEF Spec, FaultSticks

-----------------------------------------------------------------------------
(* The signal the call makes pending, and the group it reports empty.      *)

\* What is pending is what was pending, what the call's own write raised and
\* what others sent, until the call takes its own back.
Raised ==
  /\ pc = "start" => ~masked
  /\ pc \notin {"start", "conclude", "done"} => masked
  /\ ~masked => ~generated /\ arrived = {}
  /\ masked /\ pc # "done" =>
       pending = before \cup arrived \cup (IF generated THEN {"thread"} ELSE {})

\* A leader that was collected stays collected, and nothing is reported early.
Collected ==
  /\ pc = "start" => ~reaped
  /\ reaped => proc["leader"] = "reaped"
  /\ pc # "done" => outcome = NoOutcome

(* The steps that concern neither signals nor who is left.                 *)
LEMMA EndsQuietly ==
  ASSUME TypeOK, [Next]_vars,
         ~(Refuse \/ LaunchFault \/ Launch \/ WriteInput \/ Conclude \/ SigpipeArrives)
  PROVE  /\ UNCHANGED <<masked, before, previous, blocked, generated, arrived, pending, outcome>>
         /\ (pc' = "start" <=> pc = "start") /\ (pc' = "done" <=> pc = "done")
         /\ pc' = "conclude" => pc \in {"kill", "reap", "conclude"}
         /\ pc = "conclude" => pc' = "conclude"
         /\ pc = "done" => UNCHANGED event
<1>1. CASE SupervisorNext
  BY <1>1 DEF SupervisorNext, SupervisorStep, Poll, DrainStdout, DrainStderr, DrainExec, Drain, Judge,
         WaitLeader, KillGroup, Reap, ReapFault, signals
<1>2. CASE WorkerNext
  BY <1>2 DEF WorkerNext, ExecOk, ExecFail, ReadRequest, Write, CloseEnd, ForkHelper, EscapeGroup,
         Exit, HelperCollected, supervisor, signals
<1>3. CASE Tick \/ Returned \/ UNCHANGED vars
  BY <1>3 DEF Tick, Returned, vars, supervisor, signals
<1> QED
  BY <1>1, <1>2, <1>3 DEF Next

(* Every step keeps what is known of the pending SIGPIPEs.                 *)
LEMMA RaisedNext == TypeOK /\ Raised /\ SigpipeRestored /\ [Next]_vars => Raised' /\ SigpipeRestored'
<1> SUFFICES ASSUME TypeOK, Raised, SigpipeRestored, [Next]_vars PROVE Raised' /\ SigpipeRestored'
  OBVIOUS
<1>1. CASE Refuse
  BY <1>1 DEF Refuse, signals, Raised, SigpipeRestored, Owed
<1>2. CASE LaunchFault \/ Launch
  BY <1>2 DEF LaunchFault, Launch, BlockSigpipe, signals, Raised, SigpipeRestored, Owed
<1>3. CASE WriteInput
  BY <1>3 DEF WriteInput, Raised, SigpipeRestored
<1>4. CASE Conclude
  <2>1. /\ pc = "conclude" /\ pc' = "done" /\ UNCHANGED <<masked, before, generated, arrived>>
        /\ UNCHANGED previous
        /\ pending' = IF OwnSigpipe THEN Dequeue(pending) ELSE pending
        /\ masked => blocked' = previous \/ event' = "SUPERVISOR_FAULT"
    BY <1>4 DEF Conclude, RestoreMask
  <2>2. Raised'
    BY <2>1 DEF Raised
  <2>3. SigpipeRestored'
    BY <2>1 DEF Raised, SigpipeRestored, Owed, OwnSigpipe, Dequeue
  <2> QED
    BY <2>2, <2>3
<1>5. CASE SigpipeArrives
  BY <1>5 DEF SigpipeArrives, supervisor, Raised, SigpipeRestored, Owed
<1>6. CASE ~(Refuse \/ LaunchFault \/ Launch \/ WriteInput \/ Conclude \/ SigpipeArrives)
  BY <1>6, EndsQuietly DEF Raised, SigpipeRestored, Owed
<1> QED
  BY <1>1, <1>2, <1>3, <1>4, <1>5, <1>6

\* Whatever others send, and whenever: what the call owes stays pending, its own
\* SIGPIPE does not stay alone, and the mask comes back or a fault is reported.
THEOREM SigpipeRestoredCorrect == Spec => []SigpipeRestored
<1>1. Init => Raised /\ SigpipeRestored
  BY DEF Init, Raised, SigpipeRestored
<1> QED
  BY <1>1, RaisedNext, TypeCorrect, PTL DEF Spec

(* Every step keeps what is known of the collected leader.                 *)
LEMMA CollectedNext == TypeOK /\ Collected /\ CleanupHonest /\ [Next]_vars => Collected' /\ CleanupHonest'
<1> SUFFICES ASSUME TypeOK, Collected, CleanupHonest, [Next]_vars PROVE Collected' /\ CleanupHonest'
  OBVIOUS
<1>1. CASE Refuse
  BY <1>1 DEF Refuse, world, NoOutcome, Collected, CleanupHonest
<1>2. CASE LaunchFault \/ Launch
  BY <1>2 DEF LaunchFault, Launch, world, NoOutcome, TypeOK, WorldType, Collected, CleanupHonest
<1>3. CASE Reap
  BY <1>3 DEF Reap, NoOutcome, TypeOK, WorldType, Procs, Collected, CleanupHonest
<1>4. CASE Conclude
  <2>1. pc' = "done" /\ UNCHANGED <<reaped, proc, escaped>>
    BY <1>4 DEF Conclude, world
  <2>2. outcome'.cleanup = "observedEmpty" => reaped /\ GroupEmpty(proc)
    BY <1>4 DEF Conclude, NoOutcome
  <2> QED
    BY <2>1, <2>2 DEF GroupEmpty, Collected, CleanupHonest
<1>5. CASE WorkerNext
  <2>1. pc # "done" /\ outcome = NoOutcome
    BY <1>5 DEF WorkerNext, Collected
  <2>2. UNCHANGED <<pc, reaped, outcome>>
    BY <1>5 DEF WorkerNext, ExecOk, ExecFail, ReadRequest, Write, CloseEnd, ForkHelper, EscapeGroup,
           Exit, HelperCollected, supervisor
  <2>3. proc["leader"] = "reaped" => proc'["leader"] = "reaped"
    BY <1>5 DEF WorkerNext, ExecOk, ExecFail, ReadRequest, Write, CloseEnd, ForkHelper, EscapeGroup,
           Exit, Alive, HelperCollected, TypeOK, WorldType, Procs
  <2> QED
    BY <2>1, <2>2, <2>3 DEF NoOutcome, Collected, CleanupHonest
<1>6. CASE ~(Refuse \/ LaunchFault \/ Launch \/ Reap \/ Conclude \/ WorkerNext)
  <2>1. UNCHANGED <<reaped, proc, escaped, outcome>> /\ (pc' = "start" <=> pc = "start")
        /\ (pc' = "done" <=> pc = "done")
    BY <1>6 DEF Next, SupervisorNext, SupervisorStep, Poll, WriteInput, DrainStdout, DrainStderr,
           DrainExec, Drain, Judge, WaitLeader, KillGroup, ReapFault, Tick, SigpipeArrives, Returned,
           vars, supervisor, world
  <2> QED
    BY <2>1 DEF Collected, CleanupHonest
<1> QED
  BY <1>1, <1>2, <1>3, <1>4, <1>5, <1>6

\* When the call reports an empty group, none of the worker's processes is left
\* in it.
THEOREM CleanupHonestCorrect == Spec => []CleanupHonest
<1>1. Init => Collected /\ CleanupHonest
  BY DEF Init, NoOutcome, Collected, CleanupHonest
<1> QED
  BY <1>1, CollectedNext, TypeCorrect, PTL DEF Spec
=============================================================================
