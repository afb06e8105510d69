------------------------------ MODULE MCKernels ------------------------------
(***************************************************************************)
(* The liveness of the two kernels, for model checking: the host's (module *)
(* Scheduler) and the board's (module ArmKernel).  They are different      *)
(* programs; machine says which one runs, the other stays in its initial   *)
(* state.                                                                  *)
(***************************************************************************)
EXTENDS Scheduler, ArmKernel

VARIABLE machine

all == <<machine, vars, armVars>>

Host(A) == machine = "host" /\ A /\ UNCHANGED <<machine, armVars>>
Board(A) == machine = "arm" /\ A /\ UNCHANGED <<machine, vars>>

KernelsInit == Init /\ ArmInit /\ machine \in {"host", "arm"}

KernelsNext == Host(Next) \/ Board(ArmNext)

\* The fairness of the modules.  Only one kernel runs, so a condition on an action of
\* the one and one on an action of the other are the same as one condition on either.
KernelsFairness ==
    /\ WF_all(Host(LoopStep) \/ Board(Main))
    /\ WF_all(Host(preempt_handler) \/ Board(SysTick_Handler))
    /\ \A t \in Slot : WF_all(Host(task_sleep_block(t)))
    /\ WF_all(Board(PendSV_Handler))
    /\ \A i \in Idx : SF_all(Board(task_step(i)))

KernelsSpec == KernelsInit /\ [][KernelsNext]_all /\ KernelsFairness

-----------------------------------------------------------------------------
(* The properties are the modules' own, but for one.                         *)

\* On the board each task makes progress again and again.
EachTaskRuns == machine = "arm" => EachRuns
==============================================================================
