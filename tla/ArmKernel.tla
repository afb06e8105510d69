------------------------------ MODULE ArmKernel ------------------------------
(***************************************************************************)
(* The Cortex-M kernel of rtos/arm: main() of main.c boots on the main     *)
(* stack, SysTick requests a PendSV, and PendSV_Handler (context_switch.s) *)
(* saves the outgoing context on the process stack and restores the next   *)
(* task's, chosen by kernel_arm.c.                                         *)
(*                                                                         *)
(* A context is the hardware's half of the registers (r0-r3, r12, lr, pc,  *)
(* xpsr), pushed by the exception entry, and the handler's half (r4-r11).  *)
(* Each half is eight words and is one entry of a stack here.  What runs   *)
(* is decided by the restored pc, never by current_task_idx.               *)
(*                                                                         *)
(* No priority register is written, so the two exceptions have the same    *)
(* priority and neither handler interrupts the other.                      *)
(***************************************************************************)
EXTENDS Integers, Sequences

CONSTANTS
    RELOAD,    \* thread cycles from one SysTick to the next; more than the boot takes
    MaxCost,   \* bound: the cycles of one step of the program
    MaxCalls   \* bound: the depth of a task's calls

ASSUME ArmAssumption ==
    /\ RELOAD \in Nat \ {0} /\ MaxCost \in Nat
    /\ MaxCalls \in 0 .. 30  \* beside a context there is no room for more

NUM_TASKS == 2
Idx == 0 .. NUM_TASKS - 1
Boot == -1     \* main(), and boot_scratch_stack
Nowhere == -2  \* what psp points to after reset

VARIABLES
    stack,            \* task_stacks and boot_scratch_stack, from the top down
    task_sp,
    current_task_idx,
    psp, spsel,       \* the process stack pointer, and whether thread mode uses it
    low, high,        \* the two halves of the registers
    at,               \* the next step of main()
    cycles,           \* until the next SysTick, 0 while it is off
    systick, pendsv,  \* the pending exceptions
    progress,         \* history: how far each task has come
    stray             \* history: a word was stored outside the stacks

core == <<psp, spsel, low, high>>
kernel == <<stack, task_sp, current_task_idx>>
counter == <<cycles, systick>>
armVars == <<kernel, core, at, counter, pendsv, progress, stray>>

Context(who, n) == [who |-> who, n |-> n]
Pointer(s, depth) == [stack |-> s, depth |-> depth]

\* STACK_WORDS and BOOT_SCRATCH_WORDS, in halves of a context.
Room(s) == IF s = Boot THEN 8 ELSE 32

ArmInit ==
    /\ stack = [s \in Idx \cup {Boot} |-> <<>>]
    /\ task_sp = [i \in Idx |-> Pointer(Nowhere, 0)]
    /\ current_task_idx = -1
    /\ psp = Pointer(Nowhere, 0) /\ spsel = FALSE
    /\ low = Context(Boot, 0) /\ high = Context(Boot, 0)
    /\ at = "task_stack_init_0"
    /\ cycles = 0 /\ systick = FALSE /\ pendsv = FALSE
    /\ progress = [i \in Idx |-> 0]
    /\ stray = FALSE

-----------------------------------------------------------------------------
(* Stores and loads through a stack pointer *)

Inside(sp) == sp.stack # Nowhere /\ sp.depth < Room(sp.stack)

\* m is the stacks, the pointer, and whether a store went astray.
Push(m, half) ==
    LET s == m.sp.stack
    IN  [sp |-> [m.sp EXCEPT !.depth = @ + 1],
         stack |-> IF Inside(m.sp)
                   THEN [m.stack EXCEPT ![s] = SubSeq(@, 1, m.sp.depth) \o <<half>>]
                   ELSE m.stack,
         stray |-> m.stray \/ ~Inside(m.sp)]

Memory(sp) == [sp |-> sp, stack |-> stack, stray |-> stray]

\* The half saved k entries above a pointer to a task's stack.
Saved(m, sp, k) == m[sp.stack][sp.depth - k]

-----------------------------------------------------------------------------
(* main() *)

Runs(who) == low.who = who

\* SysTick counts the cycles of a step, and is pending when it has reached zero.
Elapse ==
    \E c \in 1 .. MaxCost :
      /\ cycles' = IF cycles = 0 THEN 0 ELSE IF cycles > c THEN cycles - c ELSE RELOAD
      /\ systick' = (systick \/ (cycles > 0 /\ cycles <= c))

task_stack_init(i) ==
    /\ stack' = [stack EXCEPT ![i] = <<Context(i, 0), Context(i, 0)>>]
    /\ task_sp' = [task_sp EXCEPT ![i] = Pointer(i, 2)]

boot_tasks ==
    /\ Runs(Boot)
    /\ \/ at = "task_stack_init_0" /\ task_stack_init(0) /\ at' = "task_stack_init_1"
       \/ at = "task_stack_init_1" /\ task_stack_init(1) /\ at' = "systick_init"
    /\ UNCHANGED <<current_task_idx, core, counter, pendsv, progress, stray>>

systick_init ==
    /\ Runs(Boot) /\ at = "systick_init"
    /\ at' = "prime"
    /\ cycles' = RELOAD
    /\ UNCHANGED <<kernel, core, systick, pendsv, progress, stray>>

prime_psp_for_first_switch ==
    /\ Runs(Boot) /\ at = "prime"
    /\ at' = "request"
    /\ psp' = Pointer(Boot, 0) /\ spsel' = TRUE
    /\ Elapse
    /\ UNCHANGED <<kernel, low, high, pendsv, progress, stray>>

request_context_switch ==
    /\ Runs(Boot) /\ at = "request"
    /\ at' = "error"
    /\ pendsv' = TRUE
    /\ Elapse
    /\ UNCHANGED <<kernel, core, progress, stray>>

\* The store that pends PendSV takes effect some instructions later: main() can
\* be inside uart_puts(), on the scratch stack, and even back from it.
error_print ==
    /\ Runs(Boot)
    /\ \/ /\ at = "error" /\ at' = "uart_puts"
          /\ LET m == Push(Memory(psp), Context(Boot, 0))
             IN  stack' = m.stack /\ psp' = m.sp /\ stray' = m.stray
       \/ /\ at = "uart_puts" /\ at' = "wfi"
          /\ psp' = [psp EXCEPT !.depth = @ - 1]
          /\ UNCHANGED <<stack, stray>>
    /\ Elapse
    /\ UNCHANGED <<task_sp, current_task_idx, spsel, low, high, pendsv, progress>>

-----------------------------------------------------------------------------
(* The tasks *)

\* A step of task_a or task_b: every register changes.
task_step(i) ==
    /\ Runs(i)
    /\ low' = Context(i, (low.n + 1) % 3)
    /\ high' = Context(high.who, (high.n + 1) % 3)
    /\ progress' = [progress EXCEPT ![i] = (@ + 1) % 3]
    /\ Elapse
    /\ UNCHANGED <<kernel, psp, spsel, at, pendsv, stray>>

\* It calls uart_puts() or busy_wait(), and returns from it.
task_call(i) ==
    /\ Runs(i)
    /\ \/ /\ psp.depth < MaxCalls
          /\ LET m == Push(Memory(psp), Context(i, 0))
             IN  stack' = m.stack /\ psp' = m.sp /\ stray' = m.stray
       \/ /\ psp.depth > 0
          /\ psp' = [psp EXCEPT !.depth = @ - 1]
          /\ stack' = [stack EXCEPT ![i] = SubSeq(@, 1, psp.depth - 1)]
          /\ UNCHANGED stray
    /\ Elapse
    /\ UNCHANGED <<task_sp, current_task_idx, spsel, low, high, at, pendsv, progress>>

-----------------------------------------------------------------------------
(* The handlers *)

SysTick_Handler ==
    /\ systick
    /\ systick' = FALSE /\ pendsv' = TRUE
    /\ UNCHANGED <<kernel, core, at, cycles, progress, stray>>

\* Faulty variant: the first task's turn never ends.
NextTaskStuck(idx) == IF idx < 0 THEN 0 ELSE idx

NextTask(idx) == (idx + 1) % NUM_TASKS

\* Faulty variant: the stack pointer of the outgoing task is not kept.
SavedPointersStale(current_sp) == task_sp

SavedPointers(current_sp) ==
    IF current_task_idx >= 0
    THEN [task_sp EXCEPT ![current_task_idx] = current_sp]
    ELSE task_sp

scheduler_switch_context(current_sp) ==
    /\ task_sp' = SavedPointers(current_sp)
    /\ current_task_idx' = NextTask(current_task_idx)

\* The stack pointer once both halves are restored.
Unstacked(sp) == Pointer(sp.stack, sp.depth - 2)

\* Exception entry pushes the low half on the stack in use, the handler the high
\* half on the process stack; the exit pops them from the next task's.
PendSV_Handler ==
    LET entry == IF spsel THEN Push(Memory(psp), low) ELSE Memory(psp)
        saved == Push(entry, high)
        sp == task_sp'[current_task_idx']
    IN  /\ pendsv
        /\ pendsv' = FALSE
        /\ scheduler_switch_context(saved.sp)
        /\ high' = Saved(saved.stack, sp, 0)
        /\ low' = Saved(saved.stack, sp, 1)
        /\ psp' = Unstacked(sp)
        /\ spsel' = TRUE
        /\ stack' = [saved.stack EXCEPT ![sp.stack] = SubSeq(@, 1, sp.depth - 2)]
        /\ stray' = saved.stray
        /\ UNCHANGED <<at, counter, progress>>

Main == boot_tasks \/ systick_init \/ prime_psp_for_first_switch
        \/ request_context_switch \/ error_print

ArmNext ==
    \/ Main
    \/ \E i \in Idx : task_step(i) \/ task_call(i)
    \/ SysTick_Handler
    \/ PendSV_Handler

\* The processor does not stop, nor leave an exception pending for ever; a
\* task does more than call and return.
ArmFairness ==
    /\ WF_armVars(Main)
    /\ WF_armVars(SysTick_Handler)
    /\ WF_armVars(PendSV_Handler)
    /\ \A i \in Idx : SF_armVars(task_step(i))

ArmSpec == ArmInit /\ [][ArmNext]_armVars /\ ArmFairness

-----------------------------------------------------------------------------
(* Properties *)

\* Once the first PendSV has come, the running task has in both halves of the
\* registers what it last had, the other task has it saved at its task_sp with
\* nothing but its own words above, and main() is gone for good (main.c, before
\* its error message: "control never reaches here again").  Nor is any context
\* ever stored outside the stacks: not by the first PendSV, which has no task to
\* save (prime_psp_for_first_switch() gives it the scratch stack), nor by one that
\* comes inside a call on the scratch stack (kernel_arm.c, on BOOT_SCRATCH_WORDS,
\* tells of a scratch stack of the frame's own size).
ContextsIntact ==
    /\ ~stray
    /\ current_task_idx >= 0 =>
         \A i \in Idx :
           LET own == Context(i, progress[i])
           IN  IF i = current_task_idx
               THEN low = own /\ high = own /\ psp.stack = i
               ELSE /\ task_sp[i] = Pointer(i, Len(stack[i]))
                    /\ Saved(stack, task_sp[i], 0) = own /\ Saved(stack, task_sp[i], 1) = own
                    /\ \A k \in DOMAIN stack[i] : stack[i][k].who = i

\* The tasks take turns for ever: each of them makes progress again and again,
\* though neither ever yields.
EachRuns == \A i \in Idx : []<><<task_step(i)>>_armVars
=============================================================================
