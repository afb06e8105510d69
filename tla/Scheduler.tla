------------------------------ MODULE Scheduler ------------------------------
(***************************************************************************)
(* The host-native kernel of rtos/src: the task table, the scheduler_run   *)
(* loop, voluntary switches, task_sleep and the SIGALRM preempt_handler.   *)
(*                                                                         *)
(* One OS thread executes everything, so a step is a stretch of code that  *)
(* nothing can interleave with.  SIGALRM is the only source of             *)
(* concurrency: the tick actions may happen between any two steps taken    *)
(* with the signal unblocked, and never inside a block_alarm() region, the *)
(* handler itself, or a context resumed from either (their saved signal    *)
(* mask blocks SIGALRM until restore_mask() or sigreturn).                 *)
(*                                                                         *)
(* Tasks are the slots of g_tasks[]; a task_t's fields are functions of    *)
(* the slot.  Absolute tick counts are left out: wake_tick holds the       *)
(* number of ticks still to go, the only part of it the code compares.     *)
(***************************************************************************)
EXTENDS Integers

CONSTANTS
    SCHED_MAX_TASKS,   \* scheduler.h:8
    Priority,          \* the priorities task_spawn() is called with
    TicksPerSlice,     \* g_ticks_per_slice, after the clamp of line 249
    TickMs,            \* g_tick_ms, after the clamp of line 248
    SleepMs,           \* the arguments of task_sleep()
    MayPreempt,        \* does main() call scheduler_enable_preemption()?
    MayOverflow        \* do tasks overflow their stack?

ASSUME KernelAssumption ==
    /\ SCHED_MAX_TASKS \in Nat \ {0}
    /\ Priority \subseteq Int
    /\ TicksPerSlice \in Nat \ {0}
    /\ TickMs \in Nat \ {0}
    /\ SleepMs \subseteq Nat \ {0}
    /\ MayPreempt \in BOOLEAN
    /\ MayOverflow \in BOOLEAN

VARIABLES
    g_num_tasks, g_current_idx,      \* scheduler.c:12-13
    g_preempt_enabled,               \* scheduler.c:178
    g_ticks_since_switch,            \* scheduler.c:182
    state, priority, wake_tick, pending_preemptions,  \* task_t fields
    context,     \* what each task's saved ucontext resumes
    canary_ok,   \* are the guard bytes of each task's stack intact?
    in_sleep,    \* tasks between lines 296 and 297 of task_sleep()
    loop,        \* the position of main() and of scheduler_run()
    next,        \* scheduler_run()'s local variable
    cpu,         \* whose stack is executing: a slot, or LOOP
    \* History variables, read by no action's guard:
    owed,        \* ms each task still has to sleep by task_sleep()'s contract
    late         \* successive ticks whose executing task was outranked

table   == <<g_num_tasks, priority>>
timer   == <<g_preempt_enabled, g_ticks_since_switch>>
sleep   == <<wake_tick, in_sleep, owed>>
vars == <<table, timer, sleep, g_current_idx, state,
          pending_preemptions, context, canary_ok, loop, next, cpu, late>>

Slot == 0 .. SCHED_MAX_TASKS - 1
LOOP == -1           \* the stack of main(), on which scheduler_run() executes
NotSleeping == -1    \* wake_tick = 0 in the code

(***************************************************************************)
(* Positions of main(): outside scheduler_run ("main"); before line 110    *)
(* ("pick"), 116 ("mark") and 120 ("swap"); suspended in the swapcontext   *)
(* of line 122 ("in"); before the canary check of line 129 ("back");       *)
(* aborted by it ("aborted"); or "lost", once a task's only context has    *)
(* been overwritten with the loop's own stack (see TickInWindow).          *)
(***************************************************************************)
Position == {"main", "pick", "mark", "swap", "in", "back", "aborted", "lost"}
Halted == loop \in {"aborted", "lost"}

Registered == 0 .. g_num_tasks - 1

Init ==
    /\ g_num_tasks = 0
    /\ g_current_idx = -1
    /\ g_preempt_enabled = FALSE
    /\ g_ticks_since_switch = 0
    /\ state = [t \in Slot |-> "UNUSED"]
    /\ priority = [t \in Slot |-> 0]
    /\ wake_tick = [t \in Slot |-> NotSleeping]
    /\ pending_preemptions = [t \in Slot |-> 0]
    /\ context = [t \in Slot |-> "entry"]
    /\ canary_ok = [t \in Slot |-> TRUE]
    /\ in_sleep = {}
    /\ loop = "main"
    /\ next = -1
    /\ cpu = LOOP
    /\ owed = [t \in Slot |-> 0]
    /\ late = 0

-----------------------------------------------------------------------------
(* pick_next_ready *)

\* Faulty variant: the scan starts at the current task, not after it.
ScanFromCurrent(idx) ==
    (idx - (IF g_current_idx < 0 THEN 0 ELSE g_current_idx)) % g_num_tasks

\* The number of slots scanned before idx, starting after g_current_idx.
ScanDistance(idx) ==
    (idx - (IF g_current_idx < 0 THEN 0 ELSE g_current_idx + 1)) % g_num_tasks

\* Faulty variant: a BLOCKED task can be picked.
ReadyOrBlocked(st) == {t \in Registered : st[t] \in {"READY", "BLOCKED"}}

Ready(st) == {t \in Registered : st[t] = "READY"}

\* Faulty variant: round-robin that ignores the priorities.
pick_next_in_turn(st, idx) ==
    /\ idx \in Ready(st)
    /\ \A t \in Ready(st) : ScanDistance(idx) <= ScanDistance(t)

\* idx is what pick_next_ready() returns when the task states are st.
pick_next_ready(st, idx) ==
    /\ idx \in Ready(st)
    /\ \A t \in Ready(st) :
         /\ priority[t] <= priority[idx]
         /\ priority[t] = priority[idx] => ScanDistance(idx) <= ScanDistance(t)

any_task_active == \E t \in Registered : state[t] # "TERMINATED"

-----------------------------------------------------------------------------
(* Calls made by main() before, after and between runs of the kernel, and  *)
(* task_spawn(), which a running task may call too.                        *)

\* The task on the CPU, executing its own code with SIGALRM unblocked.
Executing(t) == cpu = t /\ t \notin in_sleep

Caller == (loop = "main") \/ (\E t \in Slot : Executing(t))

\* task_create(), then scheduler_add_task() on a table with a free slot.
task_spawn(p) ==
    /\ Caller
    /\ g_num_tasks < SCHED_MAX_TASKS
    /\ g_num_tasks' = g_num_tasks + 1
    /\ priority' = [priority EXCEPT ![g_num_tasks] = p]
    /\ state' = [state EXCEPT ![g_num_tasks] = "READY"]
    /\ UNCHANGED <<timer, sleep, g_current_idx, late,
                   pending_preemptions, context, canary_ok, loop, next, cpu>>

\* scheduler_add_task() on a full table returns silently: the caller gets a
\* task that will never run.
task_spawn_full ==
    /\ Caller
    /\ g_num_tasks >= SCHED_MAX_TASKS
    /\ UNCHANGED vars

scheduler_enable_preemption ==
    /\ MayPreempt
    /\ loop = "main"
    /\ g_preempt_enabled' = TRUE
    /\ g_ticks_since_switch' = 0
    /\ UNCHANGED <<table, sleep, g_current_idx, state, late,
                   pending_preemptions, context, canary_ok, loop, next, cpu>>

scheduler_disable_preemption ==
    /\ loop = "main"
    /\ g_preempt_enabled' = FALSE
    /\ UNCHANGED <<g_ticks_since_switch, table, sleep, g_current_idx, late,
                   state, pending_preemptions, context,
                   canary_ok, loop, next, cpu>>

\* scheduler_reset(); the tasks of the next run are new ones.
scheduler_reset ==
    /\ loop = "main"
    /\ g_num_tasks' = 0
    /\ g_current_idx' = -1
    /\ g_preempt_enabled' = FALSE
    /\ g_ticks_since_switch' = 0
    /\ state' = [t \in Slot |-> "UNUSED"]
    /\ priority' = [t \in Slot |-> 0]
    /\ wake_tick' = [t \in Slot |-> NotSleeping]
    /\ pending_preemptions' = [t \in Slot |-> 0]
    /\ context' = [t \in Slot |-> "entry"]
    /\ canary_ok' = [t \in Slot |-> TRUE]
    /\ owed' = [t \in Slot |-> 0]
    /\ UNCHANGED <<in_sleep, loop, next, cpu, late>>

-----------------------------------------------------------------------------
(* scheduler_run *)

run_start ==
    /\ loop = "main"
    /\ loop' = "pick"
    /\ UNCHANGED <<table, timer, sleep, g_current_idx, state,
                   pending_preemptions, context, canary_ok, next, cpu, late>>

\* The loop ends when every task has terminated.
run_end ==
    /\ loop = "pick"
    /\ ~any_task_active
    /\ g_current_idx' = -1
    /\ loop' = "main"
    /\ UNCHANGED <<table, timer, sleep, state, next, cpu,
                   pending_preemptions, context, canary_ok, late>>

\* Every remaining task is BLOCKED: the loop spins (`continue`).
run_idle ==
    /\ loop = "pick"
    /\ any_task_active
    /\ Ready(state) = {}
    /\ UNCHANGED vars

run_pick ==
    /\ loop = "pick"
    /\ \E idx \in Slot : pick_next_ready(state, idx) /\ next' = idx
    /\ loop' = "mark"
    /\ UNCHANGED <<table, timer, sleep, g_current_idx, state,
                   pending_preemptions, context, canary_ok, cpu, late>>

run_mark ==
    /\ loop = "mark"
    /\ g_current_idx' = next
    /\ state' = [state EXCEPT ![next] = "RUNNING"]
    /\ loop' = "swap"
    /\ UNCHANGED <<table, timer, sleep, next, cpu, late,
                   pending_preemptions, context, canary_ok>>

\* Faulty variant: line 244 is missing.
ResumedNoDecrement(pending, ctx, t) == pending

\* pending_preemptions once t's saved context has been resumed: a context
\* saved in preempt_handler() first executes the decrement of line 244.
Resumed(pending, ctx, t) ==
    IF ctx[t] = "handler" THEN [pending EXCEPT ![t] = @ - 1] ELSE pending

\* block_alarm(), the switch, and what next does before it is preemptible.
run_swap ==
    /\ loop = "swap"
    /\ pending_preemptions' = Resumed(pending_preemptions, context, next)
    /\ cpu' = next
    /\ loop' = "in"
    /\ late' = 0
    /\ UNCHANGED <<table, timer, sleep, g_current_idx, state, context,
                   canary_ok, next>>

\* Faulty variant: the canary of a task that has terminated is not checked.
run_check_unless_terminated ==
    /\ loop = "back"
    /\ loop' = IF canary_ok[next] \/ state[next] = "TERMINATED"
               THEN "pick" ELSE "aborted"
    /\ UNCHANGED <<table, timer, sleep, g_current_idx, state,
                   pending_preemptions, context, canary_ok, next, cpu, late>>

\* The canary checked is that of `next`, the task this loop last dispatched.
run_check ==
    /\ loop = "back"
    /\ loop' = IF canary_ok[next] THEN "pick" ELSE "aborted"
    /\ UNCHANGED <<table, timer, sleep, g_current_idx, state,
                   pending_preemptions, context, canary_ok, next, cpu, late>>

-----------------------------------------------------------------------------
(* The executing task *)

\* The tail of task_yield(): t's context is saved and the loop resumed.
SwitchToLoop(t) ==
    /\ context' = [context EXCEPT ![t] = "yield"]
    /\ cpu' = LOOP
    /\ loop' = "back"

\* From the assignment of its state on, t is not RUNNING and a tick cannot
\* switch away from it, so the whole of task_yield() is one step.
task_yield(t) ==
    /\ Executing(t)
    /\ state' = [state EXCEPT ![t] = IF @ = "RUNNING" THEN "READY" ELSE @]
    /\ SwitchToLoop(t)
    /\ UNCHANGED <<table, timer, sleep, g_current_idx, next,
                   pending_preemptions, canary_ok, late>>

SleepTicks(ms) == IF ms \div TickMs <= 0 THEN 1 ELSE ms \div TickMs

\* task_sleep() sets the deadline, ...
task_sleep(t, ms) ==
    /\ Executing(t)
    /\ wake_tick' = [wake_tick EXCEPT ![t] = SleepTicks(ms)]
    /\ owed' = [owed EXCEPT ![t] = ms]
    /\ in_sleep' = in_sleep \cup {t}
    /\ UNCHANGED <<table, timer, g_current_idx, state, late,
                   pending_preemptions, context, canary_ok, loop, next, cpu>>

\* ... and may be preempted before it blocks and yields.
task_sleep_block(t) ==
    /\ cpu = t
    /\ t \in in_sleep
    /\ state' = [state EXCEPT ![t] = "BLOCKED"]
    /\ in_sleep' = in_sleep \ {t}
    /\ SwitchToLoop(t)
    /\ UNCHANGED <<table, timer, wake_tick, owed, g_current_idx, next,
                   pending_preemptions, canary_ok, late>>

\* The entry function returns: task_trampoline(), then uc_link's context.
task_trampoline(t) ==
    /\ Executing(t)
    /\ state' = [state EXCEPT ![t] = "TERMINATED"]
    /\ cpu' = LOOP
    /\ loop' = "back"
    /\ UNCHANGED <<table, timer, sleep, g_current_idx, next,
                   pending_preemptions, context, canary_ok, late>>

\* The task overflows its stack (as faulty_worker() simulates).
overflow_stack(t) ==
    /\ MayOverflow
    /\ Executing(t)
    /\ canary_ok' = [canary_ok EXCEPT ![t] = FALSE]
    /\ UNCHANGED <<table, timer, sleep, g_current_idx, state,
                   pending_preemptions, context, loop, next, cpu, late>>

-----------------------------------------------------------------------------
(* The SIGALRM handler.  g_tick_count++ brings every deadline one closer.  *)

Monus(a, b) == IF a > b THEN a - b ELSE 0

\* Faulty variants: == instead of >=, and a deadline one tick too early.
WakeDueExactly(left) == left = 1
WakeDueEarly(left) == left <= 2

\* g_tick_count >= t->wake_tick, after the increment.
WakeDue(left) == left <= 1

Wakes(t) ==
    /\ t \in Registered
    /\ state[t] = "BLOCKED"
    /\ wake_tick[t] # NotSleeping
    /\ WakeDue(wake_tick[t])

\* The task states after update_tick_bookkeeping().
Woken == [t \in Slot |-> IF Wakes(t) THEN "READY" ELSE state[t]]

update_tick_bookkeeping ==
    /\ wake_tick' = [t \in Slot |->
                       IF Wakes(t) \/ wake_tick[t] = NotSleeping
                       THEN NotSleeping
                       ELSE Monus(wake_tick[t], 1)]
    /\ owed' = [t \in Slot |-> Monus(owed[t], TickMs)]

\* A SIGALRM is delivered: the timer is armed and the signal not blocked.
Tick ==
    /\ g_preempt_enabled
    /\ ~Halted
    /\ update_tick_bookkeeping

\* Faulty variant: no test that the current task is RUNNING (line 212).
PreemptibleAnyState ==
    /\ g_current_idx >= 0
    /\ pending_preemptions[g_current_idx] <= 0

\* None of the early returns of lines 208-221 is taken.
Preemptible ==
    /\ g_current_idx >= 0
    /\ state[g_current_idx] = "RUNNING"
    /\ pending_preemptions[g_current_idx] <= 0

SliceOver == g_ticks_since_switch + 1 >= TicksPerSlice

\* t has a READY task of higher priority waiting behind it.
Outranked(t, st) == \E u \in Ready(st) : priority[u] > priority[t]

LateAfterTick ==
    IF cpu # LOOP /\ Outranked(cpu, Woken) THEN late + 1 ELSE 0

tick_return ==
    /\ Tick
    /\ ~Preemptible
    /\ state' = Woken
    /\ late' = LateAfterTick
    /\ UNCHANGED <<table, timer, in_sleep, g_current_idx,
                   pending_preemptions, context, canary_ok, loop, next, cpu>>

tick_slice ==
    /\ Tick
    /\ Preemptible
    /\ ~SliceOver
    /\ g_ticks_since_switch' = g_ticks_since_switch + 1
    /\ state' = Woken
    /\ late' = LateAfterTick
    /\ UNCHANGED <<g_preempt_enabled, table, in_sleep, g_current_idx,
                   pending_preemptions, context, canary_ok,
                   loop, next, cpu>>

\* Faulty variant: g_current_idx is not assigned.
ForceSwitchStaleIdx(idx) ==
    LET yielded == [Woken EXCEPT ![g_current_idx] = "READY"]
    IN  /\ pick_next_ready(yielded, idx)
        /\ g_ticks_since_switch' = 0
        /\ state' = [yielded EXCEPT ![idx] = "RUNNING"]
        /\ UNCHANGED g_current_idx

\* Lines 227-240: the current task becomes READY and idx, possibly the same
\* task, RUNNING.  (cur is READY itself, so pick_next_ready() never fails.)
ForceSwitch(idx) ==
    LET cur == g_current_idx
        yielded == [Woken EXCEPT ![cur] = "READY"]
    IN  /\ pick_next_ready(yielded, idx)
        /\ g_ticks_since_switch' = 0
        /\ g_current_idx' = idx
        /\ state' = [yielded EXCEPT ![idx] = "RUNNING"]

\* The tick interrupts a task: control goes from task to task, the loop
\* stays suspended in line 122 with its `next` unchanged.
tick_preempt ==
    /\ Tick
    /\ Preemptible
    /\ SliceOver
    /\ cpu # LOOP
    /\ \E idx \in Slot :
         /\ ForceSwitch(idx)
         /\ context' = [context EXCEPT ![g_current_idx] = "handler"]
         /\ pending_preemptions' =
              Resumed([pending_preemptions EXCEPT ![g_current_idx] = @ + 1],
                      context', idx)
         /\ cpu' = idx
         /\ late' = IF Outranked(idx, state') THEN late + 1 ELSE 0
    /\ UNCHANGED <<g_preempt_enabled, table, in_sleep, canary_ok, loop, next>>

\* The tick interrupts scheduler_run() between line 117, which marked the
\* task RUNNING, and line 120, which blocks the signal.  The handler saves
\* the loop's stack as that task's context: what the task was to resume is
\* gone, and every later switch to it jumps into a frame of main()'s stack.
\* The model stops here.
TickInWindow ==
    /\ Tick
    /\ Preemptible
    /\ SliceOver
    /\ cpu = LOOP
    /\ \E idx \in Slot : ForceSwitch(idx)
    /\ context' = [context EXCEPT ![g_current_idx] = "loop"]
    /\ pending_preemptions' =
         [pending_preemptions EXCEPT ![g_current_idx] = @ + 1]
    /\ loop' = "lost"
    /\ UNCHANGED <<g_preempt_enabled, table, in_sleep, canary_ok, next, cpu,
                   late>>

-----------------------------------------------------------------------------
\* abort(), and the states the model does not follow further.
halted ==
    /\ Halted
    /\ UNCHANGED vars

MainStep ==
    \/ \E p \in Priority : task_spawn(p)
    \/ task_spawn_full
    \/ scheduler_enable_preemption
    \/ scheduler_disable_preemption
    \/ scheduler_reset
    \/ run_start

LoopStep == run_end \/ run_idle \/ run_pick \/ run_mark \/ run_swap \/ run_check

TaskStep(t) ==
    \/ task_yield(t)
    \/ \E ms \in SleepMs : task_sleep(t, ms)
    \/ task_sleep_block(t)
    \/ task_trampoline(t)
    \/ overflow_stack(t)

preempt_handler == tick_return \/ tick_slice \/ tick_preempt \/ TickInWindow

Next ==
    \/ MainStep
    \/ LoopStep
    \/ \E t \in Slot : TaskStep(t)
    \/ preempt_handler
    \/ halted

Spec == Init /\ [][Next]_vars

\* scheduler_run() keeps executing and, once armed, the interval timer keeps
\* firing; inside task_sleep() a task goes on to block.  Task code itself may
\* compute for ever.
Fairness ==
    /\ WF_vars(LoopStep)
    /\ WF_vars(preempt_handler)
    /\ \A t \in Slot : WF_vars(task_sleep_block(t))

FairSpec == Spec /\ Fairness

-----------------------------------------------------------------------------
(* Properties *)

\* The types of the kernel's globals, of the task_t fields and of the
\* positions of the loop.
TypeOK ==
    /\ g_num_tasks \in 0 .. SCHED_MAX_TASKS
    /\ g_current_idx \in Slot \cup {-1}
    /\ g_preempt_enabled \in BOOLEAN
    /\ g_ticks_since_switch \in 0 .. TicksPerSlice - 1
    /\ state \in [Slot -> {"UNUSED", "READY", "RUNNING", "BLOCKED", "TERMINATED"}]
    /\ priority \in [Slot -> Int]
    /\ wake_tick \in [Slot -> Nat \cup {NotSleeping}]
    /\ pending_preemptions \in [Slot -> Int]
    /\ context \in [Slot -> {"entry", "yield", "handler", "loop"}]
    /\ canary_ok \in [Slot -> BOOLEAN]
    /\ in_sleep \in SUBSET Slot
    /\ loop \in Position
    /\ next \in Slot \cup {-1}
    /\ cpu \in Slot \cup {LOOP}
    /\ owed \in [Slot -> Nat]
    /\ late \in Nat

\* scheduler_current_task() is the task that calls it, and the only RUNNING
\* task is the one on the CPU or the one scheduler_run() is about to switch
\* to, although two pieces of code (the loop and the signal handler) assign
\* g_current_idx and the states.
OneRunning ==
    /\ cpu # LOOP => cpu = g_current_idx /\ loop = "in"
    /\ ~Halted => \A t \in Slot :
         state[t] = "RUNNING" <=> (cpu = t \/ (loop = "swap" /\ next = t))

\* The task that the loop has picked is still READY when line 117 marks it
\* RUNNING, whatever ticks have arrived since line 110.
PickStillReady ==
    loop = "mark" => next \in Registered /\ state[next] = "READY"

\* pending_preemptions is 1 while a task is suspended inside the handler and
\* 0 otherwise: forced switches never stack (the comment of lines 165-176),
\* and every one of them is unwound when the task runs again.
PreemptionsUnwind ==
    ~Halted => \A t \in Slot :
      pending_preemptions[t] =
        IF context[t] = "handler" /\ cpu # t /\ state[t] \in {"READY", "RUNNING"}
        THEN 1 ELSE 0

\* A task with a READY task of higher priority behind it is off the CPU
\* within ticks_per_slice ticks, although a voluntary switch does not reset
\* g_ticks_since_switch and a tick that finds a pending preemption returns
\* without counting.
OutrankedOneSlice == late < TicksPerSlice

\* When the loop goes on to pick a task and the one it dispatched last has
\* handed control back, the canary of that task was intact.
CanaryChecked ==
    loop = "pick" /\ g_current_idx >= 0 /\ g_current_idx = next => canary_ok[next]

\* Every switch saves a task's own stack into its context: a switch to a
\* task runs its entry function or resumes its own code (task.h:53-55).
OwnContext == \A t \in Slot : context[t] # "loop"

\* A task that task_sleep(ms) blocked is woken less than one tick before ms
\* milliseconds of ticks have passed (line 292 rounds down).
SleepsLongEnough ==
    [][\A t \in Slot :
         state[t] = "BLOCKED" /\ state'[t] = "READY" => owed'[t] < TickMs]_vars

\* The kernel implements KernelSpec: however ticks interleave with the loop
\* and with voluntary switches, tasks only move through their life cycle and
\* the CPU only ever goes to a READY task of the highest priority.
Kernel == INSTANCE KernelSpec WITH
    Task <- Slot,
    picked <- IF loop = "mark" THEN next ELSE -1,
    cpu <- IF loop \in {"swap", "in", "lost"} THEN g_current_idx ELSE -1

ImplementsKernel == Kernel!KernelPromise

\* Every sleeping task is woken while the timer runs, even if the deadline
\* had passed before it blocked.
SleeperWakes ==
    \A t \in Slot :
      (g_preempt_enabled /\ state[t] = "BLOCKED") ~> (state[t] # "BLOCKED" \/ Halted)

\* With preemption on, a READY task gets the CPU unless a task of higher
\* priority wants it, even if no task ever yields: equal priorities share
\* the CPU round-robin (lines 35-37).
NoStarvation ==
    \A t \in Slot :
      (g_preempt_enabled /\ loop # "main" /\ state[t] = "READY")
        ~> \/ cpu = t
           \/ Halted
           \/ \E u \in Registered : /\ state[u] \in {"READY", "RUNNING"}
                                    /\ priority[u] > priority[t]
=============================================================================
