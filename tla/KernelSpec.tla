----------------------------- MODULE KernelSpec -----------------------------
(***************************************************************************)
(* What the kernel promises to the code that runs on it: the life cycle of *)
(* a task, one task on the CPU at a time, and that whoever gives the CPU   *)
(* away (the loop of scheduler_run() or the tick handler) gives it to a    *)
(* READY task of the highest priority.  Ticks, slices, signal masks and    *)
(* saved contexts are hidden.  Scheduler.tla implements this module, and   *)
(* Sync.tla runs the synchronisation primitives on top of it.              *)
(***************************************************************************)
EXTENDS Integers

CONSTANTS
    Task,        \* the slots of g_tasks[]
    Priority     \* the priorities task_spawn() is called with

VARIABLES state, priority,   \* fields of task_t
          picked,            \* scheduler_run()'s choice, until it is marked RUNNING
          cpu                \* the task that has the CPU, or NoTask

kernelVars == <<state, priority, picked, cpu>>

NoTask == -1

KernelInit ==
    /\ state = [t \in Task |-> "UNUSED"]
    /\ priority = [t \in Task |-> 0]
    /\ picked = NoTask
    /\ cpu = NoTask

\* pick_next_ready() may return idx when the task states are st.
Highest(st, idx) ==
    /\ st[idx] = "READY"
    /\ \A t \in Task : st[t] = "READY" => priority[t] <= priority[idx]

Spawn(t, p) ==
    /\ state[t] = "UNUSED"
    /\ state' = [state EXCEPT ![t] = "READY"]
    /\ priority' = [priority EXCEPT ![t] = p]
    /\ UNCHANGED <<picked, cpu>>

Reset ==
    /\ cpu = NoTask
    /\ picked = NoTask
    /\ state' = [t \in Task |-> "UNUSED"]
    /\ priority' = [t \in Task |-> 0]
    /\ UNCHANGED <<picked, cpu>>

\* The loop chooses a task and then switches to it.  A task of higher
\* priority that a tick wakes in between has to wait for the next switch.
Pick(idx) ==
    /\ cpu = NoTask
    /\ picked = NoTask
    /\ Highest(state, idx)
    /\ picked' = idx
    /\ UNCHANGED <<state, priority, cpu>>

Start ==
    /\ picked # NoTask
    /\ state[picked] = "READY"
    /\ state' = [state EXCEPT ![picked] = "RUNNING"]
    /\ cpu' = picked
    /\ picked' = NoTask
    /\ UNCHANGED priority

\* The task on the CPU returns to the loop in state s.
Leave(t, s) ==
    /\ cpu = t
    /\ state' = [state EXCEPT ![t] = s]
    /\ cpu' = NoTask
    /\ UNCHANGED <<priority, picked>>

\* task_yield() leaves a state other than RUNNING alone.
Yield(t) == Leave(t, IF state[t] = "RUNNING" THEN "READY" ELSE state[t])

\* A task that has blocked itself before it calls task_yield().
Block(t) == Leave(t, "BLOCKED")

Terminate(t) == Leave(t, "TERMINATED")

WakeUp(W) == [t \in Task |-> IF t \in W THEN "READY" ELSE state[t]]

Blocked == {t \in Task : state[t] = "BLOCKED"}

\* Sleeping tasks whose time has come, or waiters of a primitive, are woken.
Wake(W) ==
    /\ state' = WakeUp(W)
    /\ UNCHANGED <<priority, picked, cpu>>

\* A tick wakes the tasks of W and takes the CPU from a RUNNING task.
Preempt(W, idx) ==
    LET yielded == [WakeUp(W) EXCEPT ![cpu] = "READY"]
    IN  /\ cpu # NoTask
        /\ state[cpu] = "RUNNING"
        /\ Highest(yielded, idx)
        /\ state' = [yielded EXCEPT ![idx] = "RUNNING"]
        /\ cpu' = idx
        /\ UNCHANGED <<priority, picked>>

KernelNext ==
    \/ \E t \in Task, p \in Priority : Spawn(t, p)
    \/ Reset
    \/ \E idx \in Task : Pick(idx)
    \/ Start
    \/ \E t \in Task : Yield(t) \/ Block(t) \/ Terminate(t)
    \/ \E W \in SUBSET Blocked : Wake(W)
    \/ \E W \in SUBSET Blocked, idx \in Task : Preempt(W, idx)

KernelPromise == KernelInit /\ [][KernelNext]_kernelVars
=============================================================================
