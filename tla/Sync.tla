-------------------------------- MODULE Sync --------------------------------
(***************************************************************************)
(* The primitives of rtos/src/sync.c: mutexes with priority inheritance,   *)
(* counting semaphores and the message queue built from them, executed by  *)
(* tasks on the kernel that KernelSpec.tla describes.                      *)
(*                                                                         *)
(* A step is one statement, and its label is the statement's line number   *)
(* in sync.c.  In Spec the CPU only changes hands where the code blocks    *)
(* and where the clients call task_yield(); in PreemptiveSpec the timer    *)
(* runs and a forced switch can come between any two statements.           *)
(*                                                                         *)
(* The clients are the most general ones: senders and receivers of one     *)
(* queue, and lockers, which lock and unlock mutexes in any order (but     *)
(* never one they hold, and never end while they hold one).                *)
(***************************************************************************)
EXTENDS KernelSpec, Sequences

CONSTANTS
    Workload,         \* the programs: who sends, receives and locks, at what priorities
    Mutex,            \* the lockers' mutexes
    Capacity, Item,   \* of the queue
    Inheritance       \* enable_priority_inheritance

ASSUME SyncAssumption ==
    /\ Task \subseteq Nat
    /\ Priority \subseteq Int
    /\ Workload \subseteq [sender : SUBSET Task, receiver : SUBSET Task,
                            locker : SUBSET Task, priorities : SUBSET Priority]
    /\ Capacity \in Nat \ {0} /\ Item # {}
    \* The queue's own mutex and semaphores are fields of queue_t.
    /\ Mutex \cap {"lock", "slots_empty", "slots_filled"} = {}
    /\ Inheritance \in BOOLEAN

VARIABLES
    locked, owner, owner_saved_priority,   \* mutex_t
    count,                                 \* semaphore_t
    waiters,                               \* of both, num_waiters being the length
    buffer, head, tail,                    \* queue_t
    call,   \* the primitives a task's call has still to execute, with the current one
    at,     \* the line of sync.c a task is to execute, or Client
    reg,    \* the register in which lines 82 and 86 compute the new count
    program, \* the one of Workload that runs
    \* History variables, read by no action's guard but the clients':
    base,   \* the priority each task was spawned with
    holds,  \* the mutexes each task has locked
    filled, \* items written to buffer and not yet read
    got     \* the item the last queue_receive() read

mutexVars == <<locked, owner, owner_saved_priority, holds>>
queueVars == <<buffer, head, tail, filled, got>>
control == <<call, at, reg>>
vars == <<kernelVars, mutexVars, count, waiters, queueVars, control, base, program>>

Client == 0
AllMutexes == Mutex \cup {"lock"}              \* "lock" is the queue's
Semaphores == {"slots_empty", "slots_filled"}  \* the queue's

\* mutex_init(), sem_init() and queue_init(); main() has spawned some tasks.
Init ==
    /\ program \in Workload
    /\ \E spawned \in SUBSET Task, p \in [Task -> program.priorities] :
         /\ state = [t \in Task |-> IF t \in spawned THEN "READY" ELSE "UNUSED"]
         /\ priority = [t \in Task |-> IF t \in spawned THEN p[t] ELSE 0]
    /\ picked = NoTask
    /\ cpu = NoTask
    /\ locked = [m \in AllMutexes |-> FALSE]
    /\ owner = [m \in AllMutexes |-> NoTask]
    /\ owner_saved_priority = [m \in AllMutexes |-> 0]
    /\ count = [s \in Semaphores |-> IF s = "slots_empty" THEN Capacity ELSE 0]
    /\ waiters = [o \in AllMutexes \cup Semaphores |-> <<>>]
    /\ buffer = [i \in 0 .. Capacity - 1 |-> CHOOSE item \in Item : TRUE]
    /\ head = 0
    /\ tail = 0
    /\ call = [t \in Task |-> <<>>]
    /\ at = [t \in Task |-> Client]
    /\ reg = [t \in Task |-> 0]
    /\ base = priority
    /\ holds = [t \in Task |-> {}]
    /\ filled = 0
    /\ got = CHOOSE item \in Item : TRUE

-----------------------------------------------------------------------------
(* Control.  A primitive is a record of the line it starts at, the object  *)
(* it is called with and, for line 110, the item.                          *)

Prim(line, o) == [line |-> line, obj |-> o]

mutex_lock(m)   == Prim(27, m)
mutex_unlock(m) == Prim(48, m)
sem_wait(s)     == Prim(77, s)
sem_post(s)     == Prim(86, s)

Obj(t) == Head(call[t]).obj

\* The label of the second instruction of a line.
Store(line) == -line

Line(t, line) == cpu = t /\ at[t] = line

Goto(t, line) == at' = [at EXCEPT ![t] = line] /\ UNCHANGED <<call, reg>>

\* The end of the current primitive.
Return(t) ==
    /\ call' = [call EXCEPT ![t] = Tail(@)]
    /\ at' = [at EXCEPT ![t] = IF Len(call[t]) = 1 THEN Client ELSE call[t][2].line]

Call(t, prims) ==
    /\ Line(t, Client)
    /\ call' = [call EXCEPT ![t] = prims]
    /\ at' = [at EXCEPT ![t] = prims[1].line]
    /\ UNCHANGED <<reg, kernelVars, mutexVars, count, waiters, queueVars, base>>

-----------------------------------------------------------------------------
(* Waiting, the same code for mutexes and semaphores *)

Available(o) == IF o \in AllMutexes THEN ~locked[o] ELSE count[o] > 0

\* The loop conditions of mutex_lock() and sem_wait().
wait_test(t) ==
    /\ \/ Line(t, 27) /\ Goto(t, IF Available(Obj(t)) THEN 40 ELSE 28)
       \/ Line(t, 77) /\ Goto(t, IF Available(Obj(t)) THEN 82 ELSE 78)
    /\ UNCHANGED <<kernelVars, mutexVars, count, waiters, queueVars, base>>

add_waiter(t) ==
    /\ \/ Line(t, 35) /\ Goto(t, 36)
       \/ Line(t, 78) /\ Goto(t, 79)
    /\ waiters' = [waiters EXCEPT ![Obj(t)] =
                     IF \E i \in DOMAIN @ : @[i] = t THEN @ ELSE Append(@, t)]
    /\ UNCHANGED <<kernelVars, mutexVars, count, queueVars, base>>

\* Faulty variant: `if` instead of `while`, a woken task does not test again.
wait_block_once(t) ==
    /\ \/ Line(t, 36) /\ Goto(t, 40)
       \/ Line(t, 79) /\ Goto(t, 82)
    /\ Block(t)
    /\ UNCHANGED <<mutexVars, count, waiters, queueVars, base>>

\* Once the state is BLOCKED no tick switches away, so task_yield() follows.
wait_block(t) ==
    /\ \/ Line(t, 36) /\ Goto(t, 27)
       \/ Line(t, 79) /\ Goto(t, 77)
    /\ Block(t)
    /\ UNCHANGED <<mutexVars, count, waiters, queueVars, base>>

\* Faulty variant: the loop stops before the last waiter.
wake_all_but_last(t) ==
    /\ \/ Line(t, 52) /\ Goto(t, 55)
       \/ Line(t, 91) /\ Goto(t, 94)
    /\ Wake({waiters[Obj(t)][i] : i \in 1 .. Len(waiters[Obj(t)]) - 1})
    /\ UNCHANGED <<mutexVars, count, waiters, queueVars, base>>

\* Whatever state a waiter is in, it becomes READY.
wake_waiters(t) ==
    /\ \/ Line(t, 52) /\ Goto(t, 55)
       \/ Line(t, 91) /\ Goto(t, 94)
    /\ Wake({waiters[Obj(t)][i] : i \in DOMAIN waiters[Obj(t)]})
    /\ UNCHANGED <<mutexVars, count, waiters, queueVars, base>>

\* Faulty variant: num_waiters is not reset.
keep_waiters(t) ==
    /\ Line(t, 55) \/ Line(t, 94)
    /\ Return(t)
    /\ UNCHANGED <<reg, kernelVars, mutexVars, count, waiters, queueVars, base>>

clear_waiters(t) ==
    /\ Line(t, 55) \/ Line(t, 94)
    /\ waiters' = [waiters EXCEPT ![Obj(t)] = <<>>]
    /\ Return(t)
    /\ UNCHANGED <<reg, kernelVars, mutexVars, count, queueVars, base>>

-----------------------------------------------------------------------------
(* mutex_lock and mutex_unlock *)

\* Faulty variant: only the first waiter boosts the owner.
lock_boost_first(t) ==
    LET o == owner[Obj(t)]
    IN  /\ Line(t, 28)
        /\ priority' = IF waiters[Obj(t)] = <<>> /\ priority[t] > priority[o]
                       THEN [priority EXCEPT ![o] = priority[t]]
                       ELSE priority
        /\ Goto(t, 35)
        /\ UNCHANGED <<state, picked, cpu, mutexVars, count, waiters, queueVars, base>>

lock_boost(t) ==
    LET o == owner[Obj(t)]
    IN  /\ Line(t, 28)
        /\ priority' = IF Inheritance /\ o # NoTask /\ priority[t] > priority[o]
                       THEN [priority EXCEPT ![o] = priority[t]]
                       ELSE priority
        /\ Goto(t, 35)
        /\ UNCHANGED <<state, picked, cpu, mutexVars, count, waiters, queueVars, base>>

\* Lines 40 to 42.
lock_take(t) ==
    /\ \/ /\ Line(t, 40) /\ Goto(t, 41)
          /\ locked' = [locked EXCEPT ![Obj(t)] = TRUE]
          /\ UNCHANGED <<owner, owner_saved_priority, holds>>
       \/ /\ Line(t, 41) /\ Goto(t, 42)
          /\ owner' = [owner EXCEPT ![Obj(t)] = t]
          /\ UNCHANGED <<locked, owner_saved_priority, holds>>
       \/ /\ Line(t, 42) /\ Return(t) /\ UNCHANGED reg
          /\ owner_saved_priority' = [owner_saved_priority EXCEPT ![Obj(t)] = priority[t]]
          /\ holds' = [holds EXCEPT ![t] = @ \cup {Obj(t)}]
          /\ UNCHANGED <<locked, owner>>
    /\ UNCHANGED <<kernelVars, count, waiters, queueVars, base>>

\* Faulty variant: the owner keeps the boost.
unlock_keep_boost(t) ==
    /\ Line(t, 48) /\ Goto(t, 49)
    /\ holds' = [holds EXCEPT ![t] = @ \ {Obj(t)}]
    /\ UNCHANGED <<kernelVars, locked, owner, owner_saved_priority, count,
                   waiters, queueVars, base>>

unlock_restore(t) ==
    /\ Line(t, 48) /\ Goto(t, 49)
    /\ priority' = [priority EXCEPT ![t] = owner_saved_priority[Obj(t)]]
    /\ holds' = [holds EXCEPT ![t] = @ \ {Obj(t)}]
    /\ UNCHANGED <<state, picked, cpu, locked, owner, owner_saved_priority,
                   count, waiters, queueVars, base>>

\* Lines 49 and 50.
unlock_release(t) ==
    /\ \/ /\ Line(t, 49) /\ Goto(t, 50)
          /\ locked' = [locked EXCEPT ![Obj(t)] = FALSE]
          /\ UNCHANGED owner
       \/ /\ Line(t, 50) /\ Goto(t, 52)
          /\ owner' = [owner EXCEPT ![Obj(t)] = NoTask]
          /\ UNCHANGED locked
    /\ UNCHANGED <<kernelVars, owner_saved_priority, holds, count, waiters,
                   queueVars, base>>

-----------------------------------------------------------------------------
(* Semaphores and the queue *)

\* Lines 82 and 86: the build loads the count, and stores the new one with
\* another instruction.
sem_load(t) ==
    /\ \/ /\ Line(t, 82) /\ at' = [at EXCEPT ![t] = Store(82)]
          /\ reg' = [reg EXCEPT ![t] = count[Obj(t)] - 1]
       \/ /\ Line(t, 86) /\ at' = [at EXCEPT ![t] = Store(86)]
          /\ reg' = [reg EXCEPT ![t] = count[Obj(t)] + 1]
    /\ UNCHANGED <<call, kernelVars, mutexVars, count, waiters, queueVars, base>>

sem_store(t) ==
    /\ \/ Line(t, Store(82)) /\ Return(t)
       \/ Line(t, Store(86)) /\ at' = [at EXCEPT ![t] = 91] /\ UNCHANGED call
    /\ count' = [count EXCEPT ![Obj(t)] = reg[t]]
    /\ reg' = [reg EXCEPT ![t] = 0]
    /\ UNCHANGED <<kernelVars, mutexVars, waiters, queueVars, base>>

queue_send(t, item) ==
    Call(t, << sem_wait("slots_empty"), mutex_lock("lock"), Prim(110, item),
               mutex_unlock("lock"), sem_post("slots_filled") >>)

queue_receive(t) ==
    Call(t, << sem_wait("slots_filled"), mutex_lock("lock"), Prim(119, "buffer"),
               mutex_unlock("lock"), sem_post("slots_empty") >>)

\* Lines 110-111.
queue_put(t) ==
    /\ Line(t, 110) /\ Return(t) /\ UNCHANGED reg
    /\ buffer' = [buffer EXCEPT ![tail] = Obj(t)]
    /\ tail' = (tail + 1) % Capacity
    /\ filled' = filled + 1
    /\ UNCHANGED <<kernelVars, mutexVars, count, waiters, head, got, base>>

\* Faulty variant: head advances before the read.
queue_get_late(t) ==
    /\ Line(t, 119) /\ Return(t) /\ UNCHANGED reg
    /\ got' = buffer[(head + 1) % Capacity]
    /\ head' = (head + 1) % Capacity
    /\ filled' = filled - 1
    /\ UNCHANGED <<kernelVars, mutexVars, count, waiters, buffer, tail, base>>

\* Lines 119-120.
queue_get(t) ==
    /\ Line(t, 119) /\ Return(t) /\ UNCHANGED reg
    /\ got' = buffer[head]
    /\ head' = (head + 1) % Capacity
    /\ filled' = filled - 1
    /\ UNCHANGED <<kernelVars, mutexVars, count, waiters, buffer, tail, base>>

-----------------------------------------------------------------------------
(* The clients and the kernel *)

Calls(t) ==
    \/ t \in program.sender /\ \E item \in Item : queue_send(t, item)
    \/ t \in program.receiver /\ queue_receive(t)
    \/ /\ t \in program.locker
       /\ \E m \in Mutex : IF m \in holds[t] THEN Call(t, <<mutex_unlock(m)>>)
                                             ELSE Call(t, <<mutex_lock(m)>>)

syncVars == <<mutexVars, count, waiters, queueVars, control, base>>

\* Between two calls a task may yield, spawn a task and, when it holds no
\* mutex, return.
Between(t) ==
    /\ Line(t, Client)
    /\ \/ /\ Yield(t) \/ (holds[t] = {} /\ Terminate(t))
          /\ UNCHANGED base
       \/ \E u \in Task, p \in program.priorities :
            /\ Spawn(u, p)
            /\ base' = [base EXCEPT ![u] = p]
    /\ UNCHANGED <<mutexVars, count, waiters, queueVars, control>>

Step(t) ==
    \/ wait_test(t) \/ add_waiter(t) \/ wait_block(t)
    \/ wake_waiters(t) \/ clear_waiters(t)
    \/ lock_boost(t) \/ lock_take(t) \/ unlock_restore(t) \/ unlock_release(t)
    \/ sem_load(t) \/ sem_store(t) \/ queue_put(t) \/ queue_get(t)

Dispatch == (Start \/ \E idx \in Task : Pick(idx)) /\ UNCHANGED syncVars

\* scheduler_run() spins while every task is BLOCKED, or has returned.
Idle ==
    /\ cpu = NoTask /\ picked = NoTask
    /\ \A t \in Task : state[t] # "READY"
    /\ UNCHANGED <<kernelVars, syncVars>>

Next ==
    /\ \/ \E t \in Task : Calls(t) \/ Between(t) \/ Step(t)
       \/ Dispatch
       \/ Idle
    /\ UNCHANGED program

Spec == Init /\ [][Next]_vars

\* The same with the timer running.
Tick == (\E idx \in Task : Preempt({}, idx)) /\ UNCHANGED <<syncVars, program>>

PreemptiveSpec == Init /\ [][Next \/ Tick]_vars

-----------------------------------------------------------------------------
(* Properties *)

\* A task that has returned from mutex_lock() and not called mutex_unlock()
\* is the mutex's only owner.
MutualExclusion ==
    \A t \in Task : \A m \in holds[t] : locked[m] /\ owner[m] = t

\* Every BLOCKED task is among the waiters of something that is unavailable,
\* or that another task has made available and is about to wake the waiters of.
NoLostWakeup ==
    \A t \in Task : state[t] = "BLOCKED" =>
      /\ \E i \in DOMAIN waiters[Obj(t)] : waiters[Obj(t)][i] = t
      /\ \/ ~Available(Obj(t))
         \/ \E u \in Task : at[u] \in {50, 52, 91} /\ Obj(u) = Obj(t)

\* While a task is blocked on a mutex, the mutex's owner has at least its
\* priority (sync.h:16-19).
OwnerInherits ==
    Inheritance /\ cpu = NoTask => \A t \in Task :
      state[t] = "BLOCKED" /\ Obj(t) \in AllMutexes =>
        owner[Obj(t)] \in Task /\ priority[owner[Obj(t)]] >= priority[t]

\* The boost is temporary (sync.h:17): a task that holds no mutex has the
\* priority it was spawned with.
BoostEnds == \A t \in Task : holds[t] = {} => priority[t] = base[t]

\* The primitives write the states of tasks directly.  Every such write is
\* a step of the kernel's life cycle: only BLOCKED tasks are woken.
RespectsKernel == [][KernelNext]_<<state, picked, cpu>>

\* The ring buffer implements a bounded first-in first-out queue.
Queue == INSTANCE BoundedQueue WITH
    items <- [i \in 1 .. filled |-> buffer[(head + i - 1) % Capacity]]

ImplementsQueue == Queue!QueuePromise
=============================================================================
