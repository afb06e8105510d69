------------------------- MODULE SyncPromiseProofs --------------------------
(*****************************************************************************)
(* Proofs of what the primitives of Sync.tla promise their callers.          *)
(*                                                                           *)
(* Priority inheritance in mutex_lock() and mutex_unlock() can go wrong      *)
(* with two mutexes of the clients (run v_inherit); with one, besides the    *)
(* queue's, it keeps its promise.  The primitives keep to the life cycle     *)
(* of the kernel's tasks, and the ring buffer implements a bounded queue.    *)
(*****************************************************************************)
EXTENDS SyncProofs

USE SMTT(30) DEF Client, NoTask, AllMutexes, Semaphores, Objects

-----------------------------------------------------------------------------
(* Sequences *)

LEMMA HeadTailProperties ==
    ASSUME NEW S, NEW q \in Seq(S), q # <<>>
    PROVE  /\ Head(q) \in S /\ Tail(q) \in Seq(S) /\ Len(Tail(q)) = Len(q) - 1
           /\ \A i \in 1 .. Len(Tail(q)) : Tail(q)[i] = q[i + 1]
  OBVIOUS

LEMMA SeqEqual ==
    ASSUME NEW S, NEW p \in Seq(S), NEW q \in Seq(S),
           Len(p) = Len(q), \A i \in 1 .. Len(p) : p[i] = q[i]
    PROVE  p = q
  OBVIOUS

-----------------------------------------------------------------------------
(* Priority inheritance *)

OneMutex == \A m, n \in Mutex : m = n

\* What mutex_lock() saved is what mutex_unlock() has to restore.
BoostInv ==
    /\ \A t \in Task : holds[t] \cap Mutex = {} => priority[t] = base[t]
    /\ \A t \in Task : \A m \in holds[t] \cap Mutex : owner_saved_priority[m] = base[t]
    /\ InSection => owner_saved_priority["lock"] = priority[cpu]

\* The owner of the mutex that u waits for has at least its priority.
Inherits(u) == owner[Obj(u)] \in Task /\ priority[owner[Obj(u)]] >= priority[u]

\* The owner has inherited before a waiter blocks, and keeps the priority
\* until it unlocks the mutex.
InheritInv ==
    /\ Inheritance => \A u \in Task :
         \/ state[u] = "BLOCKED" /\ Obj(u) \in Mutex /\ ~(Here({49, 50, 52}) /\ Obj(cpu) = Obj(u))
         \/ cpu = u /\ Here({35, 36})
         => Inherits(u)
    /\ Here({41, 42}) => \A u \in Task : state[u] = "BLOCKED" => Obj(u) # Obj(cpu)

\* Who holds the queue's lock does not change without a change of holds.
LEMMA SectionFrame ==
    ASSUME SyncInv, SyncInv', holds' = holds, InSection'
    PROVE  InSection /\ cpu' = cpu
<1>1. cpu' \in Task
  BY DEF InSection, Here
<1>2. "lock" \in holds'[cpu']
  BY <1>1 DEF SyncInv, MutexInv
<1>3. QED
  BY <1>1, <1>2 DEF SyncInv, MutexInv

LEMMA BoostFrame ==
    ASSUME SyncInv, SyncInv', BoostInv, UNCHANGED <<priority, base, holds, owner_saved_priority>>
    PROVE  BoostInv'
<1>1. InSection' => InSection /\ cpu' = cpu
  BY SectionFrame
<1>2. QED
  BY <1>1 DEF BoostInv

\* Nobody waits for the queue's lock, and who waits for a mutex finds a
\* holder in owner.
LEMMA MutexHeld ==
    ASSUME SyncInv, NEW t \in Task, cpu = t, at[t] \in {28, 35, 36}
    PROVE  /\ Obj(t) \in Mutex
           /\ owner[Obj(t)] \in Task /\ Obj(t) \in holds[owner[Obj(t)]]
<1>1. Shape(t) /\ Here({28, 35, 36, 41, 42, 49}) /\ ~Here({41, 42, 49}) /\ ~InSection
  BY DEF SyncInv, TaskInv, Here, InSection
<1>2. Obj(t) \in AllMutexes /\ locked[Obj(t)]
  BY <1>1, Objs DEF LockLines, SyncInv, MutexInv
<1>3. PICK u \in Task : Obj(t) \in holds[u]
  BY <1>1, <1>2 DEF SyncInv, MutexInv
<1>4. owner[Obj(t)] = u /\ Obj(t) # "lock"
  BY <1>1, <1>3 DEF SyncInv, MutexInv, MutualExclusion
<1>5. QED
  BY <1>2, <1>3, <1>4

LEMMA BoostKept ==
    ASSUME OneMutex, SyncInv, SyncInv', BoostInv, [Next]_vars
    PROVE  BoostInv'
<1>1. /\ priority \in [Task -> Int] /\ base \in [Task -> Int]
      /\ owner_saved_priority \in [AllMutexes -> Int] /\ holds \in [Task -> SUBSET AllMutexes]
  BY Zenon DEF SyncInv, TypeInv
<1>2. CASE UNCHANGED <<priority, base, holds, owner_saved_priority>>
  BY <1>2, BoostFrame
<1>3. CASE \E t \in Task : lock_boost(t)
  <2>1. PICK t \in Task : lock_boost(t)
    BY <1>3
  <2>2. /\ cpu = t /\ at[t] = 28 /\ UNCHANGED <<base, holds, owner_saved_priority>>
        /\ \/ priority' = priority
           \/ priority' = [priority EXCEPT ![owner[Obj(t)]] = priority[t]]
    BY <2>1 DEF lock_boost, Line, mutexVars
  <2>3. Obj(t) \in Mutex /\ owner[Obj(t)] \in Task /\ Obj(t) \in holds[owner[Obj(t)]]
    BY <2>2, MutexHeld
  <2>4. \A u \in Task : holds[u] \cap Mutex = {} => priority'[u] = priority[u]
    BY <1>1, <2>2, <2>3
  <2>5. ~InSection'
    <3>1. ~InSection
      BY <2>2 DEF InSection, Here
    <3>2. QED
      BY <2>2, <3>1, SectionFrame
  <2>6. QED
    BY <2>2, <2>4, <2>5 DEF BoostInv
<1>4. CASE \E t \in Task : lock_take(t) /\ ~UNCHANGED <<holds, owner_saved_priority>>
  <2>1. PICK t \in Task : lock_take(t) /\ ~UNCHANGED <<holds, owner_saved_priority>>
    BY <1>4
  <2>2. /\ cpu = t /\ cpu' = t /\ at[t] = 42 /\ UNCHANGED <<priority, base>>
        /\ owner_saved_priority' = [owner_saved_priority EXCEPT ![Obj(t)] = priority[t]]
        /\ holds' = [holds EXCEPT ![t] = @ \cup {Obj(t)}]
    BY <2>1 DEF lock_take, Line, kernelVars
  <2>3. /\ Obj(t) \in AllMutexes /\ Obj(t) \notin holds[t] /\ "lock" \notin holds[t]
        /\ \A u \in Task : Obj(t) \notin holds[u]
    <3>1. Shape(t) /\ ~InSection
      BY <2>2 DEF SyncInv, TaskInv, InSection, Here
    <3>2. QED
      BY <2>2, <3>1, Objs DEF LockLines, SyncInv, MutexInv, Here
  <2>4. /\ owner_saved_priority'[Obj(t)] = priority[t]
        /\ \A m \in AllMutexes : m # Obj(t) => owner_saved_priority'[m] = owner_saved_priority[m]
        /\ holds'[t] = holds[t] \cup {Obj(t)} /\ \A u \in Task : u # t => holds'[u] = holds[u]
    BY <1>1, <2>2, <2>3
  <2>5. CASE Obj(t) \in Mutex
    <3>1. holds[t] \cap Mutex = {}
      BY <2>3, <2>5 DEF OneMutex
    <3>2. priority[t] = base[t] /\ Obj(t) # "lock"
      BY Zenon, <2>5, <3>1, Names DEF BoostInv
    <3>3. ~InSection'
      BY Zenon, <2>2, <2>3, <2>4, <3>2 DEF SyncInv, MutexInv
    <3>4. \A u \in Task : \A m \in holds[u] \cap Mutex : m # Obj(t)
      BY <2>3
    <3>5. QED
      BY <1>1, <2>2, <2>4, <3>1, <3>2, <3>3, <3>4 DEF BoostInv
  <2>6. CASE Obj(t) = "lock"
    <3>1. \A m \in Mutex : m # Obj(t)
      BY <2>6, Names
    <3>2. \A u \in Task : holds'[u] \cap Mutex = holds[u] \cap Mutex
      BY <2>4, <3>1
    <3>3. QED
      BY <2>2, <2>4, <2>6, <3>1, <3>2 DEF BoostInv
  <2>7. QED
    BY <2>3, <2>5, <2>6
<1>5. CASE \E t \in Task : unlock_restore(t)
  <2>1. PICK t \in Task : unlock_restore(t)
    BY <1>5
  <2>2. /\ cpu = t /\ cpu' = t /\ at[t] = 48 /\ UNCHANGED <<owner_saved_priority, base>>
        /\ priority' = [priority EXCEPT ![t] = owner_saved_priority[Obj(t)]]
        /\ holds' = [holds EXCEPT ![t] = @ \ {Obj(t)}]
    BY <2>1 DEF unlock_restore, Line
  <2>3. Obj(t) \in holds[t] /\ Obj(t) \in AllMutexes
    BY ZenonT(40), <1>1, <2>2 DEF SyncInv, MutexInv, Here
  <2>4. /\ priority'[t] = owner_saved_priority[Obj(t)]
        /\ \A u \in Task : u # t => priority'[u] = priority[u] /\ holds'[u] = holds[u]
        /\ holds'[t] = holds[t] \ {Obj(t)}
    BY <1>1, <2>2
  <2>5. InSection <=> Obj(t) = "lock"
    BY <2>2 DEF InSection, Here
  <2>6. ~InSection'
    BY Zenon, <2>2, <2>3, <2>4, <2>5 DEF SyncInv, MutexInv
  <2>7. CASE Obj(t) = "lock"
    <3>1. holds'[t] \cap Mutex = holds[t] \cap Mutex
      BY <2>4, <2>7, Names
    <3>2. priority'[t] = priority[t]
      BY <2>2, <2>4, <2>5, <2>7 DEF BoostInv
    <3>3. QED
      BY <2>2, <2>4, <2>6, <3>1, <3>2 DEF BoostInv
  <2>8. CASE Obj(t) \in Mutex
    BY <2>2, <2>3, <2>4, <2>6, <2>8 DEF BoostInv
  <2>9. QED
    BY <2>3, <2>7, <2>8
<1>6. CASE \E t \in Task : Between(t) /\ ~UNCHANGED <<priority, base>>
  <2>1. PICK t \in Task, u \in Task, p \in program.priorities :
          /\ cpu = t /\ at[t] = Client /\ Spawn(u, p)
          /\ base' = [base EXCEPT ![u] = p] /\ UNCHANGED <<holds, owner_saved_priority>>
    BY <1>6 DEF Between, Line, Yield, Terminate, Leave, mutexVars
  <2>2. /\ state[u] = "UNUSED" /\ priority' = [priority EXCEPT ![u] = p]
    BY <2>1 DEF Spawn
  <2>3. holds[u] = {}
    BY Zenon, <2>2 DEF SyncInv, TaskInv
  <2>4. ~InSection'
    <3>1. ~InSection
      BY <2>1 DEF InSection, Here
    <3>2. QED
      BY <2>1, <3>1, SectionFrame
  <2>5. QED
    BY Zenon, <1>1, <2>1, <2>2, <2>3, <2>4 DEF BoostInv
<1>7. \/ UNCHANGED <<priority, base, holds, owner_saved_priority>>
      \/ \E t \in Task : lock_boost(t)
      \/ \E t \in Task : lock_take(t) /\ ~UNCHANGED <<holds, owner_saved_priority>>
      \/ \E t \in Task : unlock_restore(t)
      \/ \E t \in Task : Between(t) /\ ~UNCHANGED <<priority, base>>
  <2>1. CASE UNCHANGED vars
    BY Zenon, <2>1 DEF vars, kernelVars, mutexVars
  <2>2. CASE \E t \in Task : Calls(t)
    BY <2>2 DEF Calls, queue_send, queue_receive, Call, kernelVars, mutexVars
  <2>3. CASE \E t \in Task : Between(t)
    BY Zenon, <2>3 DEF Between, mutexVars
  <2>4. CASE \E t \in Task : \/ wait_test(t) \/ add_waiter(t)
                             \/ clear_waiters(t) \/ unlock_release(t)
    BY Zenon, <2>4 DEF wait_test, add_waiter, clear_waiters, unlock_release, kernelVars, mutexVars
  <2>5. CASE \E t \in Task : wait_block(t) \/ wake_waiters(t)
    BY Zenon, <2>5 DEF wait_block, Block, Leave, wake_waiters, Wake, kernelVars, mutexVars
  <2>6. CASE \E t \in Task : sem_load(t) \/ sem_store(t)
    BY Zenon, <2>6 DEF sem_load, sem_store, kernelVars, mutexVars
  <2>7. CASE \E t \in Task : queue_put(t) \/ queue_get(t)
    BY Zenon, <2>7 DEF queue_put, queue_get, kernelVars, mutexVars
  <2>8. CASE \E t \in Task : lock_take(t)
    <3>1. PICK t \in Task : lock_take(t)
      BY <2>8
    <3>2. UNCHANGED <<priority, base>>
      BY <3>1 DEF lock_take, kernelVars
    <3>3. QED
      BY <3>1, <3>2
  <2>9. CASE Dispatch \/ Idle
    BY <2>9 DEF Dispatch, Start, Pick, Idle, syncVars, kernelVars, mutexVars
  <2>10. QED
    BY Zenon, <2>1, <2>2, <2>3, <2>4, <2>5, <2>6, <2>7, <2>8, <2>9 DEF Next, Step
<1>8. QED
  BY <1>2, <1>3, <1>4, <1>5, <1>6, <1>7

\* The boost is temporary: with one mutex besides the queue's, a task that
\* holds none has the priority it was spawned with.
THEOREM BoostIsTemporary ==
    ASSUME OneMutex
    PROVE  Spec => []BoostEnds
<1>1. Init => BoostInv
  <2> SUFFICES ASSUME Init PROVE BoostInv
    OBVIOUS
  <2>1. base = priority /\ cpu = NoTask /\ holds = [t \in Task |-> {}]
    BY DEF Init
  <2>2. ~InSection
    BY <2>1, Names DEF InSection, Here
  <2>3. QED
    BY <2>1, <2>2 DEF BoostInv
<1>2. SyncInv /\ SyncInv' /\ BoostInv /\ [Next]_vars => BoostInv'
  BY BoostKept
<1>3. BoostInv => BoostEnds
  BY DEF BoostInv, BoostEnds
<1>4. QED
  BY <1>1, <1>2, <1>3, SyncInvariant, PTL DEF Spec

\* A step of the running task that has nothing to do with owners.
LEMMA InheritFrame ==
    ASSUME InheritInv, UNCHANGED <<priority, owner>>,
           ~Here({49, 50, 52}), ~Here({35, 36})', ~Here({41, 42})',
           \A u \in Task : state'[u] = "BLOCKED" => state[u] = "BLOCKED" /\ Obj(u)' = Obj(u)
    PROVE  InheritInv'
BY Zenon DEF InheritInv, Inherits

\* Such steps, and where they lead.
PlainStep(t) ==
    \/ wait_test(t) \/ clear_waiters(t) \/ sem_load(t) \/ sem_store(t)
    \/ queue_put(t) \/ queue_get(t) \/ Calls(t)

LEMMA PlainSteps ==
    ASSUME SyncInv, NEW t \in Task, PlainStep(t)
    PROVE  /\ UNCHANGED <<state, priority, owner>>
           /\ cpu = t /\ cpu' = t
           /\ at[t] \notin {49, 50, 52} /\ at'[t] \notin {35, 36, 41, 42}
           /\ \A u \in Task : u # t => Obj(u)' = Obj(u)
<1>1. UNCHANGED <<state, priority, owner, cpu>> /\ cpu = t
  <2>1. CASE Calls(t)
    BY Zenon, <2>1 DEF Calls, queue_send, queue_receive, Call, Line, kernelVars, mutexVars
  <2>2. CASE wait_test(t)
    BY <2>2 DEF wait_test, Line, kernelVars, mutexVars
  <2>3. CASE clear_waiters(t)
    BY Zenon, <2>3 DEF clear_waiters, Line, kernelVars, mutexVars
  <2>4. CASE sem_load(t)
    BY <2>4 DEF sem_load, Line, kernelVars, mutexVars
  <2>5. CASE sem_store(t)
    BY <2>5 DEF sem_store, Line, kernelVars, mutexVars
  <2>6. CASE queue_put(t)
    BY <2>6 DEF queue_put, Line, kernelVars, mutexVars
  <2>7. CASE queue_get(t)
    BY <2>7 DEF queue_get, Line, kernelVars, mutexVars
  <2>8. QED
    BY Zenon, <2>1, <2>2, <2>3, <2>4, <2>5, <2>6, <2>7 DEF PlainStep
<1>2. TypeInv /\ Shape(t)
  BY Zenon DEF SyncInv, TaskInv
<1> SUFFICES /\ at[t] \notin {49, 50, 52} /\ at'[t] \notin {35, 36, 41, 42}
             /\ \A u \in Task : u # t => call'[u] = call[u]
  BY <1>1, ObjFirst
<1>3. CASE wait_test(t)
  <2>1. at[t] \in {27, 77} /\ \E l \in {28, 40, 78, 82} : Goto(t, l)
    BY <1>3 DEF wait_test, Line
  <2>2. at'[t] \in {28, 40, 78, 82} /\ call' = call
    BY <1>2, <2>1, Gotos
  <2>3. QED
    BY <2>1, <2>2
<1>4. CASE clear_waiters(t)
  <2>1. at[t] \in {55, 94} /\ Return(t)
    BY <1>4 DEF clear_waiters, Line
  <2>2. at'[t] \in {86, Client} /\ \A u \in Task : u # t => call'[u] = call[u]
    BY <1>2, <2>1, Returns DEF UnlockLines, PostLines
  <2>3. QED
    BY <2>1, <2>2
<1>5. CASE sem_load(t)
  <2>1. at[t] \in {82, 86} /\ call' = call /\ \E l \in {-82, -86} : at' = [at EXCEPT ![t] = l]
    BY <1>5 DEF sem_load, Line, Store
  <2>2. at'[t] \in {-82, -86}
    BY <1>2, <2>1 DEF TypeInv
  <2>3. QED
    BY <2>1, <2>2
<1>6. CASE sem_store(t)
  <2>1. CASE at[t] = -82 /\ Return(t)
    <3>1. at'[t] = 27 /\ \A u \in Task : u # t => call'[u] = call[u]
      BY <1>2, <2>1, Returns DEF WaitLines
    <3>2. QED
      BY <2>1, <3>1
  <2>2. CASE at[t] = -86 /\ at' = [at EXCEPT ![t] = 91] /\ call' = call
    <3>1. at'[t] = 91
      BY <1>2, <2>2 DEF TypeInv
    <3>2. QED
      BY <2>2, <3>1
  <2>3. QED
    BY Zenon, <1>6, <2>1, <2>2 DEF sem_store, Line, Store
<1>7. CASE queue_put(t) \/ queue_get(t)
  <2>1. at[t] \in {110, 119} /\ Return(t)
    BY Zenon, <1>7 DEF queue_put, queue_get, Line
  <2>2. at'[t] = 48 /\ \A u \in Task : u # t => call'[u] = call[u]
    BY <1>2, <2>1, Returns
  <2>3. QED
    BY <2>1, <2>2
<1>8. CASE Calls(t)
  <2>1. PICK c : /\ Call(t, c)
                 /\ \/ c = Receive5 \/ \E i \in Item : c = Send5(i)
                    \/ \E m \in Mutex : c = LockCall(m) \/ c = UnlockCall(m)
    BY Zenon, <1>8 DEF Calls, queue_send, queue_receive, Receive5, Send5, LockCall, UnlockCall
  <2>2. /\ at[t] = Client /\ at'[t] = FirstLine(c)
        /\ \A u \in Task : u # t => call'[u] = call[u]
    BY <1>2, <2>1, CallStarts
  <2>3. FirstLine(c) \in {27, 48, 77}
    BY <2>1, SendCalls, ReceiveCalls, MutexCalls
  <2>4. QED
    BY <2>2, <2>3
<1>9. QED
  BY Zenon, <1>3, <1>4, <1>5, <1>6, <1>7, <1>8 DEF PlainStep

\* A jump of the running task.
LEMMA Jump ==
    ASSUME SyncInv, NEW t \in Task, NEW l \in Int, Goto(t, l)
    PROVE  at'[t] = l /\ \A u \in Task : Obj(u)' = Obj(u)
<1>1. at'[t] = l /\ call' = call
  BY Zenon, Gotos DEF SyncInv
<1>2. QED
  BY Zenon, <1>1, ObjFirst

\* Types the steps below need.
LEMMA InheritTypes ==
    ASSUME SyncInv
    PROVE  /\ priority \in [Task -> Int] /\ owner \in [AllMutexes -> Task \cup {NoTask}]
           /\ state \in [Task -> {"UNUSED", "READY", "RUNNING", "BLOCKED", "TERMINATED"}]
           /\ \A u \in Task : cpu = u => state[u] # "BLOCKED"
           /\ cpu \in Task \cup {NoTask}
BY Zenon DEF SyncInv, TypeInv, TaskInv

LEMMA InheritPlain ==
    ASSUME SyncInv, InheritInv, NEW t \in Task, PlainStep(t)
    PROVE  InheritInv'
<1>1. /\ UNCHANGED <<state, priority, owner>>
      /\ cpu = t /\ cpu' = t
      /\ at[t] \notin {49, 50, 52} /\ at'[t] \notin {35, 36, 41, 42}
      /\ \A u \in Task : u # t => Obj(u)' = Obj(u)
  BY Zenon, PlainSteps
<1>2. ~Here({49, 50, 52}) /\ ~Here({35, 36})' /\ ~Here({41, 42})'
  BY Zenon, <1>1 DEF Here
<1>3. QED
  BY InheritTypes, <1>1, <1>2, InheritFrame

LEMMA InheritAdd ==
    ASSUME SyncInv, InheritInv, NEW t \in Task, add_waiter(t)
    PROVE  InheritInv'
<1>1. /\ UNCHANGED <<state, priority, cpu, owner>> /\ cpu = t
      /\ (at[t] = 35 /\ Goto(t, 36)) \/ (at[t] = 78 /\ Goto(t, 79))
  BY DEF add_waiter, Line, kernelVars, mutexVars
<1>2. /\ (at[t] = 35 /\ at'[t] = 36) \/ (at[t] = 78 /\ at'[t] = 79)
      /\ \A u \in Task : Obj(u)' = Obj(u)
  BY <1>1, Jump
<1>3. QED
  BY <1>1, <1>2 DEF InheritInv, Inherits, Here

LEMMA InheritBlock ==
    ASSUME SyncInv, InheritInv, NEW t \in Task, wait_block(t)
    PROVE  InheritInv'
<1>1. /\ UNCHANGED <<priority, owner>> /\ cpu = t /\ cpu' = NoTask
      /\ state' = [state EXCEPT ![t] = "BLOCKED"]
      /\ (at[t] = 36 /\ Goto(t, 27)) \/ (at[t] = 79 /\ Goto(t, 77))
  BY DEF wait_block, Line, Block, Leave, mutexVars
<1>2. \A u \in Task : Obj(u)' = Obj(u)
  BY <1>1, Jump
<1>3. at[t] = 79 => Obj(t) \notin Mutex
  BY Objs, Names DEF SyncInv, TaskInv, WaitLines
<1>4. at[t] = 36 /\ Inheritance => Inherits(t)
  BY Zenon, <1>1 DEF InheritInv, Here
<1>5. /\ \A u \in Task : u # t => state'[u] = state[u]
      /\ \A lines : ~Here(lines)'
      /\ ~Here({49, 50, 52})
  BY InheritTypes, <1>1, Names DEF Here
<1>6. ASSUME NEW u \in Task, Inheritance, state'[u] = "BLOCKED", Obj(u) \in Mutex
      PROVE  Inherits(u)
  BY <1>1, <1>3, <1>4, <1>5, <1>6 DEF InheritInv
<1>7. QED
  BY <1>1, <1>2, <1>5, <1>6 DEF InheritInv, Inherits

LEMMA InheritWake ==
    ASSUME SyncInv, SyncInv', InheritInv, NEW t \in Task, wake_waiters(t)
    PROVE  InheritInv'
<1>1. /\ UNCHANGED <<priority, cpu, owner>> /\ cpu = t
      /\ (at[t] = 52 /\ Goto(t, 55)) \/ (at[t] = 91 /\ Goto(t, 94))
      /\ \A u \in Task : state'[u] = "BLOCKED" => state[u] = "BLOCKED"
  BY Zenon DEF wake_waiters, Line, Wake, WakeUp, mutexVars
<1>2. /\ at'[t] \in {55, 94} /\ at[t] \in {52, 91}
      /\ \A u \in Task : Obj(u)' = Obj(u)
  BY <1>1, Jump
<1>3. \A u \in Task : state'[u] = "BLOCKED" => Obj(u) # Obj(t)
  <2>1. Here({55, 94})' /\ Obj(cpu)' = Obj(t)
    BY Zenon, <1>1, <1>2 DEF Here
  <2>2. \A u \in Task : state'[u] = "BLOCKED" => Obj(u)' # Obj(cpu)'
    BY Zenon, <2>1 DEF SyncInv, WaitersInv
  <2>3. QED
    BY Zenon, <1>2, <2>1, <2>2
<1>4. ~Here({35, 36})' /\ ~Here({41, 42})' /\ ~Here({35, 36})
  BY <1>1, <1>2 DEF Here
<1>5. ASSUME NEW u \in Task, Inheritance, state'[u] = "BLOCKED", Obj(u) \in Mutex
      PROVE  Inherits(u)
  BY Zenon, <1>1, <1>3, <1>5 DEF InheritInv
<1>6. ASSUME NEW u \in Task, Inherits(u), Obj(u)' = Obj(u)
      PROVE  Inherits(u)'
  BY <1>1, <1>6 DEF Inherits
<1>7. QED
  BY <1>1, <1>2, <1>4, <1>5, <1>6 DEF InheritInv

LEMMA InheritBoost ==
    ASSUME OneMutex, SyncInv, InheritInv, NEW t \in Task, lock_boost(t)
    PROVE  InheritInv'
<1>1. /\ UNCHANGED <<state, cpu, owner>> /\ cpu = t /\ at[t] = 28 /\ Goto(t, 35)
      /\ priority' = IF Inheritance /\ owner[Obj(t)] # NoTask /\ priority[t] > priority[owner[Obj(t)]]
                     THEN [priority EXCEPT ![owner[Obj(t)]] = priority[t]]
                     ELSE priority
  BY Zenon DEF lock_boost, Line, mutexVars
<1>2. at'[t] = 35 /\ \A u \in Task : Obj(u)' = Obj(u)
  BY <1>1, Jump
<1>3. Obj(t) \in Mutex /\ owner[Obj(t)] \in Task /\ owner[Obj(t)] # NoTask
  BY <1>1, MutexHeld, Names
<1>4. \A u \in Task : Obj(u) \in Mutex => Obj(u) = Obj(t)
  BY <1>3 DEF OneMutex
<1>5. Inheritance => /\ priority'[owner[Obj(t)]] >= priority[owner[Obj(t)]]
                     /\ priority'[owner[Obj(t)]] >= priority[t]
                     /\ priority'[owner[Obj(t)]] \in Int
                     /\ \A u \in Task : u # owner[Obj(t)] => priority'[u] = priority[u]
  BY InheritTypes, <1>1, <1>3
<1>6. ~Here({49, 50, 52}) /\ ~Here({49, 50, 52})' /\ ~Here({41, 42})'
  BY <1>1, <1>2 DEF Here
<1>7. ASSUME NEW u \in Task, Inheritance,
             (state[u] = "BLOCKED" /\ Obj(u) \in Mutex) \/ u = t
      PROVE  Inherits(u)'
  <2>1. Obj(u) = Obj(t)
    BY Zenon, <1>4, <1>7
  <2>2. CASE u = owner[Obj(t)]
    BY <1>1, <1>2, <1>3, <1>5, <1>7, <2>1, <2>2 DEF Inherits
  <2>3. CASE u # owner[Obj(t)]
    <3>1. priority'[u] = priority[u]
      BY Zenon, <1>5, <1>7, <2>3
    <3>2. u = t \/ priority[owner[Obj(t)]] >= priority[u]
      BY Zenon, <1>6, <1>7, <2>1 DEF InheritInv, Inherits
    <3>3. priority[owner[Obj(t)]] \in Int /\ priority[u] \in Int
      BY InheritTypes, <1>3
    <3>4. priority'[owner[Obj(t)]] >= priority'[u]
      BY <1>5, <1>7, <3>1, <3>2, <3>3
    <3>5. owner'[Obj(u)'] = owner[Obj(t)]
      BY <1>1, <1>2, <2>1
    <3>6. QED
      BY <1>3, <3>4, <3>5 DEF Inherits
  <2>4. QED
    BY <2>2, <2>3
<1>8. QED
  BY Zenon, <1>1, <1>2, <1>6, <1>7 DEF InheritInv

LEMMA InheritTake ==
    ASSUME SyncInv, InheritInv, NEW t \in Task, lock_take(t)
    PROVE  InheritInv'
<1>1. UNCHANGED <<state, priority, cpu>> /\ cpu = t /\ at[t] \in {40, 41, 42}
  BY Zenon DEF lock_take, Line, kernelVars
<1>2. Obj(t) \in AllMutexes
  BY <1>1, Objs DEF SyncInv, TaskInv, LockLines
<1>3. \A u \in Task : state[u] = "BLOCKED" => Obj(u) # Obj(t)
  <2>1. CASE at[t] = 40
    <3>1. ~locked[Obj(t)] /\ ~Here({50, 52, 91})
      BY <1>1, <2>1 DEF SyncInv, MutexInv, Here
    <3>2. Available(Obj(t))
      BY <1>2, <3>1 DEF Available
    <3>3. QED
      BY <3>1, <3>2 DEF SyncInv, WakeInv
  <2>2. CASE at[t] \in {41, 42}
    BY Zenon, <1>1, <2>2 DEF InheritInv, Here
  <2>3. QED
    BY Zenon, <1>1, <2>1, <2>2
<1>4. CASE at[t] \in {40, 41}
  <2>1. /\ \E l \in {41, 42} : Goto(t, l)
        /\ owner' = owner \/ owner' = [owner EXCEPT ![Obj(t)] = t]
    <3>1. at[t] # 42
      BY <1>4
    <3>2. QED
      BY Zenon, <3>1 DEF lock_take, Line
  <2>2. at'[t] \in {41, 42} /\ \A u \in Task : Obj(u)' = Obj(u)
    BY <2>1, Jump
  <2>3. \A m \in Mutex : m # Obj(t) => owner'[m] = owner[m]
    BY InheritTypes, <2>1
  <2>4. /\ ~Here({49, 50, 52}) /\ ~Here({35, 36})'
    BY <1>1, <1>4, <2>2 DEF Here
  <2>5. ASSUME NEW u \in Task, Inheritance, state[u] = "BLOCKED", Obj(u) \in Mutex
        PROVE  Inherits(u) /\ Obj(u) # Obj(t)
    BY <1>3, <2>4, <2>5 DEF InheritInv
  <2>6. QED
    BY <1>1, <1>3, <2>2, <2>3, <2>4, <2>5 DEF InheritInv, Inherits, Here
<1>5. CASE at[t] = 42
  <2>1. Return(t) /\ owner' = owner
    BY <1>5 DEF lock_take, Line
  <2>2. at'[t] \in {110, 119, Client} /\ \A u \in Task : u # t => call'[u] = call[u]
    <3>1. TypeInv /\ Shape(t)
      BY Zenon DEF SyncInv, TaskInv
    <3>2. QED
      BY <1>5, <2>1, <3>1, Returns DEF LockLines
  <2>3. ~Here({49, 50, 52}) /\ ~Here({35, 36})' /\ ~Here({41, 42})'
    BY <1>1, <1>5, <2>2 DEF Here
  <2>4. \A u \in Task : u # t => Obj(u)' = Obj(u)
    BY Zenon, <2>2, ObjFirst
  <2>5. QED
    BY Zenon, InheritTypes, <1>1, <2>1, <2>3, <2>4, InheritFrame
<1>6. QED
  BY <1>1, <1>4, <1>5

LEMMA InheritRestore ==
    ASSUME OneMutex, SyncInv, BoostInv, InheritInv, NEW t \in Task, unlock_restore(t)
    PROVE  InheritInv'
<1>1. /\ UNCHANGED <<state, cpu, owner>> /\ cpu = t /\ at[t] = 48 /\ Goto(t, 49)
      /\ priority' = [priority EXCEPT ![t] = owner_saved_priority[Obj(t)]]
  BY Zenon DEF unlock_restore, Line
<1>2. at'[t] = 49 /\ \A u \in Task : Obj(u)' = Obj(u)
  BY <1>1, Jump
<1>3. Obj(t) \in AllMutexes
  BY <1>1, Objs DEF SyncInv, TaskInv, UnlockLines
<1>4. ~Here({35, 36})' /\ ~Here({41, 42})' /\ ~Here({49, 50, 52}) /\ Here({49, 50, 52})'
  BY <1>1, <1>2 DEF Here
<1>5. CASE Obj(t) \in Mutex
  <2>1. \A u \in Task : Obj(u) \in Mutex => Obj(u) = Obj(t)
    BY <1>5 DEF OneMutex
  <2>2. QED
    BY Zenon, <1>1, <1>2, <1>4, <2>1 DEF InheritInv
<1>6. CASE Obj(t) = "lock"
  <2>1. owner_saved_priority[Obj(t)] = priority[t]
    BY Zenon, <1>1, <1>6 DEF BoostInv, InSection, Here
  <2>2. priority' = priority
    BY InheritTypes, <1>1, <2>1
  <2>3. QED
    BY Zenon, <1>1, <1>2, <1>4, <2>2 DEF InheritInv, Inherits
<1>7. QED
  BY <1>3, <1>5, <1>6

LEMMA InheritRelease ==
    ASSUME SyncInv, InheritInv, NEW t \in Task, unlock_release(t)
    PROVE  InheritInv'
<1>1. /\ UNCHANGED <<state, priority, cpu>> /\ cpu = t /\ at[t] \in {49, 50}
      /\ \E l \in {50, 52} : Goto(t, l)
      /\ owner' = owner \/ owner' = [owner EXCEPT ![Obj(t)] = NoTask]
  BY Zenon DEF unlock_release, Line, kernelVars
<1>2. at'[t] \in {50, 52} /\ \A u \in Task : Obj(u)' = Obj(u)
  BY <1>1, Jump
<1>3. \A m \in Mutex : m # Obj(t) => owner'[m] = owner[m]
  BY Zenon, InheritTypes, <1>1
<1>4. ~Here({35, 36})' /\ ~Here({41, 42})' /\ Here({49, 50, 52})' /\ cpu' = t
  BY <1>1, <1>2 DEF Here
<1>5. ASSUME NEW u \in Task, Inheritance, state[u] = "BLOCKED", Obj(u) \in Mutex, Obj(u) # Obj(t)
      PROVE  Inherits(u)
  BY Zenon, <1>1, <1>5 DEF InheritInv
<1>6. QED
  BY <1>1, <1>2, <1>3, <1>4, <1>5 DEF InheritInv, Inherits

LEMMA InheritBetween ==
    ASSUME SyncInv, InheritInv, NEW t \in Task, Between(t)
    PROVE  InheritInv'
<1>1. /\ cpu = t /\ at[t] = Client /\ call' = call /\ at' = at /\ owner' = owner
      /\ \/ cpu' = NoTask /\ priority' = priority /\ \E s : s # "BLOCKED" /\ state' = [state EXCEPT ![t] = s]
         \/ /\ cpu' = t
            /\ \E u \in Task : \E p : /\ state[u] = "UNUSED" /\ state' = [state EXCEPT ![u] = "READY"]
                                      /\ priority' = [priority EXCEPT ![u] = p]
  <2>1. cpu = t /\ at[t] = Client /\ call' = call /\ at' = at /\ owner' = owner
    BY Zenon DEF Between, Line, control, mutexVars
  <2>2. CASE Yield(t) \/ Terminate(t)
    BY Zenon, InheritTypes, <2>1, <2>2 DEF Yield, Terminate, Leave
  <2>3. CASE \E u \in Task, p \in program.priorities : Spawn(u, p)
    BY Zenon, <2>1, <2>3 DEF Spawn
  <2>4. QED
    BY Zenon, <2>1, <2>2, <2>3 DEF Between
<1>2. /\ \A u \in Task : Obj(u)' = Obj(u)
      /\ ~Here({49, 50, 52}) /\ ~Here({35, 36})' /\ ~Here({41, 42})' /\ ~Here({41, 42, 49})
      /\ ~Here({50, 52, 91})
  BY <1>1, ObjFirst, Names DEF Here
<1>3. \A u \in Task : state'[u] = "BLOCKED" => state[u] = "BLOCKED"
  BY Zenon, InheritTypes, <1>1
<1>4. CASE priority' = priority
  BY Zenon, <1>1, <1>2, <1>3, <1>4, InheritFrame
<1>5. CASE priority' # priority
  <2>1. PICK u \in Task : \E p : /\ state[u] = "UNUSED" /\ priority' = [priority EXCEPT ![u] = p]
    BY Zenon, <1>1, <1>5
  <2>2. holds[u] = {}
    BY Zenon, <2>1 DEF SyncInv, TaskInv
  <2>3. ASSUME NEW v \in Task, state[v] = "BLOCKED", Obj(v) \in Mutex
        PROVE  owner[Obj(v)] # u /\ v # u
    <3>1. ~Available(Obj(v))
      BY Zenon, <1>2, <2>3 DEF SyncInv, WakeInv
    <3>2. locked[Obj(v)]
      BY Zenon, <2>3, <3>1 DEF Available
    <3>3. PICK w \in Task : Obj(v) \in holds[w]
      BY Zenon, <1>2, <2>3, <3>2 DEF SyncInv, MutexInv
    <3>4. owner[Obj(v)] = w
      BY Zenon, <3>3 DEF SyncInv, MutexInv, MutualExclusion
    <3>5. QED
      BY Zenon, <2>1, <2>2, <2>3, <3>3, <3>4
  <2>4. \A v \in Task : v # u => priority'[v] = priority[v]
    BY Zenon, InheritTypes, <2>1
  <2>5. ASSUME NEW v \in Task, Inheritance, state'[v] = "BLOCKED", Obj(v) \in Mutex
        PROVE  Inherits(v)'
    <3>1. Inherits(v) /\ owner[Obj(v)] # u /\ v # u
      BY Zenon, <1>2, <1>3, <2>3, <2>5 DEF InheritInv
    <3>2. owner'[Obj(v)'] = owner[Obj(v)] /\ owner[Obj(v)] \in Task
      BY Zenon, <1>1, <1>2, <3>1 DEF Inherits
    <3>3. QED
      BY Zenon, <2>4, <3>1, <3>2 DEF Inherits
  <2>6. QED
    BY Zenon, <1>2, <2>5 DEF InheritInv
<1>6. QED
  BY Zenon, <1>4, <1>5

LEMMA InheritDispatch ==
    ASSUME SyncInv, InheritInv, Dispatch
    PROVE  InheritInv'
<1>1. /\ call' = call /\ at' = at /\ UNCHANGED <<owner, priority>>
      /\ cpu = NoTask
      /\ cpu' = NoTask \/ cpu' = picked
      /\ \A u \in Task : state'[u] = "BLOCKED" => state[u] = "BLOCKED"
  <2>1. call' = call /\ at' = at /\ owner' = owner
    BY Zenon DEF Dispatch, syncVars, control, mutexVars
  <2>2. CASE Start
    BY Zenon, InheritTypes, <2>1, <2>2 DEF Start, SyncInv, TaskInv
  <2>3. CASE \E idx \in Task : Pick(idx)
    BY Zenon, <2>1, <2>3 DEF Pick
  <2>4. QED
    BY Zenon, <2>2, <2>3 DEF Dispatch
<1>2. \A u \in Task : Obj(u)' = Obj(u)
  BY Zenon, <1>1, ObjFirst
<1>3. ~Here({49, 50, 52}) /\ ~Here({35, 36})' /\ ~Here({41, 42})'
  <2>1. \A u \in Task : at[u] \in {Client, 27, 77}
    <3>1. \A u \in Task : cpu # u
      BY <1>1, Names
    <3>2. QED
      BY Zenon, <3>1 DEF SyncInv, TaskInv
  <2>2. cpu \notin Task
    BY <1>1, Names
  <2>3. cpu' \in Task => at'[cpu'] \in {Client, 27, 77}
    BY Zenon, <1>1, <2>1
  <2>4. QED
    BY <2>2, <2>3 DEF Here
<1>4. QED
  BY Zenon, <1>1, <1>2, <1>3, InheritFrame

LEMMA InheritIdle ==
    ASSUME SyncInv, InheritInv, UNCHANGED vars \/ Idle
    PROVE  InheritInv'
<1>1. UNCHANGED <<state, priority, cpu, owner, call, at>>
  BY Zenon DEF vars, Idle, kernelVars, syncVars, mutexVars, control
<1>2. \A u \in Task : Obj(u)' = Obj(u)
  BY <1>1, ObjFirst
<1>3. QED
  BY <1>1, <1>2 DEF InheritInv, Inherits, Here

LEMMA InheritKept ==
    ASSUME OneMutex, SyncInv, SyncInv', BoostInv, InheritInv, [Next]_vars
    PROVE  InheritInv'
BY Zenon, InheritPlain, InheritAdd, InheritBlock, InheritWake, InheritBoost, InheritTake, InheritRestore, InheritRelease, InheritBetween,
   InheritDispatch, InheritIdle
DEF Next, Step, PlainStep

\* Priority inheritance: with one mutex besides the queue's, whenever the
\* scheduler chooses, the owner of a mutex has at least the priority of every
\* task that is blocked on it.
THEOREM OwnersInherit ==
    ASSUME OneMutex
    PROVE  Spec => []OwnerInherits
<1>1. Init => BoostInv /\ InheritInv
  <2> SUFFICES ASSUME Init PROVE BoostInv /\ InheritInv
    OBVIOUS
  <2>1. /\ base = priority /\ cpu = NoTask /\ holds = [t \in Task |-> {}]
        /\ \A t \in Task : state[t] # "BLOCKED"
    BY Zenon DEF Init
  <2>2. ~InSection /\ \A lines : ~Here(lines)
    BY <2>1, Names DEF InSection, Here
  <2>3. QED
    BY Zenon, <2>1, <2>2 DEF BoostInv, InheritInv
<1>2. SyncInv /\ SyncInv' /\ BoostInv /\ InheritInv /\ [Next]_vars => BoostInv' /\ InheritInv'
  BY BoostKept, InheritKept
<1>3. SyncInv /\ InheritInv => OwnerInherits
  <2> SUFFICES ASSUME SyncInv, InheritInv, Inheritance, cpu = NoTask, NEW t \in Task,
                      state[t] = "BLOCKED", Obj(t) \in AllMutexes
               PROVE  owner[Obj(t)] \in Task /\ priority[owner[Obj(t)]] >= priority[t]
    BY Zenon DEF OwnerInherits
  <2>1. Shape(t) /\ at[t] \in {27, 77} /\ (at[t] = 27 => Obj(t) \in Mutex)
    BY ZenonT(40), Names DEF SyncInv, TaskInv
  <2>2. Obj(t) \in Mutex
    BY ZenonT(40), <2>1, Objs, Names DEF WaitLines
  <2>3. ~Here({49, 50, 52})
    BY Names DEF Here
  <2>4. QED
    BY Zenon, <2>2, <2>3 DEF InheritInv, Inherits
<1>4. QED
  BY <1>1, <1>2, <1>3, SyncInvariant, PTL DEF Spec

-----------------------------------------------------------------------------
(* The life cycle of the tasks and the bounded queue *)

\* Whoever is woken was BLOCKED.
LEMMA WokenBlocked ==
    ASSUME SyncInv, NEW t \in Task, wake_waiters(t)
    PROVE  {waiters[Obj(t)][i] : i \in DOMAIN waiters[Obj(t)]} \subseteq Blocked
<1>1. cpu = t /\ at[t] \in {52, 91} /\ Shape(t) /\ TypeInv
  BY Zenon DEF wake_waiters, Line, SyncInv, TaskInv
<1>2. Obj(t) \in Objects
  BY <1>1, Objs DEF PostLines, UnlockLines
<1>3. \A i \in DOMAIN waiters[Obj(t)] : waiters[Obj(t)][i] \in Task
  <2>1. waiters[Obj(t)] \in Seq(Task)
    BY <1>1, <1>2 DEF TypeInv
  <2>2. QED
    BY <2>1
<1>4. \A u \in Task : Among(u, Obj(t)) => state[u] = "BLOCKED"
  <2>1. ~Here({55, 94}) /\ ~Here({36, 79})
    BY <1>1 DEF Here
  <2>2. QED
    BY Zenon, <1>2, <2>1 DEF WaitersInv, SyncInv
<1>5. QED
  BY <1>3, <1>4 DEF Among, Blocked

\* Only what waits, wakes or switches changes the state of a task.
LEMMA StatesKept ==
    ASSUME NEW t \in Task,
           \/ wait_test(t) \/ add_waiter(t) \/ clear_waiters(t)
           \/ lock_boost(t) \/ lock_take(t)
           \/ unlock_restore(t) \/ unlock_release(t)
           \/ sem_load(t) \/ sem_store(t)
           \/ queue_put(t) \/ queue_get(t)
    PROVE  UNCHANGED <<state, picked, cpu>>
<1>1. CASE wait_test(t) \/ add_waiter(t) \/ clear_waiters(t)
  BY Zenon, <1>1 DEF wait_test, add_waiter, clear_waiters, kernelVars
<1>2. CASE lock_boost(t) \/ lock_take(t)
  BY Zenon, <1>2 DEF lock_boost, lock_take, kernelVars
<1>3. CASE unlock_restore(t) \/ unlock_release(t)
  BY Zenon, <1>3 DEF unlock_restore, unlock_release, kernelVars
<1>4. CASE sem_load(t) \/ sem_store(t)
  BY Zenon, <1>4 DEF sem_load, sem_store, kernelVars
<1>5. CASE queue_put(t) \/ queue_get(t)
  BY Zenon, <1>5 DEF queue_put, queue_get, kernelVars
<1> QED
  BY Zenon, <1>1, <1>2, <1>3, <1>4, <1>5

\* The primitives, which write the states of tasks directly, keep to the
\* life cycle the kernel promises; in particular mutex_unlock() and
\* sem_post(), which make every waiter READY whatever state it is in, only
\* ever meet waiters that are BLOCKED.
THEOREM KernelRespected == Spec => RespectsKernel
<1>1. SyncInv /\ [Next]_vars => [KernelNext]_<<state, picked, cpu>>
  <2> SUFFICES ASSUME SyncInv, [Next]_vars
               PROVE  KernelNext \/ UNCHANGED <<state, picked, cpu>>
    OBVIOUS
  <2>1. CASE UNCHANGED vars
    BY <2>1 DEF vars, kernelVars
  <2>2. CASE \E t \in Task : Calls(t)
    BY Zenon, <2>2 DEF Calls, queue_send, queue_receive, Call, kernelVars
  <2>3. CASE \E t \in Task : Between(t)
    <3>1. PICK t \in Task : Between(t)
      BY <2>3
    <3>2. program.priorities \subseteq Priority
      BY Priorities DEF SyncInv
    <3>3. \/ Yield(t) \/ Terminate(t)
          \/ \E u \in Task, p \in Priority : Spawn(u, p)
      BY <3>1, <3>2 DEF Between
    <3>4. QED
      BY <3>3 DEF KernelNext
  <2>4. CASE \E t \in Task : wait_block(t)
    BY <2>4 DEF wait_block, KernelNext
  <2>5. CASE \E t \in Task : wake_waiters(t)
    <3>1. PICK t \in Task : wake_waiters(t)
      BY <2>5
    <3>2. Wake({waiters[Obj(t)][i] : i \in DOMAIN waiters[Obj(t)]})
      BY Zenon, <3>1 DEF wake_waiters
    <3>3. \E W \in SUBSET Blocked : Wake(W)
      BY <3>1, <3>2, WokenBlocked
    <3>4. QED
      BY <3>3 DEF KernelNext
  <2>6. CASE \E t \in Task : \/ wait_test(t) \/ add_waiter(t) \/ clear_waiters(t)
                             \/ lock_boost(t) \/ lock_take(t)
                             \/ unlock_restore(t) \/ unlock_release(t)
                             \/ sem_load(t) \/ sem_store(t) \/ queue_put(t) \/ queue_get(t)
    BY Zenon, <2>6, StatesKept
  <2>7. CASE Dispatch
    BY <2>7 DEF Dispatch, KernelNext
  <2>8. CASE Idle
    BY <2>8 DEF Idle, kernelVars
  <2>9. QED
    BY <2>1, <2>2, <2>3, <2>4, <2>5, <2>6, <2>7, <2>8 DEF Next, Step
<1>2. QED
  BY <1>1, SyncInvariant, PTL DEF Spec, RespectsKernel

\* The queue's contents: the filled slots of the ring buffer from head on.
items == [i \in 1 .. filled |-> buffer[(head + i - 1) % Capacity]]

\* The slot of the i-th item.
LEMMA Slots ==
    ASSUME NEW h \in 0 .. Capacity - 1, NEW i \in 1 .. Capacity
    PROVE  /\ (h + i - 1) % Capacity = IF h + i - 1 < Capacity THEN h + i - 1 ELSE h + i - 1 - Capacity
           /\ (h + i - 1) % Capacity \in 0 .. Capacity - 1
<1>1. Capacity \in Nat \ {0}
  BY SyncAssumption
<1>2. i - 1 \in 0 .. Capacity /\ h + (i - 1) = h + i - 1
  BY <1>1
<1>3. (h + (i - 1)) % Capacity = IF h + (i - 1) < Capacity THEN h + (i - 1) ELSE h + (i - 1) - Capacity
  BY <1>2, Wraps
<1>4. QED
  BY <1>1, <1>2, <1>3

LEMMA ItemsType ==
    ASSUME TypeInv
    PROVE  items \in Seq(Item) /\ Len(items) = filled /\ filled \in Nat
<1>1. /\ buffer \in [0 .. Capacity - 1 -> Item] /\ head \in 0 .. Capacity - 1
      /\ filled \in 0 .. Capacity /\ Capacity \in Nat \ {0}
  BY SyncAssumption DEF TypeInv
<1>2. \A i \in 1 .. filled : buffer[(head + i - 1) % Capacity] \in Item
  BY <1>1, Slots
<1>3. QED
  BY <1>1, <1>2 DEF items

\* queue_send() appends the item in a queue that has room.
LEMMA PutSends ==
    ASSUME SyncInv, NEW t \in Task, queue_put(t)
    PROVE  \E item \in Item : Queue!Send(item)
<1>1. cpu = t /\ Shape(t) /\ TypeInv /\ at[t] = 110
  BY Zenon DEF queue_put, Line, SyncInv, TaskInv
<1>2. Obj(t) \in Item /\ Posts(call[t]) = "slots_filled"
  BY Zenon, <1>1, Objs
<1>3. /\ Capacity \in Nat \ {0} /\ buffer \in [0 .. Capacity - 1 -> Item]
      /\ head \in 0 .. Capacity - 1 /\ tail \in 0 .. Capacity - 1 /\ filled \in 0 .. Capacity
      /\ count["slots_empty"] \in Nat
  BY <1>1, SyncAssumption DEF TypeInv
<1>4. OwesEmpty
  BY <1>1, <1>2 DEF OwesEmpty, Here
<1>5. tail = (head + filled) % Capacity /\ filled < Capacity
  BY <1>3, <1>4 DEF QueueInv, SyncInv
<1>6. /\ buffer' = [buffer EXCEPT ![tail] = Obj(t)] /\ filled' = filled + 1 /\ head' = head /\ got' = got
  BY DEF queue_put
<1>7. items \in Seq(Item) /\ Len(items) = filled
  BY <1>1, ItemsType
<1>8. items' = Append(items, Obj(t))
  <2>1. \A i \in 1 .. filled : (head + i - 1) % Capacity # tail /\ (head + i - 1) % Capacity \in 0 .. Capacity - 1
    <3> TAKE i \in 1 .. filled
    <3>1. /\ (head + i - 1) % Capacity = IF head + i - 1 < Capacity THEN head + i - 1 ELSE head + i - 1 - Capacity
          /\ (head + i - 1) % Capacity \in 0 .. Capacity - 1
      BY <1>3, Slots
    <3>2. tail = IF head + filled < Capacity THEN head + filled ELSE head + filled - Capacity
      BY <1>3, <1>5, Wraps
    <3>3. QED
      BY <1>3, <1>5, <3>1, <3>2
  <2>2. \A i \in 1 .. filled : buffer'[(head + i - 1) % Capacity] = items[i]
    BY Zenon, <1>3, <1>6, <2>1 DEF items
  <2>3. head + (filled + 1) - 1 = head + filled
    BY <1>3
  <2>4. buffer'[(head + (filled + 1) - 1) % Capacity] = Obj(t)
    BY <1>3, <1>5, <1>6, <2>3
  <2>5. items' = [i \in 1 .. filled + 1 |-> buffer'[(head + i - 1) % Capacity]]
    BY <1>6 DEF items
  <2>6. \A i \in 1 .. filled + 1 : items'[i] = IF i <= filled THEN items[i] ELSE Obj(t)
    <3>1. \A i \in 1 .. filled : items'[i] = items[i]
      BY <1>3, <2>2, <2>5
    <3>2. items'[filled + 1] = Obj(t)
      BY <1>3, <2>4, <2>5
    <3>3. QED
      BY <1>3, <3>1, <3>2
  <2>7. items' \in Seq(Item) /\ Len(items') = filled + 1
    <3>1. \A i \in 1 .. filled : items[i] \in Item
      BY <1>3, <1>7
    <3>2. \A i \in 1 .. filled + 1 : items'[i] \in Item
      BY <1>2, <1>3, <2>6, <3>1
    <3>3. items' = [i \in 1 .. filled + 1 |-> items'[i]]
      BY <2>5
    <3>4. items' \in [1 .. filled + 1 -> Item] /\ filled + 1 \in Nat
      BY <1>3, <3>2, <3>3
    <3>5. QED
      BY <3>4
  <2>8. /\ Append(items, Obj(t)) \in Seq(Item) /\ Len(Append(items, Obj(t))) = filled + 1
        /\ \A i \in 1 .. filled + 1 :
             Append(items, Obj(t))[i] = IF i <= filled THEN items[i] ELSE Obj(t)
    BY <1>2, <1>7
  <2>9. QED
    BY <2>6, <2>7, <2>8, SeqEqual
<1>9. QED
  BY Zenon, <1>2, <1>3, <1>5, <1>6, <1>7, <1>8 DEF Queue!Send, items

\* queue_receive() takes the oldest item of a queue that is not empty.
LEMMA GetReceives ==
    ASSUME SyncInv, NEW t \in Task, queue_get(t)
    PROVE  Queue!Receive
<1>1. cpu = t /\ Shape(t) /\ TypeInv /\ at[t] = 119
  BY Zenon DEF queue_get, Line, SyncInv, TaskInv
<1>2. Posts(call[t]) = "slots_empty"
  BY <1>1, Objs
<1>3. /\ Capacity \in Nat \ {0} /\ buffer \in [0 .. Capacity - 1 -> Item]
      /\ head \in 0 .. Capacity - 1 /\ filled \in 0 .. Capacity
      /\ count["slots_filled"] \in Nat
  BY <1>1, SyncAssumption DEF TypeInv
<1>4. OwesFilled
  BY <1>1, <1>2 DEF OwesFilled, Here
<1>5. filled > 0
  BY <1>3, <1>4 DEF QueueInv, SyncInv
<1>6. buffer' = buffer /\ filled' = filled - 1 /\ head' = (head + 1) % Capacity /\ got' = buffer[head]
  BY DEF queue_get
<1>7. items \in Seq(Item) /\ Len(items) = filled
  BY <1>1, ItemsType
<1>8. items # <<>> /\ got' = Head(items)
  <2>1. head + 1 - 1 = head /\ head % Capacity = head
    BY <1>3
  <2>2. items[1] = buffer[head]
    BY <1>3, <1>5, <2>1 DEF items
  <2>3. QED
    BY <1>3, <1>5, <1>6, <1>7, <2>2
<1>9. items' = Tail(items)
  <2>1. head' = IF head + 1 < Capacity THEN head + 1 ELSE 0
    BY <1>3, <1>6, WrapsNext
  <2>2. head' \in 0 .. Capacity - 1
    BY <1>3, <2>1
  <2>3. \A i \in 1 .. filled - 1 : (head' + i - 1) % Capacity = (head + (i + 1) - 1) % Capacity
    <3> TAKE i \in 1 .. filled - 1
    <3>1. i \in 1 .. Capacity /\ i + 1 \in 1 .. Capacity
      BY <1>3
    <3>2. (head' + i - 1) % Capacity = IF head' + i - 1 < Capacity THEN head' + i - 1 ELSE head' + i - 1 - Capacity
      BY <2>2, <3>1, Slots
    <3>3. (head + (i + 1) - 1) % Capacity =
            IF head + (i + 1) - 1 < Capacity THEN head + (i + 1) - 1 ELSE head + (i + 1) - 1 - Capacity
      BY Zenon, <1>3, <3>1, Slots
    <3>4. QED
      BY <1>3, <2>1, <3>1, <3>2, <3>3
  <2>4. items' = [i \in 1 .. filled - 1 |-> buffer[(head' + i - 1) % Capacity]]
    BY <1>6 DEF items
  <2>5. \A i \in 1 .. filled - 1 : items[i + 1] = buffer[(head + (i + 1) - 1) % Capacity]
    BY <1>3 DEF items
  <2>6. \A i \in 1 .. filled - 1 : items'[i] = items[i + 1]
    BY <2>3, <2>4, <2>5
  <2>7. items' \in Seq(Item) /\ Len(items') = filled - 1
    BY <1>3, <1>5, <1>7, <2>4, <2>6
  <2>8. /\ Tail(items) \in Seq(Item) /\ Len(Tail(items)) = filled - 1
        /\ \A i \in 1 .. filled - 1 : Tail(items)[i] = items[i + 1]
    BY <1>7, <1>8, HeadTailProperties
  <2>9. QED
    BY <2>6, <2>7, <2>8, SeqEqual
<1>10. QED
  BY Zenon, <1>8, <1>9 DEF Queue!Receive, items

\* Only the two accesses to the ring buffer change it.
LEMMA QueueKept ==
    ASSUME NEW t \in Task,
           \/ wait_test(t) \/ add_waiter(t)
           \/ wait_block(t) \/ wake_waiters(t) \/ clear_waiters(t)
           \/ lock_boost(t) \/ lock_take(t)
           \/ unlock_restore(t) \/ unlock_release(t)
           \/ sem_load(t) \/ sem_store(t)
    PROVE  UNCHANGED queueVars
<1>1. CASE wait_test(t) \/ add_waiter(t)
  BY Zenon, <1>1 DEF wait_test, add_waiter
<1>2. CASE wait_block(t) \/ wake_waiters(t) \/ clear_waiters(t)
  BY Zenon, <1>2 DEF wait_block, wake_waiters, clear_waiters
<1>3. CASE lock_boost(t) \/ lock_take(t)
  BY Zenon, <1>3 DEF lock_boost, lock_take
<1>4. CASE unlock_restore(t) \/ unlock_release(t)
  BY Zenon, <1>4 DEF unlock_restore, unlock_release
<1>5. CASE sem_load(t) \/ sem_store(t)
  BY Zenon, <1>5 DEF sem_load, sem_store
<1> QED
  BY Zenon, <1>1, <1>2, <1>3, <1>4, <1>5

\* The ring buffer with its two semaphores and its mutex is a bounded
\* first-in first-out queue: no item is lost, duplicated or overwritten, and
\* receivers get them in the order they were sent.
THEOREM QueueRefinement == Spec => ImplementsQueue
<1>1. Init => Queue!QueueInit
  <2> SUFFICES ASSUME Init PROVE Queue!QueueInit
    OBVIOUS
  <2>1. filled = 0 /\ SyncInv
    BY Zenon, Init_Inv DEF Init
  <2>2. got \in Item
    BY Zenon, <2>1 DEF SyncInv, TypeInv
  <2>3. [i \in 1 .. filled |-> buffer[(head + i - 1) % Capacity]] = <<>>
    BY <2>1
  <2>4. QED
    BY <2>2, <2>3 DEF Queue!QueueInit
<1>2. SyncInv /\ [Next]_vars => [Queue!QueueNext]_<<items, got>>
  <2> SUFFICES ASSUME SyncInv, [Next]_vars
               PROVE  Queue!QueueNext \/ UNCHANGED <<items, got>>
    OBVIOUS
  <2>1. CASE \E t \in Task : queue_put(t)
    BY <2>1, PutSends DEF Queue!QueueNext
  <2>2. CASE \E t \in Task : queue_get(t)
    BY <2>2, GetReceives DEF Queue!QueueNext
  <2>3. CASE UNCHANGED queueVars
    BY <2>3 DEF queueVars, items
  <2>4. CASE UNCHANGED vars
    BY <2>3, <2>4 DEF vars
  <2>5. CASE \E t \in Task : Calls(t) \/ Between(t)
    BY Zenon, <2>3, <2>5 DEF Calls, Between, queue_send, queue_receive, Call
  <2>6. CASE \E t \in Task : \/ wait_test(t) \/ add_waiter(t) \/ wait_block(t)
                             \/ wake_waiters(t) \/ clear_waiters(t)
                             \/ lock_boost(t) \/ lock_take(t)
                             \/ unlock_restore(t) \/ unlock_release(t)
                             \/ sem_load(t) \/ sem_store(t)
    BY Zenon, <2>3, <2>6, QueueKept
  <2>7. CASE Dispatch \/ Idle
    BY <2>3, <2>7 DEF Dispatch, Idle, syncVars
  <2>8. QED
    BY <2>1, <2>2, <2>4, <2>5, <2>6, <2>7 DEF Next, Step
<1>3. Spec => Queue!QueueInit /\ [][Queue!QueueNext]_<<items, got>>
  BY <1>1, <1>2, SyncInvariant, PTL DEF Spec
<1>4. QED
  BY <1>3, PTL DEF ImplementsQueue, Queue!QueuePromise, items
=============================================================================
