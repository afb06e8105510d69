----------------------------- MODULE SyncProofs -----------------------------
(***************************************************************************)
(* Proofs about the primitives of Sync.tla as cooperative tasks use them,  *)
(* for every set of tasks and mutexes, every program of senders, receivers *)
(* and lockers, and every capacity of the queue.  The invariant is that of *)
(* SyncWaitProofs.                                                         *)
(***************************************************************************)
EXTENDS SyncWaitProofs

USE SMTT(30) DEF Client, NoTask, AllMutexes, Semaphores, Objects

-----------------------------------------------------------------------------
(* Mutexes, semaphores and the queue *)

LEMMA lock_boost_Inv ==
    ASSUME SyncInv, NEW t \in Task, lock_boost(t), program' = program
    PROVE  SyncInv'
<1>1. cpu = t /\ Shape(t) /\ TypeInv /\ TaskInv /\ at[t] = 28
  BY DEF lock_boost, Line, SyncInv, TaskInv
<1>2. UNCHANGED <<state, picked, cpu, mutexVars, count, waiters, queueVars, base>>
  BY DEF lock_boost
<1>3. Goto(t, 35)
  BY DEF lock_boost
<1>4. /\ at'[t] = 35
      /\ call' = call /\ reg' = reg /\ Obj(t)' = Obj(t) /\ at' \in [Task -> Int]
      /\ \A u \in Task : u # t => at'[u] = at[u] /\ call'[u] = call[u]
  BY <1>1, <1>3, Gotos
<1>5. priority' \in [Task -> Int]
  <2>1. priority' = priority \/ priority' = [priority EXCEPT ![owner[Obj(t)]] = priority[t]]
    BY DEF lock_boost
  <2>2. priority \in [Task -> Int]
    BY <1>1 DEF TypeInv
  <2>3. QED
    BY <2>1, <2>2
<1>6. Shape(t)'
  BY <1>1, <1>4 DEF Shape, LockLines, UnlockLines, WaitLines, PostLines
<1>7. Runs(t)
  BY <1>1, <1>2, <1>4, <1>6 DEF Runs
<1>8. TypeInv'
  BY Zenon, <1>1, <1>2, <1>4, <1>5 DEF TypeInv, mutexVars, queueVars
<1>9. TaskInv'
  BY <1>1, <1>2, <1>7, TaskFrame DEF mutexVars
<1>10. MutexInv'
  <2>1. ~InSection /\ ~InSection'
    BY <1>1, <1>4, <1>7 DEF InSection, Here, Runs
  <2>2. QED
    BY <1>1, <1>2, <1>4, <1>7, <2>1 DEF MutexInv, MutualExclusion, Here, mutexVars, Runs, SyncInv
<1>11. SemInv'
  BY <1>4, <1>7 DEF SemInv, Here, Runs
<1>12. WaitersInv'
  BY <1>1, <1>2, <1>4, <1>7, WaitersFrame DEF SyncInv
<1>13. WakeInv'
  BY <1>1, <1>2, <1>4, <1>7, WakeFrame DEF SyncInv, mutexVars
<1>14. QueueInv'
  BY <1>1, <1>2, <1>4, <1>7, OwesFrame, QueueFrame DEF SyncInv, LockLines
<1>15. QED
  BY <1>8, <1>9, <1>10, <1>11, <1>12, <1>13, <1>14 DEF SyncInv

LEMMA lock_take_Inv ==
    ASSUME SyncInv, NEW t \in Task, lock_take(t), program' = program
    PROVE  SyncInv'
<1>1. cpu = t /\ Shape(t) /\ TypeInv /\ TaskInv
  BY DEF lock_take, Line, SyncInv, TaskInv
<1>2. UNCHANGED <<kernelVars, count, waiters, queueVars, base>>
  BY DEF lock_take
<1>3. \/ at[t] = 40 /\ Goto(t, 41)
      \/ at[t] = 41 /\ Goto(t, 42)
      \/ at[t] = 42 /\ Return(t) /\ reg' = reg
  BY DEF lock_take, Line
<1>4. /\ at' \in [Task -> Int] /\ call' = [u \in Task |-> call'[u]] /\ reg' = reg
      /\ \A u \in Task : u # t => at'[u] = at[u] /\ call'[u] = call[u]
      /\ \/ at[t] = 40 /\ at'[t] = 41 /\ call' = call /\ Obj(t)' = Obj(t)
         \/ at[t] = 41 /\ at'[t] = 42 /\ call' = call /\ Obj(t)' = Obj(t)
         \/ at[t] = 42 /\ Shape(t)' /\ at'[t] = 110 /\ Obj(t) = "lock"
            /\ Posts(call'[t]) = "slots_filled" /\ Posts(call[t]) = "slots_filled"
         \/ at[t] = 42 /\ Shape(t)' /\ at'[t] = 119 /\ Obj(t) = "lock"
            /\ Posts(call'[t]) = "slots_empty" /\ Posts(call[t]) = "slots_empty"
         \/ at[t] = 42 /\ Shape(t)' /\ at'[t] = Client /\ Obj(t) \in Mutex
            /\ Posts(call[t]) = Obj(t)
  <2>1. CASE at[t] # 42
    <3>1. /\ at' \in [Task -> Int] /\ reg' = reg /\ call' = call /\ Obj(t)' = Obj(t)
          /\ \A u \in Task : u # t => at'[u] = at[u] /\ call'[u] = call[u]
          /\ (at[t] = 40 /\ at'[t] = 41) \/ (at[t] = 41 /\ at'[t] = 42)
      BY <1>1, <1>3, <2>1, Gotos
    <3>2. call = [u \in Task |-> call[u]]
      BY <1>1 DEF TypeInv
    <3>3. QED
      BY <3>1, <3>2
  <2>2. CASE at[t] = 42
    <3>1. Return(t) /\ reg' = reg
      BY <1>3, <2>2
    <3>2. \/ Obj(t) = "lock"
          \/ Obj(t) \in Mutex /\ Posts(call[t]) = Obj(t) /\ Obj(t) # "lock"
      BY <1>1, <2>2, Objs, Names DEF LockLines
    <3>3. QED
      BY <1>1, <2>2, <3>1, <3>2, Returns DEF LockLines
  <2>3. QED
    BY <2>1, <2>2
<1>5. Obj(t) \in AllMutexes
  BY <1>1, <1>4, Objs DEF LockLines
<1>6. Shape(t)'
  BY <1>1, <1>4 DEF Shape, LockLines, UnlockLines, WaitLines, PostLines
<1>7. Runs(t)
  BY <1>1, <1>2, <1>4, <1>6 DEF Runs, kernelVars
<1>8. /\ locked \in [AllMutexes -> BOOLEAN] /\ owner \in [AllMutexes -> Task \cup {NoTask}]
      /\ owner_saved_priority \in [AllMutexes -> Int] /\ holds \in [Task -> SUBSET AllMutexes]
      /\ priority \in [Task -> Int]
  BY Zenon, <1>1 DEF TypeInv
<1>9. \/ /\ at[t] = 40 /\ locked' = [locked EXCEPT ![Obj(t)] = TRUE]
         /\ UNCHANGED <<owner, owner_saved_priority, holds>>
      \/ /\ at[t] = 41 /\ owner' = [owner EXCEPT ![Obj(t)] = t]
         /\ UNCHANGED <<locked, owner_saved_priority, holds>>
      \/ /\ at[t] = 42 /\ holds' = [holds EXCEPT ![t] = @ \cup {Obj(t)}]
         /\ owner_saved_priority' = [owner_saved_priority EXCEPT ![Obj(t)] = priority[t]]
         /\ UNCHANGED <<locked, owner>>
  BY DEF lock_take, Line
<1>10. /\ locked' \in [AllMutexes -> BOOLEAN] /\ owner' \in [AllMutexes -> Task \cup {NoTask}]
       /\ owner_saved_priority' \in [AllMutexes -> Int] /\ holds' \in [Task -> SUBSET AllMutexes]
       /\ \A u \in Task : u # t => holds'[u] = holds[u]
  <2>1. locked' \in [AllMutexes -> BOOLEAN]
    BY ZenonT(40), <1>8, <1>9
  <2>2. owner' \in [AllMutexes -> Task \cup {NoTask}]
    BY <1>8, <1>9
  <2>3. owner_saved_priority' \in [AllMutexes -> Int]
    BY <1>8, <1>9
  <2>4. holds' \in [Task -> SUBSET AllMutexes] /\ \A u \in Task : u # t => holds'[u] = holds[u]
    BY <1>5, <1>8, <1>9
  <2>5. QED
    BY <2>1, <2>2, <2>3, <2>4
<1>11. TypeInv'
  BY Zenon, <1>1, <1>2, <1>4, <1>10 DEF TypeInv, kernelVars, queueVars
<1>12. TaskInv'
  BY Zenon, <1>1, <1>7, <1>10, TaskFrame
<1>13. MutexInv'
  <2>1. CASE at[t] = 40
    <3>1. /\ at'[t] = 41 /\ Obj(t)' = Obj(t) /\ locked' = [locked EXCEPT ![Obj(t)] = TRUE]
          /\ UNCHANGED <<owner, owner_saved_priority, holds>> /\ cpu = t /\ cpu' = t
      BY <1>4, <1>7, <1>9, <2>1 DEF Runs
    <3>2. ~InSection /\ ~InSection'
      BY <2>1, <3>1 DEF InSection, Here
    <3>3. QED
      BY <1>5, <1>8, <2>1, <3>1, <3>2 DEF MutexInv, MutualExclusion, Here, SyncInv
  <2>2. CASE at[t] = 41
    <3>1. /\ at'[t] = 42 /\ Obj(t)' = Obj(t) /\ owner' = [owner EXCEPT ![Obj(t)] = t]
          /\ UNCHANGED <<locked, owner_saved_priority, holds>> /\ cpu = t /\ cpu' = t
      BY <1>4, <1>7, <1>9, <2>2 DEF Runs
    <3>2. ~InSection /\ ~InSection'
      BY <2>2, <3>1 DEF InSection, Here
    <3>3. QED
      BY <1>5, <1>8, <2>2, <3>1, <3>2 DEF MutexInv, MutualExclusion, Here, SyncInv
  <2>3. CASE at[t] = 42
    <3>1. /\ \/ Obj(t) = "lock" /\ at'[t] \in {110, 119}
             \/ Obj(t) # "lock" /\ at'[t] = Client
          /\ holds' = [holds EXCEPT ![t] = @ \cup {Obj(t)}]
          /\ UNCHANGED <<locked, owner>> /\ cpu = t /\ cpu' = t
      BY <1>4, <1>7, <1>9, <2>3, Names DEF Runs
    <3>2. ~InSection /\ (InSection' <=> Obj(t) = "lock")
      BY <2>3, <3>1 DEF InSection, Here
    <3>3. /\ holds'[t] = holds[t] \cup {Obj(t)} /\ \A u \in Task : u # t => holds'[u] = holds[u]
          /\ locked[Obj(t)] /\ owner[Obj(t)] = t
      BY <1>8, <2>3, <3>1 DEF MutexInv, Here, SyncInv
    <3>4. QED
      BY <1>5, <2>3, <3>1, <3>2, <3>3 DEF MutexInv, MutualExclusion, Here, SyncInv
  <2>4. QED
    BY Zenon, <1>4, <2>1, <2>2, <2>3
<1>14. SemInv'
  BY <1>4, <1>7 DEF SemInv, Here, Runs
<1>15. WaitersInv'
  BY <1>1, <1>2, <1>4, <1>7, WaitersFrame DEF SyncInv
<1>16. WakeInv'
  <2>1. \A o : Available(o)' => Available(o)
    BY <1>2, <1>5, <1>8, <1>9 DEF Available
  <2>2. /\ \A u \in Task : u # t => Obj(u)' = Obj(u)
        /\ state[t] = "RUNNING" /\ state' = state /\ cpu = t
    BY <1>1, <1>7, ObjFrame DEF Runs, TaskInv
  <2>3. QED
    BY <1>4, <2>1, <2>2 DEF WakeInv, Here, SyncInv
<1>17. QueueInv'
  <2>1. OwesEmpty' = OwesEmpty /\ OwesFilled' = OwesFilled
    BY <1>4, <1>7, Names DEF OwesEmpty, OwesFilled, Here, LockLines, UnlockLines, Runs
  <2>2. QED
    BY <1>2, <1>7, <2>1, QueueFrame DEF SyncInv
<1>18. QED
  BY <1>11, <1>12, <1>13, <1>14, <1>15, <1>16, <1>17 DEF SyncInv

LEMMA unlock_restore_Inv ==
    ASSUME SyncInv, NEW t \in Task, unlock_restore(t), program' = program
    PROVE  SyncInv'
<1>1. cpu = t /\ Shape(t) /\ TypeInv /\ TaskInv /\ at[t] = 48
  BY DEF unlock_restore, Line, SyncInv, TaskInv
<1>2. UNCHANGED <<state, picked, cpu, locked, owner, owner_saved_priority, count, waiters, queueVars, base>>
  BY DEF unlock_restore
<1>3. Goto(t, 49)
  BY DEF unlock_restore
<1>4. /\ at'[t] = 49
      /\ call' = call /\ reg' = reg /\ Obj(t)' = Obj(t) /\ at' \in [Task -> Int]
      /\ \A u \in Task : u # t => at'[u] = at[u] /\ call'[u] = call[u]
  BY <1>1, <1>3, Gotos
<1>5. Obj(t) \in AllMutexes
  BY <1>1, Objs DEF UnlockLines
<1>6. /\ priority' \in [Task -> Int] /\ holds' \in [Task -> SUBSET AllMutexes]
      /\ holds'[t] = holds[t] \ {Obj(t)} /\ \A u \in Task : u # t => holds'[u] = holds[u]
  <2>1. /\ priority' = [priority EXCEPT ![t] = owner_saved_priority[Obj(t)]]
        /\ holds' = [holds EXCEPT ![t] = @ \ {Obj(t)}]
    BY DEF unlock_restore
  <2>2. /\ priority \in [Task -> Int] /\ holds \in [Task -> SUBSET AllMutexes]
        /\ owner_saved_priority[Obj(t)] \in Int
    BY <1>1, <1>5 DEF TypeInv
  <2>3. QED
    BY <2>1, <2>2
<1>7. Shape(t)'
  BY <1>1, <1>4 DEF Shape, LockLines, UnlockLines, WaitLines, PostLines
<1>8. Runs(t)
  BY Zenon, <1>1, <1>2, <1>4, <1>7 DEF Runs
<1>9. TypeInv'
  BY Zenon, <1>1, <1>2, <1>4, <1>6 DEF TypeInv, queueVars
<1>10. TaskInv'
  BY <1>1, <1>6, <1>8, TaskFrame
<1>11. MutexInv'
  <2>1. (InSection <=> Obj(t) = "lock") /\ ~InSection' /\ cpu' = t
    BY <1>1, <1>4, <1>8 DEF InSection, Here, Runs
  <2>2. Obj(t) \in holds[t] /\ MutualExclusion
    BY Zenon, <1>1 DEF MutexInv, Here, SyncInv
  <2>3. \A u \in Task : Obj(t) \notin holds'[u]
    BY <1>6, <2>2 DEF MutualExclusion
  <2>4. MutualExclusion'
    BY <1>2, <1>6, <2>2 DEF MutualExclusion
  <2>5. \A m \in AllMutexes : locked[m] => m = Obj(t) \/ \E u \in Task : m \in holds'[u]
    BY <1>1, <1>6 DEF MutexInv, Here, SyncInv
  <2>6. \A u \in Task : "lock" \notin holds'[u]
    BY Zenon, <1>1, <1>6, <2>1 DEF MutexInv, SyncInv
  <2>7. locked[Obj(t)]
    BY <2>2 DEF MutualExclusion
  <2>8. QED
    BY <1>2, <1>4, <2>1, <2>3, <2>4, <2>5, <2>6, <2>7 DEF MutexInv, Here
<1>12. SemInv'
  BY <1>4, <1>8 DEF SemInv, Here, Runs
<1>13. WaitersInv'
  BY <1>1, <1>2, <1>4, <1>8, WaitersFrame DEF SyncInv
<1>14. WakeInv'
  BY <1>1, <1>2, <1>4, <1>8, WakeFrame DEF SyncInv
<1>15. QueueInv'
  BY Zenon, <1>1, <1>2, <1>4, <1>8, OwesFrame, QueueFrame DEF SyncInv, UnlockLines
<1>16. QED
  BY <1>9, <1>10, <1>11, <1>12, <1>13, <1>14, <1>15 DEF SyncInv

LEMMA unlock_release_Inv ==
    ASSUME SyncInv, NEW t \in Task, unlock_release(t), program' = program
    PROVE  SyncInv'
<1>1. cpu = t /\ Shape(t) /\ TypeInv /\ TaskInv
  BY Zenon DEF unlock_release, Line, SyncInv, TaskInv
<1>2. UNCHANGED <<kernelVars, owner_saved_priority, holds, count, waiters, queueVars, base>>
  BY DEF unlock_release
<1>3. \/ at[t] = 49 /\ Goto(t, 50)
      \/ at[t] = 50 /\ Goto(t, 52)
  BY DEF unlock_release, Line
<1>4. /\ \/ at[t] = 49 /\ at'[t] = 50
         \/ at[t] = 50 /\ at'[t] = 52
      /\ call' = call /\ reg' = reg /\ Obj(t)' = Obj(t) /\ at' \in [Task -> Int]
      /\ \A u \in Task : u # t => at'[u] = at[u] /\ call'[u] = call[u]
  BY <1>1, <1>3, Gotos
<1>5. Obj(t) \in AllMutexes
  BY <1>1, <1>4, Objs DEF UnlockLines
<1>6. Shape(t)'
  BY <1>1, <1>4 DEF Shape, LockLines, UnlockLines, WaitLines, PostLines
<1>7. Runs(t)
  BY Zenon, <1>1, <1>2, <1>4, <1>6 DEF Runs, kernelVars
<1>8. locked \in [AllMutexes -> BOOLEAN] /\ owner \in [AllMutexes -> Task \cup {NoTask}]
  BY Zenon, <1>1 DEF TypeInv
<1>9. \/ at[t] = 49 /\ locked' = [locked EXCEPT ![Obj(t)] = FALSE] /\ owner' = owner
      \/ at[t] = 50 /\ owner' = [owner EXCEPT ![Obj(t)] = NoTask] /\ locked' = locked
  BY DEF unlock_release, Line
<1>10. locked' \in [AllMutexes -> BOOLEAN] /\ owner' \in [AllMutexes -> Task \cup {NoTask}]
  BY Zenon, <1>8, <1>9
<1>11. TypeInv'
  BY Zenon, <1>1, <1>2, <1>4, <1>10 DEF TypeInv, kernelVars, queueVars
<1>12. TaskInv'
  BY <1>1, <1>2, <1>7, TaskFrame
<1>13. MutexInv'
  <2>1. ~InSection /\ ~InSection' /\ cpu' = t
    BY <1>1, <1>4, <1>7 DEF InSection, Here, Runs
  <2>2. \A u \in Task : Obj(t) \notin holds[u]
    <3>1. at[t] = 49 => \A u \in Task : Obj(t) \notin holds[u]
      BY Zenon, <1>1 DEF MutexInv, Here, SyncInv
    <3>2. at[t] = 50 => ~locked[Obj(t)]
      BY Zenon, <1>1 DEF MutexInv, Here, SyncInv
    <3>3. QED
      BY Zenon, <1>4, <3>1, <3>2 DEF MutexInv, MutualExclusion, SyncInv
  <2>3. MutualExclusion'
    <3>1. MutualExclusion /\ \A u \in Task : holds[u] \subseteq AllMutexes
      BY Zenon, <1>1 DEF MutexInv, SyncInv, TypeInv
    <3>2. \A m \in AllMutexes : m # Obj(t) => locked'[m] = locked[m] /\ owner'[m] = owner[m]
      BY <1>8, <1>9
    <3>3. \A u \in Task : holds'[u] = holds[u]
      BY <1>2
    <3>4. QED
      BY <2>2, <3>1, <3>2, <3>3 DEF MutualExclusion
  <2>4. ~locked'[Obj(t)]
    BY <1>1, <1>5, <1>8, <1>9 DEF MutexInv, SyncInv, Here
  <2>5. \A m \in AllMutexes : locked'[m] => \E u \in Task : m \in holds[u]
    <3>1. \A m \in AllMutexes : locked'[m] => locked[m] /\ m # Obj(t)
      BY <1>5, <1>8, <1>9, <2>4
    <3>2. QED
      BY <1>1, <1>4, <3>1 DEF MutexInv, SyncInv, Here
  <2>6. QED
    BY <1>1, <1>2, <1>4, <2>1, <2>3, <2>4, <2>5 DEF MutexInv, SyncInv, Here
<1>14. SemInv'
  BY <1>4, <1>7 DEF SemInv, Here, Runs
<1>15. WaitersInv'
  BY <1>1, <1>2, <1>4, <1>7, WaitersFrame DEF SyncInv
<1>16. WakeInv'
  <2>1. \A o : o # Obj(t) => (Available(o)' <=> Available(o))
    BY <1>2, <1>5, <1>8, <1>9 DEF Available
  <2>2. /\ \A u \in Task : u # t => Obj(u)' = Obj(u)
        /\ state[t] = "RUNNING" /\ state' = state /\ cpu = t /\ cpu' = t
    BY <1>1, <1>7, ObjFrame DEF Runs, TaskInv
  <2>3. QED
    BY <1>4, <2>1, <2>2 DEF WakeInv, Here, SyncInv
<1>17. QueueInv'
  BY Zenon, <1>1, <1>2, <1>4, <1>7, OwesFrame, QueueFrame DEF SyncInv, UnlockLines
<1>18. QED
  BY <1>11, <1>12, <1>13, <1>14, <1>15, <1>16, <1>17 DEF SyncInv

LEMMA sem_load_Inv ==
    ASSUME SyncInv, NEW t \in Task, sem_load(t), program' = program
    PROVE  SyncInv'
<1>1. cpu = t /\ Shape(t) /\ TypeInv /\ TaskInv
  BY Zenon DEF sem_load, Line, SyncInv, TaskInv
<1>2. UNCHANGED <<call, kernelVars, mutexVars, count, waiters, queueVars, base>>
  BY DEF sem_load
<1>3. at \in [Task -> Int] /\ reg \in [Task -> Int] /\ count \in [Semaphores -> Nat]
  BY Zenon, <1>1 DEF TypeInv
<1>4. Obj(t) \in Semaphores /\ Obj(t)' = Obj(t) /\ count[Obj(t)] \in Nat
  <2>1. at[t] \in {82, 86}
    BY DEF sem_load, Line
  <2>2. Obj(t) \in Semaphores
    BY <1>1, <2>1, Objs DEF WaitLines, PostLines
  <2>3. QED
    BY <1>2, <1>3, <2>2 DEF Obj
<1>5. /\ \/ at[t] = 82 /\ at'[t] = -82 /\ reg'[t] = count[Obj(t)] - 1
         \/ at[t] = 86 /\ at'[t] = -86 /\ reg'[t] = count[Obj(t)] + 1
      /\ at' \in [Task -> Int] /\ reg' \in [Task -> Int]
      /\ \A u \in Task : u # t => at'[u] = at[u] /\ call'[u] = call[u]
  BY <1>2, <1>3, <1>4 DEF sem_load, Line, Store
<1>6. Shape(t)'
  BY <1>1, <1>2, <1>5 DEF Shape, LockLines, UnlockLines, WaitLines, PostLines
<1>7. Runs(t)
  BY Zenon, <1>1, <1>2, <1>5, <1>6 DEF Runs, kernelVars
<1>8. TypeInv'
  BY Zenon, <1>1, <1>2, <1>5 DEF TypeInv, kernelVars, mutexVars, queueVars
<1>9. TaskInv'
  BY <1>1, <1>2, <1>7, TaskFrame DEF mutexVars
<1>10. MutexInv'
  BY <1>2, <1>5, <1>7, MutexFrame DEF SyncInv, MutexLines
<1>11. SemInv'
  BY <1>2, <1>4, <1>5, <1>7 DEF SemInv, Here, Runs, SyncInv
<1>12. WaitersInv'
  BY <1>1, <1>2, <1>5, <1>7, WaitersFrame DEF SyncInv
<1>13. WakeInv'
  BY <1>1, <1>2, <1>5, <1>7, WakeFrame DEF SyncInv, mutexVars
<1>14. QueueInv'
  BY Zenon, <1>2, <1>5, <1>7, OwesFrame, QueueFrame DEF SyncInv
<1>15. QED
  BY <1>8, <1>9, <1>10, <1>11, <1>12, <1>13, <1>14 DEF SyncInv

LEMMA sem_store_Inv ==
    ASSUME SyncInv, NEW t \in Task, sem_store(t), program' = program
    PROVE  SyncInv'
<1>1. cpu = t /\ Shape(t) /\ TypeInv /\ TaskInv
  BY Zenon DEF sem_store, Line, SyncInv, TaskInv
<1>2. UNCHANGED <<kernelVars, mutexVars, waiters, queueVars, base>>
  BY DEF sem_store
<1>3. at \in [Task -> Int] /\ reg \in [Task -> Int] /\ count \in [Semaphores -> Nat]
  BY Zenon, <1>1 DEF TypeInv
<1>4. /\ at' \in [Task -> Int] /\ call' = [u \in Task |-> call'[u]] /\ Shape(t)'
      /\ \A u \in Task : u # t => at'[u] = at[u] /\ call'[u] = call[u]
      /\ Posts(call'[t]) = Posts(call[t]) /\ Obj(t) \in Semaphores
      /\ \/ /\ at[t] = -82 /\ at'[t] = 27
            /\ \/ Obj(t) = "slots_empty" /\ Posts(call[t]) = "slots_filled"
               \/ Obj(t) = "slots_filled" /\ Posts(call[t]) = "slots_empty"
         \/ at[t] = -86 /\ at'[t] = 91 /\ Posts(call[t]) = Obj(t) /\ Obj(t)' = Obj(t)
  <2>1. CASE at[t] = -82
    <3>1. Return(t)
      BY <2>1 DEF sem_store, Line, Store
    <3>2. \/ Obj(t) = "slots_empty" /\ Posts(call[t]) = "slots_filled"
          \/ Obj(t) = "slots_filled" /\ Posts(call[t]) = "slots_empty"
      BY <1>1, <2>1, Objs DEF WaitLines
    <3>3. QED
      BY <1>1, <2>1, <3>1, <3>2, Returns DEF WaitLines
  <2>2. CASE at[t] = -86
    <3>1. at' = [at EXCEPT ![t] = 91] /\ call' = call
      BY <2>2 DEF sem_store, Line, Store
    <3>2. Posts(call[t]) = Obj(t) /\ Obj(t) \in Semaphores
      BY <1>1, <2>2, Objs DEF PostLines
    <3>3. Shape(t)'
      BY <1>1, <1>3, <2>2, <3>1 DEF Shape, WaitLines, PostLines, LockLines, UnlockLines
    <3>4. call' = [u \in Task |-> call'[u]]
      BY Zenon, <1>1, <3>1 DEF TypeInv
    <3>5. Obj(t)' = Obj(t)
      BY Zenon, <3>1 DEF Obj
    <3>6. /\ at' \in [Task -> Int] /\ at'[t] = 91
          /\ \A u \in Task : u # t => at'[u] = at[u] /\ call'[u] = call[u]
      BY <1>3, <3>1
    <3>7. QED
      BY Zenon, <2>2, <3>1, <3>2, <3>3, <3>4, <3>5, <3>6
  <2>3. QED
    BY Zenon, <2>1, <2>2 DEF sem_store, Line, Store
<1>5. Runs(t)
  BY Zenon, <1>1, <1>2, <1>4 DEF Runs, kernelVars
<1>6. /\ count[Obj(t)] \in Nat
      /\ at[t] = -82 => reg[t] = count[Obj(t)] - 1 /\ count[Obj(t)] > 0
      /\ at[t] = -86 => reg[t] = count[Obj(t)] + 1
  BY Zenon, <1>1, <1>3, <1>4 DEF SemInv, Here, SyncInv
<1>7. /\ count' \in [Semaphores -> Nat] /\ reg' \in [Task -> Int]
      /\ count'[Obj(t)] = reg[t]
      /\ \A s \in Semaphores : s # Obj(t) => count'[s] = count[s]
  <2>1. count' = [count EXCEPT ![Obj(t)] = reg[t]] /\ reg' = [reg EXCEPT ![t] = 0]
    BY DEF sem_store
  <2>2. reg[t] \in Nat
    BY <1>4, <1>6
  <2>3. QED
    BY <1>3, <1>4, <2>1, <2>2
<1>8. TypeInv'
  <2>1. TypeInv /\ count' \in [Semaphores -> Nat] /\ reg' \in [Task -> Int]
        /\ at' \in [Task -> Int] /\ call' = [u \in Task |-> call'[u]]
    BY Zenon, <1>1, <1>4, <1>7
  <2>2. QED
    BY Zenon, <1>2, <2>1 DEF TypeInv, kernelVars, mutexVars, queueVars
<1>9. TaskInv'
  BY <1>1, <1>2, <1>5, TaskFrame DEF mutexVars
<1>10. MutexInv'
  BY <1>2, <1>4, <1>5, MutexFrame DEF SyncInv, MutexLines
<1>11. SemInv'
  BY <1>4, <1>5 DEF SemInv, Here, Runs
<1>12. WaitersInv'
  BY <1>1, <1>2, <1>4, <1>5, WaitersFrame DEF SyncInv
<1>13. WakeInv'
  <2>1. /\ \A u \in Task : u # t => Obj(u)' = Obj(u)
        /\ state[t] = "RUNNING" /\ state' = state /\ cpu = t /\ cpu' = t
    BY <1>1, <1>5, ObjFrame DEF Runs, TaskInv
  <2>2. \A o \in Objects : o # Obj(t) => (Available(o)' <=> Available(o))
    BY <1>2, <1>7 DEF Available, mutexVars
  <2>3. at[t] = -82 => \A o \in Objects : Available(o)' => Available(o)
    BY Zenon, <1>2, <1>4, <1>6, <1>7, Names DEF Available, mutexVars
  <2>4. \A u \in Task : state[u] = "BLOCKED" => Obj(u) \in Objects /\ u # t /\ ~Available(Obj(u))
    BY <1>1, <1>4, <2>1, BlockedObj DEF WakeInv, Here, SyncInv
  <2>5. QED
    BY <1>4, <2>1, <2>2, <2>3, <2>4 DEF WakeInv, Here
<1>14. QueueInv'
  <2>1. /\ cpu = t /\ cpu' = t /\ filled \in Int /\ Capacity \in Int
        /\ count["slots_empty"] \in Int /\ count["slots_filled"] \in Int
        /\ UNCHANGED queueVars
    BY <1>1, <1>2, <1>3, <1>5, SyncAssumption DEF Runs, TypeInv
  <2>2. CASE at[t] = -82
    <3>1. ~OwesEmpty /\ ~OwesFilled
      BY <2>1, <2>2 DEF OwesEmpty, OwesFilled, Here, LockLines, UnlockLines
    <3>2. (OwesEmpty' <=> Obj(t) = "slots_empty") /\ (OwesFilled' <=> Obj(t) = "slots_filled")
      BY <1>4, <2>1, <2>2 DEF OwesEmpty, OwesFilled, Here, LockLines, UnlockLines
    <3>3. QED
      BY <1>4, <1>6, <1>7, <2>1, <2>2, <3>1, <3>2 DEF QueueInv, queueVars, SyncInv
  <2>3. CASE at[t] = -86
    <3>1. ~OwesEmpty' /\ ~OwesFilled'
      BY <1>4, <2>1, <2>3 DEF OwesEmpty, OwesFilled, Here, LockLines, UnlockLines
    <3>2. (OwesEmpty <=> Obj(t) = "slots_empty") /\ (OwesFilled <=> Obj(t) = "slots_filled")
      BY <1>4, <2>1, <2>3 DEF OwesEmpty, OwesFilled, Here, LockLines, UnlockLines
    <3>3. QED
      BY <1>4, <1>6, <1>7, <2>1, <2>3, <3>1, <3>2 DEF QueueInv, queueVars, SyncInv
  <2>4. QED
    BY Zenon, <1>4, <2>2, <2>3
<1>15. QED
  BY <1>8, <1>9, <1>10, <1>11, <1>12, <1>13, <1>14 DEF SyncInv

\* What lines 110 and 119 compute with the remainder.
LEMMA Wraps ==
    ASSUME NEW a \in 0 .. Capacity - 1, NEW b \in 0 .. Capacity
    PROVE  (a + b) % Capacity = IF a + b < Capacity THEN a + b ELSE a + b - Capacity
<1>1. Capacity \in Nat \ {0}
  BY SyncAssumption
<1>2. \A x \in 0 .. Capacity - 1 : x % Capacity = x
  BY <1>1
<1>3. \A x \in Capacity .. 2 * Capacity - 1 : x % Capacity = x - Capacity
  BY <1>1
<1>4. QED
  BY <1>1, <1>2, <1>3

LEMMA WrapsNext ==
    ASSUME NEW a \in 0 .. Capacity - 1
    PROVE  (a + 1) % Capacity = IF a + 1 < Capacity THEN a + 1 ELSE 0
<1>1. Capacity \in Nat \ {0} /\ 1 \in 0 .. Capacity
  BY SyncAssumption
<1>2. (a + 1) % Capacity = IF a + 1 < Capacity THEN a + 1 ELSE a + 1 - Capacity
  BY <1>1, Wraps
<1>3. QED
  BY <1>1, <1>2

LEMMA queue_put_Inv ==
    ASSUME SyncInv, NEW t \in Task, queue_put(t), program' = program
    PROVE  SyncInv'
<1>1. cpu = t /\ Shape(t) /\ TypeInv /\ TaskInv /\ at[t] = 110
  BY Zenon DEF queue_put, Line, SyncInv, TaskInv
<1>2. UNCHANGED <<reg, kernelVars, mutexVars, count, waiters, head, got, base>>
  BY DEF queue_put
<1>3. /\ Shape(t)' /\ at' \in [Task -> Int] /\ call' = [u \in Task |-> call'[u]]
      /\ \A u \in Task : u # t => at'[u] = at[u] /\ call'[u] = call[u]
      /\ at'[t] = 48 /\ Obj(t)' = "lock"
      /\ Posts(call[t]) = "slots_filled" /\ Posts(call'[t]) = "slots_filled"
      /\ Obj(t) \in Item
  <2>1. Return(t) /\ at[t] # Client
    BY <1>1 DEF queue_put
  <2>2. QED
    BY <1>1, <2>1, Returns, Objs
<1>4. Runs(t)
  BY Zenon, <1>1, <1>2, <1>3 DEF Runs, kernelVars
<1>5. /\ Capacity \in Nat \ {0} /\ buffer \in [0 .. Capacity - 1 -> Item]
      /\ head \in 0 .. Capacity - 1 /\ tail \in 0 .. Capacity - 1 /\ filled \in 0 .. Capacity
      /\ count["slots_empty"] \in Nat /\ count["slots_filled"] \in Nat
  BY <1>1, SyncAssumption DEF TypeInv
<1>6. /\ OwesEmpty /\ ~OwesFilled
      /\ ~OwesEmpty' /\ OwesFilled'
  BY <1>1, <1>3, <1>4 DEF OwesEmpty, OwesFilled, Here, LockLines, UnlockLines, Runs
<1>7. /\ tail = (head + filled) % Capacity
      /\ count["slots_empty"] = Capacity - filled - 1 /\ count["slots_filled"] = filled
  BY <1>5, <1>6 DEF QueueInv, SyncInv
<1>8. /\ buffer' = [buffer EXCEPT ![tail] = Obj(t)] /\ tail' = (tail + 1) % Capacity
      /\ filled' = filled + 1
  BY DEF queue_put
<1>9. /\ buffer' \in [0 .. Capacity - 1 -> Item] /\ tail' \in 0 .. Capacity - 1
      /\ filled' \in 0 .. Capacity /\ tail' = (head + filled') % Capacity
  <2>1. buffer' \in [0 .. Capacity - 1 -> Item]
    BY Zenon, <1>3, <1>5, <1>8
  <2>2. filled' \in 0 .. Capacity
    BY <1>5, <1>7, <1>8
  <2>3. /\ tail = IF head + filled < Capacity THEN head + filled ELSE head + filled - Capacity
        /\ (head + filled') % Capacity = IF head + filled' < Capacity THEN head + filled'
                                         ELSE head + filled' - Capacity
    BY Zenon, <1>5, <1>7, <2>2, Wraps
  <2>4. tail' = IF tail + 1 < Capacity THEN tail + 1 ELSE 0
    BY <1>5, <1>8, WrapsNext
  <2>5. tail' \in 0 .. Capacity - 1 /\ tail' = (head + filled') % Capacity
    BY <1>5, <1>7, <1>8, <2>3, <2>4
  <2>6. QED
    BY <2>1, <2>2, <2>5
<1>10. TypeInv'
  <2>1. TypeInv /\ at' \in [Task -> Int] /\ call' = [u \in Task |-> call'[u]]
    BY <1>1, <1>3
  <2>2. QED
    BY Zenon, <1>2, <1>9, <2>1 DEF TypeInv, kernelVars, mutexVars
<1>11. TaskInv'
  BY Zenon, <1>1, <1>2, <1>4, TaskFrame DEF mutexVars
<1>12. MutexInv'
  <2>1. InSection /\ InSection' /\ cpu' = t
    BY <1>1, <1>3, <1>4 DEF InSection, Here, Runs
  <2>2. "lock" \in holds[t]
    BY Zenon, <1>1, <2>1 DEF MutexInv, SyncInv
  <2>3. QED
    BY <1>1, <1>2, <1>3, <2>1, <2>2 DEF MutexInv, MutualExclusion, Here, mutexVars, SyncInv
<1>13. SemInv'
  BY <1>3, <1>4 DEF SemInv, Here, Runs
<1>14. WaitersInv'
  BY <1>1, <1>2, <1>3, <1>4, WaitersFrame DEF SyncInv
<1>15. WakeInv'
  BY <1>1, <1>2, <1>3, <1>4, WakeFrame DEF SyncInv, mutexVars
<1>16. QueueInv'
  BY <1>2, <1>5, <1>6, <1>7, <1>8, <1>9 DEF QueueInv
<1>17. QED
  BY <1>10, <1>11, <1>12, <1>13, <1>14, <1>15, <1>16 DEF SyncInv

LEMMA queue_get_Inv ==
    ASSUME SyncInv, NEW t \in Task, queue_get(t), program' = program
    PROVE  SyncInv'
<1>1. cpu = t /\ Shape(t) /\ TypeInv /\ TaskInv /\ at[t] = 119
  BY Zenon DEF queue_get, Line, SyncInv, TaskInv
<1>2. UNCHANGED <<reg, kernelVars, mutexVars, count, waiters, buffer, tail, base>>
  BY DEF queue_get
<1>3. /\ Shape(t)' /\ at' \in [Task -> Int] /\ call' = [u \in Task |-> call'[u]]
      /\ \A u \in Task : u # t => at'[u] = at[u] /\ call'[u] = call[u]
      /\ at'[t] = 48 /\ Obj(t)' = "lock"
      /\ Posts(call[t]) = "slots_empty" /\ Posts(call'[t]) = "slots_empty"
  <2>1. Return(t) /\ at[t] # Client
    BY <1>1 DEF queue_get
  <2>2. QED
    BY <1>1, <2>1, Returns, Objs
<1>4. Runs(t)
  BY Zenon, <1>1, <1>2, <1>3 DEF Runs, kernelVars
<1>5. /\ Capacity \in Nat \ {0} /\ buffer \in [0 .. Capacity - 1 -> Item]
      /\ head \in 0 .. Capacity - 1 /\ tail \in 0 .. Capacity - 1 /\ filled \in 0 .. Capacity
      /\ count["slots_empty"] \in Nat /\ count["slots_filled"] \in Nat
  BY <1>1, SyncAssumption DEF TypeInv
<1>6. /\ ~OwesEmpty /\ OwesFilled
      /\ OwesEmpty' /\ ~OwesFilled'
  BY <1>1, <1>3, <1>4 DEF OwesEmpty, OwesFilled, Here, LockLines, UnlockLines, Runs
<1>7. /\ tail = (head + filled) % Capacity
      /\ count["slots_empty"] = Capacity - filled /\ count["slots_filled"] = filled - 1
  BY <1>5, <1>6 DEF QueueInv, SyncInv
<1>8. got' = buffer[head] /\ head' = (head + 1) % Capacity /\ filled' = filled - 1
  BY DEF queue_get
<1>9. /\ got' \in Item /\ head' \in 0 .. Capacity - 1
      /\ filled' \in 0 .. Capacity /\ tail = (head' + filled') % Capacity
  <2>1. got' \in Item
    BY <1>5, <1>8
  <2>2. filled' \in 0 .. Capacity
    BY <1>5, <1>7, <1>8
  <2>3. head' = IF head + 1 < Capacity THEN head + 1 ELSE 0
    BY <1>5, <1>8, WrapsNext
  <2>4. head' \in 0 .. Capacity - 1
    BY <1>5, <2>3
  <2>5. /\ tail = IF head + filled < Capacity THEN head + filled ELSE head + filled - Capacity
        /\ (head' + filled') % Capacity = IF head' + filled' < Capacity THEN head' + filled'
                                          ELSE head' + filled' - Capacity
    BY Zenon, <1>5, <1>7, <2>2, <2>4, Wraps
  <2>6. tail = (head' + filled') % Capacity
    BY <1>5, <1>7, <1>8, <2>2, <2>3, <2>5
  <2>7. QED
    BY <2>1, <2>2, <2>4, <2>6
<1>10. TypeInv'
  <2>1. TypeInv /\ at' \in [Task -> Int] /\ call' = [u \in Task |-> call'[u]]
    BY <1>1, <1>3
  <2>2. QED
    BY Zenon, <1>2, <1>9, <2>1 DEF TypeInv, kernelVars, mutexVars
<1>11. TaskInv'
  BY Zenon, <1>1, <1>2, <1>4, TaskFrame DEF mutexVars
<1>12. MutexInv'
  <2>1. InSection /\ InSection' /\ cpu' = t
    BY Zenon, <1>1, <1>3, <1>4 DEF InSection, Here, Runs
  <2>2. "lock" \in holds[t]
    BY Zenon, <1>1, <2>1 DEF MutexInv, SyncInv
  <2>3. QED
    BY <1>1, <1>2, <1>3, <2>1, <2>2 DEF MutexInv, MutualExclusion, Here, mutexVars, SyncInv
<1>13. SemInv'
  BY <1>3, <1>4 DEF SemInv, Here, Runs
<1>14. WaitersInv'
  BY <1>1, <1>2, <1>3, <1>4, WaitersFrame DEF SyncInv
<1>15. WakeInv'
  BY <1>1, <1>2, <1>3, <1>4, WakeFrame DEF SyncInv, mutexVars
<1>16. QueueInv'
  <2>1. tail' = (head' + filled') % Capacity /\ count' = count
    BY <1>2, <1>9
  <2>2. QED
    BY <1>5, <1>6, <1>7, <1>8, <2>1 DEF QueueInv
<1>17. QED
  BY <1>10, <1>11, <1>12, <1>13, <1>14, <1>15, <1>16 DEF SyncInv

-----------------------------------------------------------------------------
(* So does every call of a client and every switch *)

LEMMA CallStarts ==
    ASSUME NEW t \in Task, NEW c, TypeInv, Call(t, c)
    PROVE  /\ cpu = t /\ at[t] = Client
           /\ at'[t] = FirstLine(c) /\ call'[t] = c
           /\ FirstLine(c) \in Int => at' \in [Task -> Int]
           /\ call' = [u \in Task |-> call'[u]]
           /\ \A u \in Task : u # t => at'[u] = at[u] /\ call'[u] = call[u]
           /\ UNCHANGED <<reg, kernelVars, mutexVars, count, waiters, queueVars, base>>
<1>1. at \in [Task -> Int] /\ call = [u \in Task |-> call[u]]
  BY Zenon DEF TypeInv
<1>2. QED
  BY Zenon, <1>1 DEF Call, Line, FirstLine

LEMMA Calls_Inv ==
    ASSUME SyncInv, NEW t \in Task, Calls(t), program' = program
    PROVE  SyncInv'
<1>1. TypeInv /\ TaskInv
  BY DEF SyncInv
<1>2. PICK c : /\ Call(t, c)
               /\ \/ c = Receive5 \/ \E i \in Item : c = Send5(i)
                  \/ \E m \in Mutex : c = LockCall(m)
                  \/ \E m \in Mutex : c = UnlockCall(m) /\ m \in holds[t]
  BY Zenon DEF Calls, queue_send, queue_receive, Receive5, Send5, LockCall, UnlockCall
<1>3. /\ cpu = t /\ at[t] = Client
      /\ at'[t] = FirstLine(c) /\ call'[t] = c
      /\ FirstLine(c) \in Int => at' \in [Task -> Int]
      /\ call' = [u \in Task |-> call'[u]]
      /\ \A u \in Task : u # t => at'[u] = at[u] /\ call'[u] = call[u]
      /\ UNCHANGED <<reg, kernelVars, mutexVars, count, waiters, queueVars, base>>
  BY Zenon, <1>1, <1>2, CallStarts
<1>4. \/ at'[t] = 77 /\ (c = Receive5 \/ \E i \in Item : c = Send5(i))
      \/ at'[t] = 27 /\ Posts(c) \in Mutex /\ \E m \in Mutex : c = LockCall(m)
      \/ /\ at'[t] = 48 /\ Posts(c) \in Mutex /\ Obj(t)' = Posts(c) /\ Posts(c) \in holds[t]
         /\ \E m \in Mutex : c = UnlockCall(m)
  BY <1>2, <1>3, ObjFirst, SendCalls, ReceiveCalls, MutexCalls
<1>5. Shape(t)' /\ Shape(t)
  BY <1>1, <1>3, <1>4 DEF Shape, WaitLines, PostLines, LockLines, UnlockLines, TaskInv
<1>6. Runs(t)
  BY Zenon, <1>3, <1>5 DEF Runs, kernelVars
<1>7. TypeInv'
  <2>1. TypeInv /\ at' \in [Task -> Int] /\ call' = [u \in Task |-> call'[u]]
    BY <1>1, <1>3, <1>4
  <2>2. QED
    BY Zenon, <1>3, <2>1 DEF TypeInv, kernelVars, mutexVars, queueVars
<1>8. TaskInv'
  BY <1>1, <1>3, <1>6, TaskFrame DEF mutexVars
<1>9. MutexInv'
  <2>1. ~InSection /\ ~InSection' /\ cpu' = t
    BY <1>3, <1>4, <1>6, Names DEF InSection, Here, Runs
  <2>2. QED
    BY <1>3, <1>4, <2>1 DEF MutexInv, MutualExclusion, Here, mutexVars, SyncInv
<1>10. SemInv'
  BY <1>4, <1>6 DEF SemInv, Here, Runs
<1>11. WaitersInv'
  BY <1>1, <1>3, <1>4, <1>6, WaitersFrame DEF SyncInv
<1>12. WakeInv'
  BY <1>1, <1>3, <1>4, <1>6, WakeFrame DEF SyncInv, mutexVars
<1>13. QueueInv'
  <2>1. OwesEmpty' = OwesEmpty /\ OwesFilled' = OwesFilled
    BY <1>3, <1>4, <1>6, Names DEF OwesEmpty, OwesFilled, Here, LockLines, UnlockLines, Runs
  <2>2. QED
    BY Zenon, <1>3, <1>6, <2>1, QueueFrame DEF SyncInv
<1>14. QED
  BY <1>7, <1>8, <1>9, <1>10, <1>11, <1>12, <1>13 DEF SyncInv

\* The task on the CPU, if any, has to test a loop condition or is between
\* two calls.
Quiet == cpu \in Task => /\ at[cpu] \in {Client, 27, 77}
                         /\ at[cpu] = 27 => Obj(cpu) \in Mutex /\ Posts(call[cpu]) = Obj(cpu)

\* Switches between such tasks, and the kernel's work when none runs.
LEMMA SwitchFrame ==
    ASSUME SyncInv, TypeInv', TaskInv', Quiet, Quiet',
           UNCHANGED <<mutexVars, count, waiters, queueVars, control>>,
           \A u \in Task : state'[u] = "BLOCKED" <=> state[u] = "BLOCKED"
    PROVE  SyncInv'
<1>1. call' = call /\ at' = at /\ reg' = reg /\ \A u \in Task : Obj(u)' = Obj(u)
  BY Zenon, ObjFirst DEF control
<1>2. /\ ~Here({28, 35, 36, 40, 41, 42, 48, 49, 50, 52, 55, 110, 119})
      /\ ~Here({28, 35, 36, 40, 41, 42, 48, 49, 50, 52, 55, 110, 119})'
      /\ ~Here({78, 79, 82, -82, 86, -86, 91, 94})
      /\ ~Here({78, 79, 82, -82, 86, -86, 91, 94})'
  BY <1>1 DEF Quiet, Here
<1>3. MutexInv'
  <2>1. ~InSection /\ ~InSection'
    BY ZenonT(40), <1>2 DEF InSection, Here
  <2>2. QED
    BY ZenonT(40), <1>2, <2>1 DEF MutexInv, MutualExclusion, Here, mutexVars, SyncInv
<1>4. SemInv'
  BY Zenon, <1>2 DEF SemInv, Here
<1>5. WaitersInv'
  <2>1. \A u, o : Among(u, o)' = Among(u, o)
    BY Zenon DEF Among
  <2>2. ~Here({36, 79}) /\ ~Here({55, 94}) /\ ~Here({36, 79})' /\ ~Here({55, 94})'
    BY <1>2 DEF Here
  <2>3. QED
    BY Zenon, <1>1, <2>1, <2>2 DEF WaitersInv, SyncInv
<1>6. WakeInv'
  <2>1. \A o : Available(o)' = Available(o)
    BY Zenon DEF Available, mutexVars
  <2>2. ~Here({50, 52, 91})
    BY Zenon, <1>2 DEF Here
  <2>3. QED
    BY Zenon, <1>1, <2>1, <2>2 DEF WakeInv, SyncInv
<1>7. QueueInv'
  <2>1. ~OwesEmpty /\ ~OwesFilled
    BY Names DEF OwesEmpty, OwesFilled, Here, LockLines, UnlockLines, Quiet
  <2>2. ~OwesEmpty' /\ ~OwesFilled'
    BY <1>1, Names DEF OwesEmpty, OwesFilled, Here, LockLines, UnlockLines, Quiet
  <2>3. QED
    BY Zenon, <2>1, <2>2 DEF QueueInv, queueVars, SyncInv
<1>8. QED
  BY Zenon, <1>3, <1>4, <1>5, <1>6, <1>7 DEF SyncInv

\* Nobody's call moves.  What remains to be shown is about the kernel's state.
LEMMA TaskSwitch ==
    ASSUME TaskInv, at' = at, holds' = holds,
           \A u \in Task : Shape(u)' /\ Obj(u)' = Obj(u),
           picked' # NoTask => cpu' = NoTask /\ state'[picked'] = "READY",
           \A u \in Task :
             /\ state'[u] = "RUNNING" <=> cpu' = u
             /\ state'[u] = state[u] \/ state'[u] \in {"READY", "RUNNING"}
                  \/ (state'[u] = "TERMINATED" /\ at[u] = Client /\ holds[u] = {})
             /\ cpu # u \/ cpu' = u \/ at[u] = Client
    PROVE  TaskInv'
BY DEF TaskInv

LEMMA TypeSwitch ==
    ASSUME TypeInv, UNCHANGED <<mutexVars, count, waiters, queueVars, control>>, program' = program,
           state' \in [Task -> {"UNUSED", "READY", "RUNNING", "BLOCKED", "TERMINATED"}],
           priority' \in [Task -> Int], base' \in [Task -> Int],
           picked' \in Task \cup {NoTask}, cpu' \in Task \cup {NoTask}
    PROVE  TypeInv'
BY Zenon DEF TypeInv, mutexVars, queueVars, control

\* The programs' priorities are priorities, and priorities are integers.
LEMMA Priorities ==
    ASSUME TypeInv
    PROVE  program.priorities \subseteq Priority /\ Priority \subseteq Int
<1>1. program \in [sender : SUBSET Task, receiver : SUBSET Task,
                   locker : SUBSET Task, priorities : SUBSET Priority]
  BY Zenon, SyncAssumption DEF TypeInv
<1>2. QED
  BY <1>1, SyncAssumption

LEMMA Between_Inv ==
    ASSUME SyncInv, NEW t \in Task, Between(t), program' = program
    PROVE  SyncInv'
<1>1. cpu = t /\ at[t] = Client /\ TypeInv /\ TaskInv /\ t # NoTask /\ picked = NoTask
  BY Names DEF Between, Line, SyncInv, TaskInv
<1>2. UNCHANGED <<mutexVars, count, waiters, queueVars, control, picked>>
  BY Zenon DEF Between, Yield, Terminate, Leave, Spawn
<1>3. call' = call /\ at' = at /\ reg' = reg /\ holds' = holds
  BY <1>2 DEF control, mutexVars
<1>4. \A u \in Task : Shape(u)' /\ Obj(u)' = Obj(u)
  BY Zenon, <1>1, <1>3, ObjFirst, SameShape DEF TaskInv
<1>5. /\ state \in [Task -> {"UNUSED", "READY", "RUNNING", "BLOCKED", "TERMINATED"}]
      /\ priority \in [Task -> Int] /\ base \in [Task -> Int]
      /\ state[t] = "RUNNING"
  BY Zenon, <1>1 DEF TypeInv, TaskInv
<1>6. CASE Yield(t) /\ UNCHANGED base
  <2>1. cpu' = NoTask /\ UNCHANGED <<priority, picked, base>>
    BY <1>6 DEF Yield, Leave
  <2>2. /\ state' \in [Task -> {"UNUSED", "READY", "RUNNING", "BLOCKED", "TERMINATED"}]
        /\ state'[t] = "READY" /\ \A u \in Task : u # t => state'[u] = state[u]
    BY Zenon, <1>5, <1>6 DEF Yield, Leave
  <2>3. TypeInv'
    BY Zenon, <1>1, <1>2, <1>5, <2>1, <2>2, TypeSwitch
  <2>4. TaskInv'
    <3>1. \A u \in Task : u # t => state[u] # "RUNNING" /\ u # NoTask
      BY <1>1, Names DEF TaskInv
    <3>2. QED
      BY Zenon, <1>1, <1>3, <1>4, <2>1, <2>2, <3>1, TaskSwitch
  <2>5. Quiet /\ Quiet' /\ \A u \in Task : state'[u] = "BLOCKED" <=> state[u] = "BLOCKED"
    BY <1>1, <1>5, <2>1, <2>2, Names DEF Quiet
  <2>6. QED
    BY Zenon, <1>2, <2>3, <2>4, <2>5, SwitchFrame
<1>7. CASE holds[t] = {} /\ Terminate(t) /\ UNCHANGED base
  <2>1. cpu' = NoTask /\ UNCHANGED <<priority, picked, base>>
    BY Zenon, <1>7 DEF Terminate, Leave
  <2>2. /\ state' \in [Task -> {"UNUSED", "READY", "RUNNING", "BLOCKED", "TERMINATED"}]
        /\ state'[t] = "TERMINATED" /\ \A u \in Task : u # t => state'[u] = state[u]
    BY Zenon, <1>5, <1>7 DEF Terminate, Leave
  <2>3. TypeInv'
    BY Zenon, <1>1, <1>2, <1>5, <2>1, <2>2, TypeSwitch
  <2>4. TaskInv'
    <3>1. \A u \in Task : u # t => state[u] # "RUNNING" /\ u # NoTask
      BY <1>1, Names DEF TaskInv
    <3>2. QED
      BY Zenon, <1>1, <1>3, <1>4, <1>7, <2>1, <2>2, <3>1, TaskSwitch
  <2>5. Quiet /\ Quiet' /\ \A u \in Task : state'[u] = "BLOCKED" <=> state[u] = "BLOCKED"
    BY <1>1, <1>5, <2>1, <2>2, Names DEF Quiet
  <2>6. QED
    BY Zenon, <1>2, <2>3, <2>4, <2>5, SwitchFrame
<1>8. CASE \E u \in Task, p \in program.priorities : Spawn(u, p) /\ base' = [base EXCEPT ![u] = p]
  <2>1. PICK u \in Task, p \in program.priorities : Spawn(u, p) /\ base' = [base EXCEPT ![u] = p]
    BY Zenon, <1>8
  <2>2. state[u] = "UNUSED" /\ UNCHANGED <<picked, cpu>> /\ p \in Int
    BY Zenon, <1>1, <2>1, Priorities DEF Spawn
  <2>3. /\ state' \in [Task -> {"UNUSED", "READY", "RUNNING", "BLOCKED", "TERMINATED"}]
        /\ state'[u] = "READY" /\ \A v \in Task : v # u => state'[v] = state[v]
        /\ priority' \in [Task -> Int] /\ base' \in [Task -> Int]
    BY Zenon, <1>5, <2>1, <2>2 DEF Spawn
  <2>4. TypeInv'
    <3>1. picked \in Task \cup {NoTask} /\ cpu \in Task \cup {NoTask}
      BY <1>1
    <3>2. QED
      BY Zenon, <1>1, <1>2, <2>2, <2>3, <3>1, TypeSwitch
  <2>5. TaskInv'
    <3>1. \A v \in Task : state[v] = "RUNNING" <=> cpu = v
      BY Zenon, <1>1 DEF TaskInv
    <3>2. QED
      BY Zenon, <1>1, <1>3, <1>4, <2>2, <2>3, <3>1, TaskSwitch
  <2>6. Quiet /\ Quiet' /\ \A v \in Task : state'[v] = "BLOCKED" <=> state[v] = "BLOCKED"
    BY <1>1, <1>3, <2>2, <2>3 DEF Quiet
  <2>7. QED
    BY Zenon, <1>2, <2>4, <2>5, <2>6, SwitchFrame
<1>9. QED
  BY Zenon, <1>6, <1>7, <1>8 DEF Between

LEMMA Dispatch_Inv ==
    ASSUME SyncInv, Dispatch, program' = program
    PROVE  SyncInv'
<1>1. /\ TypeInv /\ TaskInv /\ UNCHANGED <<mutexVars, count, waiters, queueVars, control, base>>
      /\ call' = call /\ at' = at /\ reg' = reg /\ holds' = holds
  BY Zenon DEF SyncInv, Dispatch, syncVars, control, mutexVars
<1>2. \A u \in Task : Shape(u)' /\ Obj(u)' = Obj(u)
  BY <1>1, ObjFirst, SameShape DEF TaskInv
<1>3. /\ state \in [Task -> {"UNUSED", "READY", "RUNNING", "BLOCKED", "TERMINATED"}]
      /\ priority \in [Task -> Int] /\ base' \in [Task -> Int]
  BY Zenon, <1>1 DEF TypeInv
<1>4. CASE Start
  <2>1. /\ picked \in Task /\ state[picked] = "READY" /\ cpu = NoTask
        /\ cpu' = picked /\ picked' = NoTask /\ priority' = priority
    BY Zenon, <1>1, <1>4 DEF Start, TypeInv, TaskInv
  <2>2. /\ state' \in [Task -> {"UNUSED", "READY", "RUNNING", "BLOCKED", "TERMINATED"}]
        /\ state'[picked] = "RUNNING" /\ \A u \in Task : u # picked => state'[u] = state[u]
    BY Zenon, <1>3, <1>4, <2>1 DEF Start
  <2>3. TypeInv'
    BY Zenon, <1>1, <1>3, <2>1, <2>2, TypeSwitch
  <2>4. TaskInv'
    <3>1. \A u \in Task : state[u] # "RUNNING" /\ u # NoTask
      BY <1>1, <2>1, Names DEF TaskInv
    <3>2. QED
      BY Zenon, <1>1, <1>2, <2>1, <2>2, <3>1, TaskSwitch
  <2>5. /\ at[picked] \in {Client, 27, 77}
        /\ at[picked] = 27 => Obj(picked) \in Mutex /\ Posts(call[picked]) = Obj(picked)
    <3>1. /\ at[picked] \in {Client, 27, 77} /\ Shape(picked)
          /\ at[picked] = 27 => Obj(picked) \in Mutex
      <4>1. TaskInv /\ cpu # picked
        BY <1>1, <2>1, Names
      <4>2. QED
        BY Zenon, <2>1, <4>1 DEF TaskInv
    <3>2. QED
      BY <2>1, <3>1, Objs, Names DEF LockLines
  <2>6. Quiet /\ Quiet' /\ \A u \in Task : state'[u] = "BLOCKED" <=> state[u] = "BLOCKED"
    BY <1>1, <1>2, <2>1, <2>2, <2>5, Names DEF Quiet
  <2>7. QED
    BY Zenon, <1>1, <2>3, <2>4, <2>6, SwitchFrame
<1>5. CASE \E idx \in Task : Pick(idx)
  <2>1. PICK idx \in Task : /\ cpu = NoTask /\ state[idx] = "READY" /\ picked' = idx
                            /\ UNCHANGED <<state, priority, cpu>>
    BY Zenon, <1>5 DEF Pick, Highest
  <2>2. TypeInv'
    BY Zenon, <1>1, <1>3, <2>1, TypeSwitch
  <2>3. TaskInv'
    <3>1. \A u \in Task : state[u] = "RUNNING" <=> cpu = u
      BY Zenon, <1>1 DEF TaskInv
    <3>2. QED
      BY Zenon, <1>1, <1>2, <2>1, <3>1, TaskSwitch
  <2>4. Quiet /\ Quiet' /\ \A u \in Task : state'[u] = "BLOCKED" <=> state[u] = "BLOCKED"
    BY <2>1, Names DEF Quiet
  <2>5. QED
    BY Zenon, <1>1, <2>2, <2>3, <2>4, SwitchFrame
<1>6. QED
  BY <1>4, <1>5 DEF Dispatch

\* The initial states, and steps that change nothing.
LEMMA Init_Inv == Init => SyncInv
<1> SUFFICES ASSUME Init PROVE SyncInv
  OBVIOUS
<1>1. PICK spawned \in SUBSET Task, p \in [Task -> program.priorities] :
        /\ state = [t \in Task |-> IF t \in spawned THEN "READY" ELSE "UNUSED"]
        /\ priority = [t \in Task |-> IF t \in spawned THEN p[t] ELSE 0]
  BY Zenon DEF Init
<1>2. /\ program \in Workload /\ picked = NoTask /\ cpu = NoTask
      /\ locked = [m \in AllMutexes |-> FALSE]
      /\ owner = [m \in AllMutexes |-> NoTask]
      /\ owner_saved_priority = [m \in AllMutexes |-> 0]
      /\ count = [s \in Semaphores |-> IF s = "slots_empty" THEN Capacity ELSE 0]
      /\ waiters = [o \in Objects |-> <<>>]
      /\ head = 0 /\ tail = 0 /\ filled = 0
      /\ call = [t \in Task |-> NoCall] /\ at = [t \in Task |-> Client]
      /\ reg = [t \in Task |-> 0] /\ base = priority /\ holds = [t \in Task |-> {}]
  BY Zenon DEF Init, NoCall
<1>3. Capacity \in Nat \ {0}
  BY Zenon, SyncAssumption
<1>4. buffer \in [0 .. Capacity - 1 -> Item] /\ got \in Item
  <2>1. (CHOOSE item \in Item : TRUE) \in Item
    BY Zenon, SyncAssumption
  <2>2. QED
    BY Zenon, <2>1 DEF Init
<1>5. TypeInv
  <2>1. priority \in [Task -> Int]
    <3>1. program.priorities \subseteq Int
      BY Zenon, <1>2, SyncAssumption
    <3>2. QED
      BY <1>1, <3>1
  <2>2. state \in [Task -> {"UNUSED", "READY", "RUNNING", "BLOCKED", "TERMINATED"}]
    BY Zenon, <1>1
  <2>3. waiters \in [Objects -> Seq(Task)]
    BY <1>2
  <2>4. call = [t \in Task |-> call[t]]
    BY Zenon, <1>2
  <2>5. count \in [Semaphores -> Nat]
    BY Zenon, <1>2, <1>3
  <2>6. QED
    BY <1>2, <1>3, <1>4, <2>1, <2>2, <2>3, <2>4, <2>5 DEF TypeInv
<1>6. \A lines : ~Here(lines)
  BY <1>2, Names DEF Here
<1>7. \A t \in Task : Shape(t) /\ state[t] \in {"READY", "UNUSED"} /\ at[t] = Client /\ holds[t] = {}
  BY Zenon, <1>1, <1>2 DEF Shape
<1>8. TaskInv
  BY <1>2, <1>7, Names DEF TaskInv
<1>9. MutexInv
  BY Zenon, <1>2, <1>6, <1>7, Names DEF MutexInv, MutualExclusion, InSection
<1>10. SemInv
  BY Zenon, <1>6 DEF SemInv
<1>11. WaitersInv
  <2>1. \A o \in Objects : DOMAIN waiters[o] = {}
    BY <1>2
  <2>2. \A u \in Task, o \in Objects : ~Among(u, o)
    BY Zenon, <2>1 DEF Among
  <2>3. QED
    BY Zenon, <1>6, <1>7, <2>2 DEF WaitersInv
<1>12. WakeInv
  BY Zenon, <1>7 DEF WakeInv
<1>13. QueueInv
  <2>1. ~OwesEmpty /\ ~OwesFilled
    BY Zenon, <1>6 DEF OwesEmpty, OwesFilled
  <2>2. 0 % Capacity = 0
    BY <1>3
  <2>3. tail = (head + filled) % Capacity
    BY <1>2, <2>2
  <2>4. count["slots_empty"] = Capacity /\ count["slots_filled"] = 0 /\ filled = 0
    BY Zenon, <1>2
  <2>5. /\ count["slots_empty"] = Capacity - filled - (IF OwesEmpty THEN 1 ELSE 0)
        /\ count["slots_filled"] = filled - (IF OwesFilled THEN 1 ELSE 0)
    <3>1. (IF OwesEmpty THEN 1 ELSE 0) = 0 /\ (IF OwesFilled THEN 1 ELSE 0) = 0
      BY Zenon, <2>1
    <3>2. Capacity - 0 - 0 = Capacity /\ 0 - 0 = 0
      BY <1>3
    <3>3. QED
      BY Zenon, <2>4, <3>1, <3>2
  <2>6. QED
    BY Zenon, <2>3, <2>5 DEF QueueInv
<1>14. QED
  BY Zenon, <1>5, <1>8, <1>9, <1>10, <1>11, <1>12, <1>13 DEF SyncInv

-----------------------------------------------------------------------------
(* The theorems *)

LEMMA StepInv ==
    ASSUME SyncInv, NEW t \in Task, Step(t), program' = program
    PROVE  SyncInv'
BY Zenon, wait_test_Inv, add_waiter_Inv, wait_block_Inv, wake_waiters_Inv, clear_waiters_Inv,
   lock_boost_Inv, lock_take_Inv, unlock_restore_Inv, unlock_release_Inv,
   sem_load_Inv, sem_store_Inv, queue_put_Inv, queue_get_Inv
   DEF Step

\* A step that changes nothing.
LEMMA StutterInv ==
    ASSUME SyncInv, UNCHANGED vars
    PROVE  SyncInv'
<1>1. /\ UNCHANGED <<state, priority, picked, cpu, locked, owner, owner_saved_priority, holds>>
      /\ UNCHANGED <<count, waiters, buffer, head, tail, filled, got, call, at, reg, base, program>>
  BY Zenon DEF vars, kernelVars, mutexVars, queueVars, control
<1>2. TypeInv' /\ SemInv'
  BY ZenonT(40), <1>1 DEF SyncInv, TypeInv, SemInv, Here, Obj
<1>3. TaskInv'
  <2>1. \A u \in Task : Shape(u)' /\ Obj(u)' = Obj(u)
    BY ZenonT(40), <1>1, ObjFirst, SameShape DEF SyncInv, TaskInv
  <2>2. QED
    BY <1>1, <2>1 DEF SyncInv, TaskInv
<1>4. MutexInv'
  <2>1. \A lines : Here(lines)' <=> Here(lines)
    BY Zenon, <1>1 DEF Here
  <2>2. Obj(cpu)' = Obj(cpu)
    BY Zenon, <1>1 DEF Obj
  <2>3. InSection' <=> InSection
    BY <2>1, <2>2 DEF InSection
  <2>4. UNCHANGED <<locked, owner, holds, cpu>>
    BY Zenon, <1>1
  <2>5. QED
    BY <2>1, <2>2, <2>3, <2>4 DEF SyncInv, MutexInv, MutualExclusion
<1>5. WaitersInv' /\ WakeInv'
  <2>1. \A lines : Here(lines)' <=> Here(lines)
    BY <1>1 DEF Here
  <2>2. Obj(cpu)' = Obj(cpu) /\ \A u \in Task : Obj(u)' = Obj(u)
    BY Zenon, <1>1 DEF Obj
  <2>3. WaitersInv'
    BY <1>1, <2>1, <2>2 DEF SyncInv, WaitersInv, Among
  <2>4. WakeInv'
    BY Zenon, <1>1, <2>1, <2>2 DEF SyncInv, WakeInv, Available
  <2>5. QED
    BY <2>3, <2>4
<1>6. QueueInv'
  BY <1>1 DEF SyncInv, QueueInv, OwesEmpty, OwesFilled, Here
<1>7. QED
  BY <1>2, <1>3, <1>4, <1>5, <1>6 DEF SyncInv

LEMMA NextInv == SyncInv /\ [Next]_vars => SyncInv'
<1> SUFFICES ASSUME SyncInv, [Next]_vars PROVE SyncInv'
  OBVIOUS
<1>1. CASE UNCHANGED vars
  BY <1>1, StutterInv
<1>2. CASE Next
  <2>1. program' = program
    BY <1>2 DEF Next
  <2>2. CASE \E t \in Task : Calls(t) \/ Between(t) \/ Step(t)
    BY <2>1, <2>2, Calls_Inv, Between_Inv, StepInv
  <2>3. CASE Dispatch
    BY <2>1, <2>3, Dispatch_Inv
  <2>4. CASE Idle
    <3>1. UNCHANGED vars
      BY Zenon, <2>1, <2>4 DEF Idle, vars, syncVars
    <3>2. QED
      BY <3>1, StutterInv
  <2>5. QED
    BY <1>2, <2>2, <2>3, <2>4 DEF Next
<1>3. QED
  BY <1>1, <1>2

\* The invariant of the primitives: who runs and who waits, who holds which
\* mutex, what the semaphores count and what is in the queue's buffer.
THEOREM SyncInvariant == Spec => []SyncInv
<1>1. Init => SyncInv
  BY Init_Inv
<1>2. SyncInv /\ [Next]_vars => SyncInv'
  BY NextInv
<1>3. QED
  BY <1>1, <1>2, PTL DEF Spec

\* mutex_lock() and mutex_unlock() give mutual exclusion to cooperative
\* tasks: the task that has returned from mutex_lock() is the mutex's only
\* owner, and the mutex is locked, until it calls mutex_unlock().
THEOREM OneOwner == Spec => []MutualExclusion
<1>1. SyncInv => MutualExclusion
  BY Zenon DEF SyncInv, MutexInv
<1>2. QED
  BY <1>1, SyncInvariant, PTL

\* No wake-up is lost: who is BLOCKED in mutex_lock() or sem_wait() is among
\* the waiters of something that is not available, or whose waiters the
\* running task is about to wake.
THEOREM WakeUpsArrive == Spec => []NoLostWakeup
<1>1. SyncInv => NoLostWakeup
  <2> SUFFICES ASSUME SyncInv, NEW t \in Task, state[t] = "BLOCKED"
               PROVE  /\ \E i \in DOMAIN waiters[Obj(t)] : waiters[Obj(t)][i] = t
                      /\ \/ ~Available(Obj(t))
                         \/ \E u \in Task : at[u] \in {50, 52, 91} /\ Obj(u) = Obj(t)
    BY Zenon DEF NoLostWakeup
  <2>1. Among(t, Obj(t))
    BY Zenon DEF SyncInv, WaitersInv
  <2>2. ~Available(Obj(t)) \/ (Here({50, 52, 91}) /\ Obj(cpu) = Obj(t))
    BY Zenon DEF SyncInv, WakeInv
  <2>3. QED
    BY Zenon, <2>1, <2>2 DEF Among, Here
<1>2. QED
  BY <1>1, SyncInvariant, PTL
=============================================================================
