---------------------------- MODULE KernelProofs ----------------------------
(*****************************************************************************)
(* Proofs about the two kernels: the one of Scheduler.tla, for every table   *)
(* size, set of priorities, slice and tick length, and the board's of        *)
(* ArmKernel.tla, for every period of SysTick, every cost of a step, and     *)
(* every depth of calls that leaves room for a context on a task's stack.    *)
(*****************************************************************************)
EXTENDS Scheduler, ArmKernel, TLAPS

-----------------------------------------------------------------------------
(* Sequences, and those of the halves of contexts on a task's stack of the board *)

LEMMA AppendIsConcat ==
    ASSUME NEW S, NEW q \in Seq(S), NEW e \in S
    PROVE  Append(q, e) = q \o <<e>>
  OBVIOUS

LEMMA SubSeqFull ==
    ASSUME NEW S, NEW q \in Seq(S)
    PROVE  SubSeq(q, 1, Len(q)) = q
  OBVIOUS

Half == [who : Idx \union {Boot}, n : 0 .. 2]

\* What is on a stack of task i: halves of its own contexts.
Owned(i, q) == q \in Seq(Half) /\ \A k \in 1 .. Len(q) : q[k].who = i

LEMMA AppendOwn ==
    ASSUME NEW i, NEW q, Owned(i, q), NEW half \in Half, half.who = i
    PROVE  /\ Owned(i, Append(q, half)) /\ Len(Append(q, half)) = Len(q) + 1
           /\ \A k \in 1 .. Len(q) : Append(q, half)[k] = q[k]
           /\ Append(q, half)[Len(q) + 1] = half
  <1>0. q \in Seq(Half) /\ \A k \in 1 .. Len(q) : q[k].who = i
    BY Zenon DEF Owned
  <1>1. /\ Append(q, half) \in Seq(Half) /\ Len(Append(q, half)) = Len(q) + 1
        /\ \A k \in 1 .. Len(q) : Append(q, half)[k] = q[k]
        /\ Append(q, half)[Len(q) + 1] = half
    BY <1>0
  <1>2. \A k \in 1 .. Len(q) + 1 : k \in 1 .. Len(q) \/ k = Len(q) + 1
    BY <1>0
  <1> QED
    BY Zenon, <1>0, <1>1, <1>2 DEF Owned

LEMMA PrefixOwn ==
    ASSUME NEW i, NEW q \in Seq(Half), \A k \in 1 .. Len(q) : q[k].who = i,
           NEW n \in 0 .. Len(q)
    PROVE  /\ SubSeq(q, 1, n) \in Seq(Half) /\ Len(SubSeq(q, 1, n)) = n
           /\ \A k \in 1 .. n : SubSeq(q, 1, n)[k].who = i
  OBVIOUS

-----------------------------------------------------------------------------
(* The kernel of the host: its invariant *)

\* The loop is suspended in its swapcontext() exactly while a task executes.
Suspended == ~Halted => (loop = "in" <=> cpu # LOOP)

\* From the pick to the switch, `next` is a registered task.
NextValid ==
    /\ loop \in {"mark", "swap", "in", "back"} => next \in Registered
    /\ loop = "swap" => g_current_idx = next

\* A slot without a task is as calloc() and makecontext() leave it.
Fresh == \A t \in Slot \ Registered : state[t] = "UNUSED" /\ context[t] = "entry"

\* A BLOCKED task blocked itself: its context was saved by task_yield().
BlockedYielded == \A t \in Slot : state[t] = "BLOCKED" => context[t] # "handler"

\* The ticks an executing task took while outranked are counted in its slice.
LateCounted ==
    /\ late < TicksPerSlice
    /\ cpu # LOOP => late <= g_ticks_since_switch

\* The inductive invariant.  OneRunning needs Suspended and NextValid (who is
\* RUNNING when the loop resumes); PreemptionsUnwind needs Fresh and
\* BlockedYielded (no task becomes READY with a stale handler context).
KernelInv ==
    /\ TypeOK
    /\ Suspended
    /\ NextValid
    /\ g_current_idx \in Registered \cup {-1}
    /\ Fresh
    /\ BlockedYielded
    /\ OneRunning
    /\ PickStillReady
    /\ PreemptionsUnwind
    /\ LateCounted

USE KernelAssumption DEF Slot, Registered, Halted, LOOP, NotSleeping

\* The kernel starts in the invariant.
LEMMA InitInv == Init => KernelInv
<1> SUFFICES ASSUME Init PROVE KernelInv
  OBVIOUS
<1>1. TypeOK
  <2>1. /\ g_num_tasks \in 0 .. SCHED_MAX_TASKS
        /\ g_current_idx \in Slot \cup {-1}
        /\ g_ticks_since_switch \in 0 .. TicksPerSlice - 1
        /\ next \in Slot \cup {-1}
        /\ cpu \in Slot \cup {LOOP}
        /\ late \in Nat
    BY DEF Init
  <2>2. g_preempt_enabled \in BOOLEAN
    BY Zenon DEF Init
  <2>3. in_sleep \in SUBSET Slot /\ loop \in Position
    BY DEF Init, Position
  <2>4. /\ priority \in [Slot -> Int]
        /\ pending_preemptions \in [Slot -> Int]
        /\ owed \in [Slot -> Nat]
        /\ wake_tick \in [Slot -> Nat \cup {NotSleeping}]
    BY DEF Init
  <2>5. state \in [Slot -> {"UNUSED", "READY", "RUNNING", "BLOCKED", "TERMINATED"}]
    BY DEF Init
  <2>6. context \in [Slot -> {"entry", "yield", "handler", "loop"}]
    BY DEF Init
  <2>7. canary_ok \in [Slot -> BOOLEAN]
    BY DEF Init
  <2>8. QED
    BY <2>1, <2>2, <2>3, <2>4, <2>5, <2>6, <2>7 DEF TypeOK
<1>2. Suspended /\ NextValid /\ g_current_idx \in Registered \cup {-1}
  BY DEF Init, Suspended, NextValid
<1>3. Fresh /\ BlockedYielded /\ PickStillReady /\ LateCounted
  BY DEF Init, Fresh, BlockedYielded, PickStillReady, LateCounted
<1>4. OneRunning /\ PreemptionsUnwind
  BY DEF Init, OneRunning, PreemptionsUnwind
<1>5. QED
  BY <1>1, <1>2, <1>3, <1>4 DEF KernelInv

\* The calls of main(), and task_spawn(), preserve the invariant.
LEMMA MainInv == KernelInv /\ MainStep => KernelInv'
<1> SUFFICES ASSUME KernelInv, MainStep PROVE KernelInv'
  OBVIOUS
<1> USE DEF KernelInv, TypeOK, Suspended, NextValid, Fresh, BlockedYielded,
            LateCounted, OneRunning, PickStillReady, PreemptionsUnwind, Position,
            vars, table, timer, sleep
<1>1. ASSUME NEW p \in Priority, task_spawn(p) PROVE KernelInv'
  <2>1. TypeOK'
    BY SMTT(30), <1>1 DEF task_spawn
  <2>2. (Suspended /\ NextValid /\ g_current_idx \in Registered \cup {-1} /\ Fresh)'
    BY <1>1 DEF task_spawn
  <2>3. (BlockedYielded /\ PickStillReady /\ LateCounted)'
    BY <1>1 DEF task_spawn
  <2>4. OneRunning'
    BY <1>1 DEF task_spawn
  <2>5. PreemptionsUnwind'
    BY <1>1 DEF task_spawn
  <2>6. QED
    BY Zenon, <2>1, <2>2, <2>3, <2>4, <2>5
<1>2. CASE task_spawn_full
  BY <1>2 DEF task_spawn_full
<1>3. CASE scheduler_enable_preemption
  BY <1>3 DEF scheduler_enable_preemption
<1>4. CASE scheduler_disable_preemption
  BY Zenon, <1>4 DEF scheduler_disable_preemption
<1>5. CASE scheduler_reset
  <2>1. TypeOK'
    <3>1. (g_preempt_enabled \in BOOLEAN)'
      BY <1>5, Zenon DEF scheduler_reset
    <3>2. (canary_ok \in [Slot -> BOOLEAN])'
      BY <1>5 DEF scheduler_reset
    <3>3. QED
      BY <1>5, <3>1, <3>2 DEF scheduler_reset
  <2>2. (Suspended /\ NextValid /\ g_current_idx \in Registered \cup {-1} /\ Fresh)'
    BY <1>5 DEF scheduler_reset
  <2>3. (BlockedYielded /\ PickStillReady /\ LateCounted)'
    BY <1>5 DEF scheduler_reset
  <2>4. (OneRunning /\ PreemptionsUnwind)'
    BY <1>5 DEF scheduler_reset
  <2>5. QED
    BY Zenon, <2>1, <2>2, <2>3, <2>4
<1>6. CASE run_start
  BY Zenon, <1>6 DEF run_start
<1>7. QED
  BY Zenon, <1>1, <1>2, <1>3, <1>4, <1>5, <1>6 DEF MainStep

\* The steps of scheduler_run() preserve the invariant.
LEMMA LoopInv == KernelInv /\ LoopStep => KernelInv'
<1> SUFFICES ASSUME KernelInv, LoopStep PROVE KernelInv'
  OBVIOUS
<1> USE DEF KernelInv, TypeOK, Suspended, NextValid, Fresh, BlockedYielded,
            LateCounted, OneRunning, PickStillReady, PreemptionsUnwind, Position,
            vars, table, timer, sleep
<1>1. CASE run_end
  BY Zenon, <1>1 DEF run_end
<1>2. CASE run_idle
  BY Zenon, <1>2 DEF run_idle
<1>3. CASE run_pick
  BY Zenon, <1>3 DEF run_pick, pick_next_ready, Ready
<1>4. CASE run_mark
  BY Zenon, <1>4 DEF run_mark
<1>5. CASE run_swap
  <2>1. TypeOK'
    <3>1. pending_preemptions' \in [Slot -> Int]
      BY SMTT(30), <1>5 DEF run_swap, Resumed
    <3>2. QED
      BY Zenon, <1>5, <3>1 DEF run_swap
  <2>2. (Suspended /\ NextValid /\ g_current_idx \in Registered \cup {-1} /\ Fresh)'
    BY <1>5 DEF run_swap
  <2>3. (BlockedYielded /\ PickStillReady /\ LateCounted)'
    BY <1>5 DEF run_swap
  <2>4. OneRunning'
    BY SMTT(30), <1>5 DEF run_swap
  <2>5. PreemptionsUnwind'
    <3>1. CASE context[next] = "handler"
      BY SMTT(30), <1>5, <3>1 DEF run_swap, Resumed
    <3>2. CASE context[next] # "handler"
      BY <1>5, <3>2 DEF run_swap, Resumed
    <3>3. QED
      BY Zenon, <3>1, <3>2
  <2>6. QED
    BY Zenon, <2>1, <2>2, <2>3, <2>4, <2>5
<1>6. CASE run_check
  BY Zenon, <1>6 DEF run_check
<1>7. QED
  BY Zenon, <1>1, <1>2, <1>3, <1>4, <1>5, <1>6 DEF LoopStep

\* The steps of the executing task preserve the invariant.
LEMMA TaskInv == ASSUME NEW t \in Slot, KernelInv, TaskStep(t) PROVE KernelInv'
<1> USE DEF KernelInv, TypeOK, Suspended, NextValid, Fresh, BlockedYielded,
            LateCounted, OneRunning, PickStillReady, PreemptionsUnwind, Position,
            vars, table, timer, sleep
<1>1. CASE task_yield(t)
  BY SMTT(30), <1>1 DEF task_yield, Executing, SwitchToLoop
<1>2. ASSUME NEW ms \in SleepMs, task_sleep(t, ms) PROVE KernelInv'
  <2>1. SleepTicks(ms) \in Nat
    BY DEF SleepTicks
  <2>2. QED
    BY SMTT(30), <1>2, <2>1 DEF task_sleep
<1>3. CASE task_sleep_block(t)
  BY SMTT(30), <1>3 DEF task_sleep_block, SwitchToLoop
<1>4. CASE task_trampoline(t)
  BY SMTT(30), <1>4 DEF task_trampoline, Executing
<1>5. CASE overflow_stack(t)
  BY <1>5 DEF overflow_stack
<1>6. QED
  BY Zenon, <1>1, <1>2, <1>3, <1>4, <1>5 DEF TaskStep

\* What a tick does before it decides whether to switch: deadlines stay
\* well-typed, and the only change of state is from BLOCKED to READY.
TickFacts ==
    /\ wake_tick' \in [Slot -> Nat \cup {NotSleeping}]
    /\ owed' \in [Slot -> Nat]
    /\ Woken \in [Slot -> {"UNUSED", "READY", "RUNNING", "BLOCKED", "TERMINATED"}]
    /\ \A t \in Slot : \/ Woken[t] = state[t]
                       \/ /\ state[t] = "BLOCKED"
                          /\ Woken[t] = "READY"
                          /\ t \in Registered

\* update_tick_bookkeeping() does no more than TickFacts says.
LEMMA TickTypes == KernelInv /\ Tick => TickFacts
<1> SUFFICES ASSUME KernelInv, Tick PROVE TickFacts
  OBVIOUS
<1>1. \A a, b \in Nat : Monus(a, b) \in Nat
  BY DEF Monus
<1>2. owed' \in [Slot -> Nat]
  BY Zenon, <1>1 DEF KernelInv, TypeOK, Tick, update_tick_bookkeeping
<1>3. wake_tick' \in [Slot -> Nat \cup {NotSleeping}]
  BY Zenon, <1>1 DEF KernelInv, TypeOK, Tick, update_tick_bookkeeping
<1>4. QED
  BY <1>2, <1>3 DEF TickFacts, KernelInv, TypeOK, Woken, Wakes

\* The effect of the handler's switch to idx.
SwitchFacts(idx) ==
    /\ g_current_idx \in Registered
    /\ idx \in Registered
    /\ g_current_idx' = idx
    /\ g_ticks_since_switch' = 0
    /\ state' \in [Slot -> {"UNUSED", "READY", "RUNNING", "BLOCKED", "TERMINATED"}]
    /\ \A t \in Slot :
         state'[t] = IF t = idx THEN "RUNNING"
                     ELSE IF t = g_current_idx THEN "READY" ELSE Woken[t]
    /\ idx # g_current_idx => Woken[idx] = "READY"
    /\ ~Outranked(idx, state')

\* A tick that interrupts a task finds it preemptible.
LEMMA ExecutingPreemptible == KernelInv /\ cpu # LOOP => Preemptible
BY DEF KernelInv, TypeOK, OneRunning, PreemptionsUnwind, Preemptible

\* The tick handler preserves the invariant.
LEMMA TickInv == KernelInv /\ preempt_handler => KernelInv'
<1> SUFFICES ASSUME KernelInv, preempt_handler PROVE KernelInv'
  OBVIOUS
<1> USE DEF KernelInv
<1>1. CASE tick_return
  <2>1. Tick /\ TickFacts /\ cpu = LOOP /\ late' = 0 /\ state' = Woken
    BY <1>1, TickTypes, ExecutingPreemptible DEF tick_return, LateAfterTick
  <2>2. UNCHANGED <<table, timer, in_sleep, g_current_idx,
                    pending_preemptions, context, canary_ok, loop, next, cpu>>
    BY <1>1 DEF tick_return
  <2>3. TypeOK'
    BY Zenon, <2>1, <2>2 DEF TickFacts, TypeOK, Position, table, timer
  <2>4. (Suspended /\ NextValid /\ g_current_idx \in Registered \cup {-1})'
    BY <2>2 DEF Suspended, NextValid, table
  <2>5. (Fresh /\ BlockedYielded)'
    BY Zenon, <2>1, <2>2 DEF TickFacts, TypeOK, Fresh, BlockedYielded, table
  <2>6. (OneRunning /\ PickStillReady)'
    BY SMTT(30), <2>1, <2>2 DEF TickFacts, TypeOK, OneRunning, PickStillReady, NextValid, table
  <2>7. PreemptionsUnwind'
    BY Zenon, <2>1, <2>2 DEF TickFacts, TypeOK, PreemptionsUnwind, BlockedYielded
  <2>8. LateCounted'
    BY <2>1, <2>2 DEF LateCounted
  <2>9. QED
    BY <2>3, <2>4, <2>5, <2>6, <2>7, <2>8
<1>2. CASE tick_slice
  <2>1. /\ Tick /\ TickFacts /\ state' = Woken
        /\ ~SliceOver /\ g_ticks_since_switch' = g_ticks_since_switch + 1
    BY <1>2, TickTypes DEF tick_slice
  <2>2. UNCHANGED <<g_preempt_enabled, table, in_sleep, g_current_idx,
                    pending_preemptions, context, canary_ok,
                    loop, next, cpu>>
    BY <1>2 DEF tick_slice
  <2>3. late' \in Nat /\ (late' <= late + 1) /\ (cpu = LOOP => late' = 0)
    BY <1>2 DEF tick_slice, LateAfterTick, TypeOK
  <2>4. TypeOK'
    BY <2>1, <2>2, <2>3 DEF SliceOver, TickFacts, TypeOK, Position, table
  <2>5. (Suspended /\ NextValid /\ g_current_idx \in Registered \cup {-1})'
    BY <2>2 DEF Suspended, NextValid, table
  <2>6. (Fresh /\ BlockedYielded)'
    BY Zenon, <2>1, <2>2 DEF TickFacts, TypeOK, Fresh, BlockedYielded, table
  <2>7. (OneRunning /\ PickStillReady)'
    BY SMTT(30), <2>1, <2>2 DEF TickFacts, TypeOK, OneRunning, PickStillReady, NextValid, table
  <2>8. PreemptionsUnwind'
    BY Zenon, <2>1, <2>2 DEF TickFacts, TypeOK, PreemptionsUnwind, BlockedYielded
  <2>9. LateCounted'
    BY <2>1, <2>2, <2>3 DEF SliceOver, LateCounted, TypeOK
  <2>10. QED
    BY <2>4, <2>5, <2>6, <2>7, <2>8, <2>9
<1>3. ASSUME NEW idx \in Slot, Tick, TickFacts, Preemptible, ForceSwitch(idx)
      PROVE  SwitchFacts(idx)
  <2>1. g_current_idx \in Registered
    BY <1>3 DEF Preemptible, TypeOK
  <2>3. idx \in Registered /\ (idx # g_current_idx => Woken[idx] = "READY")
    BY Zenon, <1>3, <2>1 DEF ForceSwitch, pick_next_ready, Ready, TickFacts, TypeOK
  <2>4. ~Outranked(idx, state')
    <3>1. SUFFICES ASSUME NEW u \in Registered, state'[u] = "READY"
                   PROVE  ~(priority[u] > priority[idx])
      BY DEF Outranked, Ready
    <3>2. /\ priority[u] \in Int /\ priority[idx] \in Int /\ u \in Slot
          /\ Woken \in [Slot -> {"UNUSED", "READY", "RUNNING", "BLOCKED", "TERMINATED"}]
      BY SMTT(30), <1>3 DEF TypeOK, TickFacts
    <3> DEFINE yielded == [Woken EXCEPT ![g_current_idx] = "READY"]
    <3>3. /\ state' = [yielded EXCEPT ![idx] = "RUNNING"]
          /\ \A t \in Ready(yielded) : priority[t] <= priority[idx]
      BY Zenon, <1>3 DEF ForceSwitch, pick_next_ready
    <3>4. yielded[u] = "READY"
      BY <2>1, <3>1, <3>2, <3>3
    <3> HIDE DEF yielded, KernelInv
    <3>5. QED
      BY <3>2, <3>3, <3>4 DEF Ready
  <2>5. QED
    BY Zenon, <1>3, <2>1, <2>3, <2>4 DEF ForceSwitch, SwitchFacts, TickFacts, TypeOK
<1>4. CASE tick_preempt
  <2>0. PICK idx \in Slot :
         /\ ForceSwitch(idx)
         /\ context' = [context EXCEPT ![g_current_idx] = "handler"]
         /\ pending_preemptions' =
              Resumed([pending_preemptions EXCEPT ![g_current_idx] = @ + 1],
                      context', idx)
         /\ cpu' = idx
         /\ late' = IF Outranked(idx, state') THEN late + 1 ELSE 0
    BY <1>4 DEF tick_preempt
  <2>1. /\ Tick /\ TickFacts /\ Preemptible
        /\ cpu # LOOP /\ cpu = g_current_idx /\ loop = "in"
        /\ UNCHANGED <<g_preempt_enabled, table, in_sleep, canary_ok, loop, next>>
    BY <1>4, TickTypes DEF tick_preempt, OneRunning
  <2>2. SwitchFacts(idx) /\ late' = 0
    BY <1>3, <2>0, <2>1 DEF SwitchFacts
  <2> DEFINE counted == [pending_preemptions EXCEPT ![g_current_idx] = @ + 1]
  <2>c. /\ g_current_idx \in Slot
        /\ counted \in [Slot -> Int]
        /\ context' \in [Slot -> {"entry", "yield", "handler", "loop"}]
    BY SMTT(30), <2>0, <2>2 DEF SwitchFacts, TypeOK
  <2>r. pending_preemptions' = IF context'[idx] = "handler"
                               THEN [counted EXCEPT ![idx] = @ - 1] ELSE counted
    BY <2>0 DEF Resumed
  <2>3. pending_preemptions' \in [Slot -> Int]
    <3> HIDE DEF counted
    <3>1. QED
      BY <2>c, <2>r
  <2>4. TypeOK'
    <3>1. (/\ g_num_tasks \in 0 .. SCHED_MAX_TASKS
           /\ priority \in [Slot -> Int]
           /\ canary_ok \in [Slot -> BOOLEAN]
           /\ in_sleep \in SUBSET Slot
           /\ loop \in Position
           /\ next \in Slot \cup {-1})'
      BY Zenon, <2>1 DEF TypeOK, Position, table
    <3>2. (g_preempt_enabled \in BOOLEAN)'
      BY <2>1, Zenon DEF TypeOK, table
    <3>3. (cpu \in Slot \cup {LOOP} /\ late \in Nat)'
      BY <2>0, <2>2
    <3>4. (/\ g_current_idx \in Slot \cup {-1}
           /\ g_ticks_since_switch \in 0 .. TicksPerSlice - 1
           /\ state \in [Slot -> {"UNUSED", "READY", "RUNNING", "BLOCKED", "TERMINATED"}])'
      BY <2>2 DEF SwitchFacts
    <3>5. (/\ wake_tick \in [Slot -> Nat \cup {NotSleeping}]
           /\ owed \in [Slot -> Nat])'
      BY <2>1 DEF TickFacts
    <3> HIDE DEF KernelInv
    <3>6. QED
      BY Zenon, <2>3, <2>c, <3>1, <3>2, <3>3, <3>4, <3>5 DEF TypeOK
  <2>5. (Suspended /\ NextValid /\ g_current_idx \in Registered \cup {-1})'
    BY <2>0, <2>1, <2>2 DEF SwitchFacts, Suspended, NextValid, TypeOK, table
  <2>6. Fresh'
    BY ZenonT(60), <2>0, <2>1, <2>2 DEF SwitchFacts, TickFacts, Fresh, TypeOK, table
  <2>7. BlockedYielded'
    BY ZenonT(60), <2>0, <2>1, <2>2 DEF SwitchFacts, TickFacts, BlockedYielded, TypeOK, table
  <2>8. (PickStillReady /\ LateCounted)'
    BY <2>0, <2>1, <2>2 DEF SwitchFacts, PickStillReady, LateCounted, TypeOK, table
  <2>9. OneRunning'
    BY ZenonT(60), <2>0, <2>1, <2>2 DEF SwitchFacts, TickFacts, OneRunning, TypeOK
  <2>10. PreemptionsUnwind'
    <3>1. pending_preemptions[g_current_idx] = 0
      BY Zenon, <2>1, <2>2 DEF SwitchFacts, PreemptionsUnwind, TypeOK
    <3>2. CASE idx = g_current_idx
      <4>1. pending_preemptions' = pending_preemptions
        BY <2>0, <2>c, <2>r, <3>1, <3>2 DEF TypeOK
      <4>2. QED
        BY SMTT(30), <2>0, <2>1, <2>2, <3>1, <3>2, <4>1
           DEF TickFacts, SwitchFacts, PreemptionsUnwind, BlockedYielded, TypeOK
    <3>3. CASE idx # g_current_idx
      <4> SUFFICES ASSUME NEW t \in Slot
                   PROVE  (pending_preemptions[t] =
                             IF /\ context[t] = "handler" /\ cpu # t
                                /\ state[t] \in {"READY", "RUNNING"}
                             THEN 1 ELSE 0)'
        BY DEF PreemptionsUnwind
      <4>1. /\ pending_preemptions \in [Slot -> Int]
            /\ context \in [Slot -> {"entry", "yield", "handler", "loop"}]
            /\ context' = [context EXCEPT ![g_current_idx] = "handler"]
            /\ cpu' = idx /\ cpu = g_current_idx
        BY Zenon, <2>0, <2>1 DEF TypeOK
      <4>2. /\ state'[t] = IF t = idx THEN "RUNNING"
                           ELSE IF t = g_current_idx THEN "READY" ELSE Woken[t]
            /\ Woken[idx] = "READY"
            /\ \/ Woken[t] = state[t]
               \/ state[t] = "BLOCKED" /\ Woken[t] = "READY"
        BY Zenon, <2>1, <2>2, <3>3 DEF SwitchFacts, TickFacts
      <4>3. /\ state[t] = "BLOCKED" => context[t] # "handler"
            /\ pending_preemptions[t] =
                 IF /\ context[t] = "handler" /\ cpu # t
                    /\ state[t] \in {"READY", "RUNNING"}
                 THEN 1 ELSE 0
        BY <2>1 DEF BlockedYielded, PreemptionsUnwind
      <4> HIDE DEF KernelInv
      <4>4. CASE t = g_current_idx
        BY <2>c, <2>r, <3>1, <3>3, <4>1, <4>2, <4>4
      <4>5. CASE t = idx
        BY <2>c, <2>r, <3>3, <4>1, <4>2, <4>3, <4>5
      <4>6. CASE t # idx /\ t # g_current_idx
        BY Zenon, <2>c, <2>r, <4>1, <4>2, <4>3, <4>6
      <4>7. QED
        BY <4>4, <4>5, <4>6
    <3>4. QED
      BY <3>2, <3>3
  <2>11. QED
    BY <2>4, <2>5, <2>6, <2>7, <2>8, <2>9, <2>10
<1>5. CASE TickInWindow
  <2>0. PICK idx \in Slot : ForceSwitch(idx)
    BY <1>5 DEF TickInWindow
  <2>1. /\ Tick /\ TickFacts /\ Preemptible /\ cpu = LOOP /\ loop' = "lost"
        /\ context' = [context EXCEPT ![g_current_idx] = "loop"]
        /\ pending_preemptions' =
             [pending_preemptions EXCEPT ![g_current_idx] = @ + 1]
        /\ UNCHANGED <<g_preempt_enabled, table, in_sleep, canary_ok, next, cpu, late>>
    BY <1>5, TickTypes DEF TickInWindow
  <2>2. SwitchFacts(idx)
    BY <1>3, <2>0, <2>1
  <2>3. TypeOK'
    <3>1. (/\ g_num_tasks \in 0 .. SCHED_MAX_TASKS
           /\ priority \in [Slot -> Int]
           /\ canary_ok \in [Slot -> BOOLEAN]
           /\ in_sleep \in SUBSET Slot
           /\ loop \in Position
           /\ next \in Slot \cup {-1}
           /\ cpu \in Slot \cup {LOOP}
           /\ late \in Nat)'
      BY Zenon, <2>1 DEF TypeOK, Position, table
    <3>2. (g_preempt_enabled \in BOOLEAN)'
      BY <2>1, Zenon DEF TypeOK, table
    <3>3. (/\ pending_preemptions \in [Slot -> Int]
           /\ context \in [Slot -> {"entry", "yield", "handler", "loop"}])'
      BY SMTT(30), <2>1, <2>2 DEF SwitchFacts, TypeOK
    <3>4. (/\ g_current_idx \in Slot \cup {-1}
           /\ g_ticks_since_switch \in 0 .. TicksPerSlice - 1
           /\ state \in [Slot -> {"UNUSED", "READY", "RUNNING", "BLOCKED", "TERMINATED"}])'
      BY <2>0, <2>2 DEF SwitchFacts
    <3>5. (/\ wake_tick \in [Slot -> Nat \cup {NotSleeping}]
           /\ owed \in [Slot -> Nat])'
      BY Zenon, <2>1 DEF TickFacts
    <3> HIDE DEF KernelInv
    <3>6. QED
      BY Zenon, <3>1, <3>2, <3>3, <3>4, <3>5 DEF TypeOK
  <2>4. (Suspended /\ NextValid /\ g_current_idx \in Registered \cup {-1})'
    BY Zenon, <2>1, <2>2 DEF SwitchFacts, Suspended, NextValid, table
  <2>5. (Fresh /\ BlockedYielded)'
    <3>1. Fresh'
      BY ZenonT(60), <2>1, <2>2 DEF SwitchFacts, TickFacts, Fresh, TypeOK, table
    <3>2. BlockedYielded'
      BY Zenon, <2>1, <2>2 DEF SwitchFacts, TickFacts, BlockedYielded, TypeOK
    <3>3. QED
      BY <3>1, <3>2
  <2>6. (OneRunning /\ PickStillReady /\ PreemptionsUnwind /\ LateCounted)'
    BY Zenon, <2>1 DEF OneRunning, PickStillReady, PreemptionsUnwind, LateCounted
  <2>7. QED
    BY <2>3, <2>4, <2>5, <2>6
<1>6. QED
  BY <1>1, <1>2, <1>4, <1>5 DEF preempt_handler

\* The invariant holds in every reachable state of the kernel.
THEOREM KernelInvariant == Spec => []KernelInv
<1>1. KernelInv /\ [Next]_vars => KernelInv'
  <2> SUFFICES ASSUME KernelInv, [Next]_vars PROVE KernelInv'
    OBVIOUS
  <2>1. CASE UNCHANGED vars
    BY <2>1 DEF KernelInv, TypeOK, Suspended, NextValid, Fresh, BlockedYielded,
                LateCounted, OneRunning, PickStillReady, PreemptionsUnwind,
                Position, vars, table, timer, sleep
  <2>2. CASE halted
    BY <2>1, <2>2 DEF halted
  <2>3. QED
    BY <2>1, <2>2, MainInv, LoopInv, TaskInv, TickInv DEF Next
<1>2. QED
  BY <1>1, InitInv, PTL DEF Spec

\* Type correctness of the kernel, for every table size and tick length.
THEOREM TypeCorrect == Spec => []TypeOK
BY KernelInvariant, PTL DEF KernelInv

\* scheduler_current_task() is its caller and there is one RUNNING task,
\* under every interleaving of scheduler_run() and preempt_handler().
THEOREM SingleRunning == Spec => []OneRunning
BY KernelInvariant, PTL DEF KernelInv

\* pending_preemptions is bounded by 1 and unwound for every task.
THEOREM PreemptionsBounded == Spec => []PreemptionsUnwind
BY KernelInvariant, PTL DEF KernelInv

\* The task picked by scheduler_run() is READY when it is marked RUNNING.
THEOREM PickValid == Spec => []PickStillReady
BY KernelInvariant, PTL DEF KernelInv

\* An outranked task loses the CPU within one time slice.
THEOREM PreemptionLatency == Spec => []OutrankedOneSlice
<1>1. KernelInv => OutrankedOneSlice
  BY DEF KernelInv, LateCounted, OutrankedOneSlice
<1>2. QED
  BY <1>1, KernelInvariant, PTL

-----------------------------------------------------------------------------
(* The stack canaries *)

\* Between two runs of the loop there is no current task, so the first pick
\* of a run has no canary behind it.
CanaryInv ==
    /\ CanaryChecked
    /\ loop = "main" => g_current_idx = -1

\* Whenever the loop picks a task after one that handed control back, the
\* canary of that one has been found intact: no step but the task's own
\* overwrites it, and no step leads from "back" to "pick" around the check.
THEOREM CanaryBeforePick == Spec => []CanaryChecked
<1>1. Init => CanaryInv
  BY DEF Init, CanaryInv, CanaryChecked
<1>2. KernelInv /\ CanaryInv /\ [Next]_vars => CanaryInv'
  <2> SUFFICES ASSUME KernelInv, CanaryInv, [Next]_vars PROVE CanaryInv'
    OBVIOUS
  <2> USE DEF CanaryInv, CanaryChecked
  <2>1. CASE MainStep
    <3>1. CASE scheduler_reset
      BY Zenon, <3>1 DEF scheduler_reset
    <3>2. CASE run_start
      BY <3>2 DEF run_start
    <3>3. CASE UNCHANGED <<g_current_idx, canary_ok, loop, next>>
      BY <3>3
    <3>4. QED
      BY Zenon, <2>1, <3>1, <3>2, <3>3
         DEF MainStep, task_spawn, task_spawn_full, scheduler_enable_preemption,
             scheduler_disable_preemption, vars
  <2>2. CASE LoopStep
    <3>1. CASE run_end \/ run_idle
      BY <3>1 DEF run_end, run_idle, vars, table, timer, sleep
    <3>2. CASE run_pick \/ run_mark \/ run_swap
      BY Zenon, <3>2 DEF run_pick, run_mark, run_swap
    <3>3. CASE run_check
      BY <3>3 DEF KernelInv, NextValid, run_check
    <3>4. QED
      BY Zenon, <2>2, <3>1, <3>2, <3>3 DEF LoopStep
  <2>3. ASSUME NEW t \in Slot, TaskStep(t) PROVE CanaryInv'
    <3>1. cpu = t /\ loop = "in"
      BY <2>3 DEF KernelInv, OneRunning, TaskStep, task_yield, task_sleep,
                  task_sleep_block, task_trampoline, overflow_stack, Executing
    <3>2. loop' \in {"in", "back"}
      BY Zenon, <2>3, <3>1 DEF TaskStep, task_yield, task_sleep, task_sleep_block,
                        task_trampoline, overflow_stack, SwitchToLoop
    <3>3. QED
      BY <3>2
  <2>4. CASE tick_return \/ tick_slice
    BY Zenon, <2>4 DEF tick_return, tick_slice, table, timer
  <2>5. CASE tick_preempt
    BY Zenon, <2>5 DEF KernelInv, OneRunning, tick_preempt
  <2>6. CASE TickInWindow
    BY <2>6 DEF TickInWindow
  <2>7. CASE UNCHANGED vars
    BY Zenon, <2>7 DEF vars, table, timer, sleep
  <2>8. QED
    BY Zenon, <2>1, <2>2, <2>3, <2>4, <2>5, <2>6, <2>7 DEF Next, preempt_handler, halted
<1>3. QED
  BY <1>1, <1>2, KernelInvariant, PTL DEF Spec, CanaryInv

-----------------------------------------------------------------------------
(* Sleeping *)

\* A deadline that is w ticks away stands for less than w + 1 ticks of sleep
\* that is still owed.
SleepInv ==
    \A t \in Slot :
      wake_tick[t] # NotSleeping => owed[t] < (wake_tick[t] + 1) * TickMs

\* The rounding of line 292 loses less than one tick.
LEMMA SleepRounding ==
    ASSUME NEW ms \in Nat
    PROVE  SleepTicks(ms) \in Nat /\ ms < (SleepTicks(ms) + 1) * TickMs
<1> DEFINE q == ms \div TickMs
<1>1. q \in Nat /\ ms < q * TickMs + TickMs
  OBVIOUS
<1>2. CASE q <= 0
  BY <1>1, <1>2 DEF SleepTicks
<1>3. CASE q > 0
  <2> HIDE DEF q
  <2>1. (q + 1) * TickMs = q * TickMs + TickMs
    BY <1>1
  <2>2. SleepTicks(ms) = q
    BY <1>1, <1>3 DEF SleepTicks, q
  <2>3. QED
    BY <1>1, <2>1, <2>2
<1>4. QED
  BY <1>1, <1>2, <1>3

\* One tick takes a tick from the deadline and TickMs from what is owed.
LEMMA TickOwes ==
    ASSUME KernelInv, SleepInv, Tick, NEW t \in Slot
    PROVE  /\ wake_tick'[t] # NotSleeping => owed'[t] < (wake_tick'[t] + 1) * TickMs
           /\ Wakes(t) => owed'[t] < TickMs
<1>1. /\ wake_tick[t] \in Nat \cup {-1} /\ owed[t] \in Nat
      /\ wake_tick[t] # -1 => owed[t] < (wake_tick[t] + 1) * TickMs
      /\ owed'[t] = Monus(owed[t], TickMs)
      /\ wake_tick'[t] = IF Wakes(t) \/ wake_tick[t] = -1 THEN -1
                         ELSE Monus(wake_tick[t], 1)
  BY Zenon DEF KernelInv, TypeOK, SleepInv, Tick, update_tick_bookkeeping
<1>2. ASSUME NEW w \in Nat, NEW o \in Nat, o < (w + 1) * TickMs
      PROVE  Monus(o, TickMs) < (Monus(w, 1) + 1) * TickMs
  <2>1. (w + 1) * TickMs = w * TickMs + TickMs
    OBVIOUS
  <2>2. CASE w = 0
    BY <1>2, <2>2 DEF Monus
  <2>3. CASE w > 0
    <3>1. Monus(w, 1) + 1 = w
      BY <2>3 DEF Monus
    <3>2. w * TickMs > 0
      BY <2>3
    <3>3. QED
      BY <1>2, <2>1, <3>1, <3>2 DEF Monus
  <2>4. QED
    BY <2>2, <2>3
<1>3. ASSUME Wakes(t) PROVE owed'[t] < TickMs
  BY <1>1, <1>3 DEF Wakes, WakeDue, Monus
<1>4. QED
  BY Zenon, <1>1, <1>2, <1>3

\* Every step keeps SleepInv.
LEMMA SleepStep == KernelInv /\ SleepInv /\ [Next]_vars => SleepInv'
<1> SUFFICES ASSUME KernelInv, SleepInv, [Next]_vars PROVE SleepInv'
  OBVIOUS
<1>1. ASSUME NEW t \in Slot, NEW ms \in SleepMs, task_sleep(t, ms) PROVE SleepInv'
  <2>1. ms \in Nat
    OBVIOUS
  <2>2. QED
    BY Zenon, <1>1, <2>1, SleepRounding DEF task_sleep, SleepInv, KernelInv, TypeOK
<1>2. CASE preempt_handler
  <2>1. Tick
    BY Zenon, <1>2 DEF preempt_handler, tick_return, tick_slice, tick_preempt, TickInWindow
  <2>2. QED
    BY Zenon, <2>1, TickOwes DEF SleepInv
<1>3. CASE scheduler_reset
  BY Zenon, <1>3 DEF scheduler_reset, SleepInv
<1>4. CASE UNCHANGED <<wake_tick, owed>>
  BY Zenon, <1>4 DEF SleepInv
<1>5. QED
  BY Zenon, <1>1, <1>2, <1>3, <1>4
     DEF Next, MainStep, LoopStep, TaskStep, halted, task_spawn, task_spawn_full,
         scheduler_enable_preemption, scheduler_disable_preemption, run_start,
         run_end, run_idle, run_pick, run_mark, run_swap, run_check, task_yield,
         task_sleep_block, task_trampoline, overflow_stack, vars, sleep

\* Only a tick makes a BLOCKED task READY, and only one that wakes it.
LEMMA OnlyTicksWake ==
    ASSUME KernelInv, [Next]_vars, NEW t \in Slot,
           state[t] = "BLOCKED", state'[t] = "READY"
    PROVE  Tick /\ Wakes(t)
<1>1. CASE MainStep
  <2>1. ASSUME NEW p \in Priority, task_spawn(p) PROVE FALSE
    BY <2>1 DEF KernelInv, TypeOK, Fresh, task_spawn
  <2>2. CASE scheduler_reset
    BY Zenon, <2>2 DEF scheduler_reset
  <2>3. QED
    BY Zenon, <1>1, <2>1, <2>2 DEF MainStep, task_spawn_full, scheduler_enable_preemption,
                            scheduler_disable_preemption, run_start, vars
<1>2. CASE LoopStep
  BY Zenon, <1>2 DEF KernelInv, TypeOK, LoopStep, run_end, run_idle, run_pick, run_mark,
              run_swap, run_check, vars
<1>3. ASSUME NEW u \in Slot, TaskStep(u) PROVE FALSE
  BY Zenon, <1>3 DEF KernelInv, TypeOK, OneRunning, TaskStep, task_yield, task_sleep,
              task_sleep_block, task_trampoline, overflow_stack, Executing
<1>4. CASE tick_return \/ tick_slice
  BY Zenon, <1>4 DEF tick_return, tick_slice, Woken
<1>5. CASE tick_preempt \/ TickInWindow
  BY Zenon, <1>5 DEF KernelInv, TypeOK, tick_preempt, TickInWindow, ForceSwitch, Preemptible, Woken
<1>6. CASE UNCHANGED vars
  BY Zenon, <1>6 DEF vars
<1>7. QED
  BY <1>1, <1>2, <1>3, <1>4, <1>5, <1>6 DEF Next, preempt_handler, halted

\* A sleeping task is never woken a whole tick or more before its time,
\* whatever was rounded off and however the tick that preempts task_sleep()
\* between its two steps falls.
THEOREM SleepLength == Spec => SleepsLongEnough
<1>1. Init => SleepInv
  BY DEF Init, SleepInv
<1>2. KernelInv /\ SleepInv /\ [Next]_vars =>
        [\A t \in Slot :
           state[t] = "BLOCKED" /\ state'[t] = "READY" => owed'[t] < TickMs]_vars
  BY OnlyTicksWake, TickOwes
<1>3. QED
  BY <1>1, <1>2, SleepStep, KernelInvariant, PTL DEF Spec, SleepsLongEnough

-----------------------------------------------------------------------------
(* The kernel implements KernelSpec *)

\* The steps of main() are steps of the abstract kernel, or hidden by it.
LEMMA MainRefines == KernelInv /\ MainStep => [Kernel!KernelNext]_(Kernel!kernelVars)
<1> SUFFICES ASSUME KernelInv, MainStep
             PROVE  Kernel!KernelNext \/ UNCHANGED Kernel!kernelVars
  OBVIOUS
<1>1. ASSUME NEW p \in Priority, task_spawn(p) PROVE Kernel!KernelNext
  <2>1. g_num_tasks \in Slot /\ state[g_num_tasks] = "UNUSED"
    BY <1>1 DEF task_spawn, KernelInv, TypeOK, Fresh
  <2>2. Kernel!Spawn(g_num_tasks, p)
    BY <1>1, <2>1 DEF task_spawn, Kernel!Spawn
  <2>3. QED
    BY <2>1, <2>2 DEF Kernel!KernelNext
<1>2. CASE scheduler_reset
  <2>1. Kernel!Reset
    BY Zenon, <1>2 DEF scheduler_reset, Kernel!Reset, Kernel!NoTask
  <2>2. QED
    BY <2>1 DEF Kernel!KernelNext
<1>3. CASE \/ task_spawn_full \/ scheduler_enable_preemption
           \/ scheduler_disable_preemption \/ run_start
  BY Zenon, <1>3 DEF task_spawn_full, scheduler_enable_preemption,
              scheduler_disable_preemption, run_start, Kernel!kernelVars, vars, table
<1>4. QED
  BY <1>1, <1>2, <1>3 DEF MainStep

\* The steps of scheduler_run(): its pick, its assignment of RUNNING, and
\* what the abstract kernel does not see.
LEMMA LoopRefines == KernelInv /\ LoopStep => [Kernel!KernelNext]_(Kernel!kernelVars)
<1> SUFFICES ASSUME KernelInv, LoopStep
             PROVE  Kernel!KernelNext \/ UNCHANGED Kernel!kernelVars
  OBVIOUS
<1>1. CASE run_pick
  <2>1. PICK idx \in Slot : pick_next_ready(state, idx) /\ next' = idx
    BY <1>1 DEF run_pick
  <2>2. Kernel!Highest(state, idx)
    BY Zenon, <2>1 DEF pick_next_ready, Ready, Kernel!Highest, KernelInv, Fresh
  <2>3. Kernel!Pick(idx)
    BY Zenon, <1>1, <2>1, <2>2 DEF run_pick, table, Kernel!Pick, Kernel!NoTask
  <2>4. QED
    BY <2>3 DEF Kernel!KernelNext
<1>2. CASE run_mark
  <2>1. Kernel!Start
    BY <1>2 DEF run_mark, KernelInv, PickStillReady, table, Kernel!Start, Kernel!NoTask
  <2>2. QED
    BY <2>1 DEF Kernel!KernelNext
<1>3. CASE run_end \/ run_idle \/ run_swap \/ run_check
  BY Zenon, <1>3 DEF run_end, run_idle, run_swap, run_check, Kernel!kernelVars, vars, table
<1>4. QED
  BY <1>1, <1>2, <1>3 DEF LoopStep

\* The executing task yields, blocks or terminates, or does what the
\* abstract kernel does not see.
LEMMA TaskRefines ==
    ASSUME KernelInv, NEW t \in Slot, TaskStep(t)
    PROVE  [Kernel!KernelNext]_(Kernel!kernelVars)
<1>1. cpu = t /\ g_current_idx = t /\ loop = "in" /\ t # -1
  BY DEF KernelInv, OneRunning, TaskStep, task_yield, task_sleep, task_sleep_block,
         task_trampoline, overflow_stack, Executing
<1>2. CASE task_yield(t)
  <2>1. Kernel!Yield(t)
    BY Zenon, <1>1, <1>2 DEF task_yield, SwitchToLoop, table, KernelInv, TypeOK,
                      Kernel!Yield, Kernel!Leave, Kernel!NoTask
  <2>2. QED
    BY <2>1 DEF Kernel!KernelNext
<1>3. CASE task_sleep_block(t)
  <2>1. Kernel!Block(t)
    BY Zenon, <1>1, <1>3 DEF task_sleep_block, SwitchToLoop, table,
                      Kernel!Block, Kernel!Leave, Kernel!NoTask
  <2>2. QED
    BY <2>1 DEF Kernel!KernelNext
<1>4. CASE task_trampoline(t)
  <2>1. Kernel!Terminate(t)
    BY Zenon, <1>1, <1>4 DEF task_trampoline, table,
                      Kernel!Terminate, Kernel!Leave, Kernel!NoTask
  <2>2. QED
    BY <2>1 DEF Kernel!KernelNext
<1>5. CASE (\E ms \in SleepMs : task_sleep(t, ms)) \/ overflow_stack(t)
  BY Zenon, <1>5 DEF task_sleep, overflow_stack, table, Kernel!kernelVars
<1>6. QED
  BY <1>2, <1>3, <1>4, <1>5 DEF TaskStep

\* A forced switch of the handler is a preemption of the abstract kernel, by
\* the tick that woke the tasks of W.
LEMMA SwitchRefines ==
    ASSUME KernelInv, Tick, Preemptible, NEW idx \in Slot, ForceSwitch(idx),
           loop \in {"swap", "in"}, loop' \in {"in", "lost"},
           UNCHANGED <<table, next>>
    PROVE  Kernel!KernelNext
<1> DEFINE W == {t \in Slot : Wakes(t)}
           yielded == [Woken EXCEPT ![g_current_idx] = "READY"]
<1>1. W \in SUBSET Kernel!Blocked
  BY DEF Wakes, Kernel!Blocked
<1>2. Woken = Kernel!WakeUp(W)
  BY DEF Woken, Kernel!WakeUp
<1>3. /\ g_current_idx \in Slot /\ g_current_idx # -1
      /\ Woken \in [Slot -> {"UNUSED", "READY", "RUNNING", "BLOCKED", "TERMINATED"}]
  <2>1. g_current_idx \in Slot /\ g_current_idx # -1
    BY DEF KernelInv, TypeOK, Preemptible
  <2>2. Woken \in [Slot -> {"UNUSED", "READY", "RUNNING", "BLOCKED", "TERMINATED"}]
    BY Zenon, TickTypes DEF TickFacts
  <2>3. QED
    BY <2>1, <2>2
<1>4. Kernel!Highest(yielded, idx)
  <2>1. \A t \in Slot : yielded[t] = "READY" => t \in Registered
    BY Zenon, <1>3 DEF KernelInv, TypeOK, Fresh, Preemptible, Woken, Wakes
  <2>2. pick_next_ready(yielded, idx)
    BY DEF ForceSwitch
  <2> HIDE DEF yielded
  <2>3. QED
    BY Zenon, <2>1, <2>2 DEF pick_next_ready, Ready, Kernel!Highest
<1>5. Kernel!Preempt(W, idx)
  <2>1. /\ state' = [yielded EXCEPT ![idx] = "RUNNING"]
        /\ g_current_idx' = idx
        /\ state[g_current_idx] = "RUNNING"
        /\ priority' = priority
    BY DEF ForceSwitch, Preemptible, table
  <2> HIDE DEF W
  <2>2. QED
    BY Zenon, <1>2, <1>3, <1>4, <2>1 DEF Kernel!Preempt, Kernel!NoTask
<1>6. QED
  BY Zenon, <1>1, <1>5 DEF Kernel!KernelNext

\* The tick handler wakes tasks, and may take the CPU from the current one:
\* also when it finds the loop in the window between lines 117 and 120.
LEMMA TickRefines ==
    KernelInv /\ preempt_handler => [Kernel!KernelNext]_(Kernel!kernelVars)
<1> SUFFICES ASSUME KernelInv, preempt_handler PROVE Kernel!KernelNext
  OBVIOUS
<1>1. CASE tick_return \/ tick_slice
  <2> DEFINE W == {t \in Slot : Wakes(t)}
  <2>1. W \in SUBSET Kernel!Blocked
    BY DEF Wakes, Kernel!Blocked
  <2>2. Kernel!Wake(W)
    BY Zenon, <1>1 DEF tick_return, tick_slice, table, Woken, Kernel!Wake, Kernel!WakeUp
  <2>3. QED
    BY <2>1, <2>2 DEF Kernel!KernelNext
<1>2. CASE tick_preempt
  BY Zenon, <1>2, SwitchRefines DEF tick_preempt, KernelInv, OneRunning
<1>3. CASE TickInWindow
  <2>1. loop = "swap"
    BY <1>3 DEF TickInWindow, Tick, Preemptible, KernelInv, TypeOK, OneRunning
  <2>2. QED
    BY Zenon, <1>3, <2>1, SwitchRefines DEF TickInWindow
<1>4. QED
  BY <1>1, <1>2, <1>3 DEF preempt_handler

\* The kernel implements its promise to the code that runs on it: whatever
\* the interleaving of the loop, of voluntary switches and of ticks, tasks
\* move through their life cycle only, one has the CPU, and whoever gives the
\* CPU away gives it to a READY task of the highest priority.
THEOREM KernelRefinement == Spec => ImplementsKernel
<1>1. Init => Kernel!KernelInit
  BY Zenon DEF Init, Kernel!KernelInit, Kernel!NoTask
<1>2. KernelInv /\ [Next]_vars => [Kernel!KernelNext]_(Kernel!kernelVars)
  <2> SUFFICES ASSUME KernelInv, [Next]_vars
               PROVE  [Kernel!KernelNext]_(Kernel!kernelVars)
    OBVIOUS
  <2>1. CASE UNCHANGED vars
    BY Zenon, <2>1 DEF vars, table, Kernel!kernelVars
  <2>2. QED
    BY <2>1, MainRefines, LoopRefines, TaskRefines, TickRefines DEF Next, halted
<1>3. QED
  BY <1>1, <1>2, KernelInvariant, PTL DEF Spec, ImplementsKernel, Kernel!KernelPromise

HIDE KernelAssumption DEF Slot, Registered, Halted, LOOP, NotSleeping

-----------------------------------------------------------------------------
(* The board: what a stack and the registers hold *)

Own(i) == Context(i, progress[i])

\* main() has called task_stack_init() for the task, and has primed the process stack.
Initialised(i) ==
    at # "task_stack_init_0" /\ (i = 1 => at # "task_stack_init_1")
Primed == at \in {"request", "error", "uart_puts", "wfi"}

\* A task that waits for its turn: its context lies on top of its stack, above nothing
\* but its own words.
Resting(i) ==
    /\ task_sp[i] = Pointer(i, Len(stack[i]))
    /\ Len(stack[i]) \in 2 .. MaxCalls + 2
    /\ stack[i][Len(stack[i])] = Own(i) /\ stack[i][Len(stack[i]) - 1] = Own(i)

\* The task that runs: its context is in the registers.
Active(i) ==
    /\ low = Own(i) /\ high = Own(i) /\ spsel
    /\ psp = Pointer(i, Len(stack[i])) /\ Len(stack[i]) \in 0 .. MaxCalls

\* main() runs until the first PendSV, which comes only after the priming.
Booting ==
    /\ low = Context(Boot, 0) /\ high = Context(Boot, 0)
    /\ \A i \in Idx : progress[i] = 0
    /\ systick \/ pendsv => Primed
    /\ Primed => spsel /\ psp = Pointer(Boot, IF at = "uart_puts" THEN 1 ELSE 0)

ArmInv ==
    /\ stack = [s \in Idx \union {Boot} |-> stack[s]]
    /\ \A i \in Idx : /\ stack[i] \in Seq(Half)
                      /\ \A k \in 1 .. Len(stack[i]) : stack[i][k].who = i
    /\ task_sp = [i \in Idx |-> task_sp[i]]
    /\ progress \in [Idx -> 0 .. 2]
    /\ current_task_idx \in Idx \union {-1}
    /\ stray = FALSE
    /\ current_task_idx = -1 => Booting
    /\ current_task_idx # -1 => Primed /\ Active(current_task_idx)
    /\ \A i \in Idx : i # current_task_idx /\ Initialised(i) => Resting(i)

LEMMA Names ==
    /\ Idx = {0, 1} /\ Boot = -1 /\ Nowhere = -2 /\ NUM_TASKS = 2
    /\ MaxCalls \in Int /\ MaxCalls >= 0 /\ MaxCalls <= 30
  BY ArmAssumption DEF Idx, Boot, Nowhere, NUM_TASKS

LEMMA NotBoot == \A i \in Idx : i # Boot /\ i # Nowhere /\ i # -1
  BY Names

LEMMA ArmInitInv == ArmInit => ArmInv
  <1> SUFFICES ASSUME ArmInit PROVE ArmInv
    OBVIOUS
  <1>1. /\ current_task_idx = -1 /\ stray = FALSE /\ at = "task_stack_init_0"
        /\ progress \in [Idx -> 0 .. 2] /\ \A i \in Idx : progress[i] = 0
        /\ low = Context(Boot, 0) /\ high = Context(Boot, 0) /\ ~systick /\ ~pendsv
    BY DEF ArmInit
  <1>2. /\ stack = [s \in Idx \union {Boot} |-> stack[s]]
        /\ \A i \in Idx : stack[i] = <<>> /\ Len(stack[i]) = 0 /\ stack[i] \in Seq(Half)
    BY DEF ArmInit
  <1>3. task_sp = [i \in Idx |-> task_sp[i]]
    BY DEF ArmInit
  <1>4. Booting
    BY <1>1 DEF Booting, Primed
  <1> QED
    BY <1>1, <1>2, <1>3, <1>4 DEF ArmInv, Initialised

\* What the property says follows.
LEMMA ArmInvIntact == ArmInv => ContextsIntact
  <1> SUFFICES ASSUME ArmInv PROVE ContextsIntact
    OBVIOUS
  <1>1. SUFFICES ASSUME current_task_idx >= 0, NEW i \in Idx
                 PROVE  IF i = current_task_idx
                        THEN low = Own(i) /\ high = Own(i) /\ psp.stack = i
                        ELSE /\ task_sp[i] = Pointer(i, Len(stack[i]))
                             /\ Saved(stack, task_sp[i], 0) = Own(i)
                             /\ Saved(stack, task_sp[i], 1) = Own(i)
                             /\ \A k \in DOMAIN stack[i] : stack[i][k].who = i
    BY Zenon DEF ContextsIntact, ArmInv, Own
  <1>2. Primed /\ current_task_idx # -1 /\ current_task_idx \in Idx
    BY <1>1, Names DEF ArmInv
  <1>3. CASE i = current_task_idx
    BY <1>2, <1>3 DEF ArmInv, Active, Pointer
  <1>4. CASE i # current_task_idx
    <2>1. Initialised(i)
      BY <1>2 DEF Primed, Initialised
    <2>2. Resting(i) /\ stack[i] \in Seq(Half)
      BY <1>4, <2>1 DEF ArmInv
    <2>3. DOMAIN stack[i] = 1 .. Len(stack[i])
      BY <2>2
    <2>4. task_sp[i].stack = i /\ task_sp[i].depth = Len(stack[i]) /\ Len(stack[i]) \in Int
      BY <2>2 DEF Resting, Pointer
    <2>5. /\ Saved(stack, task_sp[i], 0) = Own(i)
          /\ Saved(stack, task_sp[i], 1) = Own(i)
      BY <2>2, <2>4 DEF Saved, Resting
    <2> QED
      BY Zenon, <1>4, <2>2, <2>3, <2>5 DEF ArmInv, Resting
  <1> QED
    BY Zenon, <1>3, <1>4

-----------------------------------------------------------------------------
(* Stores through a stack pointer *)

Stacks(sp, st) == [sp |-> sp, stack |-> st, stray |-> FALSE]

Put(st, s, q) == [st EXCEPT ![s] = q]

LEMMA StacksFields ==
    ASSUME NEW sp, NEW st
    PROVE  /\ Stacks(sp, st).sp = sp /\ Stacks(sp, st).stack = st
           /\ Stacks(sp, st).stray = FALSE
  BY DEF Stacks

\* On top of a task's stack.
LEMMA Pushed ==
    ASSUME NEW st, NEW i \in Idx, st[i] \in Seq(Half), NEW d \in Int, 0 <= d, d < 32, d = Len(st[i]),
           NEW half \in Half
    PROVE  Push(Stacks(Pointer(i, d), st), half)
             = Stacks(Pointer(i, d + 1), Put(st, i, Append(st[i], half)))
  <1> DEFINE m == [sp |-> Pointer(i, d), stack |-> st, stray |-> FALSE]
  <1>1. m.sp = Pointer(i, d) /\ m.stack = st /\ m.stray = FALSE
    BY Zenon
  <1>2. m.sp.stack = i /\ m.sp.depth = d
    BY Zenon, <1>1 DEF Pointer
  <1> HIDE DEF m
  <1>3. Inside(m.sp)
    <2>1. i # Boot /\ i # Nowhere /\ Room(i) = 32
      BY Zenon, NotBoot DEF Room
    <2> QED
      BY Zenon, <1>2, <2>1 DEF Inside
  <1>4. SubSeq(st[i], 1, d) \o <<half>> = Append(st[i], half)
    <2>1. SubSeq(st[i], 1, d) = st[i]
      BY SubSeqFull
    <2>2. st[i] \o <<half>> = Append(st[i], half)
      BY AppendIsConcat
    <2> QED
      BY Zenon, <2>1, <2>2
  <1>5. [m.sp EXCEPT !.depth = @ + 1] = Pointer(i, d + 1)
    BY <1>1 DEF Pointer
  <1>6. Push(m, half)
          = [sp |-> [m.sp EXCEPT !.depth = @ + 1],
             stack |-> [m.stack EXCEPT ![m.sp.stack] = SubSeq(@, 1, m.sp.depth) \o <<half>>],
             stray |-> FALSE]
    BY Zenon, <1>1, <1>3 DEF Push
  <1>7. [m.stack EXCEPT ![m.sp.stack] = SubSeq(@, 1, m.sp.depth) \o <<half>>]
          = [st EXCEPT ![i] = Append(st[i], half)]
    BY Zenon, <1>1, <1>2, <1>4
  <1> QED
    BY Zenon, <1>1, <1>5, <1>6, <1>7 DEF m, Stacks, Put

\* On the scratch stack.
LEMMA Scratched ==
    ASSUME NEW st, NEW d \in Int, 0 <= d, d < 8, NEW half
    PROVE  \E x : Push(Stacks(Pointer(Boot, d), st), half)
                    = Stacks(Pointer(Boot, d + 1), Put(st, Boot, x))
  <1> DEFINE m == [sp |-> Pointer(Boot, d), stack |-> st, stray |-> FALSE]
             x == SubSeq(st[Boot], 1, d) \o <<half>>
  <1>1. m.sp = Pointer(Boot, d) /\ m.stack = st /\ m.stray = FALSE
    BY Zenon
  <1>2. m.sp.stack = Boot /\ m.sp.depth = d
    BY Zenon, <1>1 DEF Pointer
  <1>3. Inside(m.sp)
    BY <1>2, Names DEF Inside, Room
  <1>5. [m.sp EXCEPT !.depth = @ + 1] = Pointer(Boot, d + 1)
    BY <1>1 DEF Pointer
  <1> HIDE DEF m
  <1>6. Push(m, half)
          = [sp |-> [m.sp EXCEPT !.depth = @ + 1],
             stack |-> [m.stack EXCEPT ![m.sp.stack] = SubSeq(@, 1, m.sp.depth) \o <<half>>],
             stray |-> FALSE]
    BY Zenon, <1>1, <1>3 DEF Push
  <1>7. [m.stack EXCEPT ![m.sp.stack] = SubSeq(@, 1, m.sp.depth) \o <<half>>]
          = [st EXCEPT ![Boot] = x]
    BY Zenon, <1>1, <1>2
  <1>8. Push(m, half) = [sp |-> Pointer(Boot, d + 1), stack |-> [st EXCEPT ![Boot] = x],
                         stray |-> FALSE]
    BY Zenon, <1>1, <1>5, <1>6, <1>7
  <1> HIDE DEF x
  <1> QED
    BY Zenon, <1>8 DEF m, Stacks, Put

-----------------------------------------------------------------------------
(* The steps of main() *)

LEMMA MainBoots ==
    ASSUME ArmInv, Runs(Boot)
    PROVE  current_task_idx = -1 /\ Booting
  <1>1. \A i \in Idx : low = Own(i) => ~Runs(Boot)
    BY NotBoot DEF Runs, Own, Context
  <1> QED
    BY <1>1 DEF ArmInv, Active

\* A step of main() that leaves the tasks' stacks, and what it has done for them, alone.
LEMMA MainGoesOn ==
    ASSUME ArmInv, current_task_idx = -1, Booting',
           UNCHANGED <<task_sp, current_task_idx, progress, stray>>,
           stack' = [s \in Idx \union {Boot} |-> stack'[s]],
           \A i \in Idx : stack'[i] = stack[i],
           \A i \in Idx : Initialised(i)' => Initialised(i)
    PROVE  ArmInv'
  <1>1. \A i \in Idx : Resting(i) => Resting(i)'
    BY Zenon DEF Resting, Own
  <1> QED
    BY Zenon, <1>1 DEF ArmInv

LEMMA BootTasks ==
    ASSUME ArmInv, boot_tasks
    PROVE  ArmInv'
  <1>1. current_task_idx = -1 /\ Booting
    BY MainBoots DEF boot_tasks
  <1>2. /\ UNCHANGED <<current_task_idx, psp, spsel, low, high, systick, pendsv, progress, stray>>
        /\ ~Primed /\ ~Primed'
    BY DEF boot_tasks, core, counter, Primed
  <1>3. Booting'
    BY Zenon, <1>1, <1>2 DEF Booting
  <1>4. PICK i \in Idx : /\ task_stack_init(i)
                         /\ \A j \in Idx : Initialised(j)' /\ j # i => Initialised(j)
    BY Names DEF boot_tasks, Initialised
  <1> DEFINE own == Context(i, 0)
             q == <<own, own>>
  <1>5. own \in Half /\ own.who = i /\ own = Own(i)'
    BY <1>1, <1>2 DEF Context, Half, Own, Booting
  <1>6. q \in Seq(Half) /\ Len(q) = 2 /\ \A k \in 1 .. Len(q) : q[k] = own
    BY <1>5
  <1>7. /\ stack'[i] = q /\ \A j \in Idx \ {i} : stack'[j] = stack[j]
        /\ stack' = [s \in Idx \union {Boot} |-> stack'[s]]
    BY Zenon, <1>4 DEF task_stack_init, ArmInv
  <1>8. /\ task_sp'[i] = Pointer(i, 2) /\ \A j \in Idx \ {i} : task_sp'[j] = task_sp[j]
        /\ task_sp' = [j \in Idx |-> task_sp'[j]]
    BY Zenon, <1>4 DEF task_stack_init, ArmInv
  <1> HIDE DEF own, q
  <1>9. Resting(i)'
    <2>1. 2 \in 2 .. MaxCalls + 2 /\ 2 - 1 = 1
      BY Names
    <2>2. q[2] = own /\ q[1] = own
      BY <1>6
    <2> QED
      BY Zenon, <1>5, <1>6, <1>7, <1>8, <2>1, <2>2 DEF Resting
  <1>10. \A j \in Idx \ {i} : Resting(j) => Resting(j)'
    BY Zenon, <1>2, <1>7, <1>8 DEF Resting, Own
  <1>11. \A j \in Idx : stack'[j] \in Seq(Half) /\ \A k \in 1 .. Len(stack'[j]) : stack'[j][k].who = j
    BY <1>5, <1>6, <1>7 DEF ArmInv
  <1> QED
    BY Zenon, <1>1, <1>2, <1>3, <1>4, <1>7, <1>8, <1>9, <1>10, <1>11 DEF ArmInv

LEMMA ArmMainStep ==
    ASSUME ArmInv, systick_init \/ prime_psp_for_first_switch \/ request_context_switch
    PROVE  ArmInv'
  <1>1. current_task_idx = -1 /\ Booting
    BY Zenon, MainBoots DEF systick_init, prime_psp_for_first_switch, request_context_switch
  <1>2. UNCHANGED <<stack, task_sp, current_task_idx, low, high, progress, stray>>
    BY Zenon DEF systick_init, prime_psp_for_first_switch, request_context_switch, kernel, core
  <1>3. \A i \in Idx : Initialised(i)' => Initialised(i)
    BY DEF systick_init, prime_psp_for_first_switch, request_context_switch, Initialised
  <1>4. Booting'
    <2>1. CASE systick_init
      BY Zenon, <1>1, <1>2, <2>1 DEF systick_init, Booting, Primed, core
    <2>2. CASE prime_psp_for_first_switch
      BY Zenon, <1>1, <1>2, <2>2 DEF prime_psp_for_first_switch, Booting, Primed
    <2>3. CASE request_context_switch
      BY Zenon, <1>1, <1>2, <2>3 DEF request_context_switch, Booting, Primed, core
    <2> QED
      BY <2>1, <2>2, <2>3
  <1> QED
    BY Zenon, <1>1, <1>2, <1>3, <1>4, MainGoesOn DEF ArmInv

LEMMA ErrorPrint ==
    ASSUME ArmInv, error_print
    PROVE  ArmInv'
  <1>1. current_task_idx = -1 /\ Booting
    BY MainBoots DEF error_print
  <1>2. UNCHANGED <<task_sp, current_task_idx, spsel, low, high, progress>>
    BY DEF error_print
  <1>3. Primed /\ Primed' /\ \A i \in Idx : Initialised(i)' => Initialised(i)
    BY DEF error_print, Primed, Initialised
  <1>4. CASE at = "error"
    <2>1. psp = Pointer(Boot, 0)
      BY <1>1, <1>3, <1>4 DEF Booting
    <2> DEFINE m == Push(Memory(psp), Context(Boot, 0))
    <2>2. m = Push(Stacks(Pointer(Boot, 0), stack), Context(Boot, 0))
      BY Zenon, <2>1 DEF Memory, Stacks, ArmInv
    <2>3. PICK x : m = Stacks(Pointer(Boot, 0 + 1), Put(stack, Boot, x))
      <3>1. 0 \in Int /\ 0 <= 0 /\ 0 < 8
        OBVIOUS
      <3> QED
        BY <2>2, <3>1, Scratched
    <2>4. at' = "uart_puts" /\ stack' = m.stack /\ psp' = m.sp /\ stray' = m.stray
      BY <1>4 DEF error_print
    <2> HIDE DEF m
    <2>5. stack' = [stack EXCEPT ![Boot] = x] /\ psp' = Pointer(Boot, 1)
      <3>1. m.stack = Put(stack, Boot, x) /\ m.sp = Pointer(Boot, 0 + 1)
        BY ZenonT(60), <2>3, StacksFields
      <3>2. Pointer(Boot, 0 + 1) = Pointer(Boot, 1)
        OBVIOUS
      <3> QED
        BY Zenon, <2>4, <3>1, <3>2 DEF Put
    <2>6. stray' = FALSE
      BY Zenon, <2>3, <2>4, StacksFields
    <2>7. Booting'
      BY Zenon, <1>1, <1>2, <1>3, <2>4, <2>5 DEF Booting
    <2>9. /\ \A i \in Idx : stack'[i] = stack[i]
          /\ stack' = [s \in Idx \union {Boot} |-> stack'[s]]
      BY Zenon, <2>5, NotBoot DEF ArmInv
    <2>10. \A i \in Idx : Resting(i) => Resting(i)'
      BY Zenon, <1>2, <2>9 DEF Resting, Own
    <2> QED
      BY Zenon, <1>1, <1>2, <1>3, <2>6, <2>7, <2>9, <2>10 DEF ArmInv
  <1>5. CASE at = "uart_puts"
    <2>1. /\ psp = Pointer(Boot, 1) /\ at' = "wfi" /\ UNCHANGED <<stack, stray>>
          /\ psp' = [psp EXCEPT !.depth = @ - 1]
      BY <1>1, <1>3, <1>5 DEF Booting, error_print
    <2>2. psp' = Pointer(Boot, 0)
      BY <2>1 DEF Pointer
    <2>3. Booting'
      BY <1>1, <1>2, <1>3, <2>1, <2>2 DEF Booting
    <2> QED
      BY Zenon, <1>1, <1>2, <1>3, <2>1, <2>3, MainGoesOn DEF ArmInv
  <1> QED
    BY <1>4, <1>5 DEF error_print

-----------------------------------------------------------------------------
(* The steps of the tasks *)

LEMMA TaskActive ==
    ASSUME ArmInv, NEW i \in Idx, Runs(i)
    PROVE  current_task_idx = i /\ Active(i) /\ Primed
  <1>1. Booting => ~Runs(i)
    BY NotBoot DEF Booting, Runs, Context
  <1>2. \A j \in Idx : low = Own(j) /\ Runs(i) => j = i
    BY DEF Own, Runs, Context
  <1> QED
    BY Zenon, <1>1, <1>2 DEF ArmInv, Active

LEMMA ArmTaskStep ==
    ASSUME ArmInv, NEW i \in Idx, task_step(i)
    PROVE  ArmInv'
  <1>1. current_task_idx = i /\ Active(i) /\ Primed
    BY TaskActive DEF task_step
  <1>2. UNCHANGED <<stack, task_sp, current_task_idx, psp, spsel, at, stray>>
    BY DEF task_step, kernel
  <1>3. PICK n \in 0 .. 2 : n = progress[i]
    BY DEF ArmInv
  <1>4. PICK m \in 0 .. 2 : m = (n + 1) % 3
    BY <1>3
  <1>5. low = Context(i, n) /\ high = Context(i, n)
    BY <1>1, <1>3 DEF Active, Own
  <1>6. low.n = n /\ high.n = n /\ high.who = i
    BY <1>5 DEF Context
  <1>7. low' = Context(i, m) /\ high' = Context(i, m)
    BY Zenon, <1>4, <1>6 DEF task_step
  <1>8. progress' = [progress EXCEPT ![i] = m]
    BY Zenon, <1>3, <1>4 DEF task_step
  <1>9. progress' \in [Idx -> 0 .. 2] /\ progress'[i] = m
        /\ \A j \in Idx \ {i} : progress'[j] = progress[j]
    BY Zenon, <1>8 DEF ArmInv
  <1>10. Active(i)'
    BY Zenon, <1>1, <1>2, <1>7, <1>9 DEF Active, Own
  <1>11. \A j \in Idx \ {i} : Resting(j) => Resting(j)'
    BY Zenon, <1>2, <1>9 DEF Resting, Own
  <1>12. Primed' /\ \A j \in Idx : Initialised(j)' => Initialised(j)
    BY Zenon, <1>1, <1>2 DEF Primed, Initialised
  <1> QED
    BY Zenon, <1>1, <1>2, <1>9, <1>10, <1>11, <1>12, NotBoot DEF ArmInv

\* A task moves the top of its own stack.
LEMMA OwnStack ==
    ASSUME ArmInv, NEW i \in Idx, Runs(i), NEW q \in Seq(Half),
           \A k \in 1 .. Len(q) : q[k].who = i, Len(q) \in 0 .. MaxCalls,
           stack' = [stack EXCEPT ![i] = q], psp' = Pointer(i, Len(q)), stray' = FALSE,
           UNCHANGED <<task_sp, current_task_idx, spsel, low, high, at, progress>>
    PROVE  ArmInv'
  <1>1. current_task_idx = i /\ Active(i) /\ Primed
    BY TaskActive
  <1>2. /\ stack'[i] = q /\ \A j \in Idx \ {i} : stack'[j] = stack[j]
        /\ stack' = [s \in Idx \union {Boot} |-> stack'[s]]
    BY Zenon DEF ArmInv
  <1>3. Active(i)'
    BY Zenon, <1>1, <1>2 DEF Active, Own
  <1>4. \A j \in Idx \ {i} : Resting(j) => Resting(j)'
    BY Zenon, <1>2 DEF Resting, Own
  <1>5. Primed' /\ \A j \in Idx : Initialised(j)' => Initialised(j)
    BY Zenon, <1>1 DEF Primed, Initialised
  <1>6. \A j \in Idx : /\ stack'[j] \in Seq(Half)
                       /\ \A k \in 1 .. Len(stack'[j]) : stack'[j][k].who = j
    BY Zenon, <1>2 DEF ArmInv
  <1> QED
    BY <1>1, <1>2, <1>3, <1>4, <1>5, <1>6, NotBoot DEF ArmInv

LEMMA TaskCall ==
    ASSUME ArmInv, NEW i \in Idx, task_call(i)
    PROVE  ArmInv'
  <1>1. Runs(i) /\ UNCHANGED <<task_sp, current_task_idx, spsel, low, high, at, progress>>
    BY DEF task_call
  <1>2. Active(i)
    BY <1>1, TaskActive
  <1>3. PICK d \in Int : d = Len(stack[i]) /\ 0 <= d /\ d <= MaxCalls /\ psp = Pointer(i, d)
    BY <1>2, Names DEF Active
  <1>4. psp.depth = d
    BY <1>3 DEF Pointer
  <1>5. stack[i] \in Seq(Half) /\ \A k \in 1 .. Len(stack[i]) : stack[i][k].who = i
    BY Zenon DEF ArmInv
  <1> DEFINE m == Push(Memory(psp), Context(i, 0))
  <1>6. CASE psp.depth < MaxCalls /\ stack' = m.stack /\ psp' = m.sp /\ stray' = m.stray
    <2>1. d < 32 /\ d + 1 \in 0 .. MaxCalls
      BY <1>3, <1>4, <1>6, Names
    <2> DEFINE half == Context(i, 0)
               q == Append(stack[i], half)
    <2>2. half \in Half /\ half.who = i
      BY DEF Context, Half
    <2>3. m = Push(Stacks(Pointer(i, d), stack), half)
      BY Zenon, <1>3 DEF Memory, Stacks, ArmInv
    <2> HIDE DEF half, m
    <2>4. q \in Seq(Half) /\ Len(q) = d + 1 /\ \A k \in 1 .. Len(q) : q[k].who = i
      <3>1. Owned(i, stack[i])
        BY Zenon, <1>5 DEF Owned
      <3>2. Owned(i, q) /\ Len(q) = Len(stack[i]) + 1
        BY <2>2, <3>1, AppendOwn
      <3> HIDE DEF q
      <3> QED
        BY Zenon, <1>3, <3>2 DEF Owned
    <2>5. m = Stacks(Pointer(i, d + 1), Put(stack, i, q))
      BY Zenon, <1>3, <1>5, <2>1, <2>2, <2>3, Pushed
    <2> HIDE DEF q
    <2>7. m.stack = Put(stack, i, q) /\ m.sp = Pointer(i, d + 1)
      BY ZenonT(60), <2>5, StacksFields
    <2>8. m.stray = FALSE
      BY Zenon, <2>5, StacksFields
    <2>9. stack' = [stack EXCEPT ![i] = q] /\ psp' = Pointer(i, Len(q)) /\ Len(q) \in 0 .. MaxCalls
      BY Zenon, <1>6, <2>1, <2>4, <2>7 DEF Put
    <2>10. stray' = FALSE
      BY <1>6, <2>8
    <2> QED
      BY Zenon, <1>1, <2>4, <2>9, <2>10, OwnStack
  <1>7. CASE /\ psp.depth > 0 /\ psp' = [psp EXCEPT !.depth = @ - 1]
             /\ stack' = [stack EXCEPT ![i] = SubSeq(@, 1, psp.depth - 1)]
             /\ UNCHANGED stray
    <2> DEFINE q == SubSeq(stack[i], 1, d - 1)
    <2>1. d - 1 \in 0 .. Len(stack[i])
      BY <1>3, <1>4, <1>7
    <2>2. q \in Seq(Half) /\ Len(q) = d - 1 /\ \A k \in 1 .. Len(q) : q[k].who = i
      BY <1>5, <2>1, PrefixOwn
    <2>3. stack' = [stack EXCEPT ![i] = q] /\ stray' = FALSE
      BY <1>4, <1>7 DEF ArmInv
    <2>4. psp' = Pointer(i, d - 1)
      BY <1>3, <1>7 DEF Pointer
    <2> HIDE DEF q
    <2>5. Len(q) \in 0 .. MaxCalls
      BY <1>3, <2>1, <2>2, Names
    <2> QED
      BY Zenon, <1>1, <2>2, <2>3, <2>4, <2>5, OwnStack
  <1> QED
    BY <1>6, <1>7 DEF task_call

-----------------------------------------------------------------------------
(* The handlers *)

LEMMA SysTickHandler ==
    ASSUME ArmInv, SysTick_Handler
    PROVE  ArmInv'
  <1>1. /\ UNCHANGED <<stack, task_sp, current_task_idx, psp, spsel, low, high, at, progress, stray>>
        /\ systick
    BY DEF SysTick_Handler, kernel, core
  <1>2. (Booting => Booting') /\ (Primed => Primed')
    BY Zenon, <1>1 DEF Booting, Primed
  <1>3. \A i \in Idx : /\ Active(i) => Active(i)'
                       /\ Resting(i) => Resting(i)'
                       /\ Initialised(i)' => Initialised(i)
    BY Zenon, <1>1 DEF Active, Resting, Initialised, Own
  <1> QED
    BY Zenon, <1>1, <1>2, <1>3 DEF ArmInv

\* Every task has its context on its stack in st, and sp points to it.
AllRest(st, sp) ==
    /\ st = [s \in Idx \union {Boot} |-> st[s]]
    /\ sp = [i \in Idx |-> sp[i]]
    /\ \A i \in Idx :
         /\ st[i] \in Seq(Half) /\ \A k \in 1 .. Len(st[i]) : st[i][k].who = i
         /\ sp[i] = Pointer(i, Len(st[i])) /\ Len(st[i]) \in 2 .. MaxCalls + 2
         /\ st[i][Len(st[i])] = Own(i) /\ st[i][Len(st[i]) - 1] = Own(i)

\* The exit from the exception to the task whose stack pointer is sp.
Exit(st, sp) ==
    /\ high' = Saved(st, sp, 0) /\ low' = Saved(st, sp, 1)
    /\ psp' = Unstacked(sp)
    /\ stack' = [st EXCEPT ![sp.stack] = SubSeq(@, 1, sp.depth - 2)]

LEMMA ArmResumed ==
    ASSUME NEW st, NEW j \in Idx, Primed, progress \in [Idx -> 0 .. 2],
           AllRest(st, task_sp'), Exit(st, task_sp'[j]),
           current_task_idx' = j, spsel' = TRUE, stray' = FALSE,
           UNCHANGED <<at, progress>>
    PROVE  ArmInv'
  <1>1. PICK d \in Int : d = Len(st[j]) /\ 2 <= d /\ d <= MaxCalls + 2
    <2>1. st[j] \in Seq(Half) /\ Len(st[j]) \in 2 .. MaxCalls + 2
      BY Zenon DEF AllRest
    <2>2. Len(st[j]) \in Int
      BY <2>1
    <2> QED
      BY <2>1, <2>2, Names
  <1>2. task_sp'[j] = Pointer(j, d) /\ task_sp'[j].stack = j /\ task_sp'[j].depth = d
    BY <1>1 DEF Pointer, AllRest
  <1>3. st[j] \in Seq(Half) /\ (\A k \in 1 .. Len(st[j]) : st[j][k].who = j)
        /\ d - 2 \in 0 .. Len(st[j])
    BY <1>1 DEF AllRest
  <1> DEFINE q == SubSeq(st[j], 1, d - 2)
  <1>4. q \in Seq(Half) /\ Len(q) = d - 2 /\ \A k \in 1 .. Len(q) : q[k].who = j
    BY <1>3, PrefixOwn
  <1>5. stack' = [st EXCEPT ![j] = q]
    BY Zenon, <1>2 DEF Exit
  <1> HIDE DEF q
  <1>6. /\ stack'[j] = q /\ \A i \in Idx \ {j} : stack'[i] = st[i]
        /\ stack' = [s \in Idx \union {Boot} |-> stack'[s]]
    BY Zenon, <1>5 DEF AllRest
  <1>7. \A i \in Idx : /\ stack'[i] \in Seq(Half)
                       /\ \A k \in 1 .. Len(stack'[i]) : stack'[i][k].who = i
    <2> SUFFICES ASSUME NEW i \in Idx
                 PROVE  /\ stack'[i] \in Seq(Half)
                        /\ \A k \in 1 .. Len(stack'[i]) : stack'[i][k].who = i
      BY Zenon
    <2>1. CASE i = j
      BY Zenon, <1>4, <1>6, <2>1
    <2>2. CASE i # j
      BY Zenon, <1>6, <2>2 DEF AllRest
    <2> QED
      BY Zenon, <2>1, <2>2
  <1>8. high' = Own(j)' /\ low' = Own(j)'
    <2>1. st[j][d] = Own(j) /\ st[j][d - 1] = Own(j) /\ d - 0 = d
      BY <1>1 DEF AllRest
    <2>2. Own(j)' = Own(j)
      BY DEF Own
    <2> QED
      BY Zenon, <1>2, <2>1, <2>2 DEF Saved, Exit
  <1>9. psp' = Pointer(j, Len(stack'[j])) /\ Len(stack'[j]) \in 0 .. MaxCalls
    <2>1. psp' = Pointer(j, d - 2)
      BY Zenon, <1>2 DEF Unstacked, Exit
    <2> QED
      BY <1>1, <1>4, <1>6, <2>1, Names
  <1>10. Active(j)'
    BY Zenon, <1>8, <1>9 DEF Active
  <1>11. \A i \in Idx \ {j} : Resting(i)'
    BY Zenon, <1>6 DEF Resting, Own, AllRest
  <1>12. Primed' /\ progress' \in [Idx -> 0 .. 2] /\ task_sp' = [i \in Idx |-> task_sp'[i]]
    BY Zenon DEF Primed, AllRest
  <1> QED
    BY Zenon, <1>6, <1>7, <1>10, <1>11, <1>12, NotBoot DEF ArmInv

\* PendSV_Handler for whatever its two stores leave.
LEMMA Switched ==
    ASSUME PendSV_Handler, NEW st, NEW sp,
           Push(IF spsel THEN Push(Memory(psp), low) ELSE Memory(psp), high) = Stacks(sp, st)
    PROVE  /\ task_sp' = SavedPointers(sp) /\ current_task_idx' = NextTask(current_task_idx)
           /\ spsel' = TRUE /\ stray' = FALSE
           /\ Exit(st, task_sp'[current_task_idx'])
           /\ UNCHANGED <<at, progress>>
  <1> DEFINE saved == Push(IF spsel THEN Push(Memory(psp), low) ELSE Memory(psp), high)
  <1>1. saved = Stacks(sp, st)
    OBVIOUS
  <1>2. /\ task_sp' = SavedPointers(saved.sp) /\ current_task_idx' = NextTask(current_task_idx)
        /\ spsel' = TRUE /\ stray' = saved.stray
        /\ Exit(saved.stack, task_sp'[current_task_idx'])
        /\ UNCHANGED <<at, progress>>
    BY Zenon DEF PendSV_Handler, scheduler_switch_context, Exit
  <1> HIDE DEF saved
  <1>3. saved.sp = sp /\ saved.stack = st /\ saved.stray = FALSE
    BY ZenonT(60), <1>1, StacksFields
  <1> QED
    BY Zenon, <1>2, <1>3

\* The first PendSV: main() has the CPU, and its context goes to the scratch stack.
LEMMA FirstSwitch ==
    ASSUME ArmInv, PendSV_Handler, current_task_idx = -1
    PROVE  ArmInv'
  <1>1. Booting /\ Primed
    BY Zenon DEF ArmInv, Booting, PendSV_Handler
  <1>2. PICK d \in Int : 0 <= d /\ d < 7 /\ psp = Pointer(Boot, d) /\ spsel
    BY <1>1 DEF Booting
  <1>3. Memory(psp) = Stacks(Pointer(Boot, d), stack)
    BY Zenon, <1>2 DEF Memory, Stacks, ArmInv
  <1>4. PICK x : Push(Memory(psp), low) = Stacks(Pointer(Boot, d + 1), Put(stack, Boot, x))
    <2>1. d < 8
      BY <1>2
    <2> QED
      BY Zenon, <1>2, <1>3, <2>1, Scratched
  <1> DEFINE one == Put(stack, Boot, x)
  <1>5. PICK y : Push(Stacks(Pointer(Boot, d + 1), one), high)
                   = Stacks(Pointer(Boot, d + 1 + 1), Put(one, Boot, y))
    <2>1. d + 1 \in Int /\ 0 <= d + 1 /\ d + 1 < 8
      BY <1>2
    <2> HIDE DEF one
    <2> QED
      BY Zenon, <2>1, Scratched
  <1> DEFINE st == Put(one, Boot, y)
  <1>6. /\ st = [s \in Idx \union {Boot} |-> st[s]]
        /\ \A i \in Idx : st[i] = stack[i]
    BY Zenon, NotBoot DEF Put, ArmInv
  <1>7. Push(IF spsel THEN Push(Memory(psp), low) ELSE Memory(psp), high)
          = Stacks(Pointer(Boot, d + 1 + 1), st)
    BY Zenon, <1>2, <1>4, <1>5
  <1> HIDE DEF one, st
  <1>8. /\ task_sp' = SavedPointers(Pointer(Boot, d + 1 + 1))
        /\ current_task_idx' = NextTask(current_task_idx)
        /\ spsel' = TRUE /\ stray' = FALSE
        /\ Exit(st, task_sp'[current_task_idx'])
        /\ UNCHANGED <<at, progress>>
    BY Zenon, <1>7, Switched
  <1>9. task_sp' = task_sp /\ current_task_idx' = 0 /\ 0 \in Idx
    BY <1>8, Names DEF SavedPointers, NextTask
  <1>10. \A i \in Idx : Resting(i)
    <2>1. \A i \in Idx : Initialised(i)
      BY <1>1 DEF Primed, Initialised
    <2> QED
      BY Zenon, <2>1, NotBoot DEF ArmInv
  <1>11. AllRest(st, task_sp)
    BY Zenon, <1>6, <1>10 DEF AllRest, ArmInv, Resting
  <1> QED
    <2>1. progress \in [Idx -> 0 .. 2]
      BY DEF ArmInv
    <2> QED
      BY Zenon, <1>1, <1>8, <1>9, <1>11, <2>1, ArmResumed

\* Every later one: the context of the running task goes on top of its own stack.
LEMMA NextSwitch ==
    ASSUME ArmInv, PendSV_Handler, NEW c \in Idx, current_task_idx = c
    PROVE  ArmInv'
  <1>1. Active(c) /\ Primed
    BY Zenon, NotBoot DEF ArmInv
  <1>2. PICK d \in Int : d = Len(stack[c]) /\ 0 <= d /\ d <= MaxCalls /\ psp = Pointer(c, d)
    BY <1>1, Names DEF Active
  <1>3. spsel /\ low = Own(c) /\ high = Own(c) /\ Own(c) \in Half /\ Own(c).who = c
    BY Zenon, <1>1 DEF Active, Own, ArmInv, Context, Half
  <1>4. stack[c] \in Seq(Half) /\ \A k \in 1 .. Len(stack[c]) : stack[c][k].who = c
    BY Zenon DEF ArmInv
  <1>5. Memory(psp) = Stacks(Pointer(c, d), stack)
    BY Zenon, <1>2 DEF Memory, Stacks, ArmInv
  <1> DEFINE h == Own(c)
             p == Append(stack[c], h)
             q == Append(p, h)
             one == Put(stack, c, p)
             st == Put(one, c, q)
  <1>6. h \in Half /\ h.who = c /\ low = h /\ high = h
    BY Zenon, <1>3
  <1> HIDE DEF h
  <1>7. /\ p \in Seq(Half) /\ Len(p) = d + 1 /\ p[d + 1] = h
        /\ \A k \in 1 .. Len(p) : p[k].who = c
    <2>1. Owned(c, stack[c])
      BY Zenon, <1>4 DEF Owned
    <2>2. Owned(c, p) /\ Len(p) = Len(stack[c]) + 1 /\ p[Len(stack[c]) + 1] = h
      BY <1>6, <2>1, AppendOwn
    <2> HIDE DEF p
    <2> QED
      BY Zenon, <1>2, <2>2 DEF Owned
  <1>8. Push(Stacks(Pointer(c, d), stack), low) = Stacks(Pointer(c, d + 1), one)
    <2>1. d < 32
      BY <1>2, Names
    <2> QED
      BY Zenon, <1>2, <1>4, <1>6, <2>1, Pushed
  <1> HIDE DEF p
  <1>9. /\ q \in Seq(Half) /\ Len(q) = d + 2 /\ q[d + 2] = h /\ q[d + 1] = h
        /\ \A k \in 1 .. Len(q) : q[k].who = c
    <2>1. d + 1 \in 1 .. Len(p) /\ d + 1 + 1 = d + 2
      BY <1>2, <1>7
    <2>2. Owned(c, p)
      BY Zenon, <1>7 DEF Owned
    <2>3. /\ Owned(c, q) /\ Len(q) = Len(p) + 1 /\ q[Len(p) + 1] = h
          /\ \A k \in 1 .. Len(p) : q[k] = p[k]
      BY <1>6, <2>2, AppendOwn
    <2> HIDE DEF q
    <2> QED
      BY Zenon, <1>7, <2>1, <2>3 DEF Owned
  <1>10. one[c] = p /\ one = [s \in Idx \union {Boot} |-> one[s]]
         /\ \A i \in Idx \ {c} : one[i] = stack[i]
    BY Zenon DEF Put, ArmInv
  <1> HIDE DEF one
  <1>11. Push(Stacks(Pointer(c, d + 1), one), high) = Stacks(Pointer(c, d + 1 + 1), st)
    <2>1. d + 1 \in Int /\ 0 <= d + 1 /\ d + 1 < 32
      BY <1>2, Names
    <2>2. one[c] \in Seq(Half) /\ d + 1 = Len(one[c])
      BY <1>7, <1>10
    <2>3. Push(Stacks(Pointer(c, d + 1), one), high)
            = Stacks(Pointer(c, d + 1 + 1), Put(one, c, Append(one[c], high)))
      BY Zenon, <1>6, <2>1, <2>2, Pushed
    <2> QED
      BY Zenon, <1>6, <1>10, <2>3
  <1> HIDE DEF q
  <1>12. /\ st[c] = q /\ st = [s \in Idx \union {Boot} |-> st[s]]
         /\ \A i \in Idx \ {c} : st[i] = stack[i]
    BY Zenon, <1>10 DEF Put
  <1> HIDE DEF st
  <1>13. Push(IF spsel THEN Push(Memory(psp), low) ELSE Memory(psp), high)
           = Stacks(Pointer(c, d + 1 + 1), st)
    BY Zenon, <1>3, <1>5, <1>8, <1>11
  <1>14. /\ task_sp' = SavedPointers(Pointer(c, d + 1 + 1))
         /\ current_task_idx' = NextTask(current_task_idx)
         /\ spsel' = TRUE /\ stray' = FALSE
         /\ Exit(st, task_sp'[current_task_idx'])
         /\ UNCHANGED <<at, progress>>
    BY Zenon, <1>13, Switched
  <1>15. PICK j \in Idx : current_task_idx' = j
    BY <1>14, Names DEF NextTask
  <1>16. task_sp' = [task_sp EXCEPT ![c] = Pointer(c, d + 1 + 1)] /\ d + 1 + 1 = d + 2
    BY <1>2, <1>14, Names DEF SavedPointers
  <1>17. /\ task_sp'[c] = Pointer(c, d + 2) /\ \A i \in Idx \ {c} : task_sp'[i] = task_sp[i]
         /\ task_sp' = [i \in Idx |-> task_sp'[i]]
    BY Zenon, <1>16 DEF ArmInv
  <1>18. \A i \in Idx \ {c} : Resting(i)
    <2>1. \A i \in Idx : Initialised(i)
      BY <1>1 DEF Primed, Initialised
    <2> QED
      BY Zenon, <2>1 DEF ArmInv
  <1>19. AllRest(st, task_sp')
    <2> SUFFICES ASSUME NEW i \in Idx
                 PROVE  /\ st[i] \in Seq(Half) /\ \A k \in 1 .. Len(st[i]) : st[i][k].who = i
                        /\ task_sp'[i] = Pointer(i, Len(st[i]))
                        /\ Len(st[i]) \in 2 .. MaxCalls + 2
                        /\ st[i][Len(st[i])] = Own(i) /\ st[i][Len(st[i]) - 1] = Own(i)
      BY Zenon, <1>12, <1>17 DEF AllRest
    <2>1. CASE i = c
      <3>1. d + 2 \in 2 .. MaxCalls + 2 /\ d + 2 - 1 = d + 1
        BY <1>2, Names
      <3> QED
        BY <1>9, <1>12, <1>17, <2>1, <3>1 DEF h
    <2>2. CASE i # c
      BY Zenon, <1>12, <1>17, <1>18, <2>2 DEF ArmInv, Resting
    <2> QED
      BY Zenon, <2>1, <2>2
  <1> QED
    <2>1. progress \in [Idx -> 0 .. 2] /\ Exit(st, task_sp'[j])
      BY Zenon, <1>14, <1>15 DEF ArmInv
    <2> QED
      BY Zenon, <1>1, <1>14, <1>15, <1>19, <2>1, ArmResumed

-----------------------------------------------------------------------------
(* The board: every step, and the theorem *)

LEMMA ArmInvStep == ArmInv /\ [ArmNext]_armVars => ArmInv'
  <1> SUFFICES ASSUME ArmInv, [ArmNext]_armVars PROVE ArmInv'
    OBVIOUS
  <1>1. CASE Main
    BY <1>1, BootTasks, ArmMainStep, ErrorPrint DEF Main
  <1>2. CASE \E i \in Idx : task_step(i) \/ task_call(i)
    BY <1>2, ArmTaskStep, TaskCall
  <1>3. CASE SysTick_Handler
    BY <1>3, SysTickHandler
  <1>4. CASE PendSV_Handler
    BY Zenon, <1>4, FirstSwitch, NextSwitch DEF ArmInv
  <1>5. CASE UNCHANGED armVars
    <2>1. UNCHANGED <<stack, task_sp, current_task_idx, psp, spsel, low, high, at, systick,
                      pendsv, progress, stray>>
      BY Zenon, <1>5 DEF armVars, kernel, core, counter
    <2> QED
      BY Zenon, <2>1 DEF ArmInv, Booting, Primed, Active, Resting, Initialised, Own
  <1> QED
    BY <1>1, <1>2, <1>3, <1>4, <1>5 DEF ArmNext

\* For every period of SysTick and every moment at which it and PendSV are taken, each
\* task gets back from PendSV_Handler the context it lost to it, and no context is ever
\* stored outside the stacks, as long as a task's calls leave room for a context.
THEOREM ArmContextsIntact == ArmSpec => []ContextsIntact
  <1>1. ArmSpec => []ArmInv
    BY ArmInitInv, ArmInvStep, PTL DEF ArmSpec
  <1> QED
    BY <1>1, ArmInvIntact, PTL
=============================================================================
