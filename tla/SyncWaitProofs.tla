-------------------------- MODULE SyncWaitProofs --------------------------
(***************************************************************************)
(* The inductive invariant of the primitives of Sync.tla as cooperative    *)
(* tasks use them, the facts its proof rests on, and the proof that the    *)
(* code that waits and wakes preserves it.                                 *)
(***************************************************************************)
EXTENDS Sync, TLAPS

-----------------------------------------------------------------------------
(* What a call has still to execute *)

\* The lines of mutex_lock(), mutex_unlock(), sem_wait() and sem_post().
LockLines == {27, 28, 35, 36, 40, 41, 42}
UnlockLines == {48, 49, 50, 52, 55}
WaitLines == {77, 78, 79, 82, -82}
PostLines == {86, -86, 91, 94}

NoCall == <<>>
LockCall(m) == <<mutex_lock(m)>>
UnlockCall(m) == <<mutex_unlock(m)>>

Send5(i) == << sem_wait("slots_empty"), mutex_lock("lock"), Prim(110, i),
               mutex_unlock("lock"), sem_post("slots_filled") >>
Send4(i) == << mutex_lock("lock"), Prim(110, i), mutex_unlock("lock"), sem_post("slots_filled") >>
Send3(i) == << Prim(110, i), mutex_unlock("lock"), sem_post("slots_filled") >>
Send2 == << mutex_unlock("lock"), sem_post("slots_filled") >>
Send1 == << sem_post("slots_filled") >>

Receive5 == << sem_wait("slots_filled"), mutex_lock("lock"), Prim(119, "buffer"),
               mutex_unlock("lock"), sem_post("slots_empty") >>
Receive4 == << mutex_lock("lock"), Prim(119, "buffer"), mutex_unlock("lock"), sem_post("slots_empty") >>
Receive3 == << Prim(119, "buffer"), mutex_unlock("lock"), sem_post("slots_empty") >>
Receive2 == << mutex_unlock("lock"), sem_post("slots_empty") >>
Receive1 == << sem_post("slots_empty") >>

\* A task executes a line of the first primitive its call has left.
Shape(t) ==
    \/ at[t] = Client /\ call[t] = NoCall
    \/ at[t] \in WaitLines /\ (call[t] = Receive5 \/ \E i \in Item : call[t] = Send5(i))
    \/ /\ at[t] \in LockLines
       /\ \/ call[t] = Receive4
          \/ \E i \in Item : call[t] = Send4(i)
          \/ \E m \in Mutex : call[t] = LockCall(m)
    \/ at[t] = 110 /\ \E i \in Item : call[t] = Send3(i)
    \/ at[t] = 119 /\ call[t] = Receive3
    \/ /\ at[t] \in UnlockLines
       /\ \/ call[t] = Receive2
          \/ call[t] = Send2
          \/ \E m \in Mutex : call[t] = UnlockCall(m)
    \/ at[t] \in PostLines /\ (call[t] = Receive1 \/ call[t] = Send1)

\* The object of a call's first primitive, the rest of the call, the line at
\* which the rest starts, the line at which the call itself starts, and what
\* its last primitive is called with.
First(c) == Head(c).obj
Rest(c) == Tail(c)
NextLine(c) == IF Len(c) = 1 THEN Client ELSE c[2].line
FirstLine(c) == c[1].line
Posts(c) == c[Len(c)].obj

-----------------------------------------------------------------------------
(* The inductive invariant *)

Objects == AllMutexes \cup Semaphores

TypeInv ==
    /\ program \in Workload
    /\ state \in [Task -> {"UNUSED", "READY", "RUNNING", "BLOCKED", "TERMINATED"}]
    /\ priority \in [Task -> Int] /\ base \in [Task -> Int]
    /\ picked \in Task \cup {NoTask} /\ cpu \in Task \cup {NoTask}
    /\ locked \in [AllMutexes -> BOOLEAN]
    /\ owner \in [AllMutexes -> Task \cup {NoTask}]
    /\ owner_saved_priority \in [AllMutexes -> Int]
    /\ count \in [Semaphores -> Nat]
    /\ waiters \in [Objects -> Seq(Task)]
    /\ buffer \in [0 .. Capacity - 1 -> Item] /\ got \in Item
    /\ head \in 0 .. Capacity - 1 /\ tail \in 0 .. Capacity - 1 /\ filled \in 0 .. Capacity
    /\ at \in [Task -> Int] /\ reg \in [Task -> Int]
    /\ call = [t \in Task |-> call[t]]
    /\ holds \in [Task -> SUBSET AllMutexes]

\* One task runs; the others are between two calls or have to test a loop
\* condition again, that of a sem_wait() or of a mutex_lock() of a client.
TaskInv ==
    /\ picked # NoTask => cpu = NoTask /\ state[picked] = "READY"
    /\ \A t \in Task :
         /\ Shape(t)
         /\ state[t] = "RUNNING" <=> cpu = t
         /\ state[t] = "BLOCKED" => at[t] \in {27, 77}
         /\ state[t] \in {"UNUSED", "TERMINATED"} => at[t] = Client /\ holds[t] = {}
         /\ cpu # t => at[t] \in {Client, 27, 77}
         /\ cpu # t /\ at[t] = 27 => Obj(t) \in Mutex

\* The running task is at one of these lines.
Here(lines) == cpu \in Task /\ at[cpu] \in lines

\* The queue's lock is held inside queue_send() and queue_receive() only.
InSection == Here({110, 119}) \/ (Here({48}) /\ Obj(cpu) = "lock")

\* A locked mutex has a holder, or is being locked or unlocked right now.
MutexInv ==
    /\ MutualExclusion
    /\ \A m \in AllMutexes : locked[m] =>
         \/ \E t \in Task : m \in holds[t]
         \/ Here({41, 42, 49}) /\ Obj(cpu) = m
    /\ \A t \in Task : "lock" \in holds[t] <=> cpu = t /\ InSection
    /\ Here({40, 50, 52, 55}) => ~locked[Obj(cpu)]
    /\ Here({28, 35, 36, 41, 42, 49}) => locked[Obj(cpu)]
    /\ Here({41, 42, 49}) => \A t \in Task : Obj(cpu) \notin holds[t]
    /\ Here({42}) => owner[Obj(cpu)] = cpu
    /\ Here({48}) => Obj(cpu) \in holds[cpu]

SemInv ==
    /\ Here({78, 79}) => count[Obj(cpu)] = 0
    /\ Here({82, -82}) => count[Obj(cpu)] > 0
    /\ Here({-82}) => reg[cpu] = count[Obj(cpu)] - 1
    /\ Here({-86}) => reg[cpu] = count[Obj(cpu)] + 1

Among(t, o) == \E i \in DOMAIN waiters[o] : waiters[o][i] = t

\* Who is among the waiters is BLOCKED, is about to block or was just woken,
\* and who is BLOCKED is among the waiters.
WaitersInv ==
    /\ \A o \in Objects, u \in Task : Among(u, o) =>
         /\ at[u] # Client /\ Obj(u) = o
         /\ \/ state[u] = "BLOCKED"
            \/ cpu = u /\ Here({36, 79})
            \/ Here({55, 94}) /\ Obj(cpu) = o
    /\ Here({36, 79}) => Among(cpu, Obj(cpu))
    /\ \A u \in Task : state[u] = "BLOCKED" => Among(u, Obj(u))
    /\ Here({55, 94}) => \A u \in Task : state[u] = "BLOCKED" => Obj(u) # Obj(cpu)

\* What a BLOCKED task waits for is unavailable, or about to wake it.
WakeInv ==
    \A u \in Task : state[u] = "BLOCKED" =>
      ~Available(Obj(u)) \/ (Here({50, 52, 91}) /\ Obj(cpu) = Obj(u))

\* A sender owes the semaphores a slot from line 82 to its write, and a post
\* from its write to line 86; so does a receiver, the other way round.
OwesEmpty ==
    \/ Here(LockLines \cup {110}) /\ Posts(call[cpu]) = "slots_filled"
    \/ Here(UnlockLines \cup {86, -86}) /\ Posts(call[cpu]) = "slots_empty"

OwesFilled ==
    \/ Here(LockLines \cup {119}) /\ Posts(call[cpu]) = "slots_empty"
    \/ Here(UnlockLines \cup {86, -86}) /\ Posts(call[cpu]) = "slots_filled"

QueueInv ==
    /\ tail = (head + filled) % Capacity
    /\ count["slots_empty"] = Capacity - filled - (IF OwesEmpty THEN 1 ELSE 0)
    /\ count["slots_filled"] = filled - (IF OwesFilled THEN 1 ELSE 0)

SyncInv ==
    TypeInv /\ TaskInv /\ MutexInv /\ SemInv /\ WaitersInv /\ WakeInv /\ QueueInv

USE SMTT(30) DEF Client, NoTask, AllMutexes, Semaphores, Objects

\* No task is NoTask, and no mutex of the clients is the queue's.
LEMMA Names ==
    /\ Task \subseteq Nat
    /\ \A m \in Mutex : m # "lock" /\ m # "slots_empty" /\ m # "slots_filled"
BY SyncAssumption

-----------------------------------------------------------------------------
(* Facts about calls *)

\* What is left of queue_send() after each of its primitives.
LEMMA SendCalls ==
    ASSUME NEW i
    PROVE  /\ First(Send5(i)) = "slots_empty" /\ Rest(Send5(i)) = Send4(i)
           /\ NextLine(Send5(i)) = 27 /\ FirstLine(Send5(i)) = 77
           /\ First(Send4(i)) = "lock" /\ Rest(Send4(i)) = Send3(i)
           /\ NextLine(Send4(i)) = 110
           /\ First(Send3(i)) = i /\ Rest(Send3(i)) = Send2 /\ NextLine(Send3(i)) = 48
           /\ Send5(i) # NoCall /\ Send4(i) # NoCall /\ Send3(i) # NoCall
           /\ First(Send2) = "lock" /\ Rest(Send2) = Send1 /\ NextLine(Send2) = 86
           /\ First(Send1) = "slots_filled" /\ Rest(Send1) = NoCall
           /\ NextLine(Send1) = Client
           /\ Send2 # NoCall /\ Send1 # NoCall
           /\ \A c \in {Send5(i), Send4(i), Send3(i), Send2, Send1} : Posts(c) = "slots_filled"
BY DEF First, Rest, NextLine, FirstLine, Posts, NoCall, Send5, Send4, Send3, Send2, Send1,
       Prim, sem_wait, sem_post, mutex_lock, mutex_unlock

\* What is left of queue_receive() after each of its primitives.
LEMMA ReceiveCalls ==
    /\ First(Receive5) = "slots_filled" /\ Rest(Receive5) = Receive4
    /\ NextLine(Receive5) = 27 /\ FirstLine(Receive5) = 77
    /\ First(Receive4) = "lock" /\ Rest(Receive4) = Receive3 /\ NextLine(Receive4) = 119
    /\ Rest(Receive3) = Receive2 /\ NextLine(Receive3) = 48
    /\ First(Receive2) = "lock" /\ Rest(Receive2) = Receive1 /\ NextLine(Receive2) = 86
    /\ First(Receive1) = "slots_empty" /\ Rest(Receive1) = NoCall
    /\ NextLine(Receive1) = Client
    /\ Receive5 # NoCall /\ Receive4 # NoCall /\ Receive3 # NoCall
    /\ Receive2 # NoCall /\ Receive1 # NoCall
    /\ \A c \in {Receive5, Receive4, Receive3, Receive2, Receive1} : Posts(c) = "slots_empty"
BY DEF First, Rest, NextLine, FirstLine, Posts, NoCall, Receive5, Receive4, Receive3, Receive2,
       Receive1, Prim, sem_wait, sem_post, mutex_lock, mutex_unlock

\* A client's own mutex_lock() and mutex_unlock().
LEMMA MutexCalls ==
    ASSUME NEW m
    PROVE  /\ First(LockCall(m)) = m /\ Rest(LockCall(m)) = NoCall
           /\ NextLine(LockCall(m)) = Client /\ FirstLine(LockCall(m)) = 27
           /\ First(UnlockCall(m)) = m /\ Rest(UnlockCall(m)) = NoCall
           /\ NextLine(UnlockCall(m)) = Client /\ FirstLine(UnlockCall(m)) = 48
           /\ LockCall(m) # NoCall /\ UnlockCall(m) # NoCall
           /\ Posts(LockCall(m)) = m /\ Posts(UnlockCall(m)) = m
BY DEF First, Rest, NextLine, FirstLine, Posts, NoCall, LockCall, UnlockCall, mutex_lock,
       mutex_unlock, Prim

\* The object of a task's primitive is its call's.
LEMMA ObjFirst == \A t \in Task : Obj(t) = First(call[t]) /\ Obj(t)' = First(call'[t])
BY DEF Obj, First

\* The object of the primitive a task executes, and the end of its call.
LEMMA Objs ==
    ASSUME NEW t \in Task, Shape(t)
    PROVE  /\ at[t] \in WaitLines =>
                \/ Obj(t) = "slots_empty" /\ Posts(call[t]) = "slots_filled"
                \/ Obj(t) = "slots_filled" /\ Posts(call[t]) = "slots_empty"
           /\ at[t] \in LockLines \cup UnlockLines =>
                \/ Obj(t) = "lock" /\ Posts(call[t]) \in Semaphores
                \/ Obj(t) \in Mutex /\ Posts(call[t]) = Obj(t)
           /\ at[t] \in PostLines => Obj(t) \in Semaphores /\ Posts(call[t]) = Obj(t)
           /\ at[t] = 110 => Obj(t) \in Item /\ Posts(call[t]) = "slots_filled"
           /\ at[t] = 119 => Posts(call[t]) = "slots_empty"
           /\ call[t] = NoCall <=> at[t] = Client
           /\ at[t] \in {Client, 110, 119} \cup WaitLines \cup LockLines \cup UnlockLines \cup PostLines
<1>1. CASE at[t] = Client /\ call[t] = NoCall
  BY <1>1 DEF WaitLines, PostLines, LockLines, UnlockLines
<1>2. CASE at[t] \in WaitLines /\ (call[t] = Receive5 \/ \E i \in Item : call[t] = Send5(i))
  <2>1. /\ \/ Obj(t) = "slots_empty" /\ Posts(call[t]) = "slots_filled"
           \/ Obj(t) = "slots_filled" /\ Posts(call[t]) = "slots_empty"
        /\ call[t] # NoCall
    BY <1>2, ObjFirst, SendCalls, ReceiveCalls
  <2>2. QED
    BY <1>2, <2>1 DEF WaitLines, PostLines, LockLines, UnlockLines
<1>3. CASE /\ at[t] \in LockLines
           /\ \/ call[t] = Receive4
              \/ \E i \in Item : call[t] = Send4(i)
              \/ \E m \in Mutex : call[t] = LockCall(m)
  <2>1. /\ \/ Obj(t) = "lock" /\ Posts(call[t]) \in Semaphores
           \/ Obj(t) \in Mutex /\ Posts(call[t]) = Obj(t)
        /\ call[t] # NoCall
    BY <1>3, ObjFirst, SendCalls, ReceiveCalls, MutexCalls
  <2>2. QED
    BY <1>3, <2>1 DEF WaitLines, PostLines, LockLines, UnlockLines
<1>4. CASE at[t] = 110 /\ \E i \in Item : call[t] = Send3(i)
  <2>1. Obj(t) \in Item /\ Posts(call[t]) = "slots_filled" /\ call[t] # NoCall
    BY <1>4, ObjFirst, SendCalls
  <2>2. QED
    BY <1>4, <2>1 DEF WaitLines, PostLines, LockLines, UnlockLines
<1>5. CASE at[t] = 119 /\ call[t] = Receive3
  <2>1. call[t] # NoCall /\ Posts(call[t]) = "slots_empty"
    BY <1>5, ReceiveCalls
  <2>2. QED
    BY <1>5, <2>1 DEF WaitLines, PostLines, LockLines, UnlockLines
<1>6. CASE /\ at[t] \in UnlockLines
           /\ \/ call[t] = Receive2
              \/ call[t] = Send2
              \/ \E m \in Mutex : call[t] = UnlockCall(m)
  <2>1. /\ \/ Obj(t) = "lock" /\ Posts(call[t]) \in Semaphores
           \/ Obj(t) \in Mutex /\ Posts(call[t]) = Obj(t)
        /\ call[t] # NoCall
    BY <1>6, ObjFirst, SendCalls, ReceiveCalls, MutexCalls
  <2>2. QED
    BY <1>6, <2>1 DEF WaitLines, PostLines, LockLines, UnlockLines
<1>7. CASE at[t] \in PostLines /\ (call[t] = Receive1 \/ call[t] = Send1)
  <2>1. Obj(t) \in Semaphores /\ Posts(call[t]) = Obj(t) /\ call[t] # NoCall
    BY <1>7, ObjFirst, SendCalls, ReceiveCalls
  <2>2. QED
    BY <1>7, <2>1 DEF WaitLines, PostLines, LockLines, UnlockLines
<1>8. QED
  BY Zenon, <1>1, <1>2, <1>3, <1>4, <1>5, <1>6, <1>7 DEF Shape

\* The end of a primitive leads to the next one of the call, or to the client.
LEMMA Returns ==
    ASSUME NEW t \in Task, TypeInv, Shape(t), at[t] # Client, Return(t)
    PROVE  /\ \A u \in Task : u # t => at'[u] = at[u] /\ call'[u] = call[u]
           /\ call' = [u \in Task |-> call'[u]] /\ at' \in [Task -> Int]
           /\ Shape(t)'
           /\ at[t] \in WaitLines => at'[t] = 27 /\ Obj(t)' = "lock"
           /\ at[t] \in LockLines /\ Obj(t) = "lock" => at'[t] \in {110, 119}
           /\ at[t] \in LockLines /\ Obj(t) # "lock" => at'[t] = Client
           /\ at[t] \in {110, 119} => at'[t] = 48 /\ Obj(t)' = "lock"
           /\ at[t] \in UnlockLines /\ Obj(t) = "lock" => at'[t] = 86
           /\ at[t] \in UnlockLines /\ Obj(t) # "lock" => at'[t] = Client
           /\ at[t] \in PostLines => at'[t] = Client
           /\ at'[t] # Client => Posts(call'[t]) = Posts(call[t])
           /\ at'[t] = 110 => Posts(call[t]) = "slots_filled"
           /\ at'[t] = 119 => Posts(call[t]) = "slots_empty"
<1>1. /\ \A u \in Task : u # t => at'[u] = at[u] /\ call'[u] = call[u]
      /\ call'[t] = Rest(call[t])
      /\ at'[t] = NextLine(call[t])
      /\ call' = [u \in Task |-> call'[u]]
      /\ at'[t] \in Int => at' \in [Task -> Int]
  BY Zenon DEF Return, TypeInv, Rest, NextLine
<1>2. CASE at[t] \in WaitLines /\ (call[t] = Receive5 \/ \E i \in Item : call[t] = Send5(i))
  <2>1. /\ at'[t] = 27 /\ Obj(t)' = "lock"
        /\ call'[t] = Receive4 \/ \E i \in Item : call'[t] = Send4(i)
        /\ Posts(call'[t]) = Posts(call[t])
    BY <1>1, <1>2, ObjFirst, SendCalls, ReceiveCalls
  <2>2. QED
    BY <1>1, <1>2, <2>1 DEF Shape, WaitLines, PostLines, LockLines, UnlockLines
<1>3. CASE at[t] \in LockLines /\ (call[t] = Receive4 \/ \E i \in Item : call[t] = Send4(i))
  <2>1. /\ Obj(t) = "lock"
        /\ Posts(call'[t]) = Posts(call[t])
        /\ \/ at'[t] = 119 /\ call'[t] = Receive3 /\ Posts(call[t]) = "slots_empty"
           \/ at'[t] = 110 /\ Posts(call[t]) = "slots_filled" /\ \E i \in Item : call'[t] = Send3(i)
    BY <1>1, <1>3, ObjFirst, SendCalls, ReceiveCalls
  <2>2. QED
    BY <1>1, <1>3, <2>1 DEF Shape, WaitLines, PostLines, LockLines, UnlockLines
<1>4. CASE at[t] \in LockLines /\ \E m \in Mutex : call[t] = LockCall(m)
  <2>1. Obj(t) # "lock" /\ at'[t] = Client /\ call'[t] = NoCall
    BY <1>1, <1>4, ObjFirst, Names, MutexCalls
  <2>2. QED
    BY <1>1, <1>4, <2>1 DEF Shape, WaitLines, PostLines, LockLines, UnlockLines
<1>5. CASE \/ at[t] = 110 /\ \E i \in Item : call[t] = Send3(i)
           \/ at[t] = 119 /\ call[t] = Receive3
  <2>1. /\ at'[t] = 48 /\ Obj(t)' = "lock" /\ (call'[t] = Receive2 \/ call'[t] = Send2)
        /\ Posts(call'[t]) = Posts(call[t])
    BY <1>1, <1>5, ObjFirst, SendCalls, ReceiveCalls
  <2>2. QED
    BY <1>1, <1>5, <2>1 DEF Shape, WaitLines, PostLines, LockLines, UnlockLines
<1>6. CASE at[t] \in UnlockLines /\ (call[t] = Receive2 \/ call[t] = Send2)
  <2>1. /\ Obj(t) = "lock" /\ at'[t] = 86 /\ (call'[t] = Receive1 \/ call'[t] = Send1)
        /\ Posts(call'[t]) = Posts(call[t])
    BY <1>1, <1>6, ObjFirst, SendCalls, ReceiveCalls
  <2>2. QED
    BY <1>1, <1>6, <2>1 DEF Shape, WaitLines, PostLines, LockLines, UnlockLines
<1>7. CASE at[t] \in UnlockLines /\ \E m \in Mutex : call[t] = UnlockCall(m)
  <2>1. Obj(t) # "lock" /\ at'[t] = Client /\ call'[t] = NoCall
    BY <1>1, <1>7, ObjFirst, Names, MutexCalls
  <2>2. QED
    BY <1>1, <1>7, <2>1 DEF Shape, WaitLines, PostLines, LockLines, UnlockLines
<1>8. CASE at[t] \in PostLines /\ (call[t] = Receive1 \/ call[t] = Send1)
  <2>1. at'[t] = Client /\ call'[t] = NoCall
    BY <1>1, <1>8, ObjFirst, SendCalls, ReceiveCalls
  <2>2. QED
    BY <1>1, <1>8, <2>1 DEF Shape, WaitLines, PostLines, LockLines, UnlockLines
<1>9. QED
  BY Zenon, <1>2, <1>3, <1>4, <1>5, <1>6, <1>7, <1>8 DEF Shape

-----------------------------------------------------------------------------
(* Frames: what a step of one task leaves alone *)

\* A jump within a primitive.
LEMMA Gotos ==
    ASSUME NEW t \in Task, NEW l \in Int, TypeInv, Goto(t, l)
    PROVE  /\ at'[t] = l /\ at' \in [Task -> Int]
           /\ call' = call /\ reg' = reg /\ Obj(t)' = Obj(t)
           /\ \A u \in Task : u # t => at'[u] = at[u] /\ call'[u] = call[u]
BY DEF Goto, TypeInv, Obj

\* A task that does not move keeps its shape.
LEMMA SameShape ==
    ASSUME NEW u \in Task, Shape(u), at'[u] = at[u], call'[u] = call[u]
    PROVE  Shape(u)'
BY DEF Shape

\* The running task stays on the CPU, and the calls of the others as they are.
Runs(t) ==
    /\ t \in Task /\ cpu = t /\ cpu' = t
    /\ state' = state /\ picked' = picked /\ program' = program
    /\ \A u \in Task : u # t => at'[u] = at[u] /\ call'[u] = call[u]
    /\ Shape(t) /\ Shape(t)'

LEMMA TaskFrame ==
    ASSUME NEW t, Runs(t), TaskInv,
           \A u \in Task : u # t => holds'[u] = holds[u]
    PROVE  TaskInv'
<1>1. /\ t \in Task /\ cpu = t /\ cpu' = t /\ state' = state /\ picked' = picked
      /\ Shape(t)'
      /\ state[t] = "RUNNING"
      /\ picked = NoTask
  BY Names DEF Runs, TaskInv
<1>2. \A u \in Task : u # t => /\ at'[u] = at[u] /\ call'[u] = call[u]
                               /\ Obj(u)' = Obj(u)
  BY ObjFirst DEF Runs
<1>3. \A u \in Task : Shape(u)'
  BY <1>1, <1>2, SameShape DEF TaskInv
<1>4. QED
  BY <1>1, <1>2, <1>3 DEF TaskInv

\* Nobody else's object changes.
LEMMA ObjFrame ==
    ASSUME NEW t, Runs(t)
    PROVE  \A u \in Task : u # t => Obj(u)' = Obj(u)
BY ObjFirst DEF Runs

\* What a BLOCKED task waits for.
LEMMA BlockedObj ==
    ASSUME TaskInv
    PROVE  \A u \in Task : state[u] = "BLOCKED" => Obj(u) \in Objects
BY Objs DEF TaskInv, LockLines, WaitLines

\* The waiters stay as they are, and the running task reaches no line that
\* has to do with them.
LEMMA WaitersFrame ==
    ASSUME NEW t, Runs(t), TaskInv, WaitersInv, waiters' = waiters,
           at[t] \notin {36, 55, 79, 94}, at'[t] \notin {36, 55, 79, 94}
    PROVE  WaitersInv'
<1>1. \A u \in Task : u # t => /\ at'[u] = at[u] /\ Obj(u)' = Obj(u)
  BY ObjFrame DEF Runs
<1>2. state[t] = "RUNNING" /\ state' = state /\ t \in Task /\ cpu = t /\ cpu' = t
  BY Zenon DEF Runs, TaskInv
<1>3. \A u, o : Among(u, o)' = Among(u, o)
  BY DEF Among
<1>4. QED
  BY <1>1, <1>2, <1>3 DEF WaitersInv, Here

\* Nothing becomes available or ceases to be.
LEMMA WakeFrame ==
    ASSUME NEW t, Runs(t), TaskInv, WakeInv, locked' = locked, count' = count,
           \/ at[t] \notin {50, 52, 91}
           \/ at'[t] \in {50, 52, 91} /\ Obj(t)' = Obj(t)
    PROVE  WakeInv'
<1>1. \A u \in Task : u # t => Obj(u)' = Obj(u)
  BY ObjFrame
<1>2. state[t] = "RUNNING" /\ state' = state /\ t \in Task /\ cpu = t /\ cpu' = t
  BY DEF Runs, TaskInv
<1>3. \A o : Available(o)' = Available(o)
  BY DEF Available
<1>4. QED
  BY <1>1, <1>2, <1>3 DEF WakeInv, Here

\* The lines at which the running task has to do with a mutex.
MutexLines == {28, 35, 36, 40, 41, 42, 48, 49, 50, 52, 55, 110, 119}

LEMMA MutexFrame ==
    ASSUME NEW t, Runs(t), MutexInv, UNCHANGED mutexVars,
           at[t] \notin MutexLines, at'[t] \notin MutexLines
    PROVE  MutexInv'
<1>1. t \in Task /\ cpu = t /\ cpu' = t
  BY DEF Runs
<1>2. ~InSection /\ ~InSection'
  BY <1>1 DEF InSection, Here, MutexLines
<1>3. QED
  BY <1>1, <1>2 DEF MutexInv, MutualExclusion, Here, mutexVars, MutexLines

\* The semaphores and the queue stay as they are.
LEMMA QueueFrame ==
    ASSUME NEW t, Runs(t), QueueInv, UNCHANGED queueVars, count' = count,
           OwesEmpty' = OwesEmpty, OwesFilled' = OwesFilled
    PROVE  QueueInv'
BY DEF QueueInv, queueVars

\* The running task moves within what it owes.
LEMMA OwesFrame ==
    ASSUME NEW t, Runs(t),
           \/ /\ Posts(call'[t]) = Posts(call[t])
              /\ \/ at[t] \in LockLines /\ at'[t] \in LockLines
                 \/ at[t] \in UnlockLines \cup {86, -86} /\ at'[t] \in UnlockLines \cup {86, -86}
           \/ /\ at[t] \in {Client, 77, 78, 79, 82, -82, 91, 94}
              /\ at'[t] \in {Client, 77, 78, 79, 82, -82, 91, 94}
    PROVE  OwesEmpty' = OwesEmpty /\ OwesFilled' = OwesFilled
BY DEF OwesEmpty, OwesFilled, Here, LockLines, UnlockLines, Runs

-----------------------------------------------------------------------------
(* Every statement of the primitives preserves the invariant *)

LEMMA wait_test_Inv ==
    ASSUME SyncInv, NEW t \in Task, wait_test(t), program' = program
    PROVE  SyncInv'
<1>1. cpu = t /\ Shape(t) /\ TypeInv /\ TaskInv
  BY Zenon DEF wait_test, Line, SyncInv, TaskInv
<1>2. UNCHANGED <<kernelVars, mutexVars, count, waiters, queueVars, base>>
  BY DEF wait_test
<1>3. \/ /\ at[t] = 27 
         /\ \/ Goto(t, 40) /\ Available(Obj(t))
            \/ Goto(t, 28) /\ ~Available(Obj(t))
      \/ /\ at[t] = 77 
         /\ \/ Goto(t, 82) /\ Available(Obj(t))
            \/ Goto(t, 78) /\ ~Available(Obj(t))
  BY DEF wait_test, Line
<1>4. /\ \/ at[t] = 27 /\ at'[t] = 40 /\ Available(Obj(t))
         \/ at[t] = 27 /\ at'[t] = 28 /\ ~Available(Obj(t))
         \/ at[t] = 77 /\ at'[t] = 82 /\ Available(Obj(t))
         \/ at[t] = 77 /\ at'[t] = 78 /\ ~Available(Obj(t))
      /\ call' = call /\ reg' = reg /\ Obj(t)' = Obj(t) /\ at' \in [Task -> Int]
      /\ \A u \in Task : u # t => at'[u] = at[u] /\ call'[u] = call[u]
  BY <1>1, <1>3, Gotos
<1>5. /\ at[t] = 27 => Obj(t) \in AllMutexes
      /\ at[t] = 77 => Obj(t) \in Semaphores
  BY <1>1, Objs DEF LockLines, WaitLines
<1>6. Shape(t)'
  BY <1>1, <1>4 DEF Shape, LockLines, UnlockLines, WaitLines, PostLines
<1>7. Runs(t)
  BY Zenon, <1>1, <1>2, <1>4, <1>6 DEF Runs, kernelVars
<1>8. TypeInv'
  BY Zenon, <1>1, <1>2, <1>4 DEF TypeInv, kernelVars, mutexVars, queueVars
<1>9. TaskInv'
  BY Zenon, <1>1, <1>2, <1>7, TaskFrame DEF mutexVars
<1>10. MutexInv'
  <2>1. ~InSection /\ ~InSection'
    BY <1>1, <1>4, <1>7 DEF InSection, Here, Runs
  <2>2. at[t] = 27 => (Available(Obj(t)) <=> ~locked[Obj(t)])
    BY <1>5 DEF Available
  <2>3. QED
    BY <1>2, <1>4, <1>7, <2>1, <2>2 DEF MutexInv, MutualExclusion, Here, mutexVars, Runs, SyncInv
<1>11. SemInv'
  <2>1. at[t] = 77 => /\ Available(Obj(t)) <=> count[Obj(t)] > 0
                      /\ count[Obj(t)] \in Nat
    <3>1. at[t] = 77 => Obj(t) \notin AllMutexes
      BY <1>5, Names
    <3>2. at[t] = 77 => (Available(Obj(t)) <=> count[Obj(t)] > 0)
      BY <3>1 DEF Available
    <3>3. at[t] = 77 => count[Obj(t)] \in Nat
      BY Zenon, <1>1, <1>5 DEF TypeInv
    <3>4. QED
      BY <3>2, <3>3
  <2>2. QED
    BY <1>2, <1>4, <1>7, <2>1 DEF SemInv, Here, Runs
<1>12. WaitersInv'
  BY <1>2, <1>4, <1>7, WaitersFrame DEF SyncInv
<1>13. WakeInv'
  BY <1>2, <1>4, <1>7, WakeFrame DEF SyncInv, mutexVars
<1>14. QueueInv'
  BY <1>2, <1>4, <1>7, OwesFrame, QueueFrame DEF SyncInv, LockLines
<1>15. QED
  BY <1>8, <1>9, <1>10, <1>11, <1>12, <1>13, <1>14 DEF SyncInv

\* add_waiter() adds the task, unless it is there, and nobody else.
LEMMA Enlists ==
    ASSUME NEW t \in Task, NEW o \in Objects, TypeInv,
           waiters' = [waiters EXCEPT ![o] = IF \E i \in DOMAIN @ : @[i] = t THEN @ ELSE Append(@, t)]
    PROVE  /\ waiters' \in [Objects -> Seq(Task)]
           /\ Among(t, o)'
           /\ \A u \in Task, x \in Objects : u # t \/ x # o => (Among(u, x)' <=> Among(u, x))
<1>1. waiters \in [Objects -> Seq(Task)] /\ waiters[o] \in Seq(Task)
  BY Zenon DEF TypeInv
<1>2. CASE Among(t, o)
  <2>1. waiters' = [waiters EXCEPT ![o] = @]
    BY Zenon, <1>2 DEF Among
  <2>2. waiters' = waiters
    BY <1>1, <2>1
  <2>3. QED
    BY Zenon, <1>1, <1>2, <2>2 DEF Among
<1>3. CASE ~Among(t, o)
  <2>1. waiters' = [waiters EXCEPT ![o] = Append(@, t)]
    BY <1>3 DEF Among
  <2>2. waiters'[o] = Append(waiters[o], t) /\ \A x \in Objects : x # o => waiters'[x] = waiters[x]
    BY <1>1, <2>1
  <2>3. /\ DOMAIN waiters'[o] = 1 .. Len(waiters[o]) + 1
        /\ DOMAIN waiters[o] = 1 .. Len(waiters[o])
        /\ Len(waiters[o]) \in Nat
        /\ waiters'[o][Len(waiters[o]) + 1] = t
        /\ \A i \in 1 .. Len(waiters[o]) : waiters'[o][i] = waiters[o][i]
    BY <1>1, <2>2
  <2>4. Among(t, o)' /\ \A u \in Task : u # t => (Among(u, o)' <=> Among(u, o))
    BY <2>3 DEF Among
  <2>5. waiters' \in [Objects -> Seq(Task)]
    BY <1>1, <2>1
  <2>6. QED
    BY <2>2, <2>4, <2>5 DEF Among
<1>4. QED
  BY <1>2, <1>3

LEMMA add_waiter_Inv ==
    ASSUME SyncInv, NEW t \in Task, add_waiter(t), program' = program
    PROVE  SyncInv'
<1>1. cpu = t /\ Shape(t) /\ TypeInv /\ TaskInv
  BY Zenon DEF add_waiter, Line, SyncInv, TaskInv
<1>2. UNCHANGED <<kernelVars, mutexVars, count, queueVars, base>>
  BY DEF add_waiter
<1>3. \/ at[t] = 35 /\ Goto(t, 36)
      \/ at[t] = 78 /\ Goto(t, 79)
  BY DEF add_waiter, Line
<1>4. /\ \/ at[t] = 35 /\ at'[t] = 36
         \/ at[t] = 78 /\ at'[t] = 79
      /\ call' = call /\ reg' = reg /\ Obj(t)' = Obj(t) /\ at' \in [Task -> Int]
      /\ \A u \in Task : u # t => at'[u] = at[u] /\ call'[u] = call[u]
  BY <1>1, <1>3, Gotos
<1>5. Obj(t) \in Objects
  BY <1>1, <1>4, Objs DEF LockLines, WaitLines
<1>6. Shape(t)'
  BY <1>1, <1>4 DEF Shape, LockLines, UnlockLines, WaitLines, PostLines
<1>7. Runs(t)
  BY Zenon, <1>1, <1>2, <1>4, <1>6 DEF Runs, kernelVars
<1>8. /\ waiters' \in [Objects -> Seq(Task)]
      /\ Among(t, Obj(t))'
      /\ \A u \in Task, x \in Objects : u # t \/ x # Obj(t) => (Among(u, x)' <=> Among(u, x))
  <2>1. waiters' = [waiters EXCEPT ![Obj(t)] = IF \E i \in DOMAIN @ : @[i] = t THEN @ ELSE Append(@, t)]
    BY DEF add_waiter
  <2>2. \A o \in Objects : o = Obj(t) =>
          /\ waiters' \in [Objects -> Seq(Task)]
          /\ Among(t, o)'
          /\ \A u \in Task, x \in Objects : u # t \/ x # o => (Among(u, x)' <=> Among(u, x))
    BY Zenon, <1>1, <2>1, Enlists
  <2>3. QED
    BY Zenon, <1>4, <1>5, <2>2
<1>9. TypeInv'
  BY Zenon, <1>1, <1>2, <1>4, <1>8 DEF TypeInv, kernelVars, mutexVars, queueVars
<1>10. TaskInv'
  BY <1>1, <1>2, <1>7, TaskFrame DEF mutexVars
<1>11. MutexInv'
  <2>1. ~InSection /\ ~InSection'
    BY <1>1, <1>4, <1>7 DEF InSection, Here, Runs
  <2>2. QED
    BY <1>2, <1>4, <1>7, <2>1 DEF MutexInv, MutualExclusion, Here, mutexVars, Runs, SyncInv
<1>12. SemInv'
  BY <1>2, <1>4, <1>7 DEF SemInv, Here, Runs, SyncInv
<1>13. WaitersInv'
  <2>1. \A u \in Task : u # t => Obj(u)' = Obj(u) /\ at'[u] = at[u]
    BY <1>7, ObjFrame DEF Runs
  <2>2. state[t] = "RUNNING" /\ state' = state /\ cpu = t /\ cpu' = t
    BY Zenon, <1>1, <1>7 DEF TaskInv, Runs
  <2>3. \A u \in Task : state[u] = "BLOCKED" => Obj(u) \in Objects
    BY <1>1, BlockedObj
  <2>4. ~Here({55, 94}) /\ ~Here({36, 79}) /\ ~Here({55, 94})' /\ Here({36, 79})'
    BY <1>4, <2>2 DEF Here
  <2>5. ASSUME NEW o \in Objects, NEW u \in Task, Among(u, o)'
        PROVE  at'[u] # Client /\ Obj(u)' = o /\ (state[u] = "BLOCKED" \/ u = t)
    <3>1. CASE u = t /\ o = Obj(t)
      BY <1>4, <3>1
    <3>2. CASE u # t \/ o # Obj(t)
      <4>1. Among(u, o)
        BY <1>5, <1>8, <2>5, <3>2
      <4>2. at[u] # Client /\ Obj(u) = o /\ state[u] = "BLOCKED"
        BY <2>2, <2>4, <4>1 DEF WaitersInv, SyncInv
      <4>3. QED
        BY <2>1, <2>2, <4>2
    <3>3. QED
      BY <3>1, <3>2
  <2>6. \A u \in Task : state[u] = "BLOCKED" => Among(u, Obj(u))'
    BY <1>8, <2>1, <2>2, <2>3 DEF WaitersInv, SyncInv
  <2>7. Among(cpu, Obj(cpu))'
    BY <1>8, <2>2
  <2>8. QED
    BY <2>2, <2>4, <2>5, <2>6, <2>7 DEF WaitersInv
<1>14. WakeInv'
  BY <1>2, <1>4, <1>7, WakeFrame DEF SyncInv, mutexVars
<1>15. QueueInv'
  BY Zenon, <1>2, <1>4, <1>7, OwesFrame, QueueFrame DEF SyncInv, LockLines
<1>16. QED
  BY <1>9, <1>10, <1>11, <1>12, <1>13, <1>14, <1>15 DEF SyncInv

LEMMA wait_block_Inv ==
    ASSUME SyncInv, NEW t \in Task, wait_block(t), program' = program
    PROVE  SyncInv'
<1>1. cpu = t /\ Shape(t) /\ TypeInv /\ TaskInv /\ t # NoTask
  BY Names DEF wait_block, Line, SyncInv, TaskInv
<1>2. /\ UNCHANGED <<mutexVars, count, waiters, queueVars, base, priority, picked>>
      /\ state' = [state EXCEPT ![t] = "BLOCKED"] /\ cpu' = NoTask
  BY DEF wait_block, Block, Leave
<1>3. \/ at[t] = 36 /\ Goto(t, 27)
      \/ at[t] = 79 /\ Goto(t, 77)
  BY DEF wait_block, Line
<1>4. /\ \/ at[t] = 36 /\ at'[t] = 27
         \/ at[t] = 79 /\ at'[t] = 77
      /\ call' = call /\ reg' = reg /\ Obj(t)' = Obj(t) /\ at' \in [Task -> Int]
      /\ \A u \in Task : u # t => at'[u] = at[u] /\ call'[u] = call[u]
  BY <1>1, <1>3, Gotos
<1>5. \A u \in Task : Obj(u)' = Obj(u)
  BY Zenon, <1>4, ObjFirst
<1>6. /\ at[t] = 36 => Obj(t) \in Mutex /\ Posts(call[t]) = Obj(t) /\ locked[Obj(t)]
      /\ at[t] = 79 => Obj(t) \in Semaphores /\ count[Obj(t)] = 0
  <2>1. at[t] = 36 => locked[Obj(t)]
    BY Zenon, <1>1 DEF SyncInv, MutexInv, Here
  <2>2. at[t] = 36 => Obj(t) # "lock"
    BY <1>1, <2>1 DEF SyncInv, MutexInv, Here, InSection
  <2>3. QED
    BY <1>1, <2>1, <2>2, Objs DEF LockLines, WaitLines, SyncInv, SemInv, Here
<1>7. /\ state' \in [Task -> {"UNUSED", "READY", "RUNNING", "BLOCKED", "TERMINATED"}]
      /\ state'[t] = "BLOCKED" /\ \A u \in Task : u # t => state'[u] = state[u]
  BY Zenon, <1>1, <1>2 DEF TypeInv
<1>8. TypeInv'
  BY ZenonT(40), <1>1, <1>2, <1>4, <1>7 DEF TypeInv, mutexVars, queueVars
<1>9. TaskInv'
  <2>1. Shape(t)'
    BY <1>1, <1>4 DEF Shape, LockLines, UnlockLines, WaitLines, PostLines
  <2>2. \A u \in Task : Shape(u)'
    BY Zenon, <1>1, <1>4, <2>1, SameShape DEF TaskInv
  <2>3. picked = NoTask
    BY Zenon, <1>1 DEF TaskInv
  <2>4. QED
    BY <1>1, <1>2, <1>4, <1>5, <1>6, <1>7, <2>2, <2>3, Names DEF TaskInv, mutexVars
<1>10. ~Here({36, 79})' /\ \A lines : ~Here(lines)'
  BY <1>2, Names DEF Here
<1>11. MutexInv'
  <2>1. ~InSection /\ ~InSection' /\ ~Here({41, 42, 49})
    BY <1>1, <1>4, <1>10 DEF InSection, Here
  <2>2. UNCHANGED <<locked, owner, holds>>
    BY <1>2 DEF mutexVars
  <2>3. QED
    BY Zenon, <1>10, <2>1, <2>2 DEF MutexInv, MutualExclusion, SyncInv
<1>12. SemInv'
  BY <1>10 DEF SemInv
<1>13. WaitersInv'
  <2>1. \A u, o : Among(u, o)' = Among(u, o)
    BY <1>2 DEF Among
  <2>2. QED
    BY <1>1, <1>4, <1>5, <1>7, <1>10, <2>1 DEF WaitersInv, Here, SyncInv
<1>14. WakeInv'
  <2>1. ~Available(Obj(t))
    BY <1>4, <1>6, Names DEF Available
  <2>2. \A o : Available(o)' = Available(o)
    BY <1>2 DEF Available, mutexVars
  <2>3. \A u \in Task : state[u] = "BLOCKED" => ~Available(Obj(u))
    BY <1>1, <1>4 DEF WakeInv, Here, SyncInv
  <2>4. QED
    BY <1>5, <1>7, <2>1, <2>2, <2>3 DEF WakeInv
<1>15. QueueInv'
  <2>1. ~OwesEmpty /\ ~OwesFilled
    BY <1>1, <1>4, <1>6, Names DEF OwesEmpty, OwesFilled, Here, LockLines, UnlockLines
  <2>2. ~OwesEmpty' /\ ~OwesFilled'
    BY <1>10 DEF OwesEmpty, OwesFilled
  <2>3. QED
    BY <1>2, <2>1, <2>2 DEF QueueInv, queueVars, SyncInv
<1>16. QED
  BY <1>8, <1>9, <1>11, <1>12, <1>13, <1>14, <1>15 DEF SyncInv

LEMMA wake_waiters_Inv ==
    ASSUME SyncInv, NEW t \in Task, wake_waiters(t), program' = program
    PROVE  SyncInv'
<1>1. cpu = t /\ Shape(t) /\ TypeInv /\ TaskInv /\ state[t] = "RUNNING"
  BY Zenon DEF wake_waiters, Line, SyncInv, TaskInv
<1>2. UNCHANGED <<mutexVars, count, waiters, queueVars, base, priority, picked, cpu>>
  BY Zenon DEF wake_waiters, Wake
<1>3. \/ at[t] = 52 /\ Goto(t, 55)
      \/ at[t] = 91 /\ Goto(t, 94)
  BY Zenon DEF wake_waiters, Line
<1>4. /\ \/ at[t] = 52 /\ at'[t] = 55
         \/ at[t] = 91 /\ at'[t] = 94
      /\ call' = call /\ reg' = reg /\ Obj(t)' = Obj(t) /\ at' \in [Task -> Int]
      /\ \A u \in Task : u # t => at'[u] = at[u] /\ call'[u] = call[u]
  BY <1>1, <1>3, Gotos
<1>5. Obj(t) \in Objects
  BY <1>1, <1>4, Objs DEF PostLines, UnlockLines
<1>6. \A u \in Task : Obj(u)' = Obj(u)
  BY Zenon, <1>4, ObjFirst
<1>7. \A u \in Task : Among(u, Obj(t)) <=> state[u] = "BLOCKED" /\ Obj(u) = Obj(t)
  <2>1. ~Here({55, 94}) /\ ~Here({36, 79})
    BY <1>1, <1>4 DEF Here
  <2>2. \A u \in Task : Among(u, Obj(t)) => state[u] = "BLOCKED" /\ Obj(u) = Obj(t)
    BY Zenon, <1>5, <2>1 DEF WaitersInv, SyncInv
  <2>3. \A u \in Task : state[u] = "BLOCKED" => Among(u, Obj(u))
    BY Zenon DEF WaitersInv, SyncInv
  <2>4. QED
    BY <2>2, <2>3
<1>8. /\ state' \in [Task -> {"UNUSED", "READY", "RUNNING", "BLOCKED", "TERMINATED"}]
      /\ \A u \in Task : IF state[u] = "BLOCKED" /\ Obj(u) = Obj(t)
                         THEN state'[u] = "READY"
                         ELSE state'[u] = state[u]
  <2>1. state' = [u \in Task |-> IF Among(u, Obj(t)) THEN "READY" ELSE state[u]]
    BY Zenon DEF wake_waiters, Wake, WakeUp, Among
  <2>2. \A u \in Task : state'[u] = IF Among(u, Obj(t)) THEN "READY" ELSE state[u]
    BY <2>1
  <2>3. state' \in [Task -> {"UNUSED", "READY", "RUNNING", "BLOCKED", "TERMINATED"}]
    BY Zenon, <1>1, <2>1 DEF TypeInv
  <2>4. QED
    BY Zenon, <1>7, <2>2, <2>3
<1>9. TypeInv'
  <2>1. state' \in [Task -> {"UNUSED", "READY", "RUNNING", "BLOCKED", "TERMINATED"}]
    BY <1>8
  <2>2. TypeInv /\ call' = call /\ reg' = reg /\ at' \in [Task -> Int]
    BY Zenon, <1>1, <1>4
  <2>3. QED
    BY Zenon, <1>2, <2>1, <2>2 DEF TypeInv, mutexVars, queueVars
<1>10. TaskInv'
  <2>1. Shape(t)'
    BY <1>1, <1>4 DEF Shape, LockLines, UnlockLines, WaitLines, PostLines
  <2>2. \A u \in Task : Shape(u)'
    BY <1>1, <1>4, <2>1, SameShape DEF TaskInv
  <2>3. picked = NoTask
    BY <1>1, Names DEF TaskInv
  <2>4. QED
    BY <1>1, <1>2, <1>4, <1>6, <1>8, <2>2, <2>3 DEF TaskInv, mutexVars
<1>11. MutexInv'
  <2>1. ~InSection /\ ~InSection'
    BY <1>1, <1>2, <1>4 DEF InSection, Here
  <2>2. /\ ~Here({41, 42, 49}) /\ ~Here({41, 42, 49})' /\ ~Here({42})' /\ ~Here({48})'
        /\ ~Here({28, 35, 36, 41, 42, 49})'
        /\ Here({40, 50, 52, 55})' => Here({40, 50, 52, 55})
    BY <1>1, <1>2, <1>4 DEF Here
  <2>3. UNCHANGED <<locked, owner, holds, cpu>> /\ Obj(cpu)' = Obj(cpu)
    BY Zenon, <1>1, <1>2, <1>4 DEF mutexVars
  <2>4. QED
    BY Zenon, <2>1, <2>2, <2>3 DEF MutexInv, MutualExclusion, SyncInv
<1>12. SemInv'
  BY <1>1, <1>2, <1>4 DEF SemInv, Here
<1>13. WaitersInv'
  <2>1. \A u, o : Among(u, o)' = Among(u, o)
    BY <1>2 DEF Among
  <2>2. Here({55, 94})' /\ ~Here({36, 79})' /\ ~Here({55, 94}) /\ ~Here({36, 79}) /\ cpu' = t
    BY <1>1, <1>2, <1>4 DEF Here
  <2>3. \A u \in Task : state'[u] = "BLOCKED" => state[u] = "BLOCKED" /\ Obj(u) # Obj(t)
    BY <1>8
  <2>4. ASSUME NEW u \in Task, NEW o \in Objects, Among(u, o)
        PROVE  at'[u] # Client /\ Obj(u) = o /\ (state'[u] = "BLOCKED" \/ Obj(t) = o)
    BY <1>1, <1>4, <1>8, <2>2, <2>4 DEF WaitersInv, SyncInv
  <2>5. \A u \in Task : state'[u] = "BLOCKED" => Among(u, Obj(u))
    BY Zenon, <2>3 DEF WaitersInv, SyncInv
  <2>6. QED
    BY <1>6, <2>1, <2>2, <2>3, <2>4, <2>5 DEF WaitersInv
<1>14. WakeInv'
  <2>1. \A o : Available(o)' = Available(o)
    BY <1>2 DEF Available, mutexVars
  <2>2. \A u \in Task : state'[u] = "BLOCKED" => ~Available(Obj(u))
    BY <1>1, <1>8 DEF WakeInv, SyncInv
  <2>3. QED
    BY <1>6, <2>1, <2>2 DEF WakeInv
<1>15. QueueInv'
  <2>1. OwesEmpty' = OwesEmpty /\ OwesFilled' = OwesFilled
    BY <1>1, <1>2, <1>4 DEF OwesEmpty, OwesFilled, Here, LockLines, UnlockLines
  <2>2. QED
    BY Zenon, <1>2, <2>1 DEF QueueInv, queueVars, SyncInv
<1>16. QED
  BY <1>9, <1>10, <1>11, <1>12, <1>13, <1>14, <1>15 DEF SyncInv

LEMMA clear_waiters_Inv ==
    ASSUME SyncInv, NEW t \in Task, clear_waiters(t), program' = program
    PROVE  SyncInv'
<1>1. cpu = t /\ Shape(t) /\ TypeInv /\ TaskInv /\ at[t] \in {55, 94} /\ state[t] = "RUNNING"
  BY Zenon DEF clear_waiters, Line, SyncInv, TaskInv
<1>2. UNCHANGED <<reg, kernelVars, mutexVars, count, queueVars, base>>
  BY DEF clear_waiters
<1>3. Return(t) /\ at[t] # Client
  BY <1>1 DEF clear_waiters
<1>4. /\ Shape(t)' /\ at' \in [Task -> Int] /\ call' = [u \in Task |-> call'[u]]
      /\ \A u \in Task : u # t => at'[u] = at[u] /\ call'[u] = call[u]
      /\ \/ at[t] = 55 /\ at'[t] = 86 /\ Posts(call'[t]) = Posts(call[t])
         \/ at[t] = 55 /\ at'[t] = Client /\ Posts(call[t]) \in Mutex
         \/ at[t] = 94 /\ at'[t] = Client
      /\ Obj(t) \in Objects
  <2>1. /\ Shape(t)' /\ at' \in [Task -> Int] /\ call' = [u \in Task |-> call'[u]]
        /\ \A u \in Task : u # t => at'[u] = at[u] /\ call'[u] = call[u]
        /\ at[t] = 55 /\ Obj(t) = "lock" => at'[t] = 86
        /\ at[t] = 55 /\ Obj(t) # "lock" => at'[t] = Client
        /\ at[t] = 94 => at'[t] = Client
        /\ at'[t] # Client => Posts(call'[t]) = Posts(call[t])
    BY <1>1, <1>3, Returns DEF UnlockLines, PostLines
  <2>2. /\ at[t] = 55 => Obj(t) = "lock" \/ (Obj(t) \in Mutex /\ Posts(call[t]) = Obj(t))
        /\ at[t] = 94 => Obj(t) \in Semaphores
    BY <1>1, Objs DEF UnlockLines, PostLines
  <2>3. QED
    BY <1>1, <2>1, <2>2
<1>5. Runs(t)
  BY Zenon, <1>1, <1>2, <1>4 DEF Runs, kernelVars
<1>6. /\ waiters' \in [Objects -> Seq(Task)]
      /\ \A u \in Task, o \in Objects : Among(u, o)' <=> Among(u, o) /\ o # Obj(t)
  <2>1. waiters' = [waiters EXCEPT ![Obj(t)] = <<>>] /\ waiters \in [Objects -> Seq(Task)]
    BY Zenon, <1>1 DEF clear_waiters, TypeInv
  <2>2. /\ waiters' \in [Objects -> Seq(Task)]
        /\ DOMAIN waiters'[Obj(t)] = {}
        /\ \A o \in Objects : o # Obj(t) => waiters'[o] = waiters[o]
    BY <1>4, <2>1
  <2>3. QED
    BY <2>2 DEF Among
<1>7. TypeInv'
  BY Zenon, <1>1, <1>2, <1>4, <1>6 DEF TypeInv, kernelVars, mutexVars, queueVars
<1>8. TaskInv'
  BY Zenon, <1>1, <1>2, <1>5, TaskFrame DEF mutexVars
<1>9. MutexInv'
  <2>1. ~InSection /\ ~InSection'
    BY <1>1, <1>4, <1>5 DEF InSection, Here, Runs
  <2>2. QED
    BY <1>1, <1>2, <1>4, <1>5, <2>1 DEF MutexInv, MutualExclusion, Here, mutexVars, SyncInv, Runs
<1>10. SemInv'
  BY <1>4, <1>5 DEF SemInv, Here, Runs
<1>11. WaitersInv'
  <2>1. \A u \in Task : u # t => Obj(u)' = Obj(u) /\ at'[u] = at[u]
    BY <1>5, ObjFrame DEF Runs
  <2>2. state' = state /\ cpu' = t
    BY Zenon, <1>5 DEF Runs
  <2>3. /\ Here({55, 94}) /\ ~Here({36, 79})
        /\ ~Here({55, 94})' /\ ~Here({36, 79})'
    BY <1>1, <1>4, <2>2 DEF Here
  <2>4. \A u \in Task : state[u] = "BLOCKED" => u # t /\ Obj(u) # Obj(t) /\ Obj(u) \in Objects
    BY ZenonT(40), <1>1, <2>3, BlockedObj DEF WaitersInv, SyncInv
  <2>5. \A u \in Task : state[u] = "BLOCKED" => Among(u, Obj(u))'
    BY <1>6, <2>1, <2>4 DEF WaitersInv, SyncInv
  <2>6. ASSUME NEW u \in Task, NEW o \in Objects, Among(u, o)'
        PROVE  at'[u] # Client /\ Obj(u)' = o /\ state[u] = "BLOCKED"
    <3>1. Among(u, o) /\ o # Obj(t)
      BY Zenon, <1>6, <2>6
    <3>2. at[u] # Client /\ Obj(u) = o /\ state[u] = "BLOCKED"
      BY <1>1, <2>3, <3>1 DEF WaitersInv, SyncInv
    <3>3. QED
      BY Zenon, <2>1, <2>4, <3>2
  <2>7. QED
    BY <2>2, <2>3, <2>5, <2>6 DEF WaitersInv
<1>12. WakeInv'
  BY <1>1, <1>2, <1>4, <1>5, WakeFrame DEF SyncInv, mutexVars
<1>13. QueueInv'
  <2>1. OwesEmpty' = OwesEmpty /\ OwesFilled' = OwesFilled
    BY <1>1, <1>2, <1>4, <1>5, Names DEF OwesEmpty, OwesFilled, Here, LockLines, UnlockLines, Runs
  <2>2. QED
    BY Zenon, <1>2, <1>5, <2>1, QueueFrame DEF SyncInv
<1>14. QED
  BY <1>7, <1>8, <1>9, <1>10, <1>11, <1>12, <1>13 DEF SyncInv
=============================================================================
