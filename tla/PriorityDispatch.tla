--------------------------- MODULE PriorityDispatch ---------------------------
(***************************************************************************)
(* The dispatcher of host/live_priority_demo.c on the kernel of            *)
(* KernelSpec.tla: a poller that takes samples off the socket and queues   *)
(* pointers to pool slots, and a consumer task for each of two topics,     *)
(* the second of which works long on each message.  The timer runs, with   *)
(* a slice of one tick.                                                    *)
(*                                                                         *)
(* queue_send() and queue_receive() are used at what BoundedQueue.tla      *)
(* promises; what a tick inside them can do is Sync.tla's subject.         *)
(***************************************************************************)
EXTENDS KernelSpec, Sequences

CONSTANTS QUEUE_CAPACITY,
          MaxSamples      \* bound: samples that arrive for each topic

POLLER == 1
HIGH == 2
LOW == 3
Consumer == {HIGH, LOW}

ASSUME DispatchAssumption ==
    /\ Task = {POLLER} \union Consumer
    /\ QUEUE_CAPACITY \in Nat \ {0} /\ MaxSamples \in Nat

VARIABLES queue,   \* of each consumer's topic: pointers, as [slot, n]
          pool,    \* the number of the sample each slot holds
          pool_next,
          at,      \* what each task does next
          item,    \* the pointer the poller has to send, or a consumer has received
          topic,   \* the topic of the poller's sample
          latency, \* the sample whose enqueued_us a consumer has read
          sent,    \* samples that have arrived for each topic
          got,     \* the last callback: the pointer's sample, and the two it read from
          lapped   \* a slot of the pool was written while all of them were in use

data == <<queue, pool, pool_next, item, topic, latency, sent, got, lapped>>
dispatchVars == <<kernelVars, at, data>>

Slots == 0 .. QUEUE_CAPACITY - 1
NoItem == [slot |-> 0, n |-> 0]

\* main() has spawned the three tasks.
DispatchInit ==
    /\ state = [t \in Task |-> "READY"]
    /\ priority = [t \in Task |-> IF t = POLLER THEN 100 ELSE IF t = HIGH THEN 50 ELSE 10]
    /\ picked = NoTask /\ cpu = NoTask
    /\ queue = [c \in Consumer |-> <<>>]
    /\ pool = [c \in Consumer |-> [s \in Slots |-> 0]]
    /\ pool_next = [c \in Consumer |-> 0]
    /\ at = [t \in Task |-> IF t = POLLER THEN "poll" ELSE "receive"]
    /\ item = [t \in Task |-> NoItem]
    /\ topic = HIGH
    /\ latency = [c \in Consumer |-> 0]
    /\ sent = [c \in Consumer |-> 0]
    /\ got = [c \in Consumer |-> [n |-> 0, stamp |-> 0, value |-> 0]]
    /\ lapped = [c \in Consumer |-> FALSE]

On(t, label) == cpu = t /\ at[t] = label

Goto(t, label) == at' = [at EXCEPT ![t] = label]

-----------------------------------------------------------------------------
(* poller_task *)

\* Pointers to slots of c's pool that the consumer has still to read from.
InUse(c) == Len(queue[c]) + (IF at[c] \in {"stamp", "value"} THEN 1 ELSE 0)

\* recv() has nothing.
poll_nothing ==
    /\ On(POLLER, "poll") /\ Goto(POLLER, "sleep")
    /\ UNCHANGED <<kernelVars, data>>

NextSlot(c) == pool_next[c]

\* The slot is written before queue_send() has found room for the pointer.
poll_once(c) ==
    /\ On(POLLER, "poll") /\ Goto(POLLER, "send")
    /\ sent[c] < MaxSamples
    /\ sent' = [sent EXCEPT ![c] = @ + 1]
    /\ topic' = c
    /\ item' = [item EXCEPT ![POLLER] = [slot |-> NextSlot(c), n |-> sent'[c]]]
    /\ pool' = [pool EXCEPT ![c][NextSlot(c)] = sent'[c]]
    /\ pool_next' = [pool_next EXCEPT ![c] = (@ + 1) % QUEUE_CAPACITY]
    /\ lapped' = [lapped EXCEPT ![c] = @ \/ InUse(c) >= QUEUE_CAPACITY]
    /\ UNCHANGED <<kernelVars, queue, latency, got>>

Waiting(t, label) == IF state[t] = "BLOCKED" /\ at[t] = label THEN {t} ELSE {}

queue_send ==
    /\ On(POLLER, "send")
    /\ IF Len(queue[topic]) < QUEUE_CAPACITY
       THEN /\ queue' = [queue EXCEPT ![topic] = Append(@, item[POLLER])]
            /\ Wake(Waiting(topic, "receive"))
            /\ Goto(POLLER, "sleep")
       ELSE /\ Block(POLLER)
            /\ UNCHANGED <<queue, at>>
    /\ UNCHANGED <<pool, pool_next, item, topic, latency, sent, got, lapped>>

\* Faulty variant, the one the file's header tells of: task_yield() leaves it READY.
poll_yield ==
    /\ On(POLLER, "sleep") /\ Goto(POLLER, "poll")
    /\ Yield(POLLER)
    /\ UNCHANGED data

\* publish_diagnostics(), called before it now and then, only reads and sends.
poll_sleep ==
    /\ On(POLLER, "sleep") /\ Goto(POLLER, "poll")
    /\ Block(POLLER)
    /\ UNCHANGED data

-----------------------------------------------------------------------------
(* high_task and low_task *)

\* Faulty variant: the item sent last is taken first.
TakeNewest(q) == [item |-> q[Len(q)], rest |-> SubSeq(q, 1, Len(q) - 1)]

Take(q) == [item |-> Head(q), rest |-> Tail(q)]

queue_receive(c) ==
    /\ On(c, "receive")
    /\ IF queue[c] # <<>>
       THEN /\ item' = [item EXCEPT ![c] = Take(queue[c]).item]
            /\ queue' = [queue EXCEPT ![c] = Take(@).rest]
            /\ Wake(IF topic = c THEN Waiting(POLLER, "send") ELSE {})
            /\ Goto(c, "stamp")
       ELSE /\ Block(c)
            /\ UNCHANGED <<item, queue, at>>
    /\ UNCHANGED <<pool, pool_next, topic, latency, sent, got, lapped>>

\* now_us() - item->enqueued_us
read_stamp(c) ==
    /\ On(c, "stamp") /\ Goto(c, "value")
    /\ latency' = [latency EXCEPT ![c] = pool[c][item[c].slot]]
    /\ UNCHANGED <<kernelVars, queue, pool, pool_next, item, topic, sent, got, lapped>>

\* printf("... value=%d", item->value)
read_value(c) ==
    /\ On(c, "value") /\ Goto(c, IF c = LOW THEN "work" ELSE "receive")
    /\ got' = [got EXCEPT ![c] = [n |-> item[c].n, stamp |-> latency[c],
                                  value |-> pool[c][item[c].slot]]]
    /\ UNCHANGED <<kernelVars, queue, pool, pool_next, item, topic, latency, sent, lapped>>

simulate_slow_work ==
    /\ On(LOW, "work") /\ Goto(LOW, "receive")
    /\ UNCHANGED <<kernelVars, data>>

Callback(c) == queue_receive(c) \/ read_stamp(c) \/ read_value(c)

-----------------------------------------------------------------------------
(* The kernel: every tick ends the poller's task_sleep(1) and a slice *)

Sleepers == Waiting(POLLER, "poll")

Tick ==
    /\ \/ \E t \in Task : Preempt(Sleepers, t)
       \/ cpu = NoTask /\ Wake(Sleepers)
    /\ UNCHANGED <<at, data>>

\* Faulty variant: the loop takes any READY task.
PickAny == \E t \in Task :
    /\ cpu = NoTask /\ picked = NoTask /\ state[t] = "READY"
    /\ picked' = t
    /\ UNCHANGED <<state, priority, cpu>>

PickHighest == \E t \in Task : Pick(t)

Dispatch == (PickHighest \/ Start) /\ UNCHANGED <<at, data>>

Poller == poll_nothing \/ (\E c \in Consumer : poll_once(c)) \/ queue_send \/ poll_sleep

DispatchNext ==
    \/ Poller
    \/ \E c \in Consumer : Callback(c)
    \/ simulate_slow_work
    \/ Dispatch
    \/ Tick

\* The timer keeps firing, and a tick (TICK_MS) is long enough for the poller to go back
\* to sleep and for the task that runs then to get on with its work.
DispatchFairness ==
    /\ WF_dispatchVars(Poller) /\ WF_dispatchVars(Dispatch) /\ WF_dispatchVars(Tick)
    /\ \A c \in Consumer : SF_dispatchVars(Dispatch /\ picked' = c) /\ SF_dispatchVars(Callback(c))
    /\ SF_dispatchVars(simulate_slow_work)

DispatchSpec == DispatchInit /\ [][DispatchNext]_dispatchVars /\ DispatchFairness

-----------------------------------------------------------------------------
(* Properties *)

\* The low-priority callback and its slow work never have the CPU, and are never chosen
\* for it, while a message waits in the high-priority queue (the header's "dispatch
\* latency stays bounded").
LowNeverDelaysHigh == LOW \in {cpu, picked} => queue[HIGH] = <<>> /\ state[HIGH] = "BLOCKED"

\* The callbacks come in the order of the samples, one for each, and read the stamp and
\* the value of the sample their pointer was queued for.  Only when a sample arrived
\* while every slot of the topic's pool was in use may they read a newer one instead,
\* and never an older one.
OwnSample ==
    [][\A c \in Consumer :
         got'[c] # got[c] => /\ got'[c].n = got[c].n + 1
                             /\ got'[c].stamp >= got'[c].n
                             /\ got'[c].value >= got'[c].stamp
                             /\ ~lapped[c] => got'[c].value = got'[c].n]_dispatchVars

\* Every queued message reaches its callback, also when the poller had to wait for
\* room in the other topic's queue.
Drains == \A c \in Consumer : (queue[c] # <<>>) ~> (queue[c] = <<>>)
==============================================================================
