------------------------------ MODULE Diagnostics ------------------------------
(***************************************************************************)
(* The self-diagnosing node of host/live_diagnostics_demo.c, and of        *)
(* host/live_fault_demo.c, which has the same tasks but for a consumer     *)
(* that overwrites its own stack canary in one of its iterations.  A       *)
(* publisher of low priority and a coordinator of high priority, which     *)
(* serves refresh requests, report the state of a producer, a consumer     *)
(* and the queue between them; the timer runs.                             *)
(*                                                                         *)
(* The kernel is KernelSpec.tla's, with one more detail of                 *)
(* scheduler_run(): which task the loop itself switched to last, because   *)
(* that is the one whose canary it checks when it gets control back.       *)
(* queue_send() and queue_receive() are used at what BoundedQueue.tla      *)
(* promises.  How long a sleep takes is left open.                         *)
(***************************************************************************)
EXTENDS KernelSpec

CONSTANT QUEUE_CAPACITY

PRODUCER == 1      \* "healthy" in the fault demo
CONSUMER == 2      \* "faulty" in the fault demo
COORDINATOR == 3
PUBLISHER == 4
Reporter == {COORDINATOR, PUBLISHER}

ASSUME NodeAssumption ==
    /\ Task = {PRODUCER, CONSUMER} \union Reporter
    /\ QUEUE_CAPACITY \in Nat \ {0}

VARIABLES at,          \* what each task does next
          sleeping,    \* the tasks in task_sleep()
          head, tail, filled,   \* of g_work_queue
          corrupted,   \* the consumer's canary is overwritten
          dispatched,  \* `next` of scheduler_run() is the consumer
          aborted,     \* task_check_canary_or_abort() has ended the process
          report,      \* what the coordinator has collected so far
          request,     \* a refresh request is under way
          caught,      \* the loop had switched to the consumer when it was corrupted
          after        \* reports sent since then, counted up to 2

queue == <<head, tail, filled>>
fault == <<corrupted, caught>>
nodeVars == <<kernelVars, at, sleeping, queue, fault, dispatched, aborted,
          report, request, after>>

NoReport == [producer |-> "UNKNOWN", consumer |-> "UNKNOWN", depth |-> 0]

\* Faulty variant: the coordinator is below the workers.
PrioritiesLow ==
    [t \in Task |-> CASE t = PRODUCER -> 20 [] t = CONSUMER -> 10
                      [] t = COORDINATOR -> 7 [] t = PUBLISHER -> 5]

Priorities ==
    [t \in Task |-> CASE t = PRODUCER -> 20 [] t = CONSUMER -> 10
                      [] t = COORDINATOR -> 30 [] t = PUBLISHER -> 5]

First ==
    [t \in Task |-> CASE t = PRODUCER -> "send" [] t = CONSUMER -> "receive"
                      [] t = COORDINATOR -> "poll" [] t = PUBLISHER -> "report"]

\* main() has spawned the four tasks.
NodeInit ==
    /\ state = [t \in Task |-> "READY"]
    /\ priority = Priorities
    /\ picked = NoTask /\ cpu = NoTask
    /\ at = First
    /\ sleeping = {}
    /\ head = 0 /\ tail = 0 /\ filled = 0
    /\ corrupted = FALSE /\ caught = FALSE
    /\ dispatched = FALSE
    /\ aborted = FALSE
    /\ report = NoReport
    /\ request = FALSE
    /\ after = 0

On(t, label) == ~aborted /\ cpu = t /\ at[t] = label

Goto(t, label) == at' = [at EXCEPT ![t] = label]

\* Faulty variant: the canary is not checked.
CanaryIgnored == FALSE

CanaryLost == corrupted /\ dispatched

\* The task blocks, and scheduler_run() goes on with the check of the canary.
BlockAndCheck(t) == Block(t) /\ aborted' = CanaryLost

\* task_sleep(), with the loop of the task's function behind it.
sleep(t) ==
    /\ On(t, "sleep") /\ Goto(t, First[t])
    /\ sleeping' = sleeping \union {t}
    /\ BlockAndCheck(t)
    /\ UNCHANGED <<queue, fault, dispatched, report, request, after>>

-----------------------------------------------------------------------------
(* The workers *)

Waiting(t) == IF state[t] = "BLOCKED" /\ t \notin sleeping THEN {t} ELSE {}

\* producer_worker() and healthy_worker()
queue_send ==
    /\ On(PRODUCER, "send")
    /\ IF filled < QUEUE_CAPACITY
       THEN /\ tail' = (tail + 1) % QUEUE_CAPACITY
            /\ filled' = filled + 1
            /\ Wake(Waiting(CONSUMER))
            /\ Goto(PRODUCER, "sleep")
            /\ UNCHANGED aborted
       ELSE /\ BlockAndCheck(PRODUCER)
            /\ UNCHANGED <<tail, filled, at>>
    /\ UNCHANGED <<sleeping, head, fault, dispatched, report, request, after>>

\* consumer_worker() and faulty_worker()
queue_receive ==
    /\ On(CONSUMER, "receive")
    /\ IF filled > 0
       THEN /\ head' = (head + 1) % QUEUE_CAPACITY
            /\ filled' = filled - 1
            /\ Wake(Waiting(PRODUCER))
            /\ Goto(CONSUMER, "iterate")
            /\ UNCHANGED aborted
       ELSE /\ BlockAndCheck(CONSUMER)
            /\ UNCHANGED <<head, filled, at>>
    /\ UNCHANGED <<sleeping, tail, fault, dispatched, report, request, after>>

\* faulty_worker() overwrites its canary in the iteration it was compiled to; that can
\* be any, and none at all is consumer_worker().
iterate ==
    /\ On(CONSUMER, "iterate") /\ Goto(CONSUMER, "sleep")
    /\ \/ /\ ~corrupted
          /\ corrupted' = TRUE
          /\ caught' = dispatched
       \/ UNCHANGED fault
    /\ UNCHANGED <<kernelVars, sleeping, queue, dispatched, aborted, report, request, after>>

-----------------------------------------------------------------------------
(* publish_diagnostics(), run by both reporters, and the refresh service *)

\* handle_refresh_requests(): the reply is sent, then a report is published.
poll ==
    /\ On(COORDINATOR, "poll")
    /\ IF request THEN Goto(COORDINATOR, "report") ELSE Goto(COORDINATOR, "sleep")
    /\ request' = FALSE
    /\ UNCHANGED <<kernelVars, sleeping, queue, fault, dispatched, aborted, report, after>>

Depth == (tail - head + QUEUE_CAPACITY) % QUEUE_CAPACITY

Note(field, value) == report' = [report EXCEPT ![field] = value]

\* add_task_status() for the producer, for the consumer, and add_queue_status().  What
\* the publisher collects is not kept: any task can run while it does.
collect(t) ==
    /\ \/ /\ t = COORDINATOR
          /\ \/ On(t, "report") /\ Goto(t, "consumer") /\ Note("producer", state[PRODUCER])
             \/ On(t, "consumer") /\ Goto(t, "queue") /\ Note("consumer", state[CONSUMER])
             \/ On(t, "queue") /\ Goto(t, "publish") /\ Note("depth", Depth)
       \/ t = PUBLISHER /\ On(t, "report") /\ Goto(t, "publish") /\ UNCHANGED report
    /\ UNCHANGED <<kernelVars, sleeping, queue, fault, dispatched, aborted, request, after>>

\* Encoded and sent with send_tracked().
publish(t) ==
    /\ On(t, "publish") /\ Goto(t, "sleep")
    /\ report' = IF t = COORDINATOR THEN NoReport ELSE report
    /\ after' = IF caught /\ after < 2 THEN after + 1 ELSE after
    /\ UNCHANGED <<kernelVars, sleeping, queue, fault, dispatched, aborted, request>>

Run(t) ==
    \/ t = PRODUCER /\ queue_send
    \/ t = CONSUMER /\ (queue_receive \/ iterate)
    \/ t = COORDINATOR /\ poll
    \/ t \in Reporter /\ (collect(t) \/ publish(t))
    \/ sleep(t)

-----------------------------------------------------------------------------
(* The kernel and the client *)

Dispatch ==
    /\ ~aborted
    /\ \/ Start /\ dispatched' = (picked = CONSUMER)
       \/ (\E t \in Task : Pick(t)) /\ UNCHANGED dispatched
    /\ UNCHANGED <<at, sleeping, queue, fault, aborted, report, request, after>>

\* A tick ends the sleep of the tasks W, and may force a switch.
Tick(W) ==
    /\ ~aborted /\ W \subseteq sleeping
    /\ sleeping' = sleeping \ W
    /\ Wake(W) \/ \E t \in Task : Preempt(W, t)
    /\ UNCHANGED <<at, queue, fault, dispatched, aborted, report, request, after>>

refresh ==
    /\ ~request /\ ~aborted
    /\ request' = TRUE
    /\ UNCHANGED <<kernelVars, at, sleeping, queue, fault, dispatched, aborted, report, after>>

Ended == aborted /\ UNCHANGED nodeVars

NodeNext ==
    \/ \E t \in Task : Run(t)
    \/ Dispatch
    \/ \E W \in SUBSET sleeping : Tick(W)
    \/ refresh
    \/ Ended

NodeSpec == NodeInit /\ [][NodeNext]_nodeVars

-----------------------------------------------------------------------------
(* Properties *)

\* The report a refresh request causes is coherent: the coordinator outranks the workers,
\* so none of them runs while it collects its values.  When it is published the depth
\* still holds, and a worker's state can differ only because a tick has woken it.
CoherentRefresh ==
    LET Holds(seen, now) == seen = now \/ (seen = "BLOCKED" /\ now = "READY")
    IN  On(COORDINATOR, "publish") =>
          /\ report.depth = Depth
          /\ Holds(report.producer, state[PRODUCER])
          /\ Holds(report.consumer, state[CONSUMER])

\* When the loop had switched to the task that overwrites its canary, at most one more
\* report is published, the coordinator's if a tick brings it in between, and the
\* publisher never runs again.
LittleAfterCrash ==
    caught => /\ after < 2
              /\ cpu # PUBLISHER /\ picked # PUBLISHER
==============================================================================
