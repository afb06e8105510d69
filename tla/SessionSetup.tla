---------------------------- MODULE SessionSetup ----------------------------
(***************************************************************************)
(* How a program opens an XRCE session (xrce/src/session.c): CREATE_CLIENT *)
(* and then a CREATE for each entity, each one answered by a STATUS of the *)
(* agent.  Three ways of doing it are in the repository:                   *)
(*   "once"      the live demos and bench_latency: one datagram per step,  *)
(*               any failure ends the program;                             *)
(*   "retry"     bench_qos: up to Attempts fresh messages per step;        *)
(*   "announce"  the firmware: never waits, announces everything again.    *)
(* The link loses messages and keeps their order.  The agent is not in the *)
(* repository; it is modelled from how these programs use it and from what *)
(* their comments record of it.                                            *)
(*                                                                         *)
(* A message is known by its step of the program.  parse_status_reply does *)
(* not look at the request id, so request ids are left out.                *)
(***************************************************************************)
EXTENDS Integers, Sequences

CONSTANTS
    Attempts,   \* tries per step of bench_qos, 30 in the code
    SeqMod,     \* the values of out_seq_num, 2^16 in the code
    MaxDrops,   \* bound: messages the link may lose
    MaxRuns,    \* bound: times the program is started against one agent
    LinkCap     \* bound: messages on the firmware's serial line

ASSUME SessionAssumption ==
    /\ {Attempts, MaxRuns, LinkCap} \subseteq Nat \ {0}
    /\ MaxDrops \in Nat /\ SeqMod \in Nat /\ SeqMod > 2 * Attempts

VARIABLES
    program,              \* which program runs
    run, pc, attempt,     \* its incarnation, the step it is at, tries of it
    phase,                \* "send", "wait", "ready" or "failed"
    out_seq_num,          \* of xrce_session_t
    toAgent, toClient,    \* messages in flight, oldest first
    session,              \* agent: the client's session is established
    watermark,            \* agent: last sequence number handled, -1 for none
    exists, reading,      \* agent: its entities, and those being read
    attached,             \* the agent listens to the line
    drops, late           \* history: losses; a recv gave up on a message that
                          \* was still on its way

client == <<program, run, pc, attempt, phase, out_seq_num>>
agent == <<session, watermark, exists, reading>>
vars == <<client, toAgent, toClient, agent, attached, drops, late>>

-----------------------------------------------------------------------------
(* What each program sends.  WRITE_DATA of samples is left out. *)

Client == [op |-> "client", obj |-> "client", parent |-> "none"]
Create(o, p) == [op |-> "create", obj |-> o, parent |-> p]
Delete(o) == [op |-> "delete", obj |-> o, parent |-> "none"]
Read(o) == [op |-> "read", obj |-> o, parent |-> "none"]

Open == <<Client, Create("participant", "none")>>
Topic(t) == Create(t, "participant")
Publisher == Create("publisher", "participant")
Subscriber == Create("subscriber", "participant")
Replier(r) == Create(r, "participant")
Writer(w) == Create(w, "publisher")
Reader(r) == Create(r, "subscriber")

live_publish_demo == Open \o <<Topic("topic"), Publisher, Writer("writer")>>
live_subscribe_demo ==
    Open \o <<Topic("topic"), Subscriber, Reader("reader"), Read("reader")>>
live_delete_demo ==
    live_publish_demo \o <<Delete("writer"), Delete("publisher"), Delete("topic")>>
live_service_demo == Open \o <<Replier("replier"), Read("replier")>>
live_action_demo ==
    Open \o <<Replier("send_goal"), Replier("cancel_goal"), Replier("get_result"),
              Publisher, Topic("feedback"), Writer("feedback writer"),
              Topic("status"), Writer("status writer"),
              Read("send_goal"), Read("cancel_goal"), Read("get_result")>>
live_priority_demo ==
    Open \o <<Subscriber, Topic("high"), Reader("high reader"), Read("high reader"),
              Topic("low"), Reader("low reader"), Read("low reader"),
              Publisher, Topic("topic"), Writer("writer")>>
live_fault_demo ==
    live_publish_demo \o <<Replier("replier"), Read("replier")>>
live_diagnostics_demo ==
    live_publish_demo \o <<Replier("replier"), Read("replier")>>
bench_latency ==
    live_publish_demo \o <<Topic("pong"), Subscriber, Reader("reader"), Read("reader")>>
bench_qos == Open \o <<Topic("topic"), Publisher, Writer("writer")>>
ros2_demo ==
    live_publish_demo \o <<Topic("setpoint"), Subscriber, Reader("reader"),
                           Read("reader"), Topic("pong"), Writer("pong writer")>>
gazebo_demo == Open \o <<Topic("topic"), Publisher, Writer("writer")>>

Once == [live_publish_demo |-> live_publish_demo,
         live_subscribe_demo |-> live_subscribe_demo,
         live_delete_demo |-> live_delete_demo,
         live_service_demo |-> live_service_demo,
         live_action_demo |-> live_action_demo,
         live_priority_demo |-> live_priority_demo,
         live_fault_demo |-> live_fault_demo,
         live_diagnostics_demo |-> live_diagnostics_demo,
         bench_latency |-> bench_latency]
Retry == [bench_qos |-> bench_qos]
Announce == [ros2_demo |-> ros2_demo, gazebo_demo |-> gazebo_demo]

Programs == DOMAIN Once \union DOMAIN Retry \union DOMAIN Announce
Steps(p) == CASE p \in DOMAIN Once     -> Once[p]
              [] p \in DOMAIN Retry    -> Retry[p]
              [] p \in DOMAIN Announce -> Announce[p]
Announces == program \in DOMAIN Announce
Answered(step) == step.op \in {"client", "create", "delete"}

Init ==
    /\ program \in Programs
    /\ run = 1 /\ pc = 1 /\ attempt = 0 /\ phase = "send" /\ out_seq_num = 0
    /\ toAgent = <<>> /\ toClient = <<>>
    /\ session = FALSE /\ watermark = -1 /\ exists = {} /\ reading = {}
    /\ attached = ~Announces  \* the host programs want a running agent
    /\ drops = 0 /\ late = FALSE

-----------------------------------------------------------------------------
(* session.c *)

Step == Steps(program)[pc]

NextSeq == (out_seq_num + 1) % SeqMod

\* Every message but CREATE_CLIENT takes a sequence number of its own.
Build ==
    /\ toAgent' = Append(toAgent, [run |-> run, step |-> Step, seq |-> out_seq_num])
    /\ out_seq_num' = IF Step.op = "client" THEN out_seq_num ELSE NextSeq

parse_create_client_reply(m) == m.kind = "status_agent" /\ m.status = "ok"
parse_status_reply(m) == m.kind = "status" /\ m.status = "ok"

\* Faulty variant: a retried CREATE that finds the entity is not accepted.
create_reply_ok(m) == parse_status_reply(m)

create_reply_ok_or_exists(m) ==
    parse_status_reply(m) \/ (m.kind = "status" /\ m.status = "exists")

Accepts(m) ==
    CASE Step.op = "client"            -> parse_create_client_reply(m)
      [] program \in DOMAIN Retry /\ Step.op # "client"
                                       -> create_reply_ok_or_exists(m)
      [] OTHER                         -> parse_status_reply(m)

-----------------------------------------------------------------------------
(* send_and_wait_ok, and the main() that calls it *)

NextStep ==
    /\ pc' = pc + 1 /\ attempt' = 0
    /\ phase' = IF pc = Len(Steps(program)) THEN "ready" ELSE "send"

\* No acceptable answer: bench_qos tries again, the others end.
NoAnswer ==
    /\ UNCHANGED pc
    /\ IF program \in DOMAIN Retry /\ attempt + 1 < Attempts
       THEN attempt' = attempt + 1 /\ phase' = "send"
       ELSE attempt' = attempt /\ phase' = "failed"

send_request ==
    /\ phase = "send" /\ ~Announces
    /\ Build
    /\ IF Answered(Step) THEN phase' = "wait" /\ UNCHANGED <<pc, attempt>>
                         ELSE NextStep
    /\ UNCHANGED <<program, run, toClient, agent, attached, drops, late>>

recv_reply ==
    /\ phase = "wait" /\ toClient # <<>>
    /\ toClient' = Tail(toClient)
    /\ \/ Accepts(Head(toClient)) /\ NextStep
       \/ ~Accepts(Head(toClient)) /\ NoAnswer
    /\ UNCHANGED <<program, run, out_seq_num, toAgent, agent, attached, drops, late>>

\* Faulty variant: the result of recv is not looked at.
recv_unchecked ==
    /\ phase = "wait"
    /\ NextStep
    /\ late' = (late \/ toAgent # <<>> \/ toClient # <<>>)
    /\ UNCHANGED <<program, run, out_seq_num, toAgent, toClient, agent, attached, drops>>

recv_timeout ==
    /\ phase = "wait"
    /\ NoAnswer
    /\ late' = (late \/ toAgent # <<>> \/ toClient # <<>>)
    /\ UNCHANGED <<program, run, out_seq_num, toAgent, toClient, agent, attached, drops>>

\* Faulty variant: the handshake is sent once, at boot.
announce_once ==
    /\ Announces /\ Len(toAgent) < LinkCap /\ phase = "send"
    /\ Build
    /\ NextStep
    /\ UNCHANGED <<program, run, toClient, agent, attached, drops, late>>

\* The firmware: each message is sent and nothing awaited; after the last one
\* (and the samples published meanwhile) the announcement starts again.
announce_entities ==
    /\ Announces /\ Len(toAgent) < LinkCap
    /\ Build
    /\ pc' = IF pc = Len(Steps(program)) THEN 1 ELSE pc + 1
    /\ UNCHANGED <<program, run, attempt, phase, toClient, agent, attached, drops, late>>

\* The program is stopped and started again; its old socket is gone, what it
\* sent may still arrive.
restart ==
    /\ run < MaxRuns
    /\ run' = run + 1 /\ pc' = 1 /\ attempt' = 0 /\ phase' = "send"
    /\ out_seq_num' = 0 /\ toClient' = <<>>
    /\ UNCHANGED <<program, toAgent, agent, attached, drops, late>>

-----------------------------------------------------------------------------
(* The link and the agent *)

drop ==
    /\ drops < MaxDrops /\ drops' = drops + 1
    /\ \/ toAgent # <<>> /\ toAgent' = Tail(toAgent) /\ UNCHANGED toClient
       \/ toClient # <<>> /\ toClient' = Tail(toClient) /\ UNCHANGED toAgent
    /\ UNCHANGED <<client, agent, attached, late>>

attach ==
    /\ ~attached /\ attached' = TRUE
    /\ UNCHANGED <<client, toAgent, toClient, agent, drops, late>>

\* The firmware ignores every STATUS, so none is kept on its line.
Reply(m, kind, status) ==
    toClient' = IF m.run = run /\ ~Announces
                THEN Append(toClient, [kind |-> kind, status |-> status])
                ELSE toClient

\* A message at or before the watermark is a replay and goes unanswered.
Fresh(m) ==
    session /\ (watermark = -1 \/ (m.seq - watermark) % SeqMod \in 1 .. SeqMod \div 2)

agent_create_client(m) ==
    /\ m.step.op = "client"
    /\ session' = TRUE /\ watermark' = -1
    /\ Reply(m, "status_agent", "ok")
    /\ UNCHANGED <<exists, reading>>

\* For an entity it has, the agent answers OK_MATCHED or ALREADY_EXISTS.
agent_create(m) ==
    /\ m.step.op = "create" /\ Fresh(m)
    /\ watermark' = m.seq
    /\ \/ /\ m.step.obj \in exists
          /\ \E status \in {"ok", "exists"} : Reply(m, "status", status)
          /\ UNCHANGED exists
       \/ /\ m.step.obj \notin exists
          /\ m.step.parent \in exists \union {"none"}
          /\ exists' = exists \union {m.step.obj}
          /\ Reply(m, "status", "ok")
       \/ /\ m.step.obj \notin exists
          /\ m.step.parent \notin exists \union {"none"}
          /\ Reply(m, "status", "error")
          /\ UNCHANGED exists
    /\ UNCHANGED <<session, reading>>

agent_delete(m) ==
    /\ m.step.op = "delete" /\ Fresh(m)
    /\ watermark' = m.seq
    /\ Reply(m, "status", IF m.step.obj \in exists THEN "ok" ELSE "error")
    /\ exists' = exists \ {m.step.obj} /\ reading' = reading \ {m.step.obj}
    /\ UNCHANGED session

agent_read(m) ==
    /\ m.step.op = "read" /\ Fresh(m)
    /\ watermark' = m.seq
    /\ reading' = reading \union ({m.step.obj} \intersect exists)
    /\ UNCHANGED <<session, exists, toClient>>

agent_ignore(m) ==
    /\ m.step.op # "client" /\ ~Fresh(m)
    /\ UNCHANGED <<agent, toClient>>

agent_receive ==
    /\ toAgent # <<>> /\ toAgent' = Tail(toAgent)
    /\ LET m == Head(toAgent)
       IN  IF attached
           THEN \/ agent_create_client(m) \/ agent_create(m) \/ agent_delete(m)
                \/ agent_read(m) \/ agent_ignore(m)
           ELSE UNCHANGED <<agent, toClient>>  \* nobody reads the line
    /\ UNCHANGED <<client, attached, drops, late>>

\* A sample of a reader reaches the program, also while it waits for a STATUS.
agent_sample ==
    /\ phase = "wait" /\ reading # {} /\ toClient = <<>>
    /\ toClient' = <<[kind |-> "data", status |-> "ok"]>>
    /\ UNCHANGED <<client, toAgent, agent, attached, drops, late>>

Finished == phase \in {"ready", "failed"} /\ UNCHANGED vars

Next == send_request \/ recv_reply \/ recv_timeout \/ announce_entities \/ restart
            \/ drop \/ attach \/ agent_receive \/ agent_sample \/ Finished
Spec == Init /\ [][Next]_vars
FairSpec == Spec /\ WF_vars(announce_entities) /\ WF_vars(attach)
                 /\ WF_vars(agent_receive)

-----------------------------------------------------------------------------
\* What the steps before k create, delete or read; and what they leave in
\* place while step k may already be under way.
Before(k, op) == {Steps(program)[i].obj : i \in
                     {j \in DOMAIN Steps(program) : j < k /\ Steps(program)[j].op = op}}
Created(k) == Before(k, "create") \ Before(k + 1, "delete")

\* What send_and_wait_ok reported as done, the agent has done: of a program
\* that sends each request once, across restarts and losses; of bench_qos as
\* long as no answer outlasts its timeout.
AcknowledgedHolds ==
    ~Announces /\ (program \in DOMAIN Retry => ~late) =>
        /\ Created(pc) \subseteq exists
        /\ Before(pc, "delete") \intersect exists = {}

\* bench_qos fails only on a link that lost a message in each of its attempts,
\* although the agent does not answer a message twice and rejects an entity
\* that exists.
GivesUpOnlyOnLoss ==
    program \in DOMAIN Retry /\ phase = "failed" /\ ~late => drops >= Attempts

\* Whenever the agent attaches to the firmware's line, and whatever was lost
\* before, it comes to have all of the firmware's entities and keeps them.
AnnouncedToAgent ==
    <>[](Announces => /\ Before(Len(Steps(program)) + 1, "create") \subseteq exists
                      /\ Before(Len(Steps(program)) + 1, "read") \subseteq reading)
=============================================================================
