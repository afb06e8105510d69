-------------------------- MODULE SessionSetupProofs --------------------------
(***************************************************************************)
(* Proofs about the set-up of a session in SessionSetup.tla, for every     *)
(* number of attempts, sequence numbers, losses and runs, and every        *)
(* capacity of the line.                                                   *)
(***************************************************************************)
EXTENDS SessionSetup, TLAPS

-----------------------------------------------------------------------------
(* Sequences *)

LEMMA EmptySeq ==
    ASSUME NEW S
    PROVE  /\ <<>> \in Seq(S) /\ Len(<<>>) = 0
           /\ \A q \in Seq(S) : q # <<>> => Len(q) \in Nat \ {0}
  OBVIOUS

LEMMA HeadTailProperties ==
    ASSUME NEW S, NEW q \in Seq(S), q # <<>>
    PROVE  /\ Head(q) \in S /\ Tail(q) \in Seq(S) /\ Len(Tail(q)) = Len(q) - 1
           /\ \A i \in 1 .. Len(Tail(q)) : Tail(q)[i] = q[i + 1]
  OBVIOUS

LEMMA ConcatProperties ==
    ASSUME NEW S, NEW p \in Seq(S), NEW q \in Seq(S)
    PROVE  /\ p \o q \in Seq(S) /\ Len(p \o q) = Len(p) + Len(q)
           /\ \A i \in 1 .. Len(p) + Len(q) :
                (p \o q)[i] = IF i <= Len(p) THEN p[i] ELSE q[i - Len(p)]
  OBVIOUS

-----------------------------------------------------------------------------
(* Opening a session: what the programs send *)

Ops == {"client", "create", "delete", "read"}
Names == {"none", "client", "participant", "publisher", "subscriber", "topic", "writer", "reader",
          "replier", "send_goal", "cancel_goal", "get_result", "feedback", "feedback writer",
          "status", "status writer", "high", "high reader", "low", "low reader", "pong"}
Item == [op : Ops, obj : Names, parent : Names]

Builds == {x \in Item : x.op \in {"client", "create", "read"}}
Removes == {x \in Item : x.op = "delete"}

LEMMA ClientTyped == Client \in Builds
  BY DEF Client, Builds, Item, Ops, Names

LEMMA ReadTyped == ASSUME NEW o \in Names PROVE Read(o) \in Builds
  BY Zenon DEF Read, Builds, Item, Ops, Names

LEMMA DeleteTyped == ASSUME NEW o \in Names PROVE Delete(o) \in Removes
  BY Zenon DEF Delete, Removes, Item, Ops, Names

LEMMA CreateTyped == ASSUME NEW o \in Names, NEW p \in Names PROVE Create(o, p) \in Builds
  BY DEF Create, Builds, Item, Ops

\* CREATE_CLIENT comes first, and nothing is created after a deletion.
Shaped(s) ==
    /\ s \in Seq(Item) /\ Len(s) > 0 /\ s[1].op = "client"
    /\ \A i, j \in 1 .. Len(s) : i < j /\ s[i].op = "delete" => s[j].op # "create"

LEMMA OpenBuilds == Open \in Seq(Builds) /\ Len(Open) = 2 /\ Open[1].op = "client"
  <1>1. Create("participant", "none") \in Builds
    BY Zenon, CreateTyped DEF Names
  <1>2. Open \in Seq(Builds)
    BY <1>1, ClientTyped DEF Open
  <1> QED
    BY <1>2 DEF Open, Client

\* A list that starts as a program does.
Opens(s) == s \in Seq(Builds) /\ Len(s) > 0 /\ s[1].op = "client"

LEMMA OpensThen ==
    ASSUME NEW s, Opens(s), NEW t \in Seq(Builds)
    PROVE  Opens(s \o t)
  <1>1. s \in Seq(Builds) /\ Len(s) > 0 /\ s[1].op = "client"
    BY DEF Opens
  <1>2. s \o t \in Seq(Builds) /\ Len(s \o t) = Len(s) + Len(t) /\ (s \o t)[1] = s[1]
    BY <1>1, ConcatProperties
  <1>3. Len(s \o t) > 0
    BY <1>1, <1>2
  <1> QED
    BY <1>1, <1>2, <1>3 DEF Opens

LEMMA OpensShaped ==
    ASSUME NEW s, Opens(s)
    PROVE  Shaped(s)
  <1>1. Builds \subseteq Item /\ \A x \in Builds : x.op # "delete"
    BY DEF Builds
  <1>2. s \in Seq(Builds) /\ s \in Seq(Item) /\ \A i \in 1 .. Len(s) : s[i] \in Builds
    BY <1>1 DEF Opens
  <1> QED
    BY <1>1, <1>2 DEF Shaped, Opens

LEMMA PublishOpens == Opens(live_publish_demo)
  <1>1. {Create("topic", "participant"), Create("publisher", "participant"),
         Create("writer", "publisher")} \subseteq Builds
    BY Zenon, CreateTyped DEF Names
  <1>2. <<Topic("topic"), Publisher, Writer("writer")>> \in Seq(Builds)
    BY <1>1 DEF Topic, Publisher, Writer
  <1>3. Opens(Open)
    BY OpenBuilds DEF Opens
  <1> QED
    BY Zenon, <1>2, <1>3, OpensThen DEF live_publish_demo

LEMMA OpenOpens == Opens(Open)
  BY OpenBuilds DEF Opens

LEMMA SubscribeOpens == Opens(live_subscribe_demo)
  <1>1. {Topic("topic"), Subscriber, Reader("reader"), Read("reader")} \subseteq Builds
    BY Zenon, CreateTyped, ReadTyped DEF Names, Topic, Subscriber, Reader
  <1>2. <<Topic("topic"), Subscriber, Reader("reader"), Read("reader")>> \in Seq(Builds)
    BY <1>1
  <1> QED
    BY Zenon, <1>2, OpenOpens, OpensThen DEF live_subscribe_demo

LEMMA ServiceOpens == Opens(live_service_demo)
  <1>1. {Replier("replier"), Read("replier")} \subseteq Builds
    BY Zenon, CreateTyped, ReadTyped DEF Names, Replier
  <1>2. <<Replier("replier"), Read("replier")>> \in Seq(Builds)
    BY <1>1
  <1> QED
    BY Zenon, <1>2, OpenOpens, OpensThen DEF live_service_demo

LEMMA FaultOpens == Opens(live_fault_demo) /\ Opens(live_diagnostics_demo)
  <1>1. {Replier("replier"), Read("replier")} \subseteq Builds
    BY Zenon, CreateTyped, ReadTyped DEF Names, Replier
  <1>2. <<Replier("replier"), Read("replier")>> \in Seq(Builds)
    BY <1>1
  <1> QED
    BY Zenon, <1>2, PublishOpens, OpensThen DEF live_fault_demo, live_diagnostics_demo

LEMMA LatencyOpens == Opens(bench_latency)
  <1>1. {Topic("pong"), Subscriber, Reader("reader"), Read("reader")} \subseteq Builds
    BY Zenon, CreateTyped, ReadTyped DEF Names, Topic, Subscriber, Reader
  <1>2. <<Topic("pong"), Subscriber, Reader("reader"), Read("reader")>> \in Seq(Builds)
    BY <1>1
  <1> QED
    BY Zenon, <1>2, PublishOpens, OpensThen DEF bench_latency

LEMMA TenAreList ==
    ASSUME NEW S, NEW a \in S, NEW b \in S, NEW c \in S, NEW d \in S, NEW e \in S,
           NEW f \in S, NEW g \in S, NEW h \in S, NEW i \in S, NEW j \in S
    PROVE  <<a, b, c, d, e, f, g, h, i, j>> \in Seq(S)
  OBVIOUS

LEMMA ElevenAreList ==
    ASSUME NEW S, NEW a \in S, NEW b \in S, NEW c \in S, NEW d \in S, NEW e \in S,
           NEW f \in S, NEW g \in S, NEW h \in S, NEW i \in S, NEW j \in S, NEW k \in S
    PROVE  <<a, b, c, d, e, f, g, h, i, j, k>> \in Seq(S)
  OBVIOUS

LEMMA ActionOpens == Opens(live_action_demo)
  <1> DEFINE t == <<Replier("send_goal"), Replier("cancel_goal"), Replier("get_result"),
                    Publisher, Topic("feedback"), Writer("feedback writer"),
                    Topic("status"), Writer("status writer"),
                    Read("send_goal"), Read("cancel_goal"), Read("get_result")>>
  <1>1. {Replier("send_goal"), Replier("cancel_goal"), Replier("get_result"), Publisher}
          \subseteq Builds
    BY Zenon, CreateTyped DEF Names, Replier, Publisher
  <1>2. {Topic("feedback"), Writer("feedback writer"), Topic("status"), Writer("status writer")}
          \subseteq Builds
    BY Zenon, CreateTyped DEF Names, Topic, Writer
  <1>3. {Read("send_goal"), Read("cancel_goal"), Read("get_result")} \subseteq Builds
    BY Zenon, ReadTyped DEF Names
  <1>4. t \in Seq(Builds)
    BY Zenon, <1>1, <1>2, <1>3, ElevenAreList
  <1> QED
    BY Zenon, <1>4, OpenOpens, OpensThen DEF live_action_demo

LEMMA PriorityOpens == Opens(live_priority_demo)
  <1> DEFINE t == <<Subscriber, Topic("high"), Reader("high reader"), Read("high reader"),
                    Topic("low"), Reader("low reader"), Read("low reader"),
                    Publisher, Topic("topic"), Writer("writer")>>
  <1>1. {Subscriber, Topic("high"), Reader("high reader"), Topic("low"), Reader("low reader")}
          \subseteq Builds
    BY Zenon, CreateTyped DEF Names, Subscriber, Topic, Reader
  <1>2. {Publisher, Topic("topic"), Writer("writer")} \subseteq Builds
    BY Zenon, CreateTyped DEF Names, Publisher, Topic, Writer
  <1>3. {Read("high reader"), Read("low reader")} \subseteq Builds
    BY Zenon, ReadTyped DEF Names
  <1>4. t \in Seq(Builds)
    BY Zenon, <1>1, <1>2, <1>3, TenAreList
  <1> QED
    BY Zenon, <1>4, OpenOpens, OpensThen DEF live_priority_demo

LEMMA DeleteShaped == Shaped(live_delete_demo)
  <1> DEFINE t == <<Delete("writer"), Delete("publisher"), Delete("topic")>>
             s == live_publish_demo
  <1>1. {Delete("writer"), Delete("publisher"), Delete("topic")} \subseteq Removes
    BY Zenon, DeleteTyped DEF Names
  <1>2. t \in Seq(Removes)
    BY <1>1
  <1>3. /\ Builds \subseteq Item /\ Removes \subseteq Item
        /\ (\A x \in Builds : x.op # "delete") /\ \A x \in Removes : x.op # "create"
    BY DEF Builds, Removes
  <1>4. s \in Seq(Builds) /\ Len(s) > 0 /\ s[1].op = "client"
    BY PublishOpens DEF Opens
  <1>5. live_delete_demo = s \o t
    BY DEF live_delete_demo
  <1> HIDE DEF s, t
  <1>6. s \in Seq(Item) /\ t \in Seq(Item)
    BY <1>2, <1>3, <1>4
  <1>7. s \o t \in Seq(Item) /\ Len(s \o t) = Len(s) + Len(t)
        /\ \A i \in 1 .. Len(s) + Len(t) :
             (s \o t)[i] = IF i <= Len(s) THEN s[i] ELSE t[i - Len(s)]
    BY <1>6, ConcatProperties
  <1>8. Len(s) \in Nat /\ Len(t) \in Nat
        /\ (\A i \in 1 .. Len(s) : s[i] \in Builds) /\ \A i \in 1 .. Len(t) : t[i] \in Removes
    BY <1>2, <1>4
  <1>9. /\ \A i \in 1 .. Len(s \o t) : i <= Len(s) => (s \o t)[i].op # "delete"
        /\ \A i \in 1 .. Len(s \o t) : ~(i <= Len(s)) => (s \o t)[i].op # "create"
    BY <1>3, <1>7, <1>8
  <1>10. Len(s \o t) > 0 /\ (s \o t)[1].op = "client"
    BY <1>4, <1>7, <1>8
  <1> QED
    BY <1>5, <1>7, <1>8, <1>9, <1>10 DEF Shaped

LEMMA HostShaped == program \in Programs /\ ~Announces => Shaped(Steps(program))
  <1> SUFFICES ASSUME program \in Programs, ~Announces PROVE Shaped(Steps(program))
    OBVIOUS
  <1>1. CASE program \in DOMAIN Retry
    <2>1. DOMAIN Retry = {"bench_qos"} /\ Retry["bench_qos"] = bench_qos
      BY DEF Retry
    <2>2. program \notin DOMAIN Once
      BY <1>1, <2>1 DEF Once
    <2>3. Steps(program) = bench_qos
      BY <1>1, <2>1, <2>2 DEF Steps, Announces
    <2> QED
      BY <2>3, PublishOpens, OpensShaped DEF bench_qos, live_publish_demo
  <1>2. CASE program \in DOMAIN Once
    <2>1. Steps(program) = Once[program]
      BY <1>2 DEF Steps, Once, Retry, Announce
    <2>2. \A p \in DOMAIN Once : Shaped(Once[p])
      BY PublishOpens, SubscribeOpens, ServiceOpens, ActionOpens, PriorityOpens, FaultOpens,
         LatencyOpens, OpensShaped, DeleteShaped DEF Once
    <2> QED
      BY <1>2, <2>1, <2>2
  <1> QED
    BY <1>1, <1>2 DEF Programs, Announces

-----------------------------------------------------------------------------
(* Opening a session: what is under way *)

Request == [run : Nat, step : Item, seq : Int]
Answer == [kind : {"status_agent", "status", "data"}, status : {"ok", "exists", "error"}]
Last == Len(Steps(program))

\* The properties are about the programs that wait for their answers.
SessionTyped ==
    /\ program \in Programs
    /\ ~Announces =>
         /\ run \in Nat /\ out_seq_num \in Int
         /\ phase \in {"send", "wait", "ready", "failed"}
         /\ pc \in 1 .. Last + 1 /\ (phase \in {"send", "wait"} => pc <= Last)
         /\ toAgent \in Seq(Request) /\ toClient \in Seq(Answer)

LEMMA HostSteps ==
    ASSUME SessionTyped, ~Announces
    PROVE  /\ Last \in Nat /\ Last >= 1 /\ DOMAIN Steps(program) = 1 .. Last
           /\ \A k \in 1 .. Last : Steps(program)[k] \in Item
           /\ Steps(program)[1].op = "client"
           /\ \A i, j \in 1 .. Last : i < j /\ Steps(program)[i].op = "delete"
                                        => Steps(program)[j].op # "create"
  <1>1. Shaped(Steps(program))
    BY HostShaped DEF SessionTyped
  <1> QED
    BY <1>1 DEF Shaped, Last

\* Lists of messages.
LEMMA MessageSent ==
    ASSUME NEW S, NEW q \in Seq(S), NEW m \in S
    PROVE  /\ Append(q, m) \in Seq(S) /\ Len(Append(q, m)) = Len(q) + 1 /\ Len(q) \in Nat
           /\ \A i \in 1 .. Len(q) : Append(q, m)[i] = q[i]
           /\ Append(q, m)[Len(q) + 1] = m
  OBVIOUS

LEMMA MessageTaken ==
    ASSUME NEW S, NEW q \in Seq(S), q # <<>>
    PROVE  /\ Tail(q) \in Seq(S) /\ Len(Tail(q)) = Len(q) - 1 /\ Len(q) \in Nat /\ Len(q) >= 1
           /\ \A i \in 1 .. Len(q) - 1 : Tail(q)[i] = q[i + 1]
           /\ Head(q) = q[1] /\ q[1] \in S
  BY HeadTailProperties, EmptySeq

LEMMA NoMessage ==
    ASSUME NEW S, NEW q \in Seq(S)
    PROVE  (q = <<>>) <=> (Len(q) = 0)
  BY EmptySeq

LEMMA SessionInit == Init => SessionTyped
  <1> SUFFICES ASSUME Init PROVE SessionTyped
    OBVIOUS
  <1>1. /\ program \in Programs /\ run = 1 /\ pc = 1 /\ phase = "send" /\ out_seq_num = 0
        /\ toAgent = <<>> /\ toClient = <<>>
    BY DEF Init
  <1>2. ~Announces => Last \in Nat /\ Last >= 1
    BY <1>1, HostShaped DEF Shaped, Last
  <1> QED
    BY <1>1, <1>2 DEF SessionTyped

\* program never changes, nor what depends on nothing else.
LEMMA SameProgram ==
    ASSUME [Next]_vars
    PROVE  program' = program /\ Announces' = Announces /\ Last' = Last
           /\ Steps(program') = Steps(program) /\ \A k, op : Before(k, op)' = Before(k, op)
  <1>1. program' = program
    BY DEF Next, vars, client, send_request, recv_reply, recv_timeout, announce_entities,
           restart, drop, attach, agent_receive, agent_sample, Finished
  <1> QED
    BY <1>1 DEF Announces, Last, Before, Steps

LEMMA BuiltRequest ==
    ASSUME SessionTyped, ~Announces, pc <= Last, Build
    PROVE  /\ Step \in Item
           /\ \E m \in Request : /\ toAgent' = Append(toAgent, m) /\ toAgent' \in Seq(Request)
                                 /\ m.run = run /\ m.step = Step /\ m.seq = out_seq_num
           /\ out_seq_num' \in Int
  <1>1. Step \in Item
    BY HostSteps DEF Step, SessionTyped
  <1> DEFINE m == [run |-> run, step |-> Step, seq |-> out_seq_num]
  <1>2. m \in Request /\ m.run = run /\ m.step = Step /\ m.seq = out_seq_num
    BY <1>1 DEF Request, SessionTyped
  <1>3. toAgent' = Append(toAgent, m)
    BY DEF Build
  <1> HIDE DEF m
  <1>4. toAgent' \in Seq(Request)
    BY <1>2, <1>3, MessageSent DEF SessionTyped
  <1>5. out_seq_num' \in Int
    BY SMTT(30), SessionAssumption DEF Build, NextSeq, SessionTyped
  <1> QED
    BY <1>1, <1>2, <1>3, <1>4, <1>5
LEMMA SessionNextStep ==
    ASSUME SessionTyped, ~Announces, phase \in {"send", "wait"}, NextStep
    PROVE  /\ pc' = pc + 1 /\ pc' \in 2 .. Last + 1 /\ phase' \in {"send", "ready"}
           /\ phase' = "send" => pc' <= Last
  BY HostSteps DEF SessionTyped, NextStep, Last

LEMMA SessionNoAnswer ==
    ASSUME NoAnswer
    PROVE  /\ pc' = pc /\ phase' \in {"send", "failed"}
           /\ phase' = "send" => program \in DOMAIN Retry
  BY DEF NoAnswer

LEMMA SessionReply ==
    ASSUME SessionTyped, ~Announces, NEW m, NEW kind \in {"status_agent", "status"},
           NEW status \in {"ok", "exists", "error"}, Reply(m, kind, status)
    PROVE  /\ toClient' \in Seq(Answer)
           /\ m.run # run => toClient' = toClient
           /\ m.run = run =>
                \E a \in Answer : toClient' = Append(toClient, a) /\ a.kind = kind /\ a.status = status
  <1> DEFINE a == [kind |-> kind, status |-> status]
  <1>1. a \in Answer /\ a.kind = kind /\ a.status = status
    BY DEF Answer
  <1>2. toClient' = IF m.run = run THEN Append(toClient, a) ELSE toClient
    BY DEF Reply
  <1> HIDE DEF a
  <1> QED
    BY <1>1, <1>2, MessageSent DEF SessionTyped

\* What the agent makes of a message, whatever it is: its answer, and its entities.
LEMMA AgentHandles ==
    ASSUME SessionTyped, ~Announces, agent_receive, NEW m, m = Head(toAgent)
    PROVE  /\ toAgent # <<>> /\ toAgent' = Tail(toAgent) /\ toClient' \in Seq(Answer)
           /\ UNCHANGED <<program, run, pc, attempt, phase, out_seq_num, attached, drops, late>>
           /\ m.step.op = "read" \/ m.run # run => toClient' = toClient
           /\ \/ toClient' = toClient
              \/ /\ m.run = run /\ m.step.op # "read"
                 /\ \E a \in Answer :
                      /\ toClient' = Append(toClient, a) /\ a.kind # "data"
                      /\ a.status # "error" =>
                           /\ m.step.op = "create" => m.step.obj \in exists'
                           /\ m.step.op = "delete" => m.step.obj \notin exists'
           /\ \/ exists' = exists
              \/ m.step.op = "create" /\ exists' = exists \union {m.step.obj}
              \/ m.step.op = "delete" /\ exists' = exists \ {m.step.obj}
           /\ reading' \subseteq reading \union (IF m.step.op = "read" THEN {m.step.obj} ELSE {})
  <1>1. /\ toAgent # <<>> /\ toAgent' = Tail(toAgent)
        /\ UNCHANGED <<program, run, pc, attempt, phase, out_seq_num, attached, drops, late>>
    BY DEF agent_receive, client
  <1>2. CASE UNCHANGED <<agent, toClient>>
    BY <1>1, <1>2 DEF agent, SessionTyped
  <1>3. CASE agent_create_client(m)
    <2>1. m.step.op = "client" /\ Reply(m, "status_agent", "ok") /\ UNCHANGED <<exists, reading>>
      BY <1>3 DEF agent_create_client
    <2>2. /\ toClient' \in Seq(Answer)
          /\ m.run # run => toClient' = toClient
          /\ m.run = run => \E a \in Answer : /\ toClient' = Append(toClient, a)
                                              /\ a.kind = "status_agent" /\ a.status = "ok"
      BY <2>1, SessionReply
    <2> QED
      BY <1>1, <2>1, <2>2
  <1>4. CASE agent_create(m)
    <2>1. m.step.op = "create" /\ reading' = reading
      BY <1>4 DEF agent_create
    <2>2. PICK status \in {"ok", "exists", "error"} :
            /\ Reply(m, "status", status) /\ exists' \in {exists, exists \union {m.step.obj}}
            /\ status # "error" => m.step.obj \in exists'
      BY <1>4 DEF agent_create
    <2>3. /\ toClient' \in Seq(Answer)
          /\ m.run # run => toClient' = toClient
          /\ m.run = run => \E a \in Answer : /\ toClient' = Append(toClient, a)
                                              /\ a.kind = "status" /\ a.status = status
      BY <2>2, SessionReply
    <2> QED
      BY <1>1, <2>1, <2>2, <2>3
  <1>5. CASE agent_delete(m)
    <2>1. /\ m.step.op = "delete" /\ exists' = exists \ {m.step.obj}
          /\ reading' = reading \ {m.step.obj}
      BY <1>5 DEF agent_delete
    <2>2. PICK status \in {"ok", "error"} : Reply(m, "status", status)
      BY <1>5 DEF agent_delete
    <2>3. /\ toClient' \in Seq(Answer)
          /\ m.run # run => toClient' = toClient
          /\ m.run = run => \E a \in Answer : /\ toClient' = Append(toClient, a)
                                              /\ a.kind = "status" /\ a.status = status
      BY <2>2, SessionReply
    <2> QED
      BY <1>1, <2>1, <2>2, <2>3
  <1>6. CASE agent_read(m)
    <2>1. m.step.op = "read" /\ UNCHANGED <<exists, toClient>>
          /\ reading' \subseteq reading \union {m.step.obj}
      BY <1>6 DEF agent_read
    <2> QED
      BY <1>1, <2>1 DEF SessionTyped
  <1> QED
    BY Zenon, <1>2, <1>3, <1>4, <1>5, <1>6 DEF agent_receive, agent_ignore

LEMMA SessionStep == SessionTyped /\ [Next]_vars => SessionTyped'
  <1> SUFFICES ASSUME SessionTyped, [Next]_vars, ~Announces PROVE SessionTyped'
    BY SameProgram DEF SessionTyped
  <1>1. program' = program /\ ~Announces' /\ Last' = Last
    BY SameProgram
  <1>2. CASE send_request
    <2>1. /\ phase = "send" /\ pc <= Last /\ Build /\ UNCHANGED <<run, toClient>>
          /\ (phase' = "wait" /\ pc' = pc) \/ NextStep
      BY <1>2 DEF send_request, SessionTyped
    <2>2. toAgent' \in Seq(Request) /\ out_seq_num' \in Int
      BY <2>1, BuiltRequest
    <2> QED
      BY <1>1, <2>1, <2>2, SessionNextStep DEF SessionTyped
  <1>3. CASE recv_reply
    <2>1. /\ phase = "wait" /\ pc <= Last /\ toClient # <<>> /\ toClient' = Tail(toClient)
          /\ UNCHANGED <<run, out_seq_num, toAgent>> /\ (NextStep \/ NoAnswer)
      BY <1>3 DEF recv_reply, SessionTyped
    <2>2. toClient' \in Seq(Answer)
      BY <2>1, MessageTaken DEF SessionTyped
    <2> QED
      BY <1>1, <2>1, <2>2, SessionNextStep, SessionNoAnswer DEF SessionTyped
  <1>4. CASE recv_timeout
    <2>1. /\ phase = "wait" /\ pc <= Last /\ NoAnswer
          /\ UNCHANGED <<run, out_seq_num, toAgent, toClient>>
      BY <1>4 DEF recv_timeout, SessionTyped
    <2> QED
      BY <1>1, <2>1, SessionNoAnswer DEF SessionTyped
  <1>5. CASE restart
    <2>1. /\ run' = run + 1 /\ pc' = 1 /\ phase' = "send" /\ out_seq_num' = 0 /\ toClient' = <<>>
          /\ toAgent' = toAgent
      BY <1>5 DEF restart
    <2> QED
      BY <1>1, <2>1, HostSteps DEF SessionTyped
  <1>6. CASE drop
    <2>1. UNCHANGED <<run, pc, phase, out_seq_num>>
          /\ \/ toAgent # <<>> /\ toAgent' = Tail(toAgent) /\ toClient' = toClient
             \/ toClient # <<>> /\ toClient' = Tail(toClient) /\ toAgent' = toAgent
      BY <1>6 DEF drop, client
    <2>2. toAgent' \in Seq(Request) /\ toClient' \in Seq(Answer)
      BY Zenon, <2>1, MessageTaken DEF SessionTyped
    <2> QED
      BY <1>1, <2>1, <2>2 DEF SessionTyped
  <1>7. CASE agent_receive
    <2>1. /\ toAgent # <<>> /\ toAgent' = Tail(toAgent) /\ toClient' \in Seq(Answer)
          /\ UNCHANGED <<run, pc, phase, out_seq_num>>
      BY <1>7, AgentHandles
    <2>2. toAgent' \in Seq(Request)
      BY <2>1, MessageTaken DEF SessionTyped
    <2> QED
      BY <1>1, <2>1, <2>2 DEF SessionTyped
  <1>8. CASE agent_sample
    <2>1. UNCHANGED <<run, pc, phase, out_seq_num, toAgent>>
          /\ toClient' = <<[kind |-> "data", status |-> "ok"]>>
      BY <1>8 DEF agent_sample, client
    <2>2. [kind |-> "data", status |-> "ok"] \in Answer
      BY DEF Answer
    <2>3. toClient' \in Seq(Answer)
      BY <2>1, <2>2
    <2> QED
      BY <1>1, <2>1, <2>3 DEF SessionTyped
  <1>9. CASE attach \/ UNCHANGED vars
    <2>1. UNCHANGED <<run, pc, phase, out_seq_num, toAgent, toClient>>
      BY <1>9 DEF attach, vars, client
    <2> QED
      BY <1>1, <2>1 DEF SessionTyped
  <1> QED
    BY <1>2, <1>3, <1>4, <1>5, <1>6, <1>7, <1>8, <1>9 DEF Next, announce_entities, Finished

-----------------------------------------------------------------------------
(* Opening a session: what is acknowledged holds *)

\* AcknowledgedHolds for the program at step k and the entities ex.
Holds(k, ex) == Created(k) \subseteq ex /\ Before(k, "delete") \intersect ex = {}

LEMMA BeforeGrows ==
    ASSUME SessionTyped, ~Announces, NEW k \in 1 .. Last, NEW op
    PROVE  /\ Steps(program)[k].op = op => Before(k + 1, op) = Before(k, op) \union {Steps(program)[k].obj}
           /\ Steps(program)[k].op # op => Before(k + 1, op) = Before(k, op)
  <1>1. DOMAIN Steps(program) = 1 .. Last /\ Last \in Nat
    BY HostSteps
  <1>2. \A j \in 1 .. Last : j < k + 1 <=> j < k \/ j = k
    BY <1>1
  <1> QED
    BY <1>1, <1>2 DEF Before

LEMMA BeforeMonotonic ==
    ASSUME SessionTyped, ~Announces, NEW k \in Int, NEW op
    PROVE  Before(k, op) \subseteq Before(k + 1, op)
  <1>1. DOMAIN Steps(program) = 1 .. Last /\ Last \in Nat
    BY HostSteps
  <1>2. \A j \in 1 .. Last : j < k => j < k + 1
    BY <1>1
  <1> QED
    BY <1>1, <1>2 DEF Before

LEMMA NothingBefore ==
    ASSUME SessionTyped, ~Announces, NEW op
    PROVE  Before(1, op) = {}
  <1>1. DOMAIN Steps(program) = 1 .. Last /\ Last \in Nat
    BY HostSteps
  <1>2. \A j \in 1 .. Last : ~(j < 1)
    BY <1>1
  <1> QED
    BY <1>1, <1>2 DEF Before

LEMMA HoldsAtStart ==
    ASSUME SessionTyped, ~Announces, NEW ex
    PROVE  Holds(1, ex)
  BY NothingBefore DEF Holds, Created

\* The step has been done: the next one begins.
LEMMA HoldsAdvances ==
    ASSUME SessionTyped, ~Announces, NEW k \in 1 .. Last, NEW ex, Holds(k, ex),
           Steps(program)[k].op = "create" => Steps(program)[k].obj \in ex,
           Steps(program)[k].op = "delete" => Steps(program)[k].obj \notin ex
    PROVE  Holds(k + 1, ex)
  <1>1. k \in Int /\ k + 1 \in Int
    BY HostSteps
  <1>2. Before(k + 1, "delete") \subseteq Before((k + 1) + 1, "delete")
    BY <1>1, BeforeMonotonic
  <1>3. Before(k + 1, "create") \subseteq Before(k, "create") \union ex
    BY BeforeGrows
  <1>4. Before(k + 1, "delete") \intersect ex = {}
    BY BeforeGrows DEF Holds
  <1> QED
    BY <1>2, <1>3, <1>4 DEF Holds, Created

\* The agent does what the step asks for, though the program has not been told yet.
LEMMA HoldsWhenDone ==
    ASSUME SessionTyped, ~Announces, NEW k \in 1 .. Last, NEW ex, Holds(k, ex), NEW left,
           \/ Steps(program)[k].op = "create" /\ left = ex \union {Steps(program)[k].obj}
           \/ Steps(program)[k].op = "delete" /\ left = ex \ {Steps(program)[k].obj}
    PROVE  Holds(k, left)
  <1>1. CASE Steps(program)[k].op = "create" /\ left = ex \union {Steps(program)[k].obj}
    <2>1. DOMAIN Steps(program) = 1 .. Last
          /\ \A j \in 1 .. Last : j < k => Steps(program)[j].op # "delete"
      BY <1>1, HostSteps
    <2>2. Before(k, "delete") = {}
      BY <2>1 DEF Before
    <2> QED
      BY <1>1, <2>2 DEF Holds
  <1>2. CASE Steps(program)[k].op = "delete" /\ left = ex \ {Steps(program)[k].obj}
    <2>1. Steps(program)[k].obj \in Before(k + 1, "delete")
      BY <1>2, BeforeGrows
    <2> QED
      BY <1>2, <2>1 DEF Holds, Created
  <1> QED
    BY <1>1, <1>2

LEMMA HoldsPrimed ==
    ASSUME program' = program, NEW k, NEW ex, pc' = k, exists' = ex, Holds(k, ex)
    PROVE  Holds(pc, exists)'
  BY DEF Holds, Created, Before

Retries == program \in DOMAIN Retry
Trusted == ~Announces /\ (Retries => ~late)

\* Message i on its way to the agent cannot undo what is acknowledged: it asks for samples,
\* or is the request of the current step.
Current(i) ==
    \/ toAgent[i].step.op = "read"
    \/ /\ i = Len(toAgent) /\ pc <= Last /\ phase \in {"wait", "failed"}
       /\ toAgent[i].step = Step /\ toAgent[i].run = run

StepDone ==
    /\ Step.op = "create" => Step.obj \in exists
    /\ Step.op = "delete" => Step.obj \notin exists

\* Messages of an earlier run are still on their way only before CREATE_CLIENT is answered;
\* and once an answer is on its way, nothing is on its way to the agent.
AckInv ==
    Trusted =>
      /\ \A i \in 1 .. Len(toAgent) :
           /\ toAgent[i].run <= run
           /\ toAgent[i].run = run \/ pc > 1 => Current(i)
           /\ Retries => toAgent[i].step.op # "read"
      /\ Retries => reading = {} /\ \A i \in 1 .. Len(toClient) : toClient[i].kind # "data"
      /\ phase = "send" => toClient = <<>>
      /\ phase = "wait" =>
           \A i \in 1 .. Len(toClient) : toClient[i].kind # "data" =>
              /\ i = Len(toClient) /\ toAgent = <<>>
              /\ toClient[i].status # "error" => StepDone
      /\ Holds(pc, exists)

LEMMA AckHolds == AckInv => AcknowledgedHolds
  BY DEF AckInv, Trusted, Retries, AcknowledgedHolds, Holds

LEMMA AckInit == Init => AckInv
  <1> SUFFICES ASSUME Init, ~Announces PROVE AckInv
    BY DEF AckInv, Trusted
  <1>1. /\ pc = 1 /\ phase = "send" /\ toAgent = <<>> /\ toClient = <<>> /\ reading = {}
        /\ Len(toAgent) = 0 /\ Len(toClient) = 0
    BY DEF Init
  <1>2. Holds(pc, exists)
    BY <1>1, SessionInit, HoldsAtStart
  <1> QED
    BY <1>1, <1>2 DEF AckInv
LEMMA QosList ==
    /\ Len(bench_qos) = 5 /\ bench_qos[1] = Client
    /\ bench_qos[2] = Create("participant", "none") /\ bench_qos[3] = Topic("topic")
    /\ bench_qos[4] = Publisher /\ bench_qos[5] = Writer("writer")
  <1> DEFINE t == <<Topic("topic"), Publisher, Writer("writer")>>
  <1>1. /\ Open \in Seq(Builds) /\ Len(Open) = 2
        /\ Open[1] = Client /\ Open[2] = Create("participant", "none")
    BY OpenBuilds DEF Open
  <1>2. {Topic("topic"), Publisher, Writer("writer")} \subseteq Builds
    BY Zenon, CreateTyped DEF Names, Topic, Publisher, Writer
  <1>3. /\ t \in Seq(Builds) /\ Len(t) = 3
        /\ t[1] = Topic("topic") /\ t[2] = Publisher /\ t[3] = Writer("writer")
    BY <1>2
  <1>4. bench_qos = Open \o t
    BY DEF bench_qos
  <1> HIDE DEF t
  <1>5. /\ Len(Open \o t) = Len(Open) + Len(t)
        /\ \A i \in 1 .. Len(Open) + Len(t) :
             (Open \o t)[i] = IF i <= Len(Open) THEN Open[i] ELSE t[i - Len(Open)]
    BY Zenon, <1>1, <1>3, ConcatProperties
  <1>6. /\ Len(bench_qos) = 5
        /\ bench_qos[1] = Open[1] /\ bench_qos[2] = Open[2]
        /\ bench_qos[3] = t[1] /\ bench_qos[4] = t[2] /\ bench_qos[5] = t[3]
    BY <1>1, <1>3, <1>4, <1>5
  <1> QED
    BY <1>1, <1>3, <1>6

LEMMA RetrySteps ==
    ASSUME SessionTyped, Retries
    PROVE  /\ ~Announces /\ Steps(program) = bench_qos
           /\ \A k \in 1 .. Last : Steps(program)[k].op \in {"client", "create"}
  <1>1. DOMAIN Retry = {"bench_qos"} /\ Retry["bench_qos"] = bench_qos /\ program = "bench_qos"
    BY DEF Retry, Retries
  <1>2. program \notin DOMAIN Once /\ program \notin DOMAIN Announce
    BY <1>1 DEF Once, Announce
  <1>3. Steps(program) = bench_qos /\ ~Announces
    BY <1>1, <1>2 DEF Steps, Announces
  <1>4. \A i \in 1 .. 5 : bench_qos[i].op \in {"client", "create"}
    <2>1. \A i \in 1 .. 5 : i \in {1, 2, 3, 4, 5}
      OBVIOUS
    <2> QED
      BY <2>1, QosList DEF Client, Create, Topic, Publisher, Writer
  <1> QED
    BY <1>3, <1>4, QosList DEF Last

\* The messages that are left when the oldest is gone.
LEMMA CurrentTail ==
    ASSUME SessionTyped, ~Announces, toAgent # <<>>, toAgent' = Tail(toAgent),
           UNCHANGED <<program, run, pc, phase>>,
           \A i \in 1 .. Len(toAgent) :
             /\ toAgent[i].run <= run
             /\ toAgent[i].run = run \/ pc > 1 => Current(i)
             /\ Retries => toAgent[i].step.op # "read"
    PROVE  \A i \in 1 .. Len(toAgent') :
             /\ toAgent'[i].run <= run'
             /\ toAgent'[i].run = run' \/ pc' > 1 => Current(i)'
             /\ Retries' => toAgent'[i].step.op # "read"
  <1> SUFFICES ASSUME NEW i \in 1 .. Len(toAgent')
               PROVE  /\ toAgent'[i].run <= run'
                      /\ toAgent'[i].run = run' \/ pc' > 1 => Current(i)'
                      /\ Retries' => toAgent'[i].step.op # "read"
    OBVIOUS
  <1>1. /\ Len(toAgent') = Len(toAgent) - 1 /\ Len(toAgent) \in Nat
        /\ \A j \in 1 .. Len(toAgent) - 1 : toAgent'[j] = toAgent[j + 1]
    BY MessageTaken DEF SessionTyped
  <1>2. i + 1 \in 1 .. Len(toAgent) /\ toAgent'[i] = toAgent[i + 1]
        /\ (i + 1 = Len(toAgent) => i = Len(toAgent'))
    <2>1. i \in 1 .. Len(toAgent) - 1
      BY <1>1
    <2>2. toAgent'[i] = toAgent[i + 1]
      BY <1>1, <2>1
    <2>3. i + 1 \in 1 .. Len(toAgent) /\ (i + 1 = Len(toAgent) => i = Len(toAgent'))
      <3>1. PICK n \in Nat : n = Len(toAgent)
        BY <1>1
      <3>2. i \in 1 .. n - 1 /\ Len(toAgent') = n - 1
        BY <1>1, <2>1, <3>1
      <3>3. i + 1 \in 1 .. n
        BY <3>2
      <3>4. i + 1 = n => i = n - 1
        BY <3>2
      <3> QED
        BY <3>1, <3>2, <3>3, <3>4
    <2> QED
      BY <2>2, <2>3
  <1>3. Last' = Last /\ Step' = Step /\ Retries' = Retries
    BY DEF Last, Step, Retries
  <1>4. Current(i + 1) => Current(i)'
    BY <1>2, <1>3 DEF Current
  <1> QED
    BY <1>2, <1>3, <1>4

LEMMA AckSend ==
    ASSUME SessionTyped, AckInv, Trusted, send_request
    PROVE  AckInv'
  <1>1. /\ ~Announces /\ phase = "send" /\ pc \in 1 .. Last /\ Build
        /\ UNCHANGED <<program, run, toClient, exists, reading, late>>
    BY HostSteps DEF send_request, agent, Trusted, SessionTyped
  <1>2. PICK m \in Request : /\ toAgent' = Append(toAgent, m) /\ toAgent' \in Seq(Request)
                             /\ m.run = run /\ m.step = Step /\ m.seq = out_seq_num
    BY <1>1, BuiltRequest
  <1>3. /\ Len(toAgent') = Len(toAgent) + 1 /\ Len(toAgent) \in Nat
        /\ \A i \in 1 .. Len(toAgent) : toAgent'[i] = toAgent[i]
        /\ toAgent'[Len(toAgent) + 1] = m
    BY <1>2, MessageSent DEF SessionTyped
  <1>4. toClient' = <<>> /\ Len(toClient') = 0
    BY <1>1 DEF AckInv
  <1>5. Retries' = Retries /\ Last' = Last /\ Holds(pc, exists)
    BY <1>1 DEF Retries, Last, AckInv
  <1>6. \A i \in 1 .. Len(toAgent) :
          /\ toAgent[i].run <= run
          /\ toAgent[i].run = run \/ pc > 1 => toAgent[i].step.op = "read"
          /\ Retries => toAgent[i].step.op # "read"
    BY <1>1 DEF AckInv, Current
  <1>7. CASE Answered(Step) /\ phase' = "wait" /\ pc' = pc
    <2>1. Step' = Step
      BY <1>1, <1>7 DEF Step
    <2>2. Step.op # "read"
      BY <1>7 DEF Answered
    <2>3. \A i \in 1 .. Len(toAgent') :
            /\ toAgent'[i].run <= run'
            /\ toAgent'[i].run = run' \/ pc' > 1 => Current(i)'
            /\ Retries' => toAgent'[i].step.op # "read"
      <3> SUFFICES ASSUME NEW i \in 1 .. Len(toAgent')
                   PROVE  /\ toAgent'[i].run <= run'
                          /\ toAgent'[i].run = run' \/ pc' > 1 => Current(i)'
                          /\ Retries' => toAgent'[i].step.op # "read"
        OBVIOUS
      <3>1. CASE i \in 1 .. Len(toAgent)
        BY <1>1, <1>3, <1>5, <1>6, <1>7, <3>1 DEF Current
      <3>2. CASE i = Len(toAgent) + 1
        <4>1. toAgent'[i] = m /\ i = Len(toAgent') /\ m.run <= run
          BY <1>2, <1>3, <3>2 DEF SessionTyped, Trusted
        <4>2. Current(i)'
          BY <1>1, <1>2, <1>5, <1>7, <2>1, <4>1 DEF Current
        <4> QED
          BY <1>1, <1>2, <2>2, <4>1, <4>2
      <3> QED
        BY <1>3, <3>1, <3>2
    <2>4. Holds(pc, exists)'
      BY <1>1, <1>5, <1>7, HoldsPrimed
    <2> QED
      BY <1>1, <1>4, <1>5, <1>7, <2>3, <2>4 DEF AckInv
  <1>8. CASE ~Answered(Step) /\ NextStep
    <2>1. pc' = pc + 1 /\ pc' > 1
      BY <1>1, <1>8, SessionNextStep
    <2>2. Step.op = "read"
      BY <1>1, <1>2, <1>8, HostSteps DEF Answered, Request, Item, Ops
    <2>3. pc > 1 /\ ~Retries
      BY <1>1, <2>2, HostSteps, RetrySteps DEF Step
    <2>4. \A i \in 1 .. Len(toAgent') : toAgent'[i].run <= run' /\ toAgent'[i].step.op = "read"
      <3> SUFFICES ASSUME NEW i \in 1 .. Len(toAgent')
                   PROVE  toAgent'[i].run <= run' /\ toAgent'[i].step.op = "read"
        OBVIOUS
      <3>1. CASE i \in 1 .. Len(toAgent)
        BY <1>1, <1>3, <1>6, <2>3, <3>1
      <3>2. CASE i = Len(toAgent) + 1
        BY <1>1, <1>2, <1>3, <2>2, <3>2 DEF SessionTyped
      <3> QED
        BY <1>3, <3>1, <3>2
    <2>5. Holds(pc + 1, exists)
      BY <1>1, <1>5, <2>2, HoldsAdvances DEF Step
    <2>6. Holds(pc, exists)'
      BY <1>1, <2>1, <2>5, HoldsPrimed
    <2> QED
      BY <1>4, <1>5, <2>3, <2>4, <2>6 DEF AckInv, Current
  <1> QED
    BY <1>7, <1>8 DEF send_request
\* Of an answer that the program accepts the agent has done what was asked.
LEMMA Accepted ==
    ASSUME Accepts(Head(toClient))
    PROVE  Head(toClient).kind # "data" /\ Head(toClient).status # "error"
  BY DEF Accepts, parse_create_client_reply, parse_status_reply, create_reply_ok_or_exists

LEMMA AckReceive ==
    ASSUME SessionTyped, AckInv, Trusted, recv_reply
    PROVE  AckInv'
  <1>1. /\ ~Announces /\ phase = "wait" /\ pc \in 1 .. Last /\ toClient # <<>>
        /\ toClient' = Tail(toClient)
        /\ UNCHANGED <<program, run, toAgent, exists, reading, late>>
    BY HostSteps DEF recv_reply, agent, Trusted, SessionTyped
  <1>2. /\ Len(toClient') = Len(toClient) - 1 /\ Len(toClient) \in Nat /\ Len(toClient) >= 1
        /\ \A j \in 1 .. Len(toClient) - 1 : toClient'[j] = toClient[j + 1]
        /\ Head(toClient) = toClient[1] /\ toClient' \in Seq(Answer)
    BY <1>1, MessageTaken DEF SessionTyped
  <1>3. Retries' = Retries /\ Last' = Last
    BY <1>1 DEF Retries, Last
  <1>4. toClient[1].kind # "data" =>
          /\ toAgent = <<>> /\ toClient' = <<>>
          /\ toClient[1].status # "error" => StepDone
    <2>1. 1 \in 1 .. Len(toClient)
      BY <1>2
    <2>2. toClient[1].kind # "data" =>
            /\ 1 = Len(toClient) /\ toAgent = <<>>
            /\ toClient[1].status # "error" => StepDone
      BY Zenon, <1>1, <2>1 DEF AckInv
    <2>3. Len(toClient) = 1 => toClient' = <<>>
      BY <1>2, NoMessage
    <2> QED
      BY <2>2, <2>3
  <1>5. CASE Accepts(Head(toClient)) /\ NextStep
    <2>1. toAgent' = <<>> /\ toClient' = <<>> /\ StepDone /\ Len(toAgent') = 0 /\ Len(toClient') = 0
      BY Zenon, <1>1, <1>2, <1>4, <1>5, Accepted
    <2>2. pc' = pc + 1
      BY <1>5 DEF NextStep
    <2>3. Holds(pc + 1, exists)
      BY <1>1, <2>1, HoldsAdvances DEF AckInv, StepDone, Step
    <2>4. Holds(pc, exists)'
      BY <1>1, <2>2, <2>3, HoldsPrimed
    <2>5. Retries' => reading' = {}
      BY Zenon, <1>1, <1>3 DEF AckInv
    <2>6. \A i \in 1 .. Len(toAgent') : FALSE
      BY <2>1
    <2>7. \A i \in 1 .. Len(toClient') : FALSE
      BY <2>1
    <2> HIDE <1>5
    <2> QED
      BY <2>1, <2>4, <2>5, <2>6, <2>7 DEF AckInv
  <1>6. CASE NoAnswer
    <2>1. pc' = pc /\ phase' \in {"send", "failed"} /\ (phase' = "send" => Retries)
      BY <1>6, SessionNoAnswer DEF Retries
    <2>2. Step' = Step
      BY <1>1, <2>1 DEF Step
    <2>3. Holds(pc, exists)'
      BY <1>1, <2>1, HoldsPrimed DEF AckInv
    <2>4. Retries => toAgent = <<>> /\ toClient' = <<>> /\ Len(toAgent) = 0
      <3>1. Retries => toClient[1].kind # "data"
        BY <1>2 DEF AckInv
      <3> QED
        BY <1>4, <3>1
    <2>5. \A i \in 1 .. Len(toAgent) : Current(i) /\ ~Retries => Current(i)'
      BY <1>1, <1>3, <2>1, <2>2 DEF Current
    <2>6. CASE Retries
      <3>1. Len(toAgent') = 0 /\ Len(toClient') = 0 /\ toClient' = <<>>
        BY Zenon, <1>1, <2>4, <2>6
      <3> QED
        BY <1>1, <1>3, <2>1, <2>3, <3>1 DEF AckInv
    <2>7. CASE ~Retries
      BY <1>1, <1>3, <2>1, <2>3, <2>5, <2>7 DEF AckInv
    <2> QED
      BY <2>6, <2>7
  <1> QED
    BY <1>5, <1>6 DEF recv_reply

LEMMA AckTimeout ==
    ASSUME SessionTyped, AckInv, Trusted, Trusted', recv_timeout
    PROVE  AckInv'
  <1>1. /\ ~Announces /\ phase = "wait" /\ pc \in 1 .. Last /\ NoAnswer
        /\ UNCHANGED <<program, run, toAgent, toClient, exists, reading>>
    BY HostSteps DEF recv_timeout, agent, Trusted, SessionTyped
  <1>2. pc' = pc /\ phase' \in {"send", "failed"} /\ (phase' = "send" => Retries)
    BY <1>1, SessionNoAnswer DEF Retries
  <1>3. Retries' = Retries /\ Last' = Last /\ Step' = Step
    BY <1>1, <1>2 DEF Retries, Last, Step
  <1>4. Retries => toAgent = <<>> /\ toClient = <<>>
    BY Zenon, <1>3 DEF recv_timeout, Trusted
  <1>5. Holds(pc, exists)'
    BY <1>1, <1>2, HoldsPrimed DEF AckInv
  <1>6. CASE Retries
    <2>1. Len(toAgent') = 0 /\ Len(toClient') = 0 /\ toClient' = <<>>
      BY <1>1, <1>4, <1>6
    <2> QED
      BY <1>1, <1>2, <1>3, <1>5, <2>1 DEF AckInv
  <1>7. CASE ~Retries
    <2>1. \A i \in 1 .. Len(toAgent) : Current(i) => Current(i)'
      BY <1>1, <1>2, <1>3, <1>7 DEF Current
    <2> QED
      BY <1>1, <1>2, <1>3, <1>5, <1>7, <2>1 DEF AckInv
  <1> QED
    BY <1>6, <1>7

LEMMA AckRestart ==
    ASSUME SessionTyped, AckInv, Trusted, restart
    PROVE  AckInv'
  <1>1. /\ ~Announces /\ run \in Nat /\ run' = run + 1 /\ pc' = 1 /\ phase' = "send"
        /\ toClient' = <<>> /\ Len(toClient') = 0
        /\ UNCHANGED <<program, toAgent, exists, reading>>
    BY DEF restart, agent, Trusted, SessionTyped
  <1>2. Retries' = Retries
    BY <1>1 DEF Retries
  <1>3. Holds(pc, exists)'
    BY <1>1, HoldsAtStart, HoldsPrimed
  <1>4. \A i \in 1 .. Len(toAgent) : toAgent[i].run \in Nat /\ toAgent[i].run <= run
    <2>1. \A i \in 1 .. Len(toAgent) : toAgent[i] \in Request
      BY <1>1 DEF SessionTyped
    <2> QED
      BY <2>1 DEF AckInv, Request
  <1>5. \A i \in 1 .. Len(toAgent') : /\ toAgent'[i].run <= run' /\ toAgent'[i].run # run'
                                      /\ Retries' => toAgent'[i].step.op # "read"
    BY <1>1, <1>2, <1>4 DEF AckInv
  <1> QED
    BY <1>1, <1>2, <1>3, <1>5 DEF AckInv
LEMMA AckDrop ==
    ASSUME SessionTyped, AckInv, Trusted, drop
    PROVE  AckInv'
  <1>1. /\ ~Announces /\ UNCHANGED <<program, run, pc, phase, exists, reading>>
        /\ \/ toAgent # <<>> /\ toAgent' = Tail(toAgent) /\ toClient' = toClient
           \/ toClient # <<>> /\ toClient' = Tail(toClient) /\ toAgent' = toAgent
    BY DEF drop, client, agent, Trusted
  <1>2. Retries' = Retries /\ Last' = Last /\ Step' = Step /\ StepDone' = StepDone
    BY <1>1 DEF Retries, Last, Step, StepDone
  <1>3. Holds(pc, exists)'
    BY <1>1, HoldsPrimed DEF AckInv
  <1>4. CASE toAgent # <<>> /\ toAgent' = Tail(toAgent) /\ toClient' = toClient
    <2>1. \A i \in 1 .. Len(toAgent) :
            /\ toAgent[i].run <= run
            /\ toAgent[i].run = run \/ pc > 1 => Current(i)
            /\ Retries => toAgent[i].step.op # "read"
      BY DEF AckInv
    <2>2. \A i \in 1 .. Len(toAgent') :
            /\ toAgent'[i].run <= run'
            /\ toAgent'[i].run = run' \/ pc' > 1 => Current(i)'
            /\ Retries' => toAgent'[i].step.op # "read"
      BY Zenon, <1>1, <1>4, <2>1, CurrentTail
    <2>3. phase = "wait" => \A i \in 1 .. Len(toClient) : toClient[i].kind = "data"
      BY <1>4 DEF AckInv
    <2> QED
      BY <1>1, <1>2, <1>3, <1>4, <2>2, <2>3 DEF AckInv
  <1>5. CASE toClient # <<>> /\ toClient' = Tail(toClient) /\ toAgent' = toAgent
    <2>1. /\ Len(toClient') = Len(toClient) - 1 /\ Len(toClient) \in Nat
          /\ \A j \in 1 .. Len(toClient) - 1 : toClient'[j] = toClient[j + 1]
      BY <1>1, <1>5, MessageTaken DEF SessionTyped
    <2>2. \A i \in 1 .. Len(toClient') :
            /\ i + 1 \in 1 .. Len(toClient) /\ toClient'[i] = toClient[i + 1]
            /\ i + 1 = Len(toClient) => i = Len(toClient')
      BY <2>1
    <2>3. \A i \in 1 .. Len(toAgent) : Current(i) => Current(i)'
      BY <1>1, <1>2, <1>5 DEF Current
    <2>4. phase # "send"
      BY <1>5 DEF AckInv
    <2>5. \A i \in 1 .. Len(toAgent') :
            /\ toAgent'[i].run <= run'
            /\ toAgent'[i].run = run' \/ pc' > 1 => Current(i)'
            /\ Retries' => toAgent'[i].step.op # "read"
      BY <1>1, <1>2, <1>5, <2>3 DEF AckInv
    <2>6. Retries' => reading' = {} /\ \A i \in 1 .. Len(toClient') : toClient'[i].kind # "data"
      BY Zenon, <1>1, <1>2, <2>2 DEF AckInv
    <2>7. phase' = "wait" =>
            \A i \in 1 .. Len(toClient') : toClient'[i].kind # "data" =>
              /\ i = Len(toClient') /\ toAgent' = <<>>
              /\ toClient'[i].status # "error" => StepDone'
      BY <1>1, <1>2, <1>5, <2>2 DEF AckInv
    <2> QED
      BY <1>1, <1>3, <2>4, <2>5, <2>6, <2>7 DEF AckInv
  <1> QED
    BY <1>1, <1>4, <1>5

LEMMA AckAgent ==
    ASSUME SessionTyped, AckInv, Trusted, agent_receive
    PROVE  AckInv'
  <1> DEFINE m == Head(toAgent)
  <1>1. /\ ~Announces /\ toAgent # <<>> /\ toAgent' = Tail(toAgent) /\ toClient' \in Seq(Answer)
        /\ UNCHANGED <<program, run, pc, phase>>
    BY AgentHandles DEF Trusted
  <1>2. m.step.op = "read" \/ m.run # run => toClient' = toClient
    BY <1>1, AgentHandles
  <1>3. \/ toClient' = toClient
        \/ /\ m.run = run /\ m.step.op # "read"
           /\ \E a \in Answer :
                /\ toClient' = Append(toClient, a) /\ a.kind # "data"
                /\ a.status # "error" =>
                     /\ m.step.op = "create" => m.step.obj \in exists'
                     /\ m.step.op = "delete" => m.step.obj \notin exists'
    BY <1>1, AgentHandles
  <1>4. /\ \/ exists' = exists
           \/ m.step.op = "create" /\ exists' = exists \union {m.step.obj}
           \/ m.step.op = "delete" /\ exists' = exists \ {m.step.obj}
        /\ reading' \subseteq reading \union (IF m.step.op = "read" THEN {m.step.obj} ELSE {})
    BY <1>1, AgentHandles
  <1>5. /\ Head(toAgent) = toAgent[1] /\ Len(toAgent) \in Nat /\ 1 \in 1 .. Len(toAgent)
        /\ Len(toAgent') = Len(toAgent) - 1 /\ toAgent' \in Seq(Request)
    BY <1>1, MessageTaken DEF SessionTyped
  <1>6. /\ m.run <= run
        /\ m.run = run \/ pc > 1 => Current(1)
        /\ Retries => m.step.op # "read"
    BY <1>5 DEF AckInv
  <1> HIDE DEF m
  <1>7. Current(1) /\ m.step.op # "read" =>
          /\ toAgent' = <<>> /\ pc \in 1 .. Last /\ phase \in {"wait", "failed"} /\ m.step = Step
    <2>1. Len(toAgent) = 1 => toAgent' = <<>>
      BY <1>5, NoMessage
    <2> QED
      BY SMTT(30), <1>1, <1>5, <2>1, HostSteps DEF Current, m, SessionTyped
  <1>8. Retries' = Retries /\ Last' = Last /\ Step' = Step
    BY <1>1 DEF Retries, Last, Step
  <1>9. Holds(pc, exists)'
    <2>1. Holds(pc, exists)
      BY DEF AckInv
    <2>2. CASE exists' = exists
      BY <1>1, <2>1, <2>2, HoldsPrimed
    <2>3. CASE exists' # exists /\ pc = 1
      BY <1>1, <2>3, HoldsAtStart, HoldsPrimed
    <2>4. CASE exists' # exists /\ pc # 1
      <3>1. pc > 1 /\ m.step.op # "read"
        BY <1>1, <1>4, <2>4 DEF SessionTyped
      <3>2. pc \in 1 .. Last /\ m.step = Steps(program)[pc]
        BY <1>6, <1>7, <3>1 DEF Step
      <3>3. Holds(pc, exists')
        BY <1>1, <1>4, <2>1, <2>4, <3>2, HoldsWhenDone
      <3> QED
        BY <1>1, <3>3, HoldsPrimed
    <2> QED
      BY <2>2, <2>3, <2>4
  <1>10. \A i \in 1 .. Len(toAgent') :
           /\ toAgent'[i].run <= run'
           /\ toAgent'[i].run = run' \/ pc' > 1 => Current(i)'
           /\ Retries' => toAgent'[i].step.op # "read"
    <2>1. \A i \in 1 .. Len(toAgent) :
            /\ toAgent[i].run <= run
            /\ toAgent[i].run = run \/ pc > 1 => Current(i)
            /\ Retries => toAgent[i].step.op # "read"
      BY DEF AckInv
    <2> QED
      BY <1>1, <2>1, CurrentTail
  <1>11. phase = "wait" => \A i \in 1 .. Len(toClient) : toClient[i].kind = "data"
    BY <1>1 DEF AckInv
  <1>12. Retries => reading' = {}
    BY <1>4, <1>6 DEF AckInv
  <1>13. CASE toClient' = toClient
    BY <1>1, <1>8, <1>9, <1>10, <1>11, <1>12, <1>13 DEF AckInv
  <1>14. CASE toClient' # toClient
    <2>1. m.run = run /\ m.step.op # "read" /\ Current(1)
      BY <1>2, <1>3, <1>6, <1>14
    <2>2. toAgent' = <<>> /\ phase' \in {"wait", "failed"} /\ m.step = Step
      BY <1>1, <1>7, <2>1
    <2>3. PICK a \in Answer :
            /\ toClient' = Append(toClient, a) /\ a.kind # "data"
            /\ a.status # "error" =>
                 /\ m.step.op = "create" => m.step.obj \in exists'
                 /\ m.step.op = "delete" => m.step.obj \notin exists'
      BY <1>3, <1>14
    <2>4. /\ Len(toClient') = Len(toClient) + 1 /\ Len(toClient) \in Nat
          /\ \A i \in 1 .. Len(toClient) : toClient'[i] = toClient[i]
          /\ toClient'[Len(toClient) + 1] = a
      BY <1>1, <2>3, MessageSent DEF SessionTyped
    <2>5. \A i \in 1 .. Len(toClient') : i \in 1 .. Len(toClient) \/ i = Len(toClient) + 1
      BY <2>4
    <2>6. a.status # "error" => StepDone'
      BY <1>8, <2>2, <2>3 DEF StepDone
    <2>7. Retries => \A i \in 1 .. Len(toClient') : toClient'[i].kind # "data"
      BY <2>3, <2>4, <2>5 DEF AckInv
    <2>8. phase' = "wait" =>
            \A i \in 1 .. Len(toClient') : toClient'[i].kind # "data" =>
              /\ i = Len(toClient') /\ toAgent' = <<>>
              /\ toClient'[i].status # "error" => StepDone'
      BY <1>1, <1>11, <2>2, <2>4, <2>5, <2>6
    <2> QED
      BY <1>8, <1>9, <1>10, <1>12, <2>2, <2>7, <2>8 DEF AckInv
  <1> QED
    BY <1>13, <1>14
LEMMA AckSample ==
    ASSUME SessionTyped, AckInv, Trusted, agent_sample
    PROVE  AckInv'
  <1>1. /\ phase = "wait" /\ reading # {} /\ toClient' = <<[kind |-> "data", status |-> "ok"]>>
        /\ UNCHANGED <<program, run, pc, phase, toAgent, exists, reading>>
    BY DEF agent_sample, client, agent
  <1>2. Len(toClient') = 1 /\ \A i \in 1 .. Len(toClient') : toClient'[i].kind = "data"
    BY <1>1
  <1>3. ~Retries' /\ ~Retries /\ Last' = Last /\ Step' = Step
    BY Zenon, <1>1 DEF AckInv, Retries, Last, Step
  <1>4. Holds(pc, exists)'
    BY Zenon, <1>1, HoldsPrimed DEF AckInv
  <1>5. \A i \in 1 .. Len(toAgent) : Current(i) => Current(i)'
    BY <1>1, <1>3 DEF Current
  <1>6. \A i \in 1 .. Len(toAgent') : toAgent'[i].run <= run'
                                      /\ (toAgent'[i].run = run' \/ pc' > 1 => Current(i)')
    BY <1>1, <1>5 DEF AckInv
  <1> QED
    BY Zenon, <1>1, <1>2, <1>3, <1>4, <1>6 DEF AckInv

LEMMA AckStep == SessionTyped /\ AckInv /\ [Next]_vars => AckInv'
  <1> SUFFICES ASSUME SessionTyped, AckInv, [Next]_vars, Trusted' PROVE AckInv'
    BY Zenon DEF AckInv
  <1>1. Trusted
    <2>1. late => late'
      BY Zenon DEF Next, vars, send_request, recv_reply, recv_timeout, announce_entities, restart, drop,
             attach, agent_receive, agent_sample, Finished
    <2> QED
      BY <2>1, SameProgram DEF Trusted, Retries
  <1>2. CASE attach \/ UNCHANGED vars
    <2>1. UNCHANGED <<program, run, pc, phase, toAgent, toClient, exists, reading>>
      BY <1>2 DEF attach, vars, client, agent
    <2>2. Retries' = Retries /\ Last' = Last /\ Step' = Step /\ StepDone' = StepDone
      BY <2>1 DEF Retries, Last, Step, StepDone
    <2>3. Holds(pc, exists)'
      BY <1>1, <2>1, HoldsPrimed DEF AckInv
    <2>4. \A i \in 1 .. Len(toAgent) : Current(i) => Current(i)'
      BY <2>1, <2>2 DEF Current
    <2> QED
      BY Zenon, <1>1, <2>1, <2>2, <2>3, <2>4 DEF AckInv
  <1>3. ~announce_entities
    BY <1>1 DEF announce_entities, Trusted
  <1> QED
    BY <1>1, <1>2, <1>3, AckSend, AckReceive, AckTimeout, AckRestart, AckDrop, AckAgent, AckSample
       DEF Next, Finished

\* For every number of attempts, losses and restarts, and for the setup of every host
\* program: what send_and_wait_ok() has reported as done, the agent has done.
THEOREM SetupIsTrue == Spec => []AcknowledgedHolds
  <1>1. Spec => [](SessionTyped /\ AckInv)
    BY SessionInit, SessionStep, AckInit, AckStep, PTL DEF Spec
  <1> QED
    BY <1>1, AckHolds, PTL

-----------------------------------------------------------------------------
(* Opening a session: who gives up has lost a message in every attempt *)

\* The sequence numbers that a client has moved on since the agent's watermark.
LEMMA Distance ==
    ASSUME NEW w \in 0 .. SeqMod - 1, NEW k \in 1 .. Attempts
    PROVE  (((w + k) % SeqMod) - w) % SeqMod \in 1 .. SeqMod \div 2
  <1>1. PICK M \in Nat : M = SeqMod /\ M > 2 * Attempts /\ Attempts \in Nat
    BY Zenon, SessionAssumption
  <1>2. w \in Int /\ 0 <= w /\ w < M /\ k \in Int /\ 1 <= k /\ 2 * k < M
    BY <1>1
  <1>3. k <= M \div 2
    BY <1>2
  <1>4. CASE w + k < M
    <2>1. (w + k) % M = w + k /\ (w + k) - w = k /\ k % M = k
      BY <1>2, <1>4
    <2> QED
      BY <1>1, <1>2, <1>3, <2>1
  <1>5. CASE ~(w + k < M)
    <2>1. (w + k) % M = w + k - M
      BY <1>2, <1>5
    <2>2. (w + k - M) - w = k - M /\ (k - M) % M = k
      BY <1>2
    <2> QED
      BY <1>1, <1>2, <1>3, <2>1, <2>2
  <1> QED
    BY <1>4, <1>5

LEMMA DistanceGrows ==
    ASSUME NEW w \in 0 .. SeqMod - 1, NEW k \in 1 .. Attempts
    PROVE  (((w + k) % SeqMod) + 1) % SeqMod = (w + (k + 1)) % SeqMod
  <1>1. PICK M \in Nat : M = SeqMod /\ M > 2 * Attempts /\ Attempts \in Nat
    BY Zenon, SessionAssumption
  <1>2. w \in Int /\ 0 <= w /\ w < M /\ k \in Int /\ 1 <= k /\ 2 * k < M /\ k + 1 <= M
    BY <1>1
  <1>3. CASE w + k < M
    <2>1. (w + k) % M = w + k /\ (w + k) + 1 = w + (k + 1)
      BY <1>2, <1>3
    <2> QED
      BY <1>1, <2>1
  <1>4. CASE ~(w + k < M)
    <2>1. (w + k) % M = w + k - M
      BY <1>2, <1>4
    <2>2. (w + k - M + 1) % M = w + k - M + 1 /\ (w + (k + 1)) % M = w + (k + 1) - M
      BY <1>2, <1>4
    <2> QED
      BY <1>1, <1>2, <2>1, <2>2
  <1> QED
    BY <1>3, <1>4
\* bench_qos creates every entity after the one it belongs to.
LEMMA ParentFirst ==
    ASSUME SessionTyped, Retries, NEW k \in 1 .. Last, k > 1
    PROVE  /\ Steps(program)[k].op = "create"
           /\ Steps(program)[k].parent \in Created(k) \union {"none"}
  <1>1. Steps(program) = bench_qos /\ ~Announces
    BY RetrySteps
  <1>2. /\ Len(bench_qos) = 5
        /\ bench_qos[2] = Create("participant", "none") /\ bench_qos[3] = Topic("topic")
        /\ bench_qos[4] = Publisher /\ bench_qos[5] = Writer("writer")
    BY QosList
  <1>3. Last = 5 /\ DOMAIN Steps(program) = 1 .. 5 /\ k \in {2, 3, 4, 5}
    BY <1>1, <1>2, HostSteps DEF Last
  <1>4. Before(k + 1, "delete") = {}
    <2>1. \A j \in 1 .. 5 : Steps(program)[j].op # "delete"
      BY <1>3, RetrySteps
    <2> QED
      BY <1>3, <2>1 DEF Before
  <1>5. k > 2 => "participant" \in Before(k, "create")
    BY <1>1, <1>2, <1>3 DEF Before, Create
  <1>6. k > 4 => "publisher" \in Before(k, "create")
    BY <1>1, <1>2, <1>3 DEF Before, Create, Publisher
  <1>7. /\ Steps(program)[k].op = "create"
        /\ \/ Steps(program)[k].parent = "none"
           \/ Steps(program)[k].parent = "participant" /\ k > 2
           \/ Steps(program)[k].parent = "publisher" /\ k > 4
    BY <1>1, <1>2, <1>3 DEF Create, Topic, Publisher, Writer
  <1> QED
    BY <1>4, <1>5, <1>6, <1>7 DEF Created

\* The message sent last.
Sent == toAgent[Len(toAgent)]

\* What has become of the request of this attempt: it is on its way, or its answer is and
\* will be accepted, or one of the two is lost.
InFlight ==
    /\ toAgent # <<>> /\ Sent.run = run /\ Sent.step = Step
    /\ pc > 1 => Sent.seq \in 0 .. SeqMod - 1 /\ out_seq_num = (Sent.seq + 1) % SeqMod
InAnswer ==
    /\ toAgent = <<>> /\ toClient # <<>> /\ Accepts(toClient[1]) /\ session
    /\ IF pc = 1 THEN watermark = -1
       ELSE watermark \in 0 .. SeqMod - 1 /\ out_seq_num = (watermark + 1) % SeqMod
InLoss == toAgent = <<>> /\ toClient = <<>> /\ drops >= attempt + 1

\* Sequence number s is at most n ahead of what the agent has handled.
Ahead(s, n) ==
    watermark # -1 => /\ watermark \in 0 .. SeqMod - 1
                      /\ \E k \in 1 .. n : s = (watermark + k) % SeqMod

LossInv ==
    Retries /\ ~late =>
      /\ attached /\ attempt \in 0 .. Attempts - 1 /\ drops \in Nat
      /\ out_seq_num \in 0 .. SeqMod - 1
      /\ phase = "failed" => drops >= Attempts
      /\ phase \in {"send", "wait"} => drops >= attempt
      /\ phase = "wait" => InFlight \/ InAnswer \/ InLoss
      /\ phase \in {"send", "wait"} /\ pc > 1 => session
      /\ phase = "send" /\ pc > 1 => Ahead(out_seq_num, attempt + 1)
      /\ phase = "wait" /\ pc > 1 => /\ toAgent # <<>> => Ahead(Sent.seq, attempt + 1)
                                     /\ toAgent = <<>> => Ahead(out_seq_num, attempt + 2)

LEMMA LossIsCounted == LossInv => GivesUpOnlyOnLoss
  BY DEF LossInv, Retries, GivesUpOnlyOnLoss

LEMMA LossInit == Init => LossInv
  <1> SUFFICES ASSUME Init, Retries PROVE LossInv
    BY DEF LossInv
  <1>1. /\ pc = 1 /\ attempt = 0 /\ phase = "send" /\ out_seq_num = 0 /\ drops = 0
        /\ attached = ~Announces
    BY DEF Init
  <1>2. ~Announces
    BY SessionInit, RetrySteps
  <1>3. attempt \in 0 .. Attempts - 1 /\ out_seq_num \in 0 .. SeqMod - 1 /\ drops \in Nat
        /\ drops >= attempt /\ ~(pc > 1)
    BY <1>1, SessionAssumption
  <1> QED
    BY Zenon, <1>1, <1>2, <1>3 DEF LossInv
\* Of a program that retries, at most one request and no second answer is on its way once
\* CREATE_CLIENT is answered.
LEMMA OneAtATime ==
    ASSUME SessionTyped, AckInv, Retries, ~late
    PROVE  /\ ~Announces /\ Trusted
           /\ phase = "wait" /\ toAgent # <<>> => toClient = <<>>
           /\ phase = "wait" /\ toClient # <<>> => toAgent = <<>> /\ Len(toClient) = 1
           /\ pc > 1 /\ toAgent # <<>> => Len(toAgent) = 1 /\ phase \in {"wait", "failed"}
           /\ toAgent # <<>> /\ toAgent[1].run = run => Len(toAgent) = 1
  <1>1. ~Announces /\ Trusted
    BY RetrySteps DEF Trusted
  <1>2. /\ toAgent \in Seq(Request) /\ toClient \in Seq(Answer)
        /\ Len(toAgent) \in Nat /\ Len(toClient) \in Nat
    BY <1>1 DEF SessionTyped
  <1>3. (toAgent # <<>> => 1 \in 1 .. Len(toAgent)) /\ (toClient # <<>> => 1 \in 1 .. Len(toClient))
    BY <1>2, NoMessage
  <1>4. phase = "wait" /\ toClient # <<>> => toAgent = <<>> /\ Len(toClient) = 1
    BY Zenon, <1>1, <1>3 DEF AckInv
  <1>5. toAgent # <<>> /\ (pc > 1 \/ toAgent[1].run = run) =>
          Len(toAgent) = 1 /\ phase \in {"wait", "failed"}
    BY Zenon, <1>1, <1>3 DEF AckInv, Current
  <1> QED
    BY <1>1, <1>4, <1>5

\* What an attempt has come to may count on the losses so far, and only more may follow.
LEMMA LossSend ==
    ASSUME SessionTyped, AckInv, LossInv, Retries, ~late, send_request
    PROVE  LossInv'
  <1>1. /\ ~Announces /\ phase = "send" /\ pc \in 1 .. Last /\ Build
        /\ UNCHANGED <<program, run, toClient, session, watermark, attached, drops, late>>
    <2>1. /\ ~Announces /\ phase = "send" /\ Build
          /\ UNCHANGED <<program, run, toClient, session, watermark, attached, drops, late>>
      BY Zenon DEF send_request, agent
    <2>2. pc \in 1 .. Last
      BY <2>1, HostSteps DEF SessionTyped
    <2> QED
      BY Zenon, <2>1, <2>2
  <1>2. Step.op \in {"client", "create"} /\ (pc > 1 => Step.op # "client")
    BY <1>1, RetrySteps, ParentFirst DEF Step
  <1>3. phase' = "wait" /\ pc' = pc /\ attempt' = attempt
    BY <1>2 DEF send_request, Answered
  <1>4. PICK m \in Request : /\ toAgent' = Append(toAgent, m) /\ toAgent' \in Seq(Request)
                             /\ m.run = run /\ m.step = Step /\ m.seq = out_seq_num
    BY <1>1, BuiltRequest
  <1>5. toAgent' # <<>> /\ Sent' = m
    <2>1. Len(toAgent') = Len(toAgent) + 1 /\ Len(toAgent) \in Nat /\ toAgent'[Len(toAgent) + 1] = m
      BY <1>1, <1>4, MessageSent DEF SessionTyped
    <2> QED
      BY <1>4, <2>1, NoMessage DEF Sent
  <1>6. /\ attached /\ attempt \in 0 .. Attempts - 1 /\ drops \in Nat /\ drops >= attempt
        /\ out_seq_num \in 0 .. SeqMod - 1 /\ (pc > 1 => session)
        /\ pc > 1 => Ahead(out_seq_num, attempt + 1)
    BY <1>1 DEF LossInv
  <1>7. out_seq_num' \in 0 .. SeqMod - 1
        /\ (pc > 1 => out_seq_num' = (out_seq_num + 1) % SeqMod)
    <2>1. PICK M \in Nat : M = SeqMod /\ M > 0
      BY SessionAssumption
    <2>2. PICK q \in Int : q = out_seq_num
      BY <1>6
    <2>3. (q + 1) % M \in 0 .. M - 1
      BY <2>1, <2>2
    <2>4. out_seq_num' = IF Step.op = "client" THEN out_seq_num ELSE (q + 1) % M
      BY <1>1, <2>1, <2>2 DEF Build, NextSeq
    <2> QED
      BY <1>2, <1>6, <2>1, <2>2, <2>3, <2>4
  <1>8. Step' = Step /\ run' = run
    BY <1>1, <1>3 DEF Step
  <1>9. InFlight'
    BY <1>3, <1>4, <1>5, <1>6, <1>7, <1>8 DEF InFlight
  <1>10. pc > 1 => Ahead(Sent.seq, attempt + 1)'
    BY <1>1, <1>3, <1>4, <1>5, <1>6 DEF Ahead
  <1> QED
    BY <1>1, <1>3, <1>5, <1>6, <1>7, <1>9, <1>10 DEF LossInv

LEMMA LossReceive ==
    ASSUME SessionTyped, AckInv, LossInv, Retries, ~late, recv_reply
    PROVE  LossInv'
  <1>1. /\ ~Announces /\ phase = "wait" /\ pc \in 1 .. Last /\ toClient # <<>>
        /\ toClient' = Tail(toClient) /\ Head(toClient) = toClient[1]
        /\ UNCHANGED <<program, run, out_seq_num, toAgent, session, watermark, attached, drops, late>>
    <2>1. ~Announces /\ phase = "wait" /\ toClient # <<>> /\ toClient \in Seq(Answer)
      BY RetrySteps DEF recv_reply, SessionTyped
    <2> QED
      BY <2>1, HostSteps, MessageTaken DEF recv_reply, agent, SessionTyped
  <1>2. InAnswer
    BY <1>1, OneAtATime DEF LossInv, InFlight, InLoss
  <1>3. NextStep
    BY <1>1, <1>2 DEF recv_reply, InAnswer
  <1>4. attempt' = 0 /\ pc' = pc + 1 /\ phase' \in {"send", "ready"}
    BY <1>1, <1>3, SessionNextStep DEF NextStep
  <1>5. attached /\ drops \in Nat /\ out_seq_num \in 0 .. SeqMod - 1 /\ drops >= 0
    BY DEF LossInv
  <1>6. session /\ Ahead(out_seq_num, 0 + 1)'
    <2>1. session /\ (watermark = -1 \/ (/\ watermark \in 0 .. SeqMod - 1
                                         /\ out_seq_num = (watermark + 1) % SeqMod))
      BY <1>2 DEF InAnswer
    <2>2. 1 \in 1 .. 0 + 1
      OBVIOUS
    <2> QED
      BY <1>1, <2>1, <2>2 DEF Ahead
  <1>7. attempt' \in 0 .. Attempts - 1 /\ drops >= attempt'
    BY <1>4, <1>5, SessionAssumption
  <1> QED
    BY Zenon, <1>1, <1>4, <1>5, <1>6, <1>7 DEF LossInv, Ahead

LEMMA LossTimeout ==
    ASSUME SessionTyped, AckInv, LossInv, Retries, ~late, ~late', recv_timeout
    PROVE  LossInv'
  <1>1. /\ phase = "wait" /\ toAgent = <<>> /\ toClient = <<>>
        /\ UNCHANGED <<program, run, out_seq_num, toAgent, toClient, session, watermark, attached,
                       drops>>
    BY Zenon DEF recv_timeout, agent
  <1>2. pc' = pc /\ IF attempt + 1 < Attempts THEN attempt' = attempt + 1 /\ phase' = "send"
                                              ELSE attempt' = attempt /\ phase' = "failed"
    BY DEF recv_timeout, NoAnswer, Retries
  <1>3. drops >= attempt + 1
    BY <1>1 DEF LossInv, InFlight, InAnswer, InLoss
  <1>4. /\ attached /\ attempt \in 0 .. Attempts - 1 /\ drops \in Nat
        /\ out_seq_num \in 0 .. SeqMod - 1 /\ (pc > 1 => session)
        /\ pc > 1 => Ahead(out_seq_num, attempt + 2)
    BY <1>1 DEF LossInv
  <1>5. PICK n \in Nat, d \in Nat, a \in Nat :
          n = Attempts /\ d = drops /\ a = attempt /\ a < n
    BY <1>4, SessionAssumption
  <1>6. CASE attempt + 1 < Attempts
    <2>1. attempt' = attempt + 1 /\ phase' = "send"
      BY <1>2, <1>6
    <2>2. (a + 1) + 1 = a + 2 /\ a + 1 \in 0 .. n - 1 /\ d >= a + 1
      BY <1>3, <1>5, <1>6
    <2>3. pc > 1 => Ahead(out_seq_num, attempt + 1)'
      BY <1>1, <1>4, <1>5, <2>1, <2>2 DEF Ahead
    <2> QED
      BY Zenon, <1>1, <1>2, <1>4, <1>5, <2>1, <2>2, <2>3 DEF LossInv
  <1>7. CASE ~(attempt + 1 < Attempts)
    <2>1. attempt' = attempt /\ phase' = "failed"
      BY <1>2, <1>7
    <2>2. drops >= Attempts
      BY <1>3, <1>5, <1>7
    <2> QED
      BY <1>1, <1>2, <1>4, <2>1, <2>2 DEF LossInv
  <1> QED
    BY <1>6, <1>7

LEMMA LossRestart ==
    ASSUME LossInv, Retries, ~late, restart
    PROVE  LossInv'
  <1>1. /\ pc' = 1 /\ attempt' = 0 /\ phase' = "send" /\ out_seq_num' = 0
        /\ UNCHANGED <<attached, drops>>
    BY DEF restart
  <1>2. attached /\ drops \in Nat
    BY DEF LossInv
  <1>3. attempt' \in 0 .. Attempts - 1 /\ out_seq_num' \in 0 .. SeqMod - 1 /\ drops >= attempt'
        /\ ~(pc' > 1)
    BY <1>1, <1>2, SessionAssumption
  <1> QED
    BY <1>1, <1>2, <1>3 DEF LossInv
\* The message sent last stays the last one when the oldest of several is gone.
LEMMA SentStays ==
    ASSUME SessionTyped, ~Announces, toAgent # <<>>, toAgent' = Tail(toAgent)
    PROVE  /\ Len(toAgent) = 1 <=> toAgent' = <<>>
           /\ toAgent' # <<>> => Sent' = Sent
           /\ Head(toAgent) = toAgent[1]
  <1>1. /\ Len(toAgent') = Len(toAgent) - 1 /\ Len(toAgent) \in Nat /\ Len(toAgent) >= 1
        /\ \A j \in 1 .. Len(toAgent) - 1 : toAgent'[j] = toAgent[j + 1]
        /\ toAgent' \in Seq(Request) /\ Head(toAgent) = toAgent[1]
    BY MessageTaken DEF SessionTyped
  <1>2. PICK n \in Nat : n = Len(toAgent)
    BY Zenon, <1>1
  <1>3. n = 1 <=> toAgent' = <<>>
    BY <1>1, <1>2, NoMessage
  <1>4. CASE toAgent' # <<>>
    <2>1. n - 1 \in 1 .. n - 1 /\ (n - 1) + 1 = n
      BY <1>1, <1>2, <1>3, <1>4
    <2>2. toAgent'[n - 1] = toAgent[n]
      BY <1>1, <1>2, <2>1
    <2> QED
      BY <1>1, <1>2, <1>3, <2>2 DEF Sent
  <1> QED
    BY Zenon, <1>1, <1>2, <1>3, <1>4

LEMMA AheadGrows ==
    ASSUME NEW s, NEW n \in 1 .. Attempts, Ahead(s, n)
    PROVE  Ahead((s + 1) % SeqMod, n + 1)
  <1> SUFFICES ASSUME watermark # -1
               PROVE  /\ watermark \in 0 .. SeqMod - 1
                      /\ \E k \in 1 .. n + 1 : (s + 1) % SeqMod = (watermark + k) % SeqMod
    BY DEF Ahead
  <1>1. watermark \in 0 .. SeqMod - 1
    BY DEF Ahead
  <1>2. PICK k \in 1 .. n : s = (watermark + k) % SeqMod
    BY DEF Ahead
  <1>3. k \in 1 .. Attempts /\ k + 1 \in 1 .. n + 1
    BY <1>2, SessionAssumption
  <1>4. (s + 1) % SeqMod = (watermark + (k + 1)) % SeqMod
    BY <1>1, <1>2, <1>3, DistanceGrows
  <1> QED
    BY <1>1, <1>3, <1>4

LEMMA AheadFresh ==
    ASSUME NEW s, NEW n \in 1 .. Attempts, Ahead(s, n)
    PROVE  watermark = -1 \/ (s - watermark) % SeqMod \in 1 .. SeqMod \div 2
  <1> SUFFICES ASSUME watermark # -1
               PROVE  (s - watermark) % SeqMod \in 1 .. SeqMod \div 2
    OBVIOUS
  <1>1. watermark \in 0 .. SeqMod - 1
    BY DEF Ahead
  <1>2. PICK k \in 1 .. n : s = (watermark + k) % SeqMod
    BY DEF Ahead
  <1>3. k \in 1 .. Attempts
    BY <1>2, SessionAssumption
  <1> QED
    BY <1>1, <1>2, <1>3, Distance

LEMMA LossDrop ==
    ASSUME SessionTyped, AckInv, LossInv, Retries, ~late, drop
    PROVE  LossInv'
  <1>1. /\ drops' = drops + 1
        /\ UNCHANGED <<program, run, pc, attempt, phase, out_seq_num, session, watermark,
                       attached, late>>
        /\ \/ toAgent # <<>> /\ toAgent' = Tail(toAgent) /\ toClient' = toClient
           \/ toClient # <<>> /\ toClient' = Tail(toClient) /\ toAgent' = toAgent
    BY DEF drop, client, agent
  <1>2. /\ attached /\ attempt \in 0 .. Attempts - 1 /\ drops \in Nat
        /\ out_seq_num \in 0 .. SeqMod - 1
        /\ phase = "failed" => drops >= Attempts
        /\ phase \in {"send", "wait"} => drops >= attempt
    BY DEF LossInv
  <1>3. /\ drops' \in Nat
        /\ phase = "failed" => drops' >= Attempts
        /\ phase \in {"send", "wait"} => drops' >= attempt /\ drops' >= attempt + 1
    BY <1>1, <1>2, SessionAssumption
  <1>4. /\ phase \in {"send", "wait"} /\ pc > 1 => session
        /\ phase = "send" /\ pc > 1 => Ahead(out_seq_num, attempt + 1)'
    BY <1>1 DEF LossInv, Ahead
  <1>5. Step' = Step /\ ~Announces
    BY <1>1, RetrySteps DEF Step
  <1>6. CASE phase = "wait" /\ toAgent # <<>> /\ toAgent' = Tail(toAgent) /\ toClient' = toClient
    <2>1. InFlight /\ toClient = <<>>
      BY <1>6, OneAtATime DEF LossInv, InAnswer, InLoss
    <2>2. /\ Len(toAgent) = 1 <=> toAgent' = <<>>
          /\ toAgent' # <<>> => Sent' = Sent
      BY <1>5, <1>6, SentStays
    <2>3. toAgent' # <<>> => InFlight'
      BY <1>1, <1>5, <2>1, <2>2 DEF InFlight
    <2>4. toAgent' = <<>> => InLoss'
      BY <1>1, <1>3, <1>6, <2>1 DEF InLoss
    <2>5. pc > 1 => Ahead(Sent.seq, attempt + 1)
      BY <1>6 DEF LossInv
    <2>6. pc > 1 /\ toAgent' # <<>> => Ahead(Sent.seq, attempt + 1)'
      BY <1>1, <2>2, <2>5 DEF Ahead
    <2>7. pc > 1 => Ahead(out_seq_num, attempt + 2)'
      <3> SUFFICES ASSUME pc > 1 PROVE Ahead(out_seq_num, attempt + 2)'
        OBVIOUS
      <3>1. attempt + 1 \in 1 .. Attempts /\ (attempt + 1) + 1 = attempt + 2
        BY <1>2, SessionAssumption
      <3>2. out_seq_num = (Sent.seq + 1) % SeqMod
        BY <2>1 DEF InFlight
      <3>3. Ahead(out_seq_num, attempt + 2)
        BY <2>5, <3>1, <3>2, AheadGrows
      <3> QED
        BY <1>1, <3>3 DEF Ahead
    <2> QED
      BY Zenon, <1>1, <1>2, <1>3, <1>4, <1>6, <2>3, <2>4, <2>6, <2>7 DEF LossInv
  <1>7. CASE phase = "wait" /\ toClient # <<>> /\ toClient' = Tail(toClient) /\ toAgent' = toAgent
    <2>1. toAgent = <<>> /\ Len(toClient) = 1
      BY <1>7, OneAtATime
    <2>2. toClient' = <<>>
      BY <1>5, <1>7, <2>1, MessageTaken, NoMessage DEF SessionTyped
    <2>3. InLoss'
      BY <1>1, <1>3, <1>7, <2>1, <2>2 DEF InLoss
    <2>4. pc > 1 => Ahead(out_seq_num, attempt + 2)'
      BY <1>1, <1>7, <2>1 DEF LossInv, Ahead
    <2> QED
      BY Zenon, <1>1, <1>2, <1>3, <1>4, <1>7, <2>1, <2>3, <2>4 DEF LossInv
  <1>8. CASE phase # "wait"
    BY Zenon, <1>1, <1>2, <1>3, <1>4, <1>8 DEF LossInv
  <1> QED
    BY <1>1, <1>6, <1>7, <1>8
\* The agent answers CREATE_CLIENT, and the request of a later step, as the program wants it.
LEMMA AnswersClient ==
    ASSUME SessionTyped, Retries, toClient = <<>>, NEW m, m.run = run, m.step = Step,
           Step.op = "client", UNCHANGED <<program, pc>>,
           \/ agent_create_client(m) \/ agent_create(m) \/ agent_delete(m)
           \/ agent_read(m) \/ agent_ignore(m)
    PROVE  /\ session' /\ watermark' = -1
           /\ toClient' # <<>> /\ Accepts(toClient[1])'
  <1>1. agent_create_client(m) /\ ~Announces
    BY Zenon, RetrySteps DEF agent_create, agent_delete, agent_read, agent_ignore
  <1>2. session' /\ watermark' = -1
        /\ toClient' = Append(toClient, [kind |-> "status_agent", status |-> "ok"])
    BY Zenon, <1>1 DEF agent_create_client, Reply
  <1>3. toClient' # <<>> /\ toClient'[1] = [kind |-> "status_agent", status |-> "ok"]
    BY <1>2
  <1>4. Step' = Step
    BY DEF Step
  <1> QED
    BY <1>2, <1>3, <1>4 DEF Accepts, parse_create_client_reply

LEMMA AnswersCreate ==
    ASSUME SessionTyped, Retries, toClient = <<>>, NEW m, m.run = run, m.step = Step,
           Step.op = "create", Step.parent \in exists \union {"none"}, Fresh(m),
           UNCHANGED <<program, pc>>,
           \/ agent_create_client(m) \/ agent_create(m) \/ agent_delete(m)
           \/ agent_read(m) \/ agent_ignore(m)
    PROVE  /\ session' = session /\ watermark' = m.seq
           /\ toClient' # <<>> /\ Accepts(toClient[1])'
  <1>1. agent_create(m) /\ ~Announces
    BY Zenon, RetrySteps DEF agent_create_client, agent_delete, agent_read, agent_ignore
  <1>2. PICK status \in {"ok", "exists"} : Reply(m, "status", status)
    BY Zenon, <1>1 DEF agent_create
  <1>3. toClient' = Append(toClient, [kind |-> "status", status |-> status])
    BY Zenon, <1>1, <1>2 DEF Reply
  <1>4. toClient' # <<>> /\ toClient'[1] = [kind |-> "status", status |-> status]
    BY <1>3
  <1>5. Step' = Step /\ program' \in DOMAIN Retry
    BY Zenon DEF Step, Retries
  <1>6. Accepts(toClient[1])'
    BY <1>2, <1>4, <1>5 DEF Accepts, parse_status_reply, create_reply_ok_or_exists
  <1> QED
    BY Zenon, <1>1, <1>4, <1>6 DEF agent_create

LEMMA LossAgent ==
    ASSUME SessionTyped, AckInv, LossInv, Retries, ~late, agent_receive
    PROVE  LossInv'
  <1> DEFINE m == Head(toAgent)
  <1>1. /\ toAgent # <<>> /\ toAgent' = Tail(toAgent) /\ ~Announces /\ Trusted
        /\ UNCHANGED <<program, run, pc, attempt, phase, out_seq_num, attached, drops, late>>
    BY OneAtATime DEF agent_receive, client
  <1>2. /\ attached /\ attempt \in 0 .. Attempts - 1 /\ drops \in Nat
        /\ out_seq_num \in 0 .. SeqMod - 1
        /\ phase = "failed" => drops >= Attempts
        /\ phase \in {"send", "wait"} => drops >= attempt
    BY DEF LossInv
  <1>3. \/ agent_create_client(m) \/ agent_create(m) \/ agent_delete(m)
        \/ agent_read(m) \/ agent_ignore(m)
    BY <1>2 DEF agent_receive
  <1>4. m.run # run => toClient' = toClient
    BY Zenon, <1>1, AgentHandles
  <1>5. /\ Len(toAgent) = 1 <=> toAgent' = <<>>
        /\ toAgent' # <<>> => Sent' = Sent
        /\ m = toAgent[1]
    BY <1>1, SentStays
  <1>6. Step' = Step
    BY <1>1 DEF Step
  <1>7. CASE phase # "wait"
    <2>1. ~(phase = "send" /\ pc > 1)
      BY <1>1, OneAtATime
    <2> QED
      BY Zenon, <1>1, <1>2, <1>7, <2>1 DEF LossInv
  <1>8. CASE phase = "wait" /\ Len(toAgent) # 1
    <2>1. InFlight /\ toClient = <<>> /\ ~(pc > 1) /\ m.run # run
      BY Zenon, <1>1, <1>5, <1>8, OneAtATime DEF LossInv, InAnswer, InLoss
    <2>2. toAgent' # <<>> /\ Sent' = Sent
      BY <1>5, <1>8
    <2>3. InFlight'
      BY <1>1, <1>6, <2>1, <2>2 DEF InFlight
    <2> QED
      BY Zenon, <1>1, <1>2, <1>8, <2>1, <2>3 DEF LossInv
  <1>9. CASE phase = "wait" /\ Len(toAgent) = 1
    <2>1. InFlight /\ toClient = <<>> /\ pc \in 1 .. Last
      <3>1. toClient = <<>> /\ toAgent # <<>>
        BY <1>1, <1>9, OneAtATime
      <3>2. InFlight
        BY Zenon, <1>1, <1>9, <3>1 DEF LossInv, InAnswer, InLoss
      <3>3. pc \in 1 .. Last
        BY <1>1, <1>9, HostSteps DEF SessionTyped
      <3> QED
        BY Zenon, <3>1, <3>2, <3>3
    <2>2. m.run = run /\ m.step = Step /\ Sent = m /\ toAgent' = <<>>
      BY <1>5, <1>9, <2>1 DEF InFlight, Sent
    <2> HIDE DEF m
    <2>3. CASE pc = 1
      <3>1. Step.op = "client"
        BY <1>1, <2>3, HostSteps DEF Step
      <3>2. session' /\ watermark' = -1 /\ toClient' # <<>> /\ Accepts(toClient[1])'
        BY Zenon, <1>1, <1>3, <2>1, <2>2, <3>1, AnswersClient
      <3>3. InAnswer'
        BY <1>1, <2>2, <2>3, <3>2 DEF InAnswer
      <3> QED
        BY <1>1, <1>2, <1>9, <2>2, <2>3, <3>2, <3>3 DEF LossInv
    <2>4. CASE pc > 1
      <3>1. Step.op = "create" /\ Step.parent \in exists \union {"none"}
        BY Zenon, <1>1, <2>1, <2>4, ParentFirst DEF Step, AckInv, Holds
      <3>2. /\ m.seq \in 0 .. SeqMod - 1 /\ out_seq_num = (m.seq + 1) % SeqMod
            /\ session /\ Ahead(m.seq, attempt + 1)
        BY <1>1, <1>9, <2>1, <2>2, <2>4 DEF InFlight, LossInv
      <3>3. attempt + 1 \in 1 .. Attempts
        BY <1>2, SessionAssumption
      <3>4. Fresh(m)
        BY <3>2, <3>3, AheadFresh DEF Fresh
      <3>5. session' = session /\ watermark' = m.seq /\ toClient' # <<>> /\ Accepts(toClient[1])'
        BY Zenon, <1>1, <1>3, <2>1, <2>2, <3>1, <3>4, AnswersCreate
      <3>6. InAnswer'
        BY <1>1, <2>2, <2>4, <3>2, <3>5 DEF InAnswer
      <3>7. Ahead(out_seq_num, attempt + 2)'
        <4>1. 1 \in 1 .. attempt + 2
          BY <1>2
        <4> QED
          BY <1>1, <3>2, <3>5, <4>1 DEF Ahead
      <3> QED
        BY Zenon, <1>1, <1>2, <1>9, <2>2, <2>4, <3>2, <3>5, <3>6, <3>7 DEF LossInv
    <2> QED
      BY <2>1, <2>3, <2>4
  <1> QED
    BY <1>7, <1>8, <1>9

LEMMA LossStep == SessionTyped /\ AckInv /\ LossInv /\ [Next]_vars => LossInv'
  <1> SUFFICES ASSUME SessionTyped, AckInv, LossInv, [Next]_vars, Retries', ~late' PROVE LossInv'
    BY Zenon DEF LossInv
  <1>1. Retries /\ ~late
    <2>1. late => late'
      BY Zenon DEF Next, vars, send_request, recv_reply, recv_timeout, announce_entities, restart, drop,
             attach, agent_receive, agent_sample, Finished
    <2> QED
      BY <2>1, SameProgram DEF Retries
  <1>2. ~attach /\ ~announce_entities /\ ~agent_sample
    <2>1. attached /\ ~Announces /\ reading = {}
      BY Zenon, <1>1, OneAtATime DEF LossInv, AckInv
    <2> QED
      BY Zenon, <2>1 DEF attach, announce_entities, agent_sample
  <1>3. CASE UNCHANGED vars
    <2>1. /\ UNCHANGED <<program, run, pc, attempt, phase, out_seq_num, toAgent, toClient>>
          /\ UNCHANGED <<session, watermark, attached, drops>>
      BY <1>3 DEF vars, client, agent
    <2>2. Sent' = Sent /\ Step' = Step
      BY <2>1 DEF Sent, Step
    <2>3. (InFlight => InFlight') /\ (InLoss => InLoss')
      BY <2>1, <2>2 DEF InFlight, InLoss
    <2>4. InAnswer => InAnswer'
      <3>1. Accepts(toClient[1]) => Accepts(toClient[1])'
        BY <2>1, <2>2 DEF Accepts, parse_create_client_reply, parse_status_reply,
                          create_reply_ok_or_exists
      <3> QED
        BY <2>1, <3>1 DEF InAnswer
    <2>5. /\ Ahead(out_seq_num, attempt + 1) => Ahead(out_seq_num, attempt + 1)'
          /\ Ahead(out_seq_num, attempt + 2) => Ahead(out_seq_num, attempt + 2)'
          /\ Ahead(Sent.seq, attempt + 1) => Ahead(Sent.seq, attempt + 1)'
      BY <2>1, <2>2 DEF Ahead
    <2> QED
      BY Zenon, <1>1, <2>1, <2>3, <2>4, <2>5 DEF LossInv
  <1> QED
    BY <1>1, <1>2, <1>3, LossSend, LossReceive, LossTimeout, LossRestart, LossDrop, LossAgent
       DEF Next, Finished

\* For every number of attempts below half of the sequence numbers: bench_qos gives up
\* (its main() returns an error) only on a link that lost a message in each of its attempts.
THEOREM SetupFailsByLoss == Spec => []GivesUpOnlyOnLoss
  <1>1. Init => SessionTyped /\ AckInv /\ LossInv
    BY SessionInit, AckInit, LossInit
  <1>2. SessionTyped /\ AckInv /\ LossInv /\ [Next]_vars => (SessionTyped /\ AckInv /\ LossInv)'
    BY SessionStep, AckStep, LossStep
  <1>3. LossInv => GivesUpOnlyOnLoss
    BY LossIsCounted
  <1> QED
    BY <1>1, <1>2, <1>3, PTL DEF Spec
=============================================================================
