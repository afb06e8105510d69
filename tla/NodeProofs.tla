----------------------------- MODULE NodeProofs -----------------------------
(*****************************************************************************)
(* Proofs about two programs that answer requests: the action server of      *)
(* ActionServer.tla, for every set of clients and of orders, and the node    *)
(* of Diagnostics.tla that reports on itself.                                *)
(*****************************************************************************)
EXTENDS ActionServer, Diagnostics, TLAPS

-----------------------------------------------------------------------------
(* Sequences *)

LEMMA LenProperties ==
    ASSUME NEW S, NEW q \in Seq(S)
    PROVE  Len(q) \in Nat /\ q \in [1 .. Len(q) -> S] /\ DOMAIN q = 1 .. Len(q)
  OBVIOUS

LEMMA AppendProperties ==
    ASSUME NEW S, NEW q \in Seq(S), NEW e \in S
    PROVE  /\ Append(q, e) \in Seq(S) /\ Append(q, e) # <<>>
           /\ Len(Append(q, e)) = Len(q) + 1 /\ Append(q, e)[Len(q) + 1] = e
           /\ \A i \in 1 .. Len(q) : Append(q, e)[i] = q[i]
  OBVIOUS

LEMMA SeqEqual ==
    ASSUME NEW S, NEW p \in Seq(S), NEW q \in Seq(S),
           Len(p) = Len(q), \A i \in 1 .. Len(p) : p[i] = q[i]
    PROVE  p = q
  OBVIOUS

-----------------------------------------------------------------------------
(* The action server *)

Answers == [goal : ActionClient, status : Nat, sequence : Seq(Int)]

\* Orders are int32_t values; None is neither a client nor a result.
Distinct == Order \subseteq Int /\ None \notin ActionClient /\ None \notin Answers

Requests == [kind : {"send_goal"}, client : ActionClient, order : Order]
              \union [kind : {"get_result", "cancel_goal"}, client : ActionClient]

TypeInv ==
    /\ pc \in {"recv", "step"}
    /\ {g_goal_active, g_goal_done, g_cancel_requested, g_result_pending} \subseteq BOOLEAN
    /\ g_goal_id \in ActionClient \union {None} /\ g_order \in Int /\ g_feedback \in Seq(Int)
    /\ g_status \in Nat
    /\ g_result_sample_identity \in ActionClient \union {None}
    /\ net \subseteq Requests
    /\ accepted \in [ActionClient -> {"unknown", "waiting", "yes", "no", "cancelled"}]
    /\ asked \in [ActionClient -> {"no", "sent", "own", "late"}]
    /\ answer \in [ActionClient -> Answers \union {None}]

Served(c) == accepted[c] \in {"yes", "cancelled"}

\* Each client sends one goal, and one get_result once its goal was accepted.
RequestsInv ==
    /\ \A m \in net : /\ m.kind = "send_goal" => accepted[m.client] = "waiting"
                      /\ m.kind = "get_result" => asked[m.client] = "sent"
    /\ \A m, n \in net : m.kind = "send_goal" /\ n.kind = "send_goal" /\ m.client = n.client
                           => m = n
    /\ \A c \in ActionClient : /\ asked[c] # "no" => Served(c)
                               /\ Served(c) => g_goal_active
                               /\ g_goal_id = c => Served(c)

\* What was published of the goal, with the flags that say how far it has come.
StatusInv ==
    CASE ~g_goal_active -> ~g_goal_done /\ ~g_cancel_requested /\ published = <<>>
      [] Running /\ ~g_cancel_requested -> published \in {<<1>>, <<1, 2>>}
      [] Running /\ g_cancel_requested -> published \in {<<1, 3>>, <<1, 2, 3>>}
      [] g_goal_done -> \/ g_status = 4 /\ published = <<1, 2, 4>>
                        \/ g_status = 5 /\ published \in {<<1, 3, 5>>, <<1, 2, 3, 5>>}

\* The first n values of the sequence.
Prefix(n) == [i \in 1 .. n |-> Fibonacci[i - 1]]

\* The values computed so far, and all of them once the goal has succeeded.
ValuesInv ==
    /\ g_goal_active <=> g_goal_id # None
    /\ Running => \E n \in 0 .. XRCE_MSGS_SEQ_I32_MAX - 1 :
                    g_feedback = Prefix(n) /\ (n = 0 \/ ~Complete(n, g_order))
    /\ g_goal_done /\ g_status = GOAL_STATUS_SUCCEEDED => g_feedback = Expected(g_order)

\* The one slot for a held request.
HeldInv ==
    g_result_pending =>
        /\ Running
        /\ g_result_sample_identity \in ActionClient
        /\ asked[g_result_sample_identity] \in {"own", "late"}
        /\ asked[g_result_sample_identity] = "own" => g_goal_id = g_result_sample_identity

Late == \E d \in ActionClient : asked[d] = "late"

\* The result a client was sent is that of its own goal.
Right(c) ==
    /\ answer[c].goal = c
    /\ answer[c].status \in {GOAL_STATUS_SUCCEEDED, GOAL_STATUS_CANCELED}
    /\ g_goal_id = c /\ answer[c].status = GOAL_STATUS_SUCCEEDED =>
         answer[c].sequence = Expected(g_order)

\* Only a handled request is answered.  Who asked in time is answered, or is the one
\* whose request is held.
AnsweredInv ==
    \A c \in ActionClient :
        /\ asked[c] \in {"no", "sent"} => answer[c] = None
        /\ asked[c] = "own" =>
             IF answer[c] # None
             THEN Right(c)
             ELSE \/ g_result_pending /\ g_result_sample_identity = c /\ g_goal_id = c
                  \/ Late

ServerInv ==
    TypeInv /\ RequestsInv /\ StatusInv /\ ValuesInv /\ HeldInv /\ AnsweredInv

-----------------------------------------------------------------------------
(* The sequence.  Its domain is finite, so a table shows that the recursive  *)
(* definition has a solution.                                                *)

FibonacciTable == <<0, 1, 1, 2, 3, 5, 8, 13, 21, 34, 55, 89, 144, 233, 377, 610>>

LEMMA FibonacciValues ==
    /\ \A n \in 0 .. 15 : Fibonacci[n] \in Int
    /\ Fibonacci[0] = 0 /\ Fibonacci[1] = 1
    /\ \A n \in 2 .. 15 : Fibonacci[n] = Fibonacci[n - 1] + Fibonacci[n - 2]
  <1> DEFINE Solves(f) == f = [n \in 0 .. 15 |-> IF n < 2 THEN n ELSE f[n - 1] + f[n - 2]]
             table == [n \in 0 .. 15 |-> FibonacciTable[n + 1]]
  <1>1. \A n \in 0 .. 15 :
          table[n] = IF n < 2 THEN n ELSE table[n - 1] + table[n - 2]
    BY DEF FibonacciTable
  <1>2. Solves(table)
    BY <1>1
  <1>3. Fibonacci = CHOOSE f : Solves(f)
    BY DEF Fibonacci, XRCE_MSGS_SEQ_I32_MAX
  <1> HIDE DEF table
  <1>4. Solves(Fibonacci)
    BY Zenon, <1>2, <1>3
  <1>5. \A n \in 0 .. 15 :
          Fibonacci[n] = IF n < 2 THEN n ELSE Fibonacci[n - 1] + Fibonacci[n - 2]
    BY <1>4
  <1> QED
    BY SMTT(30), <1>5

LEMMA Extended ==
    ASSUME NEW s \in Seq(Int), NEW e \in Int, NEW t \in Seq(Int), Len(t) = Len(s) + 1,
           \A i \in 1 .. Len(s) : t[i] = s[i], t[Len(s) + 1] = e
    PROVE  Append(s, e) = t
  BY AppendProperties, LenProperties, SeqEqual

LEMMA Extended1 ==
    ASSUME NEW a \in Int, NEW e \in Int
    PROVE  Append(<<a>>, e) = <<a, e>>
  <1> DEFINE s == <<a>>
             t == <<a, e>>
  <1>1. s \in Seq(Int) /\ Len(s) = 1 /\ t \in Seq(Int) /\ Len(t) = 2
    OBVIOUS
  <1>2. t[1] = s[1] /\ t[2] = e
    OBVIOUS
  <1> HIDE DEF s, t
  <1>3. \A i \in 1 .. Len(s) : t[i] = s[i]
    BY <1>1, <1>2
  <1>4. Append(s, e) = t
    <2>1. Len(t) = Len(s) + 1 /\ t[Len(s) + 1] = e
      BY <1>1, <1>2
    <2> QED
      BY Zenon, <1>1, <1>3, <2>1, Extended
  <1> QED
    BY <1>4 DEF s, t

LEMMA Extended2 ==
    ASSUME NEW a \in Int, NEW b \in Int, NEW e \in Int
    PROVE  Append(<<a, b>>, e) = <<a, b, e>>
  <1> DEFINE s == <<a, b>>
             t == <<a, b, e>>
  <1>1. s \in Seq(Int) /\ Len(s) = 2 /\ t \in Seq(Int) /\ Len(t) = 3
    OBVIOUS
  <1>2. t[1] = s[1] /\ t[2] = s[2] /\ t[3] = e
    OBVIOUS
  <1> HIDE DEF s, t
  <1>3. \A i \in 1 .. Len(s) : t[i] = s[i]
    BY <1>1, <1>2
  <1>4. Append(s, e) = t
    <2>1. Len(t) = Len(s) + 1 /\ t[Len(s) + 1] = e
      BY <1>1, <1>2
    <2> QED
      BY Zenon, <1>1, <1>3, <2>1, Extended
  <1> QED
    BY <1>4 DEF s, t

LEMMA Extended3 ==
    ASSUME NEW a \in Int, NEW b \in Int, NEW c \in Int, NEW e \in Int
    PROVE  Append(<<a, b, c>>, e) = <<a, b, c, e>>
  <1> DEFINE s == <<a, b, c>>
             t == <<a, b, c, e>>
  <1>1. s \in Seq(Int) /\ Len(s) = 3 /\ t \in Seq(Int) /\ Len(t) = 4
    OBVIOUS
  <1>2. t[1] = s[1] /\ t[2] = s[2] /\ t[3] = s[3] /\ t[4] = e
    OBVIOUS
  <1> HIDE DEF s, t
  <1>3. \A i \in 1 .. Len(s) : t[i] = s[i]
    BY <1>1, <1>2
  <1>4. Append(s, e) = t
    <2>1. Len(t) = Len(s) + 1 /\ t[Len(s) + 1] = e
      BY <1>1, <1>2
    <2> QED
      BY Zenon, <1>1, <1>3, <2>1, Extended
  <1> QED
    BY <1>4 DEF s, t

\* What Publish makes of the logs of StatusInv.
LEMMA PublishValues ==
    /\ Publish(2, <<1>>) = <<1, 2>> /\ Publish(2, <<1, 2>>) = <<1, 2>>
    /\ Publish(4, <<1, 2>>) = <<1, 2, 4>>
    /\ Publish(3, <<1>>) = <<1, 3>> /\ Publish(3, <<1, 2>>) = <<1, 2, 3>>
    /\ Publish(3, <<1, 3>>) = <<1, 3>> /\ Publish(3, <<1, 2, 3>>) = <<1, 2, 3>>
    /\ Publish(5, <<1, 3>>) = <<1, 3, 5>> /\ Publish(5, <<1, 2, 3>>) = <<1, 2, 3, 5>>
  <1>1. /\ Append(<<1>>, 2) = <<1, 2>> /\ Append(<<1>>, 3) = <<1, 3>>
        /\ Append(<<1, 2>>, 3) = <<1, 2, 3>> /\ Append(<<1, 2>>, 4) = <<1, 2, 4>>
    BY Extended1, Extended2
  <1>2. /\ Append(<<1, 3>>, 5) = <<1, 3, 5>> /\ Append(<<1, 2, 3>>, 5) = <<1, 2, 3, 5>>
    BY Extended2, Extended3
  <1>3. /\ Len(<<1>>) = 1 /\ Len(<<1, 2>>) = 2 /\ Len(<<1, 3>>) = 2 /\ Len(<<1, 2, 3>>) = 3
    OBVIOUS
  <1>4. /\ <<1>> # <<>> /\ <<1, 2>> # <<>> /\ <<1, 3>> # <<>> /\ <<1, 2, 3>> # <<>>
    OBVIOUS
  <1> QED
    BY <1>1, <1>2, <1>3, <1>4 DEF Publish

LEMMA StatusPrefix ==
    ASSUME StatusInv, g_goal_active \in BOOLEAN, g_goal_done \in BOOLEAN,
           g_cancel_requested \in BOOLEAN
    PROVE  StatusOrder
  <1>1. published \in {<<>>, <<1>>, <<1, 2>>, <<1, 3>>, <<1, 2, 3>>, <<1, 2, 4>>,
                       <<1, 3, 5>>, <<1, 2, 3, 5>>}
    BY Zenon DEF StatusInv, Running
  <1> DEFINE Starts(p, path) == Len(p) <= Len(path) /\ \A i \in 1 .. Len(p) : p[i] = path[i]
  <1>2. Starts(<<>>, <<1, 2, 4>>) /\ Starts(<<1>>, <<1, 2, 4>>)
    OBVIOUS
  <1>3. Starts(<<1, 2>>, <<1, 2, 4>>) /\ Starts(<<1, 2, 4>>, <<1, 2, 4>>)
    OBVIOUS
  <1>4. Starts(<<1, 3>>, <<1, 3, 5>>) /\ Starts(<<1, 3, 5>>, <<1, 3, 5>>)
    OBVIOUS
  <1>5. Starts(<<1, 2, 3>>, <<1, 2, 3, 5>>) /\ Starts(<<1, 2, 3, 5>>, <<1, 2, 3, 5>>)
    OBVIOUS
  <1>6. StatusOrder <=> \E path \in {<<1, 2, 4>>, <<1, 2, 3, 5>>, <<1, 3, 5>>} :
                          Starts(published, path)
    BY Zenon DEF StatusOrder
  <1> HIDE DEF Starts
  <1> QED
    BY Zenon, <1>1, <1>2, <1>3, <1>4, <1>5, <1>6

-----------------------------------------------------------------------------
(* Steps of the clients and of the network *)

\* As long as the goal is left alone, so is what was published and computed of it.
LEMMA GoalFrame ==
    ASSUME ServerInv, UNCHANGED goal
    PROVE  StatusInv' /\ ValuesInv'
  <1>1. Running' = Running
    BY DEF Running, goal
  <1>2. StatusInv'
    BY Zenon, <1>1 DEF ServerInv, StatusInv, goal
  <1>3. ValuesInv'
    BY <1>1 DEF ServerInv, ValuesInv, goal
  <1> QED
    BY <1>2, <1>3

\* As long as the goal, the held request and the results are left alone as well, so is
\* who is answered.
LEMMA HeldFrame ==
    ASSUME ServerInv, UNCHANGED <<goal, held, answer>>,
           \A c \in ActionClient : asked[c] \in {"own", "late"} => asked'[c] = asked[c],
           \A c \in ActionClient : asked'[c] = "own" => asked[c] = "own"
    PROVE  HeldInv' /\ AnsweredInv'
  <1>1. Running' = Running
    BY DEF Running, goal
  <1>2. HeldInv'
    BY <1>1 DEF ServerInv, HeldInv, goal, held
  <1>3. Late => Late'
    BY DEF Late
  <1>4. AnsweredInv'
    BY <1>1, <1>3 DEF ServerInv, TypeInv, AnsweredInv, Right, goal, held
  <1> QED
    BY <1>2, <1>4

LEMMA send_goal_Inv ==
    ASSUME ServerInv, NEW c \in ActionClient, NEW order \in Order, send_goal(c, order)
    PROVE  ServerInv'
  <1> DEFINE m == [kind |-> "send_goal", client |-> c, order |-> order]
  <1>1. /\ accepted[c] = "unknown" /\ accepted' = [accepted EXCEPT ![c] = "waiting"]
        /\ net' = net \union {m}
        /\ UNCHANGED <<pc, goal, held, asked, answer>>
    BY DEF send_goal
  <1>2. m \in Requests /\ m.kind = "send_goal" /\ m.client = c
    BY DEF Requests
  <1>3. accepted \in [ActionClient -> {"unknown", "waiting", "yes", "no", "cancelled"}]
    BY DEF ServerInv, TypeInv
  <1> HIDE DEF m
  <1>4. TypeInv'
    BY <1>1, <1>2 DEF ServerInv, TypeInv, goal, held
  <1>5. \A d \in ActionClient : Served(d)' <=> Served(d)
    BY <1>1, <1>3 DEF Served
  <1>6. \A n \in net : n.client \in ActionClient
    BY DEF ServerInv, TypeInv, Requests
  <1>7. RequestsInv'
    <2>1. \A n \in net' : /\ n.kind = "send_goal" => accepted'[n.client] = "waiting"
                          /\ n.kind = "get_result" => asked'[n.client] = "sent"
      BY <1>1, <1>2, <1>3, <1>6 DEF ServerInv, RequestsInv
    <2>2. \A n, o \in net' : n.kind = "send_goal" /\ o.kind = "send_goal" /\ n.client = o.client
                               => n = o
      BY <1>1, <1>2, <1>3, <1>6 DEF ServerInv, RequestsInv
    <2>3. \A d \in ActionClient : /\ asked'[d] # "no" => Served(d)'
                                  /\ Served(d)' => g_goal_active'
                                  /\ g_goal_id' = d => Served(d)'
      BY <1>1, <1>5 DEF ServerInv, RequestsInv, goal
    <2> QED
      BY <2>1, <2>2, <2>3 DEF RequestsInv
  <1> QED
    BY <1>1, <1>4, <1>7, GoalFrame, HeldFrame DEF ServerInv

LEMMA get_result_Inv ==
    ASSUME ServerInv, NEW c \in ActionClient, get_result(c)
    PROVE  ServerInv'
  <1> DEFINE m == [kind |-> "get_result", client |-> c]
  <1>1. /\ accepted[c] = "yes" /\ asked[c] = "no" /\ asked' = [asked EXCEPT ![c] = "sent"]
        /\ net' = net \union {m}
        /\ UNCHANGED <<pc, goal, held, accepted, answer>>
    BY DEF get_result
  <1>2. m \in Requests /\ m.kind = "get_result" /\ m.client = c
    BY DEF Requests
  <1>3. asked \in [ActionClient -> {"no", "sent", "own", "late"}]
    BY DEF ServerInv, TypeInv
  <1> HIDE DEF m
  <1>4. TypeInv'
    BY <1>1, <1>2 DEF ServerInv, TypeInv, goal, held
  <1>5. Served(c) /\ \A d \in ActionClient : Served(d)' <=> Served(d)
    BY <1>1 DEF Served
  <1>6. \A n \in net : n.client \in ActionClient
    BY DEF ServerInv, TypeInv, Requests
  <1>7. RequestsInv'
    <2>1. \A n \in net' : /\ n.kind = "send_goal" => accepted'[n.client] = "waiting"
                          /\ n.kind = "get_result" => asked'[n.client] = "sent"
      BY <1>1, <1>2, <1>3, <1>6 DEF ServerInv, RequestsInv
    <2>2. \A n, o \in net' : n.kind = "send_goal" /\ o.kind = "send_goal" /\ n.client = o.client
                               => n = o
      BY <1>1, <1>2 DEF ServerInv, RequestsInv
    <2>3. \A d \in ActionClient : /\ asked'[d] # "no" => Served(d)'
                                  /\ Served(d)' => g_goal_active'
                                  /\ g_goal_id' = d => Served(d)'
      BY <1>1, <1>3, <1>5 DEF ServerInv, RequestsInv, goal
    <2> QED
      BY <2>1, <2>2, <2>3 DEF RequestsInv
  <1>8. /\ \A d \in ActionClient : asked[d] \in {"own", "late"} => asked'[d] = asked[d]
        /\ \A d \in ActionClient : asked'[d] = "own" => asked[d] = "own"
    BY <1>1, <1>3
  <1> QED
    BY <1>1, <1>4, <1>7, <1>8, GoalFrame, HeldFrame DEF ServerInv

LEMMA cancel_goal_Inv ==
    ASSUME ServerInv, NEW c \in ActionClient, cancel_goal(c)
    PROVE  ServerInv'
  <1> DEFINE m == [kind |-> "cancel_goal", client |-> c]
  <1>1. /\ accepted[c] = "yes" /\ accepted' = [accepted EXCEPT ![c] = "cancelled"]
        /\ net' = net \union {m}
        /\ UNCHANGED <<pc, goal, held, asked, answer>>
    BY DEF cancel_goal
  <1>2. m \in Requests /\ m.kind = "cancel_goal" /\ m.client = c
    BY DEF Requests
  <1>3. accepted \in [ActionClient -> {"unknown", "waiting", "yes", "no", "cancelled"}]
    BY DEF ServerInv, TypeInv
  <1> HIDE DEF m
  <1>4. TypeInv'
    BY <1>1, <1>2 DEF ServerInv, TypeInv, goal, held
  <1>5. \A d \in ActionClient : Served(d)' <=> Served(d)
    BY <1>1, <1>3 DEF Served
  <1>6. \A n \in net : n.client \in ActionClient
    BY DEF ServerInv, TypeInv, Requests
  <1>7. RequestsInv'
    <2>1. \A n \in net' : /\ n.kind = "send_goal" => accepted'[n.client] = "waiting"
                          /\ n.kind = "get_result" => asked'[n.client] = "sent"
      BY <1>1, <1>2, <1>3, <1>6 DEF ServerInv, RequestsInv
    <2>2. \A n, o \in net' : n.kind = "send_goal" /\ o.kind = "send_goal" /\ n.client = o.client
                               => n = o
      BY <1>1, <1>2 DEF ServerInv, RequestsInv
    <2>3. \A d \in ActionClient : /\ asked'[d] # "no" => Served(d)'
                                  /\ Served(d)' => g_goal_active'
                                  /\ g_goal_id' = d => Served(d)'
      BY <1>1, <1>5 DEF ServerInv, RequestsInv, goal
    <2> QED
      BY <2>1, <2>2, <2>3 DEF RequestsInv
  <1> QED
    BY <1>1, <1>4, <1>7, GoalFrame, HeldFrame DEF ServerInv

\* A request leaves the network, and no client has been told anything new.
LEMMA FewerRequests ==
    ASSUME ServerInv, net' \subseteq net, UNCHANGED <<accepted, asked, g_goal_active, g_goal_id>>
    PROVE  RequestsInv'
  BY DEF ServerInv, RequestsInv, Served

LEMMA lose_Inv ==
    ASSUME ServerInv, NEW m \in net, lose(m)
    PROVE  ServerInv'
  <1>1. net' \subseteq net /\ UNCHANGED <<pc, goal, held, accepted, asked, answer>>
    BY DEF lose
  <1>2. TypeInv'
    BY <1>1 DEF ServerInv, TypeInv, goal, held
  <1>3. RequestsInv'
    BY <1>1, FewerRequests DEF goal
  <1> QED
    BY <1>1, <1>2, <1>3, GoalFrame, HeldFrame DEF ServerInv

-----------------------------------------------------------------------------
(* Steps of the loop *)

LEMMA idle_Inv ==
    ASSUME ServerInv, recv_timeout \/ step_skip
    PROVE  ServerInv'
  <1>1. pc' \in {"recv", "step"} /\ UNCHANGED <<goal, held, clients>>
    BY DEF recv_timeout, step_skip
  <1>2. TypeInv'
    BY <1>1 DEF ServerInv, TypeInv, goal, held, clients
  <1>3. RequestsInv'
    BY <1>1, FewerRequests DEF goal, clients
  <1> QED
    BY <1>1, <1>2, <1>3, GoalFrame, HeldFrame DEF ServerInv, clients

\* can_accept holds, so no request is held and every earlier client's goal is over.
LEMMA goal_accepted_Inv ==
    ASSUME Distinct, ServerInv, NEW m \in net, handle_send_goal(m), can_accept
    PROVE  ServerInv'
  <1>1. /\ pc' = "step" /\ m.kind = "send_goal" /\ net' = net \ {m}
        /\ accepted' = [accepted EXCEPT ![m.client] = "yes"]
        /\ g_goal_active' = TRUE /\ g_goal_done' = FALSE /\ g_cancel_requested' = FALSE
        /\ g_goal_id' = m.client /\ g_order' = m.order /\ g_feedback' = <<>>
        /\ g_status' = GOAL_STATUS_ACCEPTED /\ published' = <<GOAL_STATUS_ACCEPTED>>
        /\ UNCHANGED <<held, asked, answer>>
    BY DEF handle_send_goal, Received
  <1>2. m.client \in ActionClient /\ m.order \in Int
    BY Zenon, <1>1 DEF ServerInv, TypeInv, Requests, Distinct
  <1>3. /\ accepted \in [ActionClient -> {"unknown", "waiting", "yes", "no", "cancelled"}]
        /\ accepted[m.client] = "waiting"
    BY <1>1 DEF ServerInv, TypeInv, RequestsInv
  <1>4. asked[m.client] = "no"
    BY Zenon, <1>2, <1>3 DEF ServerInv, TypeInv, RequestsInv, Served
  <1>5. ~g_result_pending
    BY DEF ServerInv, TypeInv, HeldInv, Running, can_accept
  <1>6. TypeInv'
    <2>1. accepted' \in [ActionClient -> {"unknown", "waiting", "yes", "no", "cancelled"}]
      BY <1>1, <1>2, <1>3
    <2>2. g_feedback' \in Seq(Int) /\ g_status' \in Nat
      BY <1>1 DEF GOAL_STATUS_ACCEPTED
    <2> QED
      BY Zenon, <1>1, <1>2, <2>1, <2>2 DEF ServerInv, TypeInv, held
  <1>7. RequestsInv'
    <2>1. \A n \in net : n.client \in ActionClient
      BY DEF ServerInv, TypeInv, Requests
    <2>2. \A n \in net' : /\ n.kind = "send_goal" => accepted'[n.client] = "waiting"
                          /\ n.kind = "get_result" => asked'[n.client] = "sent"
      BY <1>1, <1>2, <1>3, <2>1 DEF ServerInv, RequestsInv
    <2>3. \A n, o \in net' : n.kind = "send_goal" /\ o.kind = "send_goal" /\ n.client = o.client
                               => n = o
      BY <1>1 DEF ServerInv, RequestsInv
    <2>4. \A d \in ActionClient : /\ asked'[d] # "no" => Served(d)'
                                  /\ g_goal_id' = d => Served(d)'
      BY <1>1, <1>2, <1>3 DEF ServerInv, RequestsInv, Served
    <2> QED
      BY <1>1, <2>2, <2>3, <2>4 DEF RequestsInv
  <1>8. StatusInv'
    BY Zenon, <1>1 DEF StatusInv, Running, GOAL_STATUS_ACCEPTED
  <1>9. ValuesInv'
    <2>1. <<>> = Prefix(0)
      BY DEF Prefix
    <2> QED
      BY <1>1, <1>2, <2>1 DEF ValuesInv, Running, Distinct, XRCE_MSGS_SEQ_I32_MAX
  <1>10. HeldInv'
    BY <1>1, <1>5 DEF HeldInv, held
  <1>11. AnsweredInv'
    <2>1. Late' <=> Late
      BY <1>1 DEF Late
    <2>2. \A c \in ActionClient : asked[c] = "own" => g_goal_id' # c
      BY <1>1, <1>4
    <2> QED
      BY <1>1, <1>5, <2>1, <2>2 DEF ServerInv, AnsweredInv, Right, held
  <1> QED
    BY <1>6, <1>7, <1>8, <1>9, <1>10, <1>11 DEF ServerInv

LEMMA goal_refused_Inv ==
    ASSUME ServerInv, NEW m \in net, handle_send_goal(m), ~can_accept
    PROVE  ServerInv'
  <1>1. /\ pc' = "step" /\ m.kind = "send_goal" /\ net' = net \ {m}
        /\ accepted' = [accepted EXCEPT ![m.client] = "no"]
        /\ UNCHANGED <<goal, held, asked, answer>>
    BY DEF handle_send_goal, Received
  <1>2. m.client \in ActionClient
    BY <1>1 DEF ServerInv, TypeInv, Requests
  <1>3. /\ accepted \in [ActionClient -> {"unknown", "waiting", "yes", "no", "cancelled"}]
        /\ accepted[m.client] = "waiting"
    BY <1>1 DEF ServerInv, TypeInv, RequestsInv
  <1>4. TypeInv'
    BY <1>1, <1>2, <1>3 DEF ServerInv, TypeInv, goal, held
  <1>5. RequestsInv'
    <2>1. \A n \in net : n.client \in ActionClient
      BY DEF ServerInv, TypeInv, Requests
    <2>2. \A n \in net' : /\ n.kind = "send_goal" => accepted'[n.client] = "waiting"
                          /\ n.kind = "get_result" => asked'[n.client] = "sent"
      BY Zenon, <1>1, <1>2, <1>3, <2>1 DEF ServerInv, RequestsInv
    <2>3. \A n, o \in net' : n.kind = "send_goal" /\ o.kind = "send_goal" /\ n.client = o.client
                               => n = o
      BY <1>1 DEF ServerInv, RequestsInv
    <2>4. \A d \in ActionClient : Served(d)' <=> Served(d)
      BY <1>1, <1>2, <1>3 DEF Served
    <2> QED
      BY Zenon, <1>1, <2>2, <2>3, <2>4 DEF ServerInv, RequestsInv, goal
  <1> QED
    BY <1>1, <1>4, <1>5, GoalFrame, HeldFrame DEF ServerInv

LEMMA handle_cancel_goal_Inv ==
    ASSUME ServerInv, NEW m \in net, handle_cancel_goal(m)
    PROVE  ServerInv'
  <1>1. /\ pc' = "step" /\ net' = net \ {m}
        /\ UNCHANGED <<held, accepted, asked, answer>>
    BY DEF handle_cancel_goal, Received
  <1>2. CASE ~Running
    <2>1. UNCHANGED goal
      BY <1>2 DEF handle_cancel_goal
    <2>2. TypeInv'
      BY <1>1, <2>1 DEF ServerInv, TypeInv, goal, held
    <2>3. RequestsInv'
      BY <1>1, <2>1, FewerRequests DEF goal
    <2> QED
      BY <1>1, <2>1, <2>2, <2>3, GoalFrame, HeldFrame DEF ServerInv
  <1>3. CASE Running
    <2>1. /\ g_cancel_requested' = TRUE /\ g_status' = GOAL_STATUS_CANCELING
          /\ published' = Publish(3, published)
          /\ UNCHANGED <<g_goal_active, g_goal_done, g_goal_id, g_order, g_feedback>>
      BY <1>3 DEF handle_cancel_goal, GOAL_STATUS_CANCELING
    <2>2. TypeInv'
      BY <1>1, <2>1 DEF ServerInv, TypeInv, held, GOAL_STATUS_CANCELING
    <2>3. RequestsInv'
      BY <1>1, <2>1, FewerRequests
    <2>4. Running'
      BY <1>3, <2>1 DEF Running
    <2>5. StatusInv'
      <3>1. published \in {<<1>>, <<1, 2>>, <<1, 3>>, <<1, 2, 3>>}
        BY Zenon, <1>3 DEF ServerInv, TypeInv, StatusInv, Running
      <3>2. published' \in {<<1, 3>>, <<1, 2, 3>>}
        BY <2>1, <3>1, PublishValues
      <3> QED
        BY <2>1, <2>4, <3>2 DEF StatusInv, Running
    <2>6. ValuesInv'
      BY <1>3, <2>1, <2>4 DEF ServerInv, ValuesInv, Running
    <2>7. HeldInv'
      BY <1>1, <2>1, <2>4 DEF ServerInv, HeldInv, held
    <2>8. AnsweredInv'
      <3>1. Late' <=> Late
        BY <1>1 DEF Late
      <3> QED
        BY Zenon, <1>1, <2>1, <3>1 DEF ServerInv, AnsweredInv, Right, held
    <2> QED
      BY <2>2, <2>3, <2>5, <2>6, <2>7, <2>8 DEF ServerInv
  <1> QED
    BY <1>2, <1>3

\* The request is marked as handled, and no other one is of the same client.
LEMMA Handled ==
    ASSUME ServerInv, NEW m \in net, handle_get_result(m)
    PROVE  /\ m.client \in ActionClient /\ asked[m.client] = "sent" /\ g_goal_active
           /\ g_goal_id \in ActionClient
           /\ asked' \in [ActionClient -> {"no", "sent", "own", "late"}]
           /\ asked'[m.client] = IF g_goal_id = m.client THEN "own" ELSE "late"
           /\ \A c \in ActionClient \ {m.client} : asked'[c] = asked[c]
           /\ RequestsInv' /\ StatusInv' /\ ValuesInv'
  <1>1. /\ m.kind = "get_result" /\ net' = net \ {m} /\ UNCHANGED <<goal, accepted>>
        /\ asked' = [asked EXCEPT ![m.client] = IF g_goal_id = m.client THEN "own" ELSE "late"]
    BY DEF handle_get_result, Received
  <1>2. asked \in [ActionClient -> {"no", "sent", "own", "late"}]
    BY DEF ServerInv, TypeInv
  <1>3. m.client \in ActionClient /\ asked[m.client] = "sent"
    BY Zenon, <1>1 DEF ServerInv, TypeInv, Requests, RequestsInv
  <1>4. Served(m.client) /\ g_goal_active /\ g_goal_id \in ActionClient
    BY Zenon, <1>3 DEF ServerInv, TypeInv, RequestsInv, ValuesInv
  <1>5. /\ asked' \in [ActionClient -> {"no", "sent", "own", "late"}]
        /\ asked'[m.client] = IF g_goal_id = m.client THEN "own" ELSE "late"
        /\ \A c \in ActionClient \ {m.client} : asked'[c] = asked[c]
    BY <1>1, <1>2, <1>3
  <1>6. RequestsInv'
    <2>1. \A n \in net' : n.client \in ActionClient /\ (n.kind = "get_result" => n.client # m.client)
      <3> SUFFICES ASSUME NEW n \in net' PROVE n.client \in ActionClient
                              /\ (n.kind = "get_result" /\ n.client = m.client => n = m)
        BY <1>1
      <3>1. n \in Requests /\ m \in Requests
        BY <1>1 DEF ServerInv, TypeInv
      <3> QED
        BY <1>1, <3>1 DEF Requests
    <2>2. \A n \in net' : /\ n.kind = "send_goal" => accepted'[n.client] = "waiting"
                          /\ n.kind = "get_result" => asked'[n.client] = "sent"
      BY Zenon, <1>1, <1>5, <2>1 DEF ServerInv, RequestsInv
    <2>3. \A n, o \in net' : n.kind = "send_goal" /\ o.kind = "send_goal" /\ n.client = o.client
                               => n = o
      BY <1>1 DEF ServerInv, RequestsInv
    <2>4. \A d \in ActionClient : /\ Served(d)' <=> Served(d)
                                  /\ asked'[d] # "no" => Served(d)
      BY Zenon, <1>1, <1>4, <1>5 DEF ServerInv, RequestsInv, Served
    <2> QED
      BY Zenon, <1>1, <2>2, <2>3, <2>4 DEF ServerInv, RequestsInv, goal
  <1> QED
    BY <1>1, <1>3, <1>4, <1>5, <1>6, GoalFrame

\* The goal still runs, so the request takes the slot; a request it displaces is of a
\* client that asked late, or the new one is.
LEMMA result_held_Inv ==
    ASSUME ServerInv, NEW m \in net, handle_get_result(m), ~g_goal_done
    PROVE  ServerInv'
  <1>1. /\ pc' = "step" /\ net' = net \ {m} /\ UNCHANGED <<goal, accepted, answer>>
        /\ g_result_pending' = TRUE /\ g_result_sample_identity' = m.client
    BY DEF handle_get_result, Received
  <1>2. TypeInv'
    BY Zenon, <1>1, Handled DEF ServerInv, TypeInv, goal
  <1>3. Running'
    BY Zenon, <1>1, Handled DEF Running, goal
  <1>4. HeldInv'
    BY Zenon, <1>1, <1>3, Handled DEF HeldInv, goal
  <1>5. AnsweredInv'
    <2>1. Late => Late'
      BY Zenon, Handled DEF Late
    <2>2. asked'[m.client] = "late" => Late'
      BY Handled DEF Late
    <2>3. \A c \in ActionClient : Right(c)' <=> Right(c)
      BY Zenon, <1>1 DEF Right, goal
    <2>4. g_goal_id' = g_goal_id
      BY <1>1 DEF goal
    <2> SUFFICES ASSUME NEW c \in ActionClient
                 PROVE  /\ asked'[c] \in {"no", "sent"} => answer[c] = None
                        /\ asked'[c] = "own" =>
                             IF answer[c] # None
                             THEN Right(c)
                             ELSE (m.client = c /\ g_goal_id = c) \/ Late'
      BY <1>1, <2>3, <2>4 DEF AnsweredInv
    <2>5. CASE c = m.client
      BY Zenon, <2>5, Handled DEF ServerInv, AnsweredInv
    <2>6. CASE c # m.client
      <3>1. asked'[c] = asked[c]
        BY Zenon, <2>6, Handled
      <3>2. g_goal_id = c => Late'
        BY <2>2, <2>6, Handled
      <3> QED
        BY Zenon, <2>1, <3>1, <3>2 DEF ServerInv, AnsweredInv
    <2> QED
      BY <2>5, <2>6
  <1> QED
    BY Zenon, <1>2, <1>4, <1>5, Handled DEF ServerInv

\* The result of the goal that is over.
Result == [goal |-> g_goal_id, status |-> g_status, sequence |-> g_feedback]

LEMMA result_replied_Inv ==
    ASSUME Distinct, ServerInv, NEW m \in net, handle_get_result(m), g_goal_done
    PROVE  ServerInv'
  <1>1. /\ pc' = "step" /\ net' = net \ {m} /\ UNCHANGED <<goal, held, accepted>>
        /\ answer' = [answer EXCEPT ![m.client] = Result]
    BY Zenon DEF handle_get_result, Received, reply_result, Result
  <1>2. Result \in Answers
    BY Zenon, Handled DEF ServerInv, TypeInv, Result, Answers
  <1>3. /\ Result.goal = g_goal_id /\ Result.sequence = g_feedback
        /\ Result.status = g_status /\ g_status \in {4, 5}
    BY Handled DEF ServerInv, TypeInv, StatusInv, Running, Result
  <1>4. answer \in [ActionClient -> Answers \union {None}]
    BY DEF ServerInv, TypeInv
  <1> HIDE DEF Result
  <1>5. /\ answer' \in [ActionClient -> Answers \union {None}]
        /\ answer'[m.client] = Result
        /\ \A c \in ActionClient \ {m.client} : answer'[c] = answer[c]
    BY Zenon, <1>1, <1>2, <1>4, Handled
  <1>6. TypeInv'
    BY Zenon, <1>1, <1>5, Handled DEF ServerInv, TypeInv, goal, held
  <1>7. ~g_result_pending
    BY Zenon DEF ServerInv, TypeInv, HeldInv, Running
  <1>8. HeldInv'
    BY <1>1, <1>7 DEF HeldInv, held
  <1>9. AnsweredInv'
    <2>1. Late => Late'
      BY Handled DEF Late
    <2>2. UNCHANGED <<g_goal_id, g_order>>
      BY <1>1 DEF goal
    <2>3. g_goal_id = m.client => Right(m.client)'
      BY Zenon, <1>3, <1>5, <2>2 DEF ServerInv, ValuesInv, Right, GOAL_STATUS_SUCCEEDED,
         GOAL_STATUS_CANCELED
    <2> SUFFICES ASSUME NEW c \in ActionClient
                 PROVE  /\ asked'[c] \in {"no", "sent"} => answer'[c] = None
                        /\ asked'[c] = "own" => IF answer'[c] # None THEN Right(c)' ELSE Late'
      BY Zenon DEF AnsweredInv
    <2>4. CASE c = m.client
      BY Zenon, <1>5, <1>2, <2>3, <2>4, Handled DEF Distinct
    <2>5. CASE c # m.client
      <3>1. asked'[c] = asked[c] /\ answer'[c] = answer[c]
        BY Zenon, <1>5, <2>5, Handled
      <3>2. Right(c)' <=> Right(c)
        BY <2>2, <3>1 DEF Right
      <3> QED
        BY Zenon, <1>7, <2>1, <3>1, <3>2 DEF ServerInv, AnsweredInv
    <2> QED
      BY Zenon, <2>4, <2>5
  <1> QED
    BY Zenon, <1>6, <1>8, <1>9, Handled DEF ServerInv

\* The goal ends: the held request, if there is one, is answered and the slot is free.
LEMMA Replied ==
    ASSUME Distinct, ServerInv, Running, NEW status \in {4, 5}, NEW values \in Seq(Int),
           status = 4 => values = Expected(g_order),
           maybe_reply_pending_result(status, values),
           UNCHANGED <<g_goal_id, g_order, asked>>
    PROVE  /\ g_result_pending' = FALSE
           /\ g_result_sample_identity' = g_result_sample_identity
           /\ answer' \in [ActionClient -> Answers \union {None}]
           /\ AnsweredInv'
  <1>1. Late' <=> Late
    BY DEF Late
  <1>2. answer \in [ActionClient -> Answers \union {None}] /\ g_result_pending \in BOOLEAN
    BY DEF ServerInv, TypeInv
  <1>3. CASE ~g_result_pending
    <2>1. UNCHANGED <<answer, g_result_pending, g_result_sample_identity>>
      BY <1>3 DEF maybe_reply_pending_result, held
    <2>2. \A c \in ActionClient : Right(c)' <=> Right(c)
      BY Zenon, <2>1 DEF Right
    <2>3. AnsweredInv'
      BY Zenon, <1>1, <1>3, <2>1, <2>2 DEF ServerInv, AnsweredInv
    <2> QED
      BY <1>2, <1>3, <2>1, <2>3
  <1>4. CASE g_result_pending
    <2>1. g_result_sample_identity \in ActionClient
      BY <1>4 DEF ServerInv, HeldInv
    <2>2. PICK r \in ActionClient : r = g_result_sample_identity
      BY <2>1
    <2> DEFINE result == [goal |-> g_goal_id, status |-> status, sequence |-> values]
    <2>3. /\ answer' = [answer EXCEPT ![r] = result] /\ g_result_pending' = FALSE
          /\ g_result_sample_identity' = g_result_sample_identity
      BY <1>4, <2>2 DEF maybe_reply_pending_result, reply_result
    <2>4. asked[r] \in {"own", "late"} /\ (asked[r] = "own" => g_goal_id = r)
      BY <1>4, <2>2 DEF ServerInv, HeldInv
    <2>5. g_goal_id \in ActionClient
      BY Zenon DEF ServerInv, TypeInv, ValuesInv, Running
    <2>6. /\ result \in Answers /\ result.goal = g_goal_id /\ result.status = status
          /\ result.sequence = values
      BY <2>5 DEF Answers
    <2> HIDE DEF result
    <2>7. /\ answer' \in [ActionClient -> Answers \union {None}] /\ answer'[r] = result
          /\ \A c \in ActionClient \ {r} : answer'[c] = answer[c]
      BY Zenon, <1>2, <2>3, <2>4, <2>6
    <2>8. AnsweredInv'
      <3>1. g_goal_id = r => Right(r)'
        <4>1. g_goal_id' = g_goal_id /\ g_order' = g_order
          OBVIOUS
        <4> QED
          BY Zenon, <2>6, <2>7, <4>1 DEF Right, GOAL_STATUS_SUCCEEDED, GOAL_STATUS_CANCELED
      <3> SUFFICES ASSUME NEW c \in ActionClient
                   PROVE  /\ asked[c] \in {"no", "sent"} => answer'[c] = None
                          /\ asked[c] = "own" => IF answer'[c] # None THEN Right(c)' ELSE Late
        BY Zenon, <1>1 DEF AnsweredInv
      <3>2. CASE c = r
        <4>1. answer'[c] = result /\ result # None
          BY Zenon, <2>6, <2>7, <3>2 DEF Distinct
        <4> QED
          BY Zenon, <2>4, <3>1, <3>2, <4>1
      <3>3. CASE c # r
        <4>1. answer'[c] = answer[c]
          BY <2>7, <3>3
        <4>2. Right(c)' <=> Right(c)
          BY Zenon, <4>1 DEF Right
        <4> QED
          BY Zenon, <2>2, <3>3, <4>1, <4>2 DEF ServerInv, AnsweredInv
      <3> QED
        BY <3>2, <3>3
    <2> QED
      BY <2>3, <2>7, <2>8
  <1> QED
    BY Zenon, <1>2, <1>3, <1>4

LEMMA step_cancel_Inv ==
    ASSUME Distinct, ServerInv, step_cancel
    PROVE  ServerInv'
  <1>1. /\ pc' = "recv" /\ Running /\ g_cancel_requested /\ g_status' = 5 /\ g_goal_done' = TRUE
        /\ published' = Publish(5, published)
        /\ maybe_reply_pending_result(5, g_feedback)
        /\ UNCHANGED <<g_goal_active, g_cancel_requested, g_goal_id, g_order, g_feedback,
                       net, accepted, asked>>
    BY DEF step_cancel, GOAL_STATUS_CANCELED
  <1>2. g_feedback \in Seq(Int)
    BY DEF ServerInv, TypeInv
  <1>3. /\ g_result_pending' = FALSE
        /\ g_result_sample_identity' = g_result_sample_identity
        /\ answer' \in [ActionClient -> Answers \union {None}]
        /\ AnsweredInv'
    <2>1. 5 \in {4, 5} /\ 5 # 4 /\ UNCHANGED <<g_goal_id, g_order, asked>>
      BY <1>1
    <2> QED
      BY <1>1, <1>2, <2>1, Replied, Zenon
  <1>4. TypeInv'
    <2>1. g_status' \in Nat /\ g_goal_done' \in BOOLEAN /\ g_result_pending' \in BOOLEAN
      BY Zenon, <1>1, <1>3
    <2> QED
      BY <1>1, <1>3, <2>1, Zenon DEF ServerInv, TypeInv
  <1>5. RequestsInv'
    BY <1>1, FewerRequests
  <1>6. StatusInv'
    <2>1. published \in {<<1, 3>>, <<1, 2, 3>>} /\ g_goal_active
      BY <1>1 DEF ServerInv, TypeInv, StatusInv, Running
    <2>2. published' \in {<<1, 3, 5>>, <<1, 2, 3, 5>>}
      BY Zenon, <1>1, <2>1, PublishValues
    <2> QED
      BY <1>1, <2>1, <2>2 DEF StatusInv, Running
  <1>7. ValuesInv'
    BY <1>1 DEF ServerInv, ValuesInv, Running, GOAL_STATUS_SUCCEEDED
  <1>8. HeldInv'
    BY <1>3 DEF HeldInv
  <1> QED
    BY <1>3, <1>4, <1>5, <1>6, <1>7, <1>8 DEF ServerInv

LEMMA PrefixSeq ==
    ASSUME NEW n \in 0 .. 16
    PROVE  /\ Prefix(n) \in Seq(Int) /\ Len(Prefix(n)) = n
           /\ \A i \in 1 .. n : Prefix(n)[i] = Fibonacci[i - 1]
  <1>1. \A i \in 1 .. n : Fibonacci[i - 1] \in Int
    <2> SUFFICES ASSUME NEW i \in 1 .. n PROVE Fibonacci[i - 1] \in Int
      OBVIOUS
    <2>1. i - 1 \in 0 .. 15
      OBVIOUS
    <2> QED
      BY <2>1, FibonacciValues
  <1>2. n \in Nat
    OBVIOUS
  <1> QED
    BY <1>1, <1>2 DEF Prefix

\* One more value: the next one of the sequence.
LEMMA NextOfPrefix ==
    ASSUME NEW n \in 0 .. XRCE_MSGS_SEQ_I32_MAX - 1
    PROVE  /\ Prefix(n) \in Seq(Int) /\ Len(Prefix(n)) = n
           /\ Append(Prefix(n), NextValue(Prefix(n))) = Prefix(n + 1)
  <1>1. n \in 0 .. 15 /\ n \in 0 .. 16 /\ n + 1 \in 0 .. 16
    BY DEF XRCE_MSGS_SEQ_I32_MAX
  <1>2. /\ Prefix(n) \in Seq(Int) /\ Len(Prefix(n)) = n
        /\ \A i \in 1 .. n : Prefix(n)[i] = Fibonacci[i - 1]
    BY Zenon, <1>1, PrefixSeq
  <1>3. /\ Prefix(n + 1) \in Seq(Int) /\ Len(Prefix(n + 1)) = n + 1
        /\ \A i \in 1 .. n + 1 : Prefix(n + 1)[i] = Fibonacci[i - 1]
    BY Zenon, <1>1, PrefixSeq
  <1>4. NextValue(Prefix(n)) = Fibonacci[n]
    <2>1. CASE n < 2
      <3>1. n = 0 \/ n = 1
        BY <1>1, <2>1
      <3>2. Fibonacci[n] = n
        BY <3>1, FibonacciValues, Zenon
      <3>3. NextValue(Prefix(n)) = n
        BY <1>2, <2>1, Zenon DEF NextValue
      <3> QED
        BY <3>2, <3>3
    <2>2. CASE ~(n < 2)
      <3>1. n \in 2 .. 15 /\ n \in 1 .. n /\ n - 1 \in 1 .. n /\ (n - 1) - 1 = n - 2
        BY <1>1, <2>2
      <3>2. Prefix(n)[n] = Fibonacci[n - 1] /\ Prefix(n)[n - 1] = Fibonacci[n - 2]
        BY Zenon, <1>2, <3>1
      <3>3. Fibonacci[n] = Fibonacci[n - 1] + Fibonacci[n - 2]
        BY Zenon, <3>1, FibonacciValues
      <3> QED
        BY <1>2, <2>2, <3>2, <3>3, Zenon DEF NextValue
    <2> QED
      BY <2>1, <2>2
  <1>5. Fibonacci[n] \in Int
    BY <1>1, FibonacciValues
  <1>6. /\ \A i \in 1 .. n : Prefix(n + 1)[i] = Prefix(n)[i]
        /\ Prefix(n + 1)[n + 1] = Fibonacci[n]
    <2>1. n + 1 \in 1 .. n + 1 /\ (n + 1) - 1 = n /\ 1 .. n \subseteq 1 .. n + 1
      BY <1>1
    <2> QED
      BY Zenon, <1>2, <1>3, <2>1
  <1>7. Append(Prefix(n), Fibonacci[n]) = Prefix(n + 1)
    <2>1. Len(Prefix(n + 1)) = Len(Prefix(n)) + 1
      BY <1>2, <1>3
    <2> QED
      BY Zenon, <1>2, <1>3, <1>5, <1>6, <2>1, Extended
  <1> QED
    BY <1>2, <1>4, <1>7

\* The count at which the comparison of step_goal ends a goal is the one Expected names.
LEMMA CountExpected ==
    ASSUME NEW n \in 0 .. XRCE_MSGS_SEQ_I32_MAX - 1, NEW order \in Int,
           n = 0 \/ ~Complete(n, order), Complete(n + 1, order)
    PROVE  Prefix(n + 1) = Expected(order)
  <1>1. n + 1 = IF order < 0 \/ order > XRCE_MSGS_SEQ_I32_MAX THEN XRCE_MSGS_SEQ_I32_MAX
                ELSE IF order = 0 THEN 1 ELSE order
    BY DEF Complete, XRCE_MSGS_SEQ_I32_MAX
  <1> QED
    BY <1>1, Zenon DEF Prefix, Expected

LEMMA step_value_Inv ==
    ASSUME Distinct, ServerInv, step_value
    PROVE  ServerInv'
  <1>1. /\ pc' = "recv" /\ Running /\ ~g_cancel_requested
        /\ g_feedback' = Append(g_feedback, NextValue(g_feedback))
        /\ UNCHANGED <<g_goal_active, g_cancel_requested, g_goal_id, g_order, net, accepted, asked>>
    BY DEF step_value, NotCancelled
  <1>2. PICK n \in 0 .. XRCE_MSGS_SEQ_I32_MAX - 1 :
          g_feedback = Prefix(n) /\ (n = 0 \/ ~Complete(n, g_order))
    BY <1>1 DEF ServerInv, ValuesInv
  <1>3. g_feedback' = Prefix(n + 1)
    BY <1>1, <1>2, NextOfPrefix
  <1>4. g_order \in Int /\ n + 1 \in 1 .. XRCE_MSGS_SEQ_I32_MAX
    BY DEF ServerInv, TypeInv, XRCE_MSGS_SEQ_I32_MAX
  <1>5. g_feedback' \in Seq(Int) /\ Len(g_feedback') = n + 1
    <2>1. g_feedback \in Seq(Int) /\ Len(g_feedback) = n /\ NextValue(g_feedback) \in Int
      BY <1>2, NextOfPrefix DEF NextValue
    <2> QED
      BY <1>1, <2>1
  <1>6. RequestsInv'
    BY <1>1, FewerRequests
  <1>7. published \in {<<1>>, <<1, 2>>} /\ g_goal_active
    BY Zenon, <1>1 DEF ServerInv, TypeInv, StatusInv, Running
  <1>8. CASE Complete(n + 1, g_order)
    <2>1. /\ g_status' = 4 /\ g_goal_done' = TRUE
          /\ published' = Publish(4, Publish(2, published))
          /\ maybe_reply_pending_result(4, g_feedback')
      BY <1>5, <1>8 DEF step_value, GOAL_STATUS_SUCCEEDED, GOAL_STATUS_EXECUTING
    <2>2. g_feedback' = Expected(g_order)
      BY <1>2, <1>3, <1>4, <1>8, CountExpected
    <2>3. /\ g_result_pending' = FALSE
          /\ g_result_sample_identity' = g_result_sample_identity
          /\ answer' \in [ActionClient -> Answers \union {None}]
          /\ AnsweredInv'
      <3>1. 4 \in {4, 5} /\ UNCHANGED <<g_goal_id, g_order, asked>>
        BY <1>1
      <3> QED
        BY <1>1, <1>5, <2>1, <2>2, <3>1, Replied, Zenon
    <2>4. TypeInv'
      <3>1. g_status' \in Nat /\ g_goal_done' \in BOOLEAN /\ g_result_pending' \in BOOLEAN
        BY Zenon, <2>1, <2>3
      <3> QED
        BY <1>1, <1>5, <2>3, <3>1, Zenon DEF ServerInv, TypeInv
    <2>5. StatusInv'
      <3>1. published' = <<1, 2, 4>>
        BY <1>7, <2>1, PublishValues
      <3> QED
        BY <1>1, <1>7, <2>1, <3>1 DEF StatusInv, Running
    <2>6. ValuesInv'
      BY <1>1, <2>1, <2>2 DEF ServerInv, ValuesInv, Running
    <2>7. HeldInv'
      BY <2>3 DEF HeldInv
    <2> QED
      BY <1>6, <2>3, <2>4, <2>5, <2>6, <2>7 DEF ServerInv
  <1>9. CASE ~Complete(n + 1, g_order)
    <2>1. /\ g_status' = 2 /\ published' = Publish(2, published)
          /\ UNCHANGED <<g_goal_done, held, answer>>
      BY <1>5, <1>9 DEF step_value, GOAL_STATUS_EXECUTING
    <2>2. Running'
      BY <1>1, <2>1 DEF Running
    <2>3. TypeInv'
      <3>1. g_status' \in Nat
        BY <2>1
      <3> QED
        BY <1>1, <1>5, <2>1, <3>1, Zenon DEF ServerInv, TypeInv, held
    <2>4. StatusInv'
      <3>1. published' = <<1, 2>>
        BY <1>7, <2>1, PublishValues
      <3> QED
        BY Zenon, <1>1, <1>7, <2>2, <3>1 DEF StatusInv, Running
    <2>5. ValuesInv'
      <3>1. n + 1 \in 0 .. XRCE_MSGS_SEQ_I32_MAX - 1
        BY <1>4, <1>9 DEF Complete, XRCE_MSGS_SEQ_I32_MAX
      <3>2. ~g_goal_done'
        BY <2>2 DEF Running
      <3> QED
        BY <1>1, <1>3, <1>9, <3>1, <3>2 DEF ServerInv, ValuesInv
    <2>6. HeldInv'
      BY <1>1, <2>1, <2>2 DEF ServerInv, HeldInv, held
    <2>7. AnsweredInv'
      BY Zenon, <1>1, <2>1 DEF ServerInv, AnsweredInv, Right, Late, held
    <2> QED
      BY <1>6, <2>3, <2>4, <2>5, <2>6, <2>7 DEF ServerInv
  <1> QED
    BY <1>8, <1>9

-----------------------------------------------------------------------------
(* The theorems *)

LEMMA InitInv ==
    ASSUME Distinct, ServerInit
    PROVE  ServerInv
  <1>1. TypeInv
    <2>1. g_feedback \in Seq(Int) /\ g_status \in Nat /\ g_order \in Int
      BY DEF ServerInit
    <2> QED
      BY Zenon, <2>1 DEF ServerInit, TypeInv
  <1>2. RequestsInv
    BY DEF ServerInit, RequestsInv, Served, Distinct
  <1>3. StatusInv /\ ValuesInv /\ HeldInv
    BY Zenon DEF ServerInit, StatusInv, ValuesInv, HeldInv, Running
  <1>4. AnsweredInv
    BY Zenon DEF ServerInit, AnsweredInv
  <1> QED
    BY <1>1, <1>2, <1>3, <1>4 DEF ServerInv

LEMMA StutterInv ==
    ASSUME ServerInv, UNCHANGED serverVars
    PROVE  ServerInv'
  <1>1. UNCHANGED <<pc, goal, held, clients>>
    BY DEF serverVars
  <1>2. TypeInv'
    BY Zenon, <1>1 DEF ServerInv, TypeInv, goal, held, clients
  <1>3. RequestsInv'
    BY <1>1, FewerRequests DEF goal, clients
  <1> QED
    BY <1>1, <1>2, <1>3, GoalFrame, HeldFrame DEF ServerInv, clients

LEMMA NextInv ==
    ASSUME Distinct, ServerInv, ServerNext
    PROVE  ServerInv'
  <1>1. CASE Environment
    BY <1>1, send_goal_Inv, get_result_Inv, cancel_goal_Inv, lose_Inv DEF Environment
  <1>2. CASE recv_timeout \/ step_skip
    BY <1>2, idle_Inv
  <1>3. ASSUME NEW m \in net, handle_send_goal(m)
        PROVE  ServerInv'
    BY <1>3, goal_accepted_Inv, goal_refused_Inv
  <1>4. ASSUME NEW m \in net, handle_get_result(m)
        PROVE  ServerInv'
    <2>1. g_goal_done \in BOOLEAN
      BY DEF ServerInv, TypeInv
    <2> QED
      BY <1>4, <2>1, result_held_Inv, result_replied_Inv
  <1>5. CASE step_goal
    BY <1>5, step_cancel_Inv, step_value_Inv DEF step_goal
  <1> QED
    BY <1>1, <1>2, <1>3, <1>4, <1>5, handle_cancel_goal_Inv DEF ServerNext, Loop

\* Whatever the clients ask and the network loses or reorders, the loop of
\* live_action_demo.c keeps its globals consistent: the flags with the statuses that were
\* published, the values with the order, the held request with the goal that runs.
THEOREM ServerInvariant ==
    ASSUME Distinct
    PROVE  ServerSpec => []ServerInv
  <1>1. ServerInit => ServerInv
    BY InitInv
  <1>2. ServerInv /\ [ServerNext]_serverVars => ServerInv'
    BY NextInv, StutterInv
  <1> QED
    BY <1>1, <1>2, PTL DEF ServerSpec

\* The statuses step_goal() and the handlers publish of one goal follow the action
\* protocol, for every number of clients: after CANCELING comes nothing but CANCELED.
THEOREM StatusProtocol ==
    ASSUME Distinct
    PROVE  ServerSpec => []StatusOrder
  <1>1. ServerInv => StatusOrder
    <2> SUFFICES ASSUME ServerInv PROVE StatusOrder
      OBVIOUS
    <2>1. /\ StatusInv /\ g_goal_active \in BOOLEAN /\ g_goal_done \in BOOLEAN
          /\ g_cancel_requested \in BOOLEAN
      BY DEF ServerInv, TypeInv
    <2> QED
      BY <2>1, StatusPrefix
  <1> QED
    BY <1>1, ServerInvariant, PTL

\* A client that asks before the next goal is accepted is sent its own goal's terminal
\* status and, when the goal succeeded, exactly the values its order stands for; the one
\* slot of g_result_pending loses no such request unless some client asked late.
THEOREM ResultsMatch ==
    ASSUME Distinct
    PROVE  ServerSpec => []ResultMatches
  <1>1. ServerInv => ResultMatches
    <2> SUFFICES ASSUME ServerInv, NEW c \in ActionClient, asked[c] = "own"
                 PROVE  IF answer[c] # None THEN Right(c)
                        ELSE (Running /\ g_goal_id = c) \/ Late
      BY Zenon DEF ResultMatches, Right, Late
    <2> QED
      BY Zenon DEF ServerInv, AnsweredInv, HeldInv
  <1> QED
    BY <1>1, ServerInvariant, PTL

-----------------------------------------------------------------------------
(* The self-diagnosing node: the tasks and the CPU *)

NodeTyped ==
    /\ state \in [Task -> {"READY", "RUNNING", "BLOCKED"}]
    /\ priority = Priorities
    /\ at = [t \in Task |-> at[t]]
    /\ cpu \in Task \union {NoTask} /\ picked \in Task \union {NoTask}
    /\ picked # NoTask => cpu = NoTask
    /\ cpu # NoTask => state[cpu] = "RUNNING"
    /\ sleeping \subseteq Task /\ \A t \in sleeping : state[t] = "BLOCKED"

LEMMA NodeTasks ==
    /\ PRODUCER \in Task /\ CONSUMER \in Task /\ COORDINATOR \in Task /\ PUBLISHER \in Task
    /\ \A t \in Task : t \in {PRODUCER, CONSUMER, COORDINATOR, PUBLISHER}
    /\ PRODUCER = 1 /\ CONSUMER = 2 /\ COORDINATOR = 3 /\ PUBLISHER = 4 /\ NoTask = -1
    /\ NoTask \notin Task
  BY NodeAssumption DEF PRODUCER, CONSUMER, COORDINATOR, PUBLISHER, Reporter, NoTask

LEMMA NodePriorities ==
    /\ Priorities = [t \in Task |-> Priorities[t]]
    /\ Priorities[PRODUCER] = 20 /\ Priorities[CONSUMER] = 10
    /\ Priorities[COORDINATOR] = 30 /\ Priorities[PUBLISHER] = 5
  BY NodeTasks DEF Priorities

LEMMA NodeFirst ==
    /\ First = [t \in Task |-> First[t]]
    /\ First[PRODUCER] = "send" /\ First[CONSUMER] = "receive"
    /\ First[COORDINATOR] = "poll" /\ First[PUBLISHER] = "report"
  BY NodeTasks DEF First

\* The tasks a tick or a queue wakes are blocked, and nobody else changes.
LEMMA NodeWoken ==
    ASSUME NodeTyped, NEW W \in SUBSET Task, \A t \in W : state[t] = "BLOCKED"
    PROVE  /\ WakeUp(W) \in [Task -> {"READY", "RUNNING", "BLOCKED"}]
           /\ \A t \in Task : WakeUp(W)[t] = IF t \in W THEN "READY" ELSE state[t]
           /\ cpu # NoTask => WakeUp(W)[cpu] = "RUNNING" /\ cpu \notin W
  BY DEF NodeTyped, WakeUp

LEMMA NodeAwaited ==
    ASSUME NodeTyped, NEW t \in Task
    PROVE  /\ Waiting(t) \in SUBSET Task /\ Waiting(t) \intersect sleeping = {}
           /\ \A u \in Waiting(t) : state[u] = "BLOCKED"
  BY DEF Waiting

\* What a preemption leaves: the task that had the CPU is READY unless it is chosen again,
\* and the one that is chosen is no worse than any that is READY.
LEMMA NodePreempted ==
    ASSUME NodeTyped, NEW W \in SUBSET sleeping, NEW idx \in Task, Preempt(W, idx)
    PROVE  /\ cpu \in Task /\ cpu' = idx /\ UNCHANGED <<priority, picked>> /\ picked = NoTask
           /\ state' \in [Task -> {"READY", "RUNNING", "BLOCKED"}]
           /\ state'[idx] = "RUNNING" /\ idx \notin sleeping \ W
           /\ cpu # idx => state'[cpu] = "READY"
           /\ \A t \in Task \ {cpu, idx} : state'[t] = IF t \in W THEN "READY" ELSE state[t]
           /\ \A t \in Task : t = cpu \/ t \in W \/ state[t] = "READY"
                                => Priorities[t] <= Priorities[idx]
  <1> DEFINE woken == WakeUp(W)
             yielded == [woken EXCEPT ![cpu] = "READY"]
  <1>1. /\ cpu # NoTask /\ Highest(yielded, idx) /\ state' = [yielded EXCEPT ![idx] = "RUNNING"]
        /\ cpu' = idx /\ UNCHANGED <<priority, picked>>
    BY DEF Preempt
  <1>2. cpu \in Task /\ picked = NoTask
    BY <1>1 DEF NodeTyped
  <1>3. W \in SUBSET Task /\ \A t \in W : state[t] = "BLOCKED"
    BY DEF NodeTyped
  <1>4. /\ woken \in [Task -> {"READY", "RUNNING", "BLOCKED"}]
        /\ \A t \in Task : woken[t] = IF t \in W THEN "READY" ELSE state[t]
    BY <1>3, NodeWoken
  <1> HIDE DEF woken
  <1>5. /\ yielded \in [Task -> {"READY", "RUNNING", "BLOCKED"}]
        /\ yielded[cpu] = "READY" /\ \A t \in Task \ {cpu} : yielded[t] = woken[t]
    BY <1>2, <1>4
  <1>6. yielded[idx] = "READY" /\ \A t \in Task : yielded[t] = "READY" => priority[t] <= priority[idx]
    BY Zenon, <1>1 DEF Highest
  <1> HIDE DEF yielded
  <1>7. /\ state' \in [Task -> {"READY", "RUNNING", "BLOCKED"}] /\ state'[idx] = "RUNNING"
        /\ \A t \in Task \ {idx} : state'[t] = yielded[t]
    BY <1>1, <1>5
  <1>8. idx \notin sleeping \ W
    <2>1. \A t \in sleeping \ W : t \in Task /\ t # cpu /\ woken[t] = "BLOCKED"
      BY <1>1, <1>4 DEF NodeTyped
    <2> QED
      BY Zenon, <1>5, <1>6, <2>1
  <1>9. \A t \in Task : t = cpu \/ t \in W \/ state[t] = "READY" => yielded[t] = "READY"
    BY <1>4, <1>5
  <1>10. \A t \in Task : t = cpu \/ t \in W \/ state[t] = "READY"
                           => Priorities[t] <= Priorities[idx]
    BY <1>6, <1>9 DEF NodeTyped
  <1> QED
    BY Zenon, <1>1, <1>2, <1>4, <1>5, <1>7, <1>8, <1>10

LEMMA NodeBlocks ==
    ASSUME NodeTyped, NEW t \in Task, Block(t)
    PROVE  /\ cpu = t /\ cpu' = NoTask /\ UNCHANGED <<priority, picked>>
           /\ state' \in [Task -> {"READY", "RUNNING", "BLOCKED"}]
           /\ state'[t] = "BLOCKED" /\ \A u \in Task \ {t} : state'[u] = state[u]
  BY DEF NodeTyped, Block, Leave

LEMMA NodeTypedInit == NodeInit => NodeTyped
  <1> SUFFICES ASSUME NodeInit PROVE NodeTyped
    OBVIOUS
  <1>1. at = [t \in Task |-> at[t]]
    BY NodeFirst DEF NodeInit
  <1>2. state \in [Task -> {"READY", "RUNNING", "BLOCKED"}] /\ sleeping = {}
    BY DEF NodeInit
  <1>3. priority = Priorities /\ picked = NoTask /\ cpu = NoTask
    BY DEF NodeInit
  <1> QED
    BY <1>1, <1>2, <1>3 DEF NodeTyped

LEMMA NodeKept ==
    ASSUME NodeTyped, UNCHANGED kernelVars, sleeping' = sleeping, at' = [t \in Task |-> at'[t]]
    PROVE  NodeTyped'
  BY DEF NodeTyped, kernelVars

LEMMA NodeKeptBlock ==
    ASSUME NodeTyped, NEW t \in Task, Block(t), at' = [u \in Task |-> at'[u]],
           sleeping' \in {sleeping, sleeping \union {t}}
    PROVE  NodeTyped'
  <1>1. /\ cpu = t /\ cpu' = NoTask /\ UNCHANGED <<priority, picked>>
        /\ state' \in [Task -> {"READY", "RUNNING", "BLOCKED"}]
        /\ state'[t] = "BLOCKED" /\ \A u \in Task \ {t} : state'[u] = state[u]
    BY NodeBlocks
  <1> QED
    BY Zenon, <1>1 DEF NodeTyped

LEMMA NodeKeptWake ==
    ASSUME NodeTyped, NEW W \in SUBSET Task, \A t \in W : state[t] = "BLOCKED", Wake(W),
           sleeping' \subseteq sleeping \ W, at' = [u \in Task |-> at'[u]]
    PROVE  NodeTyped'
  <1>1. /\ state' = WakeUp(W) /\ UNCHANGED <<priority, picked, cpu>>
        /\ state' \in [Task -> {"READY", "RUNNING", "BLOCKED"}]
        /\ \A t \in Task : state'[t] = IF t \in W THEN "READY" ELSE state[t]
        /\ cpu # NoTask => state'[cpu] = "RUNNING"
    BY NodeWoken DEF Wake
  <1> QED
    BY Zenon, <1>1 DEF NodeTyped

LEMMA NodeWent ==
    ASSUME NodeTyped, NEW t, NEW label, Goto(t, label)
    PROVE  at' = [u \in Task |-> at'[u]]
  BY DEF NodeTyped, Goto

LEMMA NodeTypedRun ==
    ASSUME NodeTyped, NEW t \in Task, Run(t)
    PROVE  NodeTyped'
  <1>1. CASE sleep(t)
    <2>1. Block(t) /\ sleeping' = sleeping \union {t} /\ Goto(t, First[t])
      BY <1>1 DEF sleep, BlockAndCheck
    <2> QED
      BY <2>1, NodeWent, NodeKeptBlock
  <1>2. CASE queue_send
    <2>1. CASE Block(PRODUCER) /\ sleeping' = sleeping /\ at' = at
      BY <2>1, NodeTasks, NodeKeptBlock DEF NodeTyped
    <2>2. CASE Wake(Waiting(CONSUMER)) /\ sleeping' = sleeping /\ Goto(PRODUCER, "sleep")
      <3>1. /\ Waiting(CONSUMER) \in SUBSET Task /\ sleeping' \subseteq sleeping \ Waiting(CONSUMER)
            /\ \A u \in Waiting(CONSUMER) : state[u] = "BLOCKED"
        BY <2>2, NodeAwaited, NodeTasks
      <3> QED
        BY <2>2, <3>1, NodeWent, NodeKeptWake
    <2> QED
      BY Zenon, <1>2, <2>1, <2>2 DEF queue_send, BlockAndCheck
  <1>3. CASE queue_receive
    <2>1. CASE Block(CONSUMER) /\ sleeping' = sleeping /\ at' = at
      BY <2>1, NodeTasks, NodeKeptBlock DEF NodeTyped
    <2>2. CASE Wake(Waiting(PRODUCER)) /\ sleeping' = sleeping /\ Goto(CONSUMER, "iterate")
      <3>1. /\ Waiting(PRODUCER) \in SUBSET Task /\ sleeping' \subseteq sleeping \ Waiting(PRODUCER)
            /\ \A u \in Waiting(PRODUCER) : state[u] = "BLOCKED"
        BY <2>2, NodeAwaited, NodeTasks
      <3> QED
        BY <2>2, <3>1, NodeWent, NodeKeptWake
    <2> QED
      BY <1>3, <2>1, <2>2 DEF queue_receive, BlockAndCheck
  <1>4. CASE iterate \/ poll \/ collect(t) \/ publish(t)
    <2>1. UNCHANGED kernelVars /\ sleeping' = sleeping /\ \E u, label : Goto(u, label)
      BY Zenon, <1>4 DEF iterate, poll, collect, publish
    <2> QED
      BY <2>1, NodeWent, NodeKept
  <1> QED
    BY <1>1, <1>2, <1>3, <1>4 DEF Run

LEMMA NodeTypedStep == NodeTyped /\ [NodeNext]_nodeVars => NodeTyped'
  <1> SUFFICES ASSUME NodeTyped, [NodeNext]_nodeVars PROVE NodeTyped'
    OBVIOUS
  <1>1. CASE \E t \in Task : Run(t)
    BY <1>1, NodeTypedRun
  <1>2. CASE Dispatch
    <2>1. UNCHANGED <<at, sleeping>>
      BY <1>2 DEF Dispatch
    <2>2. CASE Start
      BY Zenon, <2>1, <2>2 DEF Start, NodeTyped
    <2>3. CASE \E t \in Task : Pick(t)
      BY <2>1, <2>3 DEF Pick, NodeTyped
    <2> QED
      BY <1>2, <2>2, <2>3 DEF Dispatch
  <1>3. ASSUME NEW W \in SUBSET sleeping, Tick(W)
        PROVE  NodeTyped'
    <2>1. sleeping' = sleeping \ W /\ at' = at
      BY <1>3 DEF Tick
    <2>2. CASE Wake(W)
      <3>1. W \in SUBSET Task /\ \A t \in W : state[t] = "BLOCKED"
        BY DEF NodeTyped
      <3> QED
        BY Zenon, <2>1, <2>2, <3>1, NodeKeptWake DEF NodeTyped
    <2>3. ASSUME NEW idx \in Task, Preempt(W, idx)
          PROVE  NodeTyped'
      <3>1. /\ cpu \in Task /\ cpu' = idx /\ UNCHANGED <<priority, picked>> /\ picked = NoTask
            /\ state' \in [Task -> {"READY", "RUNNING", "BLOCKED"}]
            /\ state'[idx] = "RUNNING" /\ idx \notin sleeping \ W
            /\ \A t \in Task \ {cpu, idx} : state'[t] = IF t \in W THEN "READY" ELSE state[t]
        BY Zenon, <2>3, NodePreempted
      <3>2. \A t \in sleeping' : t # cpu /\ t # idx /\ t \notin W /\ t \in Task
        BY Zenon, <2>1, <3>1, NodeTasks DEF NodeTyped
      <3>3. \A t \in sleeping' : state'[t] = "BLOCKED"
        BY Zenon, <2>1, <3>1, <3>2 DEF NodeTyped
      <3> QED
        BY Zenon, <2>1, <3>1, <3>3 DEF NodeTyped
    <2> QED
      BY <1>3, <2>2, <2>3 DEF Tick
  <1>4. CASE refresh \/ UNCHANGED nodeVars
    <2>1. UNCHANGED <<kernelVars, sleeping, at>>
      BY <1>4 DEF refresh, nodeVars
    <2> QED
      BY Zenon, <2>1, NodeKept DEF NodeTyped
  <1> QED
    BY <1>1, <1>2, <1>3, <1>4 DEF NodeNext, Ended

-----------------------------------------------------------------------------
(* The self-diagnosing node: the coordinator's report *)

\* The two directions in which a value of the report and the state it was read from go.
Stands(seen, now) == seen = now \/ (seen = "BLOCKED" /\ now = "READY")

Collecting == at[COORDINATOR] \in {"consumer", "queue", "publish"}

\* While it collects, the coordinator keeps the CPU, and what it has read stands.
ReportInv ==
    /\ report = [producer |-> report.producer, consumer |-> report.consumer, depth |-> report.depth]
    /\ Collecting => /\ cpu = COORDINATOR
                     /\ Stands(report.producer, state[PRODUCER])
    /\ at[COORDINATOR] \in {"queue", "publish"} => Stands(report.consumer, state[CONSUMER])
    /\ at[COORDINATOR] = "publish" => report.depth = Depth

LEMMA ReportInit == NodeInit => ReportInv
  <1> SUFFICES ASSUME NodeInit PROVE ReportInv
    OBVIOUS
  <1>1. at[COORDINATOR] = "poll" /\ report = NoReport
    BY NodeFirst DEF NodeInit
  <1> QED
    BY Zenon, <1>1 DEF ReportInv, Collecting, NoReport

LEMMA ReportCoherent == ReportInv => CoherentRefresh
  BY Zenon DEF ReportInv, Collecting, CoherentRefresh, On, Stands

\* A step during which the coordinator does not start a report: either it is not at one, or
\* the workers' states and the queue stay as they are but for wake-ups.
LEMMA ReportKept ==
    ASSUME ReportInv, report' = report, at'[COORDINATOR] = at[COORDINATOR],
           Collecting => /\ cpu' = cpu /\ UNCHANGED <<head, tail>>
                         /\ Stands(state[PRODUCER], state'[PRODUCER])
                         /\ Stands(state[CONSUMER], state'[CONSUMER])
    PROVE  ReportInv'
  <1>1. Collecting' = Collecting
    BY Zenon DEF Collecting
  <1>2. CASE ~Collecting
    BY Zenon, <1>1, <1>2 DEF ReportInv, Collecting
  <1>3. CASE Collecting
    <2>1. Depth' = Depth
      BY Zenon, <1>3 DEF Depth
    <2>2. Stands(report.producer, state[PRODUCER]) => Stands(report'.producer, state'[PRODUCER])
      BY Zenon, <1>3 DEF Stands
    <2>3. Stands(report.consumer, state[CONSUMER]) => Stands(report'.consumer, state'[CONSUMER])
      BY Zenon, <1>3 DEF Stands
    <2> QED
      BY Zenon, <1>1, <1>3, <2>1, <2>2, <2>3 DEF ReportInv
  <1> QED
    BY Zenon, <1>2, <1>3

LEMMA ReportRun ==
    ASSUME NodeTyped, ReportInv, NEW t \in Task, Run(t)
    PROVE  ReportInv'
  <1>1. CASE sleep(t)
    <2>1. /\ cpu = t /\ at[t] = "sleep" /\ at' = [at EXCEPT ![t] = First[t]] /\ report' = report
          /\ UNCHANGED <<head, tail>>
      BY Zenon, <1>1 DEF sleep, On, Goto, queue
    <2>2. CASE t = COORDINATOR
      <3>1. at'[COORDINATOR] = "poll"
        BY Zenon, <2>1, <2>2, NodeFirst, NodeTasks DEF NodeTyped
      <3> QED
        BY Zenon, <2>1, <3>1 DEF ReportInv, Collecting
    <2>3. CASE t # COORDINATOR
      <3>1. ~Collecting /\ at'[COORDINATOR] = at[COORDINATOR]
        BY Zenon, <2>1, <2>3, NodeTasks DEF ReportInv, NodeTyped
      <3> QED
        BY Zenon, <2>1, <3>1, ReportKept
    <2> QED
      BY <2>2, <2>3
  <1>2. CASE queue_send \/ queue_receive \/ iterate
    <2>1. cpu # COORDINATOR /\ report' = report
      BY <1>2, NodeTasks DEF queue_send, queue_receive, iterate, On
    <2>2. at' = at \/ Goto(PRODUCER, "sleep") \/ Goto(CONSUMER, "iterate") \/ Goto(CONSUMER, "sleep")
      BY Zenon, <1>2 DEF queue_send, queue_receive, iterate
    <2>3. at'[COORDINATOR] = at[COORDINATOR]
      BY <2>2, NodeTasks DEF Goto, NodeTyped
    <2>4. ~Collecting
      BY <2>1 DEF ReportInv
    <2> QED
      BY Zenon, <2>1, <2>3, <2>4, ReportKept
  <1>3. CASE poll
    <2>1. report' = report /\ (Goto(COORDINATOR, "report") \/ Goto(COORDINATOR, "sleep"))
      BY <1>3 DEF poll
    <2>2. at'[COORDINATOR] \in {"report", "sleep"}
      BY <2>1, NodeTasks DEF Goto, NodeTyped
    <2> QED
      BY Zenon, <2>1, <2>2 DEF ReportInv, Collecting
  <1>4. CASE collect(t)
    <2>1. UNCHANGED <<state, cpu, head, tail>> /\ Depth' = Depth
      BY Zenon, <1>4 DEF collect, kernelVars, queue, Depth
    <2>2. CASE t = PUBLISHER
      <3>1. cpu = PUBLISHER /\ Goto(PUBLISHER, "publish") /\ report' = report
        BY <1>4, <2>2, NodeTasks DEF collect, On
      <3>2. ~Collecting /\ at'[COORDINATOR] = at[COORDINATOR]
        BY <3>1, NodeTasks DEF ReportInv, NodeTyped, Goto
      <3> QED
        BY Zenon, <3>1, <3>2, ReportKept
    <2>3. ASSUME t = COORDINATOR, On(t, "report"), Goto(t, "consumer"),
                 Note("producer", state[PRODUCER])
          PROVE  ReportInv'
      <3>1. at'[COORDINATOR] = "consumer" /\ cpu = COORDINATOR
        BY <2>3, NodeTasks DEF Goto, On, NodeTyped
      <3>2. report'.producer = state[PRODUCER]
            /\ report' = [producer |-> report'.producer, consumer |-> report'.consumer,
                          depth |-> report'.depth]
        BY Zenon, <2>3 DEF Note, ReportInv
      <3> QED
        BY Zenon, <2>1, <3>1, <3>2 DEF ReportInv, Collecting, Stands
    <2>4. ASSUME t = COORDINATOR, On(t, "consumer"), Goto(t, "queue"),
                 Note("consumer", state[CONSUMER])
          PROVE  ReportInv'
      <3>1. at'[COORDINATOR] = "queue" /\ cpu = COORDINATOR /\ at[COORDINATOR] = "consumer"
        BY Zenon, <2>4, NodeTasks DEF Goto, On, NodeTyped
      <3>2. report'.consumer = state[CONSUMER] /\ report'.producer = report.producer
            /\ report' = [producer |-> report'.producer, consumer |-> report'.consumer,
                          depth |-> report'.depth]
        BY Zenon, <2>4 DEF Note, ReportInv
      <3> QED
        BY Zenon, <2>1, <3>1, <3>2 DEF ReportInv, Collecting, Stands
    <2>5. ASSUME t = COORDINATOR, On(t, "queue"), Goto(t, "publish"), Note("depth", Depth)
          PROVE  ReportInv'
      <3>1. at'[COORDINATOR] = "publish" /\ cpu = COORDINATOR /\ at[COORDINATOR] = "queue"
        BY Zenon, <2>5, NodeTasks DEF Goto, On, NodeTyped
      <3>2. report'.depth = Depth /\ report'.producer = report.producer
            /\ report'.consumer = report.consumer
            /\ report' = [producer |-> report'.producer, consumer |-> report'.consumer,
                          depth |-> report'.depth]
        BY Zenon, <2>5 DEF Note, ReportInv
      <3> QED
        BY Zenon, <2>1, <3>1, <3>2 DEF ReportInv, Collecting, Stands
    <2> QED
      BY Zenon, <1>4, <2>2, <2>3, <2>4, <2>5 DEF collect
  <1>5. CASE publish(t)
    <2>1. /\ cpu = t /\ Goto(t, "sleep")
          /\ report' = IF t = COORDINATOR THEN NoReport ELSE report
      BY <1>5 DEF publish, On
    <2>2. CASE t = COORDINATOR
      <3>1. at'[COORDINATOR] = "sleep" /\ report' = NoReport
        BY Zenon, <2>1, <2>2, NodeTasks DEF Goto, NodeTyped
      <3> QED
        BY Zenon, <3>1 DEF ReportInv, Collecting, NoReport
    <2>3. CASE t # COORDINATOR
      <3>1. ~Collecting /\ at'[COORDINATOR] = at[COORDINATOR] /\ report' = report
        BY Zenon, <2>1, <2>3, NodeTasks DEF ReportInv, NodeTyped, Goto
      <3> QED
        BY Zenon, <3>1, ReportKept
    <2> QED
      BY <2>2, <2>3
  <1> QED
    BY <1>1, <1>2, <1>3, <1>4, <1>5 DEF Run
\* No preemption takes the CPU from the coordinator, which outranks every other task.
LEMMA CoordinatorStays ==
    ASSUME NodeTyped, NEW W \in SUBSET sleeping, NEW idx \in Task, Preempt(W, idx),
           cpu = COORDINATOR
    PROVE  idx = COORDINATOR
  <1>1. Priorities[COORDINATOR] <= Priorities[idx]
    BY Zenon, NodePreempted, NodeTasks
  <1> QED
    BY <1>1, NodePriorities, NodeTasks

LEMMA ReportStep == NodeTyped /\ ReportInv /\ [NodeNext]_nodeVars => ReportInv'
  <1> SUFFICES ASSUME NodeTyped, ReportInv, [NodeNext]_nodeVars PROVE ReportInv'
    OBVIOUS
  <1>1. CASE \E t \in Task : Run(t)
    BY <1>1, ReportRun
  <1>2. CASE Dispatch
    <2>1. cpu = NoTask /\ UNCHANGED <<at, report>>
      BY Zenon, <1>2 DEF Dispatch, Start, Pick, NodeTyped
    <2>2. ~Collecting
      BY Zenon, <2>1, NodeTasks DEF ReportInv
    <2> QED
      BY Zenon, <2>1, <2>2, ReportKept
  <1>3. ASSUME NEW W \in SUBSET sleeping, Tick(W)
        PROVE  ReportInv'
    <2>1. UNCHANGED <<at, head, tail, report>> /\ W \in SUBSET Task
          /\ \A t \in W : state[t] = "BLOCKED"
      BY Zenon, <1>3 DEF Tick, queue, NodeTyped
    <2>2. CASE Wake(W)
      <3>1. cpu' = cpu /\ \A t \in Task : state'[t] = IF t \in W THEN "READY" ELSE state[t]
        BY Zenon, <2>1, <2>2, NodeWoken DEF Wake
      <3>2. \A t \in Task : Stands(state[t], state'[t])
        BY Zenon, <2>1, <3>1 DEF Stands
      <3> QED
        BY Zenon, <2>1, <3>1, <3>2, NodeTasks, ReportKept
    <2>3. ASSUME NEW idx \in Task, Preempt(W, idx)
          PROVE  ReportInv'
      <3>1. CASE Collecting
        <4>1. cpu = COORDINATOR /\ idx = COORDINATOR
          BY Zenon, <2>3, <3>1, CoordinatorStays DEF ReportInv
        <4>2. cpu' = idx /\ \A t \in Task \ {cpu, idx} :
                               state'[t] = IF t \in W THEN "READY" ELSE state[t]
          BY Zenon, <2>3, NodePreempted
        <4>3. \A t \in {PRODUCER, CONSUMER} : Stands(state[t], state'[t])
          BY <2>1, <4>1, <4>2, NodeTasks DEF Stands
        <4> QED
          BY Zenon, <2>1, <4>1, <4>2, <4>3, ReportKept
      <3> QED
        BY Zenon, <2>1, <3>1, ReportKept
    <2> QED
      BY Zenon, <1>3, <2>2, <2>3 DEF Tick
  <1>4. CASE refresh \/ UNCHANGED nodeVars
    <2>1. UNCHANGED <<state, cpu, at, head, tail, report>>
      BY Zenon, <1>4 DEF refresh, nodeVars, kernelVars, queue
    <2> QED
      BY Zenon, <2>1, ReportKept DEF Stands
  <1> QED
    BY <1>1, <1>2, <1>3, <1>4 DEF NodeNext, Ended

\* For every capacity of the work queue, and wherever ticks fall while the coordinator calls
\* add_task_status() and add_queue_status(), the report of a refresh request is coherent.
THEOREM RefreshCoherent == NodeSpec => []CoherentRefresh
  <1>1. NodeSpec => [](NodeTyped /\ ReportInv)
    BY NodeTypedInit, NodeTypedStep, ReportInit, ReportStep, PTL DEF NodeSpec
  <1> QED
    BY <1>1, ReportCoherent, PTL

-----------------------------------------------------------------------------
(* The self-diagnosing node: the end after a lost canary *)

\* Until a task gives the CPU back, which ends the process, the consumer is on the CPU or
\* ready for it, so no task below it runs; and a coordinator that has published is about
\* to sleep.
CrashInv ==
    /\ ~caught => after = 0
    /\ caught =>
         /\ corrupted /\ dispatched /\ picked = NoTask
         /\ aborted => cpu = NoTask /\ after \in {0, 1}
         /\ ~aborted => /\ cpu \in {PRODUCER, CONSUMER, COORDINATOR}
                        /\ cpu = CONSUMER \/ state[CONSUMER] = "READY"
                        /\ \/ after = 0
                           \/ after = 1 /\ cpu = COORDINATOR /\ at[COORDINATOR] = "sleep"

LEMMA CrashInit == NodeInit => CrashInv
  BY Zenon DEF NodeInit, CrashInv

LEMMA CrashLittle == NodeTyped /\ CrashInv => LittleAfterCrash
  BY NodeTasks DEF CrashInv, LittleAfterCrash

\* Who blocks returns to scheduler_run(), which checks the canary.
LEMMA CrashEnds ==
    ASSUME NodeTyped, CrashInv, NEW t \in Task, ~aborted, BlockAndCheck(t),
           UNCHANGED <<corrupted, caught, dispatched, after>>
    PROVE  CrashInv'
  <1>1. cpu' = NoTask /\ picked' = picked /\ aborted' = (corrupted /\ dispatched)
    BY NodeBlocks DEF BlockAndCheck, CanaryLost
  <1> QED
    BY Zenon, <1>1 DEF CrashInv

\* Other steps of a task leave the CPU to it.
LEMMA CrashRuns ==
    ASSUME NodeTyped, CrashInv, ~aborted,
           UNCHANGED <<cpu, picked, corrupted, caught, dispatched, aborted, after>>,
           state[CONSUMER] = "READY" => state'[CONSUMER] = "READY",
           cpu = COORDINATOR => at[COORDINATOR] # "sleep"
    PROVE  CrashInv'
  BY Zenon DEF CrashInv

LEMMA CrashRun ==
    ASSUME NodeTyped, CrashInv, NEW t \in Task, Run(t)
    PROVE  CrashInv'
  <1>1. CASE sleep(t)
    <2>1. ~aborted /\ BlockAndCheck(t) /\ UNCHANGED <<corrupted, caught, dispatched, after>>
      BY Zenon, <1>1 DEF sleep, On, fault
    <2> QED
      BY <2>1, CrashEnds
  <1>2. CASE queue_send
    <2>1. ~aborted /\ cpu = PRODUCER /\ UNCHANGED <<corrupted, caught, dispatched, after>>
      BY Zenon, <1>2 DEF queue_send, On, fault
    <2>2. CASE BlockAndCheck(PRODUCER)
      BY <2>1, <2>2, CrashEnds, NodeTasks
    <2>3. CASE Wake(Waiting(CONSUMER)) /\ UNCHANGED aborted
      <3>1. UNCHANGED <<cpu, picked>> /\ (state[CONSUMER] = "READY" => state'[CONSUMER] = "READY")
        BY Zenon, <2>3, NodeTasks DEF Wake, WakeUp
      <3> QED
        BY <2>1, <2>3, <3>1, CrashRuns, NodeTasks
    <2> QED
      BY Zenon, <1>2, <2>2, <2>3 DEF queue_send
  <1>3. CASE queue_receive
    <2>1. ~aborted /\ cpu = CONSUMER /\ UNCHANGED <<corrupted, caught, dispatched, after>>
      BY Zenon, <1>3 DEF queue_receive, On, fault
    <2>2. CASE BlockAndCheck(CONSUMER)
      BY <2>1, <2>2, CrashEnds, NodeTasks
    <2>3. CASE Wake(Waiting(PRODUCER)) /\ UNCHANGED aborted
      <3>1. UNCHANGED <<cpu, picked>> /\ (state[CONSUMER] = "READY" => state'[CONSUMER] = "READY")
        BY Zenon, <2>3, NodeTasks DEF Wake, WakeUp
      <3> QED
        BY <2>1, <2>3, <3>1, CrashRuns, NodeTasks
    <2> QED
      BY Zenon, <1>3, <2>2, <2>3 DEF queue_receive
  <1>4. CASE iterate
    <2>1. /\ ~aborted /\ cpu = CONSUMER /\ picked = NoTask
          /\ UNCHANGED <<state, cpu, picked, dispatched, aborted, after>>
      BY Zenon, <1>4, NodeTasks DEF iterate, On, kernelVars, NodeTyped
    <2>2. CASE ~corrupted /\ corrupted' = TRUE /\ caught' = dispatched
      <3>1. ~caught /\ after = 0
        BY Zenon, <2>2 DEF CrashInv
      <3> QED
        BY Zenon, <2>1, <2>2, <3>1 DEF CrashInv
    <2>3. CASE UNCHANGED <<corrupted, caught>>
      BY <2>1, <2>3, CrashRuns, NodeTasks
    <2> QED
      BY Zenon, <1>4, <2>2, <2>3 DEF iterate, fault
  <1>5. CASE poll \/ collect(t)
    <2>1. /\ cpu = COORDINATOR => at[COORDINATOR] # "sleep"
          /\ UNCHANGED <<state, cpu, picked, corrupted, caught, dispatched, aborted, after>>
      BY Zenon, <1>5, NodeTasks DEF poll, collect, On, kernelVars, fault
    <2>2. ~aborted
      BY Zenon, <1>5 DEF poll, collect, On
    <2> QED
      BY Zenon, <2>1, <2>2, CrashRuns
  <1>6. CASE publish(t) /\ t \in Reporter
    <2>1. /\ ~aborted /\ cpu = t /\ at[t] = "publish" /\ Goto(t, "sleep")
          /\ after' = IF caught /\ after < 2 THEN after + 1 ELSE after
          /\ UNCHANGED <<state, cpu, picked, corrupted, caught, dispatched, aborted>>
      BY Zenon, <1>6 DEF publish, On, kernelVars, fault
    <2>2. CASE ~caught
      BY Zenon, <2>1, <2>2 DEF CrashInv
    <2>3. CASE caught
      <3>1. t = COORDINATOR
        BY <1>6, <2>1, <2>3, NodeTasks DEF CrashInv, Reporter
      <3>2. after = 0 /\ after' = 1 /\ at'[COORDINATOR] = "sleep"
        BY <2>1, <2>3, <3>1, NodeTasks DEF CrashInv, Goto, NodeTyped
      <3> QED
        BY Zenon, <2>1, <2>3, <3>1, <3>2 DEF CrashInv
    <2> QED
      BY <2>2, <2>3
  <1> QED
    BY <1>1, <1>2, <1>3, <1>4, <1>5, <1>6 DEF Run

LEMMA CrashStep == NodeTyped /\ CrashInv /\ [NodeNext]_nodeVars => CrashInv'
  <1> SUFFICES ASSUME NodeTyped, CrashInv, [NodeNext]_nodeVars PROVE CrashInv'
    OBVIOUS
  <1>1. CASE \E t \in Task : Run(t)
    BY <1>1, CrashRun
  <1>2. CASE Dispatch
    <2>1. cpu = NoTask /\ ~aborted /\ UNCHANGED <<caught, after>>
      BY Zenon, <1>2 DEF Dispatch, Start, Pick, NodeTyped, fault
    <2>2. ~caught
      BY Zenon, <2>1, NodeTasks DEF CrashInv
    <2> QED
      BY Zenon, <2>1, <2>2 DEF CrashInv
  <1>3. ASSUME NEW W \in SUBSET sleeping, Tick(W)
        PROVE  CrashInv'
    <2>1. ~aborted /\ UNCHANGED <<at, corrupted, caught, dispatched, aborted, after>>
          /\ W \in SUBSET Task /\ \A t \in W : state[t] = "BLOCKED"
      BY Zenon, <1>3 DEF Tick, fault, NodeTyped
    <2>2. CASE Wake(W)
      <3>1. UNCHANGED <<cpu, picked>> /\ (state[CONSUMER] = "READY" => state'[CONSUMER] = "READY")
        BY <2>1, <2>2, NodeWoken, NodeTasks DEF Wake
      <3> QED
        BY Zenon, <2>1, <3>1 DEF CrashInv
    <2>3. ASSUME NEW idx \in Task, Preempt(W, idx)
          PROVE  CrashInv'
      <3>1. /\ cpu \in Task /\ cpu' = idx /\ picked' = picked
            /\ cpu # idx => state'[cpu] = "READY"
            /\ \A t \in Task \ {cpu, idx} : state'[t] = IF t \in W THEN "READY" ELSE state[t]
            /\ \A t \in Task : t = cpu \/ t \in W \/ state[t] = "READY"
                                 => Priorities[t] <= Priorities[idx]
        BY Zenon, <2>3, NodePreempted
      <3>2. CASE caught
        <4>1. cpu = CONSUMER \/ state[CONSUMER] = "READY"
          BY Zenon, <2>1, <3>2 DEF CrashInv
        <4>2. idx \in {PRODUCER, CONSUMER, COORDINATOR}
          <5>1. Priorities[CONSUMER] <= Priorities[idx]
            BY Zenon, <3>1, <4>1, NodeTasks
          <5> QED
            BY <5>1, NodePriorities, NodeTasks
        <4>3. idx = CONSUMER \/ state'[CONSUMER] = "READY"
          BY Zenon, <3>1, <4>1, NodeTasks
        <4>4. cpu = COORDINATOR => idx = COORDINATOR
          BY <2>3, CoordinatorStays
        <4> QED
          BY Zenon, <2>1, <3>1, <3>2, <4>2, <4>3, <4>4 DEF CrashInv
      <3>3. CASE ~caught
        BY Zenon, <2>1, <3>3 DEF CrashInv
      <3> QED
        BY <3>2, <3>3
    <2> QED
      BY <1>3, <2>2, <2>3 DEF Tick
  <1>4. CASE refresh \/ UNCHANGED nodeVars
    <2>1. UNCHANGED <<state, cpu, picked, at, corrupted, caught, dispatched, aborted, after>>
      BY Zenon, <1>4 DEF refresh, nodeVars, kernelVars, fault
    <2> QED
      BY Zenon, <2>1 DEF CrashInv
  <1> QED
    BY <1>1, <1>2, <1>3, <1>4 DEF NodeNext, Ended

\* For every capacity of the work queue, in whichever iteration faulty_worker() overwrites
\* its canary and wherever ticks fall: when scheduler_run() itself had switched to it, at
\* most one more report leaves the node before task_check_canary_or_abort() ends it.
THEOREM CrashIsPrompt == NodeSpec => []LittleAfterCrash
  <1>1. NodeSpec => [](NodeTyped /\ CrashInv)
    BY NodeTypedInit, NodeTypedStep, CrashInit, CrashStep, PTL DEF NodeSpec
  <1> QED
    BY <1>1, CrashLittle, PTL
=============================================================================
