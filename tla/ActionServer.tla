----------------------------- MODULE ActionServer -----------------------------
(***************************************************************************)
(* The Fibonacci action server of host/live_action_demo.c: one goal at a   *)
(* time, served by a loop that handles at most one request and then lets   *)
(* step_goal() run.  Variables named g_... are the program's globals.      *)
(*                                                                         *)
(* The clients and the network are external: each client sends one goal,   *)
(* asks for the result once after it was accepted, as the comment above    *)
(* g_result_pending describes, and may send one cancel request.  Requests  *)
(* are lost or arrive in any order.                                        *)
(***************************************************************************)
EXTENDS Integers, Sequences

CONSTANTS ActionClient, \* a client, its goal id and its sample identity are one value
          Order,        \* the orders a client may ask for
          None

VARIABLES pc, g_goal_active, g_goal_done, g_cancel_requested, g_goal_id, g_order,
          g_feedback, g_status, g_result_pending, g_result_sample_identity,
          published,   \* statuses published for the current goal, repeats left out
          net,         \* requests under way
          accepted,    \* what each client was told about its goal
          asked,       \* when its get_result was handled: with its own goal, or late
          answer       \* the result it was sent

goal == <<g_goal_active, g_goal_done, g_cancel_requested, g_goal_id, g_order,
          g_feedback, g_status, published>>
held == <<g_result_pending, g_result_sample_identity>>
clients == <<net, accepted, asked, answer>>
serverVars == <<pc, goal, held, clients>>

GOAL_STATUS_ACCEPTED == 1
GOAL_STATUS_EXECUTING == 2
GOAL_STATUS_CANCELING == 3
GOAL_STATUS_SUCCEEDED == 4
GOAL_STATUS_CANCELED == 5
XRCE_MSGS_SEQ_I32_MAX == 16

ServerInit ==
    /\ pc = "recv"
    /\ g_goal_active = FALSE /\ g_goal_done = FALSE /\ g_cancel_requested = FALSE
    /\ g_goal_id = None /\ g_order = 0 /\ g_feedback = <<>> /\ g_status = 0
    /\ g_result_pending = FALSE /\ g_result_sample_identity = None
    /\ published = <<>>
    /\ net = {}
    /\ accepted = [c \in ActionClient |-> "unknown"]
    /\ asked = [c \in ActionClient |-> "no"]
    /\ answer = [c \in ActionClient |-> None]

-----------------------------------------------------------------------------
(* The clients and the network *)

send_goal(c, order) ==
    /\ accepted[c] = "unknown"
    /\ net' = net \union {[kind |-> "send_goal", client |-> c, order |-> order]}
    /\ accepted' = [accepted EXCEPT ![c] = "waiting"]
    /\ UNCHANGED <<pc, goal, held, asked, answer>>

get_result(c) ==
    /\ accepted[c] = "yes" /\ asked[c] = "no"
    /\ net' = net \union {[kind |-> "get_result", client |-> c]}
    /\ asked' = [asked EXCEPT ![c] = "sent"]
    /\ UNCHANGED <<pc, goal, held, accepted, answer>>

cancel_goal(c) ==
    /\ accepted[c] = "yes"
    /\ net' = net \union {[kind |-> "cancel_goal", client |-> c]}
    /\ accepted' = [accepted EXCEPT ![c] = "cancelled"]
    /\ UNCHANGED <<pc, goal, held, asked, answer>>

lose(m) ==
    /\ m \in net
    /\ net' = net \ {m}
    /\ UNCHANGED <<pc, goal, held, accepted, asked, answer>>

-----------------------------------------------------------------------------
(* The loop: a request or a timeout of recv(), then step_goal() *)

Running == g_goal_active /\ ~g_goal_done

Publish(status, log) ==
    IF log # <<>> /\ status = log[Len(log)] THEN log ELSE Append(log, status)

Received(kind, m) ==
    /\ pc = "recv" /\ pc' = "step"
    /\ m \in net /\ m.kind = kind
    /\ net' = net \ {m}

recv_timeout ==
    /\ pc = "recv" /\ pc' = "step"
    /\ UNCHANGED <<goal, held, clients>>

can_accept == ~g_goal_active \/ g_goal_done

handle_send_goal(m) ==
    /\ Received("send_goal", m)
    /\ accepted' = [accepted EXCEPT ![m.client] = IF can_accept THEN "yes" ELSE "no"]
    /\ IF can_accept
       THEN /\ g_goal_active' = TRUE /\ g_goal_done' = FALSE /\ g_cancel_requested' = FALSE
            /\ g_goal_id' = m.client /\ g_order' = m.order
            /\ g_feedback' = <<>>
            /\ g_status' = GOAL_STATUS_ACCEPTED
            /\ published' = <<GOAL_STATUS_ACCEPTED>>
       ELSE UNCHANGED goal
    /\ UNCHANGED <<held, asked, answer>>

\* Cancels the goal that runs, whichever one the request names.
handle_cancel_goal(m) ==
    /\ Received("cancel_goal", m)
    /\ IF Running
       THEN /\ g_cancel_requested' = TRUE
            /\ g_status' = GOAL_STATUS_CANCELING
            /\ published' = Publish(GOAL_STATUS_CANCELING, published)
            /\ UNCHANGED <<g_goal_active, g_goal_done, g_goal_id, g_order, g_feedback>>
       ELSE UNCHANGED goal
    /\ UNCHANGED <<held, accepted, asked, answer>>

reply_result(c, status, sequence) ==
    answer' = [answer EXCEPT ![c] = [goal |-> g_goal_id, status |-> status,
                                     sequence |-> sequence]]

handle_get_result(m) ==
    /\ Received("get_result", m)
    /\ asked' = [asked EXCEPT ![m.client] = IF g_goal_id = m.client THEN "own" ELSE "late"]
    /\ IF ~g_goal_done
       THEN /\ g_result_pending' = TRUE
            /\ g_result_sample_identity' = m.client
            /\ UNCHANGED answer
       ELSE /\ reply_result(m.client, g_status, g_feedback)
            /\ UNCHANGED held
    /\ UNCHANGED <<goal, accepted>>

\* Called with g_goal_done set.
maybe_reply_pending_result(status, sequence) ==
    IF g_result_pending
    THEN /\ reply_result(g_result_sample_identity, status, sequence)
         /\ g_result_pending' = FALSE
         /\ UNCHANGED g_result_sample_identity
    ELSE UNCHANGED <<held, answer>>

\* The goal is not running, or STEP_INTERVAL_MS have not passed.
step_skip ==
    /\ pc = "step" /\ pc' = "recv"
    /\ UNCHANGED <<goal, held, clients>>

\* Faulty variant: a cancelled goal is only left alone.
step_cancel_idle ==
    /\ pc = "step" /\ pc' = "recv"
    /\ Running /\ g_cancel_requested
    /\ UNCHANGED <<goal, held, clients>>

step_cancel ==
    /\ pc = "step" /\ pc' = "recv"
    /\ Running /\ g_cancel_requested
    /\ g_status' = GOAL_STATUS_CANCELED
    /\ g_goal_done' = TRUE
    /\ published' = Publish(GOAL_STATUS_CANCELED, published)
    /\ maybe_reply_pending_result(GOAL_STATUS_CANCELED, g_feedback)
    /\ UNCHANGED <<g_goal_active, g_cancel_requested, g_goal_id, g_order, g_feedback,
                   net, accepted, asked>>

NextValue(s) == IF Len(s) < 2 THEN Len(s) ELSE s[Len(s)] + s[Len(s) - 1]

\* Faulty variant: the comparison is signed.
CompleteSigned(n, order) == n >= order \/ n >= XRCE_MSGS_SEQ_I32_MAX

\* (uint32_t)g_order: a negative order is larger than every count.
Complete(n, order) == (order >= 0 /\ n >= order) \/ n >= XRCE_MSGS_SEQ_I32_MAX

\* Faulty variant: a cancelled goal is worked on as well.
NotCancelledAlways == TRUE

NotCancelled == ~g_cancel_requested

step_value ==
    /\ pc = "step" /\ pc' = "recv"
    /\ Running /\ NotCancelled
    /\ g_feedback' = Append(g_feedback, NextValue(g_feedback))
    /\ IF Complete(Len(g_feedback'), g_order)
       THEN /\ g_status' = GOAL_STATUS_SUCCEEDED
            /\ g_goal_done' = TRUE
            /\ published' = Publish(GOAL_STATUS_SUCCEEDED,
                                    Publish(GOAL_STATUS_EXECUTING, published))
            /\ maybe_reply_pending_result(GOAL_STATUS_SUCCEEDED, g_feedback')
       ELSE /\ g_status' = GOAL_STATUS_EXECUTING
            /\ published' = Publish(GOAL_STATUS_EXECUTING, published)
            /\ UNCHANGED <<g_goal_done, held, answer>>
    /\ UNCHANGED <<g_goal_active, g_cancel_requested, g_goal_id, g_order, net, accepted, asked>>

step_goal == step_cancel \/ step_value

Loop ==
    \/ recv_timeout
    \/ \E m \in net : handle_send_goal(m) \/ handle_cancel_goal(m) \/ handle_get_result(m)
    \/ step_skip
    \/ step_goal

Environment ==
    \/ \E c \in ActionClient :
          (\E order \in Order : send_goal(c, order)) \/ get_result(c) \/ cancel_goal(c)
    \/ \E m \in net : lose(m)

ServerNext == Loop \/ Environment

\* The loop never blocks for good, recv() has a timeout, and the clock moves on, so a
\* goal's next step comes due again and again.
Fairness == WF_serverVars(Loop) /\ SF_serverVars(step_goal)

ServerSpec == ServerInit /\ [][ServerNext]_serverVars /\ Fairness

-----------------------------------------------------------------------------
(* Properties *)

\* The statuses a subscriber sees of one goal follow the action protocol: once a cancel
\* request was accepted the goal ends CANCELED, never back to EXECUTING or SUCCEEDED.
StatusOrder ==
    \E path \in {<<1, 2, 4>>, <<1, 2, 3, 5>>, <<1, 3, 5>>} :
        /\ Len(published) <= Len(path)
        /\ \A i \in 1 .. Len(published) : published[i] = path[i]

Fibonacci[n \in 0 .. XRCE_MSGS_SEQ_I32_MAX - 1] ==
    IF n < 2 THEN n ELSE Fibonacci[n - 1] + Fibonacci[n - 2]

\* What send_goal order: n computes: n values, at least one, at most what fits.
Expected(order) ==
    LET n == IF order < 0 \/ order > XRCE_MSGS_SEQ_I32_MAX THEN XRCE_MSGS_SEQ_I32_MAX
             ELSE IF order = 0 THEN 1 ELSE order
    IN  [i \in 1 .. n |-> Fibonacci[i - 1]]

\* A client whose get_result reached the server before another goal was accepted is
\* answered with the terminal status and the values of its own goal, also when the
\* request was held while that goal ran.  As long as every client asks in time, the one
\* slot for a held request is enough: when the goal is over each has been answered.
ResultMatches ==
    \A c \in ActionClient : asked[c] = "own" =>
        IF answer[c] # None
        THEN /\ answer[c].goal = c
             /\ answer[c].status \in {GOAL_STATUS_SUCCEEDED, GOAL_STATUS_CANCELED}
             /\ g_goal_id = c /\ answer[c].status = GOAL_STATUS_SUCCEEDED =>
                  answer[c].sequence = Expected(g_order)
        ELSE (Running /\ g_goal_id = c) \/ \E d \in ActionClient : asked[d] = "late"

\* Every accepted goal ends, also one of negative order or one that is cancelled.
GoalEnds ==
    \A c \in ActionClient : (g_goal_id = c /\ Running) ~> (g_goal_id = c /\ g_goal_done)
==============================================================================
