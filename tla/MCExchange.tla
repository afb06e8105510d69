----------------------------- MODULE MCExchange -----------------------------
(***************************************************************************)
(* Three programs that answer or are answered, for model checking: the     *)
(* reliable stream (module ReliableStream), the action server (module      *)
(* ActionServer) and the node that reports on itself when it is asked to   *)
(* (module Diagnostics).  They share no state; exchange says which one     *)
(* runs, the others stay in their initial states.                          *)
(***************************************************************************)
EXTENDS ReliableStream, ActionServer, Diagnostics

VARIABLE exchange

all == <<exchange, vars, serverVars, nodeVars>>

\* A negative order, which the server takes for a large one, and a short one.
MCOrder == {-1, 2}

Stream(A) == exchange = "stream" /\ A /\ UNCHANGED <<exchange, serverVars, nodeVars>>
Server(A) == exchange = "action" /\ A /\ UNCHANGED <<exchange, vars, nodeVars>>
Node(A) == exchange = "report" /\ A /\ UNCHANGED <<exchange, vars, serverVars>>

ExchangeInit ==
    /\ exchange \in {"stream", "action", "report"}
    /\ Init /\ ServerInit /\ NodeInit

ExchangeNext == Stream(Next) \/ Server(ServerNext) \/ Node(NodeNext)

\* The fairness of ActionServer; the properties of the others need none.
ExchangeFairness == WF_all(Server(Loop)) /\ SF_all(Server(step_goal))

ExchangeSpec == ExchangeInit /\ [][ExchangeNext]_all /\ ExchangeFairness
=============================================================================
