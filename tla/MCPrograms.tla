----------------------------- MODULE MCPrograms -----------------------------
(***************************************************************************)
(* For model checking: the dispatcher of host/live_priority_demo.c (module *)
(* PriorityDispatch) and the codec of the samples it takes off the socket  *)
(* (module Cdr).  They share no state, so system says which one runs and   *)
(* the other stays in its initial state.                                   *)
(***************************************************************************)
EXTENDS Cdr, PriorityDispatch

VARIABLE system

all == <<system, vars, dispatchVars>>

ProgramsInit == system \in {"codec", "dispatch"} /\ Init /\ DispatchInit

\* A step of one of them.
Codec(A) == system = "codec" /\ A /\ UNCHANGED <<system, dispatchVars>>
Dispatcher(A) == system = "dispatch" /\ A /\ UNCHANGED <<system, vars>>

ProgramsNext == Codec(Next) \/ Dispatcher(DispatchNext)

\* The fairness of PriorityDispatch; the codec's properties need none.
ProgramsFairness ==
    /\ WF_all(Dispatcher(Poller))
    /\ WF_all(Dispatcher(Dispatch))
    /\ WF_all(Dispatcher(Tick))
    /\ SF_all(Dispatcher(simulate_slow_work))
    /\ \A c \in Consumer : /\ SF_all(Dispatcher(Dispatch /\ picked' = c))
                          /\ SF_all(Dispatcher(Callback(c)))

ProgramsSpec == ProgramsInit /\ [][ProgramsNext]_all /\ ProgramsFairness
=============================================================================
