------------------------------- MODULE MCSync -------------------------------
(***************************************************************************)
(* Programs for model checking Sync: three tasks on one queue, one of them *)
(* at both ends; three tasks on one mutex at up to three priorities; and   *)
(* the two smallest programs, for the runs that show a divergence.         *)
(***************************************************************************)
EXTENDS Sync

Clients(senders, receivers, lockers, priorities) ==
    [sender |-> senders, receiver |-> receivers, locker |-> lockers,
     priorities |-> priorities]

QueueAndMutex == {Clients({1, 2}, {2, 3}, {}, {1, 2}), Clients({}, {}, {1, 2, 3}, {1, 2, 3})}
OneSender == {Clients({1}, {2}, {}, {1})}
TwoLockers == {Clients({}, {}, {1, 2}, {1, 2})}
=============================================================================
