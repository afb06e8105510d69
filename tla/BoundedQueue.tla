---------------------------- MODULE BoundedQueue ----------------------------
(***************************************************************************)
(* What queue_t promises: a first-in first-out queue of at most Capacity   *)
(* items, in which no item is lost, duplicated or overwritten.             *)
(***************************************************************************)
EXTENDS Naturals, Sequences

CONSTANTS Capacity, Item

VARIABLES items,   \* the queue's contents
          got      \* the item the last receive returned

QueueInit == items = <<>> /\ got \in Item

Send(item) ==
    /\ Len(items) < Capacity
    /\ items' = Append(items, item)
    /\ UNCHANGED got

Receive ==
    /\ items # <<>>
    /\ got' = Head(items)
    /\ items' = Tail(items)

QueueNext == (\E item \in Item : Send(item)) \/ Receive

QueuePromise == QueueInit /\ [][QueueNext]_<<items, got>>
=============================================================================
