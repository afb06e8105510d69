--------------------------- MODULE ReliableStream ---------------------------
(***************************************************************************)
(* The output reliable stream of xrce/src/reliable_stream.c, driven by the *)
(* reliable half of host/bench_qos.c: Count samples are tracked and sent,  *)
(* then heartbeat rounds solicit ACKNACKs and resend the window.  The link *)
(* is host/udp_loss_proxy.py, which drops datagrams in both directions and *)
(* keeps their order.  The agent's input stream is not in the repository;  *)
(* it is modelled from how the client uses it.                             *)
(*                                                                         *)
(* A message is known by its sequence number.  Time is left out: a round   *)
(* may end (the 150 ms of bench_qos.c:413) at any moment.                  *)
(***************************************************************************)
EXTENDS Integers, Sequences, FiniteSets, FiniteSetsExt

CONSTANTS
    Window,      \* XRCE_RELIABLE_WINDOW, 32 in the code
    Modulo,      \* the values of a sequence number, 2^16 in the code
    Count,       \* samples to publish, the bench's fifth argument
    MaxRounds    \* max_rounds, 12 in the code

ASSUME StreamAssumption ==
    /\ Window \in Nat \ {0} /\ Count \in Nat \ {0} /\ MaxRounds \in Nat
    /\ Modulo \in Nat /\ Modulo % Window = 0
    /\ Modulo > 2 * Window /\ Modulo > 2 * Count

VARIABLES
    buf,         \* ro->buf: the message a slot holds (Modulo: never written)
    occupied,    \* ro->occupied
    last_acknown, last_sent, any_sent, send_lost, retransmit_cursor,
    out_seq_num, \* the session's sequence counter: the next sample
    phase, rounds, got_acknack,  \* where main() is
    toAgent, toClient,           \* datagrams in flight, oldest first
    delivered,   \* samples the agent handed on, in order
    early,       \* sequence numbers it received out of order
    announced,   \* samples the latest heartbeat told it about
    drops, late  \* history: datagrams lost (counted up to MaxRounds, no
                 \* property asks for more); a round ended with some in flight

ro == <<buf, occupied, last_acknown, last_sent, any_sent, send_lost, retransmit_cursor>>
bench == <<out_seq_num, phase, rounds, got_acknack>>
link == <<toAgent, toClient, drops>>
agent == <<delivered, early, announced>>
vars == <<ro, bench, link, agent, late>>

Seq16 == 0 .. Modulo - 1
Slot == 0 .. Window - 1

\* The distance from sequence number a forward to b, in uint16_t arithmetic.
Ahead(a, b) == (b - a) % Modulo

slot_for(seq) == seq % Window

\* bench_qos.c:388-394: the counter restarts at 0 on the reliable stream and
\* last_acknown is moved back to the number before the first one.
Init ==
    /\ buf = [s \in Slot |-> Modulo] /\ occupied = [s \in Slot |-> FALSE]
    /\ last_acknown = Modulo - 1 /\ last_sent = 0 /\ any_sent = FALSE
    /\ send_lost = FALSE /\ retransmit_cursor = 0
    /\ out_seq_num = 0 /\ phase = "publish" /\ rounds = 0 /\ got_acknack = FALSE
    /\ toAgent = <<>> /\ toClient = <<>> /\ drops = 0 /\ late = FALSE
    /\ delivered = 0 /\ early = {} /\ announced = 0

-----------------------------------------------------------------------------
(* reliable_stream.c *)

\* Faulty variant: the slot of first_unacked is freed too.
FreedThrough(first_unacked) ==
    {(last_acknown + k) % Modulo : k \in 0 .. Ahead(last_acknown, first_unacked)}

\* The sequence numbers whose slots an ACKNACK frees.
FreedFrom(first_unacked) ==
    {(last_acknown + k) % Modulo : k \in 0 .. Ahead(last_acknown, first_unacked) - 1}

HasRoom(seq) == any_sent => Ahead(last_acknown, seq) <= Window

track(seq) ==
    \/ /\ HasRoom(seq)
       /\ buf' = [buf EXCEPT ![slot_for(seq)] = seq]
       /\ occupied' = [occupied EXCEPT ![slot_for(seq)] = TRUE]
       /\ last_sent' = seq /\ any_sent' = TRUE
       /\ UNCHANGED <<last_acknown, send_lost, retransmit_cursor>>
    \/ /\ ~HasRoom(seq)
       /\ UNCHANGED ro

\* Faulty variant: first_unacked itself is taken for acknowledged.
acknack_inclusive(first_unacked, bitmap) ==
    /\ occupied' = [s \in Slot |->
          occupied[s] /\ \A seq \in FreedFrom(first_unacked) : s # slot_for(seq)]
    /\ last_acknown' = first_unacked
    /\ send_lost' = bitmap /\ retransmit_cursor' = last_acknown'
    /\ UNCHANGED <<buf, last_sent, any_sent>>

on_acknack(first_unacked, bitmap) ==
    /\ IF any_sent
       THEN LET freed == {slot_for(seq) : seq \in FreedFrom(first_unacked)}
            IN  /\ occupied' = [s \in Slot |-> occupied[s] /\ s \notin freed]
                /\ last_acknown' = (first_unacked - 1) % Modulo
       ELSE UNCHANGED <<occupied, last_acknown>>
    /\ send_lost' = bitmap
    /\ retransmit_cursor' = last_acknown'
    /\ UNCHANGED <<buf, last_sent, any_sent>>

\* Faulty variant: the scan stops short of last_sent.
ResendableBefore ==
    {k \in 1 .. Ahead(retransmit_cursor, last_sent) - 1 :
        send_lost /\ occupied[slot_for(retransmit_cursor + k)]}

\* What the scan of next_retransmit stops at: the steps from the cursor to the
\* occupied slots it meets before it has passed last_sent.
Resendable ==
    {k \in 1 .. Ahead(retransmit_cursor, last_sent) :
        send_lost /\ occupied[slot_for(retransmit_cursor + k)]}

next_retransmit(seq) ==
    /\ Resendable # {}
    /\ seq = (retransmit_cursor + Min(Resendable)) % Modulo
    /\ retransmit_cursor' = seq
    /\ UNCHANGED <<buf, occupied, last_acknown, last_sent, any_sent, send_lost>>

sweep_finished ==
    /\ Resendable = {}
    /\ send_lost' = FALSE
    /\ retransmit_cursor' = IF send_lost THEN last_sent ELSE retransmit_cursor
    /\ UNCHANGED <<buf, occupied, last_acknown, last_sent, any_sent>>

-----------------------------------------------------------------------------
(* host/bench_qos.c, main() *)

Data(seq) == [kind |-> "data", seq |-> seq]
Heartbeat(first, last) == [kind |-> "heartbeat", first |-> first, last |-> last]
Acknack(first, bitmap) == [first_unacked |-> first, bitmap |-> bitmap]

\* The result of track is not looked at: a sample that found no room is sent
\* all the same.
publish_sample ==
    /\ phase = "publish" /\ out_seq_num < Count
    /\ track(out_seq_num)
    /\ out_seq_num' = out_seq_num + 1
    /\ toAgent' = Append(toAgent, Data(out_seq_num))
    /\ phase' = IF out_seq_num' = Count THEN "round" ELSE phase
    /\ UNCHANGED <<rounds, got_acknack, toClient, drops, agent, late>>

send_heartbeat ==
    /\ phase = "round" /\ rounds < MaxRounds
    /\ toAgent' = Append(toAgent, Heartbeat((last_acknown + 1) % Modulo, last_sent))
    /\ phase' = "listen" /\ got_acknack' = FALSE
    /\ UNCHANGED <<ro, out_seq_num, rounds, toClient, drops, agent, late>>

recv_acknack ==
    /\ phase = "listen" /\ toClient # <<>>
    /\ on_acknack(Head(toClient).first_unacked, Head(toClient).bitmap)
    /\ toClient' = Tail(toClient)
    /\ got_acknack' = TRUE
    /\ UNCHANGED <<out_seq_num, phase, rounds, toAgent, drops, agent, late>>

round_over ==
    /\ phase = "listen"
    /\ phase' = IF got_acknack THEN "sweep" ELSE "round"
    /\ rounds' = IF got_acknack THEN rounds ELSE rounds + 1
    /\ late' = (late \/ toAgent # <<>> \/ toClient # <<>>)
    /\ UNCHANGED <<ro, out_seq_num, got_acknack, link, agent>>

retransmit ==
    /\ phase = "sweep"
    /\ \E seq \in Seq16 :
          /\ next_retransmit(seq)
          /\ toAgent' = Append(toAgent, Data(buf[slot_for(seq)]))
    /\ UNCHANGED <<bench, toClient, drops, agent, late>>

AllAcked == last_acknown = Count - 1

sweep_done ==
    /\ phase = "sweep"
    /\ sweep_finished
    /\ \/ AllAcked /\ phase' = "done" /\ UNCHANGED rounds
       \/ ~AllAcked /\ phase' = "round" /\ rounds' = rounds + 1
    /\ UNCHANGED <<out_seq_num, got_acknack, link, agent, late>>

give_up ==
    /\ phase = "round" /\ rounds = MaxRounds
    /\ phase' = "done"
    /\ UNCHANGED <<ro, out_seq_num, rounds, got_acknack, link, agent, late>>

-----------------------------------------------------------------------------
(* host/udp_loss_proxy.py, and the agent as the client uses it *)

drop ==
    /\ \/ /\ toAgent # <<>>
          /\ toAgent' = Tail(toAgent) /\ UNCHANGED toClient
       \/ /\ toClient # <<>>
          /\ toClient' = Tail(toClient) /\ UNCHANGED toAgent
    /\ drops' = Min({drops + 1, MaxRounds})
    /\ UNCHANGED <<ro, bench, agent, late>>

\* The samples in order with `got` received on top of those handed on.
InOrder(got) == CHOOSE n \in delivered .. Count :
    /\ \A k \in delivered .. n - 1 : k % Modulo \in got
    /\ n = Count \/ n % Modulo \notin got

agent_data ==
    /\ toAgent # <<>> /\ Head(toAgent).kind = "data"
    /\ toAgent' = Tail(toAgent)
    /\ LET got == early \union {Head(toAgent).seq}
       IN  /\ delivered' = InOrder(got)
           /\ early' = {s \in got : Ahead(delivered', s) < Modulo \div 2}
    /\ UNCHANGED <<ro, bench, toClient, drops, announced, late>>

\* The bitmap is nonzero when one of the announced samples is missing.
agent_heartbeat ==
    /\ toAgent # <<>> /\ Head(toAgent).kind = "heartbeat"
    /\ toAgent' = Tail(toAgent)
    /\ announced' = Head(toAgent).last + 1
    /\ toClient' = Append(toClient, Acknack(delivered % Modulo,
          \E k \in delivered .. announced' - 1 : k \notin early))
    /\ UNCHANGED <<ro, bench, drops, delivered, early, late>>

Finished == phase = "done" /\ UNCHANGED vars

Client == publish_sample \/ send_heartbeat \/ recv_acknack \/ round_over
              \/ retransmit \/ sweep_done \/ give_up
Next == Client \/ drop \/ agent_data \/ agent_heartbeat \/ Finished
Spec == Init /\ [][Next]_vars

-----------------------------------------------------------------------------
\* A sample that was sent and that the agent does not have is still in the
\* window, so that a later round can resend it.
NothingForgotten ==
    \A seq \in delivered .. out_seq_num - 1 :
        seq \notin early => occupied[slot_for(seq)] /\ buf[slot_for(seq)] = seq

\* What the client takes for acknowledged, the agent has handed on: however
\* late ACKNACKs arrive, the bench never reports "fully acked" too soon.
AckedDelivered ==
    (last_acknown + 1) % Modulo <= delivered

\* The bench gives up only on a link that is bad enough: unless a round ended
\* with datagrams still on their way, every round it wastes costs the link a
\* lost datagram.
GivesUpOnlyOnLoss ==
    phase = "done" /\ ~AllAcked /\ ~late => drops >= MaxRounds
=============================================================================
