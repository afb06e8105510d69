------------------------------ MODULE SecureLink ------------------------------
(***************************************************************************)
(* The authenticated link: xrce/src/secure_transport.c at both ends of a   *)
(* serial line, in the firmware rtos/arm/ros2_demo.c built with            *)
(* SECURE_LINK and in host/secure_gateway.c.                               *)
(*                                                                         *)
(* A frame is what the serial framing (module SerialTransport) delivers    *)
(* as one payload.  The line loses frames, delivers one again later, and   *)
(* now and then damages one in a way the frame's CRC does not notice.      *)
(* Either end can restart; it then has fresh contexts while frames of the  *)
(* old run may still be under way.                                         *)
(***************************************************************************)
EXTENDS Integers, Sequences

CONSTANTS CounterMod,   \* the counters are numbers modulo this
          SendCap,      \* bound: frames wrapped in a direction in its sender's i-th run
          MaxBoots,     \* bound: runs of each end
          LinkFaults,   \* bound: faults of the line
          LinkCap       \* bound: frames under way in one direction

VARIABLES send_counter, \* of the sending context of each direction
          rx,           \* the receiving context: last_recv_counter, have_received
          boots,        \* which run of its program each end is in
          gateway_key,  \* the key the gateway was started with
          link,         \* frames under way
          passed,       \* payloads handed on since the receiver started
          linkFaults

linkVars == <<send_counter, rx, boots, gateway_key, link, passed, linkFaults>>

Dir == {"up", "down"}
Sender == [up |-> "board", down |-> "gateway"]
Receiver == [up |-> "gateway", down |-> "board"]

XRCE_SECURE_OVERHEAD == 12
MAC_INPUT_SCRATCH_LEN == 320
MAX_PAYLOAD == 512

\* xrce_secure_wrap()'s out_cap, and the size of the receiving reader's buffer.
WrapCap == [up |-> 256 + XRCE_SECURE_OVERHEAD, down |-> MAX_PAYLOAD + XRCE_SECURE_OVERHEAD]
ReaderCap == [up |-> MAX_PAYLOAD + XRCE_SECURE_OVERHEAD, down |-> 256 + XRCE_SECURE_OVERHEAD]

Key(node) == IF node = "board" THEN "default" ELSE gateway_key

\* HMAC-SHA256 (hmac.c): equal tags come from equal keys, counters and payloads only.
compute_tag(key, counter, payload) == <<key, counter, payload>>

NotYet == [last_recv_counter |-> 0, have_received |-> FALSE]

-----------------------------------------------------------------------------
(* secure_transport.c *)

\* The frames to send, none when the payload does not fit, and the next counter.
xrce_secure_wrap(d, payload) ==
    LET frame == [counter |-> send_counter[d], payload |-> payload,
                  tag |-> compute_tag(Key(Sender[d]), send_counter[d], payload),
                  len |-> payload.len + XRCE_SECURE_OVERHEAD]
    IN  IF \/ payload.len > MAC_INPUT_SCRATCH_LEN - 4
           \/ WrapCap[d] < payload.len + XRCE_SECURE_OVERHEAD
        THEN [frames |-> <<>>, counter |-> send_counter[d]]
        ELSE [frames |-> <<frame>>, counter |-> (send_counter[d] + 1) % CounterMod]

LengthOK(frame) ==
    /\ frame.len >= XRCE_SECURE_OVERHEAD
    /\ frame.len - XRCE_SECURE_OVERHEAD <= MAC_INPUT_SCRATCH_LEN - 4

TagOK(node, frame) == frame.tag = compute_tag(Key(node), frame.counter, frame.payload)

\* Faulty variant: the counter accepted last is accepted again.
FreshOrLast(ctx, frame) == ctx.have_received => frame.counter >= ctx.last_recv_counter

Fresh(ctx, frame) == ctx.have_received => frame.counter > ctx.last_recv_counter

\* Faulty variant: the counter is stored before the tag is compared.
xrce_secure_unwrap_early(d, frame) ==
    LET seen == [last_recv_counter |-> frame.counter, have_received |-> TRUE]
    IN  IF LengthOK(frame) /\ Fresh(rx[d], frame)
        THEN [ok |-> TagOK(Receiver[d], frame), ctx |-> seen]
        ELSE [ok |-> FALSE, ctx |-> rx[d]]

\* Whether the result is XRCE_SECURE_OK, and the context afterwards.
xrce_secure_unwrap(d, frame) ==
    IF LengthOK(frame) /\ TagOK(Receiver[d], frame) /\ Fresh(rx[d], frame)
    THEN [ok |-> TRUE, ctx |-> [last_recv_counter |-> frame.counter, have_received |-> TRUE]]
    ELSE [ok |-> FALSE, ctx |-> rx[d]]

-----------------------------------------------------------------------------
(* The two programs *)

\* A payload is known by the run of its sender and its number in that run.
Payload(d, kind, len) ==
    [boot |-> boots[Sender[d]], n |-> send_counter[d], kind |-> kind, len |-> len]

Room(d) ==
    /\ Len(link[d]) < LinkCap
    /\ send_counter[d] < SendCap[d][boots[Sender[d]]]

\* A frame the reader's buffer cannot hold is refused by its length field.
ReaderTakes(d, frame) == frame.len <= ReaderCap[d]

Verified(d, frame) == ReaderTakes(d, frame) /\ xrce_secure_unwrap(d, frame).ok

Verify(d, frame) ==
    /\ rx' = IF ReaderTakes(d, frame)
             THEN [rx EXCEPT ![d] = xrce_secure_unwrap(d, frame).ctx] ELSE rx
    /\ passed' = IF Verified(d, frame)
                 THEN [passed EXCEPT ![d] = Append(@, frame.payload)] ELSE passed

LinkInit ==
    /\ send_counter = [d \in Dir |-> 0]
    /\ rx = [d \in Dir |-> NotYet]
    /\ boots = [board |-> 1, gateway |-> 1]
    /\ gateway_key \in {"default", "other"}
    /\ link = [d \in Dir |-> <<>>]
    /\ passed = [d \in Dir |-> <<>>]
    /\ linkFaults = 0

\* send_frame() of the firmware's main loop and of announce_entities(): every message
\* is at most 256 bytes.
board_send ==
    /\ Room("up")
    /\ LET wrapped == xrce_secure_wrap("up", Payload("up", "publish", 64))
       IN  /\ link' = [link EXCEPT !["up"] = @ \o wrapped.frames]
           /\ send_counter' = [send_counter EXCEPT !["up"] = wrapped.counter]
    /\ UNCHANGED <<rx, boots, gateway_key, passed, linkFaults>>

\* The gateway's uplink: process_secure_frame(), then the agent gets the payload.
gateway_uplink ==
    /\ link["up"] # <<>>
    /\ Verify("up", Head(link["up"]))
    /\ link' = [link EXCEPT !["up"] = Tail(@)]
    /\ UNCHANGED <<send_counter, boots, gateway_key, linkFaults>>

\* The gateway's downlink: the agent sends a sample, or a reply that may be longer than
\* the board's buffer or than the MAC scratch buffer.
gateway_downlink(kind, len) ==
    /\ Room("down")
    /\ LET wrapped == xrce_secure_wrap("down", Payload("down", kind, len))
       IN  /\ link' = [link EXCEPT !["down"] = @ \o wrapped.frames]
           /\ send_counter' = [send_counter EXCEPT !["down"] = wrapped.counter]
    /\ UNCHANGED <<rx, boots, gateway_key, passed, linkFaults>>

\* pace_and_poll_rx(): a verified sample is echoed by handle_incoming_frame().
board_rx ==
    /\ link["down"] # <<>>
    /\ Verify("down", Head(link["down"]))
    /\ IF Verified("down", Head(link["down"])) /\ Head(link["down"]).payload.kind = "data"
       THEN LET pong == xrce_secure_wrap("up", Payload("up", "pong", 64))
            IN  /\ Room("up")
                /\ link' = [up |-> link["up"] \o pong.frames, down |-> Tail(link["down"])]
                /\ send_counter' = [send_counter EXCEPT !["up"] = pong.counter]
       ELSE /\ link' = [link EXCEPT !["down"] = Tail(@)]
            /\ UNCHANGED send_counter
    /\ UNCHANGED <<boots, gateway_key, linkFaults>>

\* An end starts again: xrce_secure_init() on both its contexts.
restart(node) ==
    /\ boots[node] < MaxBoots
    /\ boots' = [boots EXCEPT ![node] = @ + 1]
    /\ send_counter' = [d \in Dir |-> IF Sender[d] = node THEN 0 ELSE send_counter[d]]
    /\ rx' = [d \in Dir |-> IF Receiver[d] = node THEN NotYet ELSE rx[d]]
    /\ passed' = [d \in Dir |-> IF Receiver[d] = node THEN <<>> ELSE passed[d]]
    /\ UNCHANGED <<gateway_key, link, linkFaults>>

-----------------------------------------------------------------------------
(* The line *)

Fault(d, frames) ==
    /\ link[d] # <<>>
    /\ linkFaults < LinkFaults
    /\ link' = [link EXCEPT ![d] = frames]
    /\ linkFaults' = linkFaults + 1
    /\ UNCHANGED <<send_counter, rx, boots, gateway_key, passed>>

lose_frame(d) == Fault(d, Tail(link[d]))

repeat(d) == Len(link[d]) < LinkCap /\ Fault(d, Append(link[d], Head(link[d])))

\* Damage to the counter, to the payload or to the length.
Noise == [boot |-> 0, n |-> 0, kind |-> "noise", len |-> 64]

damage(d) ==
    /\ link[d] # <<>>
    /\ LET frame == Head(link[d])
       IN  \E hit \in {[frame EXCEPT !.counter = CounterMod - 1],
                       [frame EXCEPT !.payload = Noise], [frame EXCEPT !.len = 4]} :
             Fault(d, <<hit>> \o Tail(link[d]))

LinkNext ==
    \/ board_send
    \/ gateway_uplink
    \/ \E m \in {<<"data", 64>>, <<"status", 300>>, <<"status", 400>>} :
         gateway_downlink(m[1], m[2])
    \/ board_rx
    \/ \E node \in {"board", "gateway"} : restart(node)
    \/ \E d \in Dir : lose_frame(d) \/ repeat(d) \/ damage(d)

LinkSpec == LinkInit /\ [][LinkNext]_linkVars

-----------------------------------------------------------------------------
(* Properties *)

\* The counters stay in their range and a context that has accepted nothing is fresh.
LinkTypeOK ==
    /\ send_counter \in [Dir -> 0 .. CounterMod - 1]
    /\ \A d \in Dir :
         /\ rx[d].last_recv_counter \in 0 .. CounterMod - 1
         /\ ~rx[d].have_received => rx[d] = NotYet
         /\ Len(link[d]) <= LinkCap
    /\ boots \in [{"board", "gateway"} -> 1 .. MaxBoots]

\* Only what the peer sent is handed on, and nothing when the keys differ.  Between two
\* starts of a receiver no payload is handed on twice, and the payloads of one run of the
\* sender are handed on in the order it sent them, whatever the line repeats and however
\* often the sender restarts.
DeliveredInOrder ==
    \A d \in Dir :
      /\ \A i \in DOMAIN passed[d] : passed[d][i].kind # "noise" /\ gateway_key = "default"
      /\ \A i, j \in DOMAIN passed[d] :
           i < j /\ passed[d][i].boot = passed[d][j].boot => passed[d][i].n < passed[d][j].n

Received(d) == link[d] # <<>> /\ link'[d] = Tail(link[d]) /\ linkFaults' = linkFaults

\* An undamaged frame whose counter is beyond those of all payloads handed on so far is
\* handed on.  So frames that are refused (damaged, repeated, too long for a buffer)
\* leave the context as it was and cost nothing but themselves, and a board that has
\* restarted, which the gateway refuses at first, is heard again when its counter has
\* passed the old one.
NewerAccepted ==
    [][\A d \in Dir :
         LET frame == Head(link[d])
         IN  /\ Received(d)
             /\ TagOK(Receiver[d], frame) /\ LengthOK(frame) /\ ReaderTakes(d, frame)
             /\ \A i \in DOMAIN passed[d] : frame.counter > passed[d][i].n
             => passed'[d] = Append(passed[d], frame.payload)]_linkVars
==============================================================================
