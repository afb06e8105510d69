-------------------------- MODULE SerialTransport --------------------------
(***************************************************************************)
(* The framing layer of the XRCE serial link (xrce/src/serial_transport.c).*)
(* A frame is  FLAG src dst len_lsb len_msb payload crc_lsb crc_msb,  every*)
(* byte after the FLAG stuffed, the CRC-16/ARC taken over the payload only.*)
(*                                                                         *)
(* The peer encodes frames and puts them on the wire one after another.    *)
(* The wire hands each byte to the reader intact, loses it, or flips one   *)
(* of its bits, as host/fault_corruption_proxy.py does.  Feeding one byte  *)
(* to the reader is one step, the whole of xrce_serial_reader_feed().      *)
(* Bytes, stuffing and the CRC are the code's own: what survives noise     *)
(* depends on their values.                                                *)
(***************************************************************************)
EXTENDS Integers, Sequences, SequencesExt, Bitwise

CONSTANTS Payloads,    \* the payloads the peer may send
          PayloadCap,  \* payload_cap, the size of the reader's buffer
          OutCap,      \* out_cap, the size of the encoder's buffer
          MaxFaults    \* bound on the bytes lost or flipped

ASSUME SerialAssumption ==
    /\ Payloads \subseteq Seq(0..255)
    /\ PayloadCap \in Nat /\ OutCap \in Nat
    /\ MaxFaults \in Nat

FLAG == 126
ESC == 125
XOR == 32

LocalAddr == 1
RemoteAddr == 0

VARIABLES
    r,       \* xrce_serial_reader_t
    wire,    \* the bytes of the current frame not yet transmitted
    faults,  \* number of bytes lost or flipped so far
    sent,    \* history: the frame sent last; see send_frame
    log      \* history: the payloads delivered since that frame was sent

vars == <<r, wire, faults, sent, log>>

----------------------------------------------------------------------------
(* Encoding *)

crc16_update(crc, byte) ==
    LET shifted[i \in 0..8] ==
            IF i = 0 THEN crc ^^ byte
            ELSE LET c == shifted[i - 1]
                 IN  IF c % 2 = 1 THEN (c \div 2) ^^ 40961 ELSE c \div 2
    IN  shifted[8]

xrce_serial_crc16(data) == FoldLeft(crc16_update, 0, data)

put_stuffed(byte) ==
    IF byte \in {FLAG, ESC} THEN <<ESC, byte ^^ XOR>> ELSE <<byte>>

\* The empty sequence stands for the result 0: the frame does not fit.
xrce_serial_frame_encode(src, dst, payload) ==
    LET crc == xrce_serial_crc16(payload)
        raw == <<src, dst, Len(payload) % 256, (Len(payload) \div 256) % 256>>
                 \o payload \o <<crc % 256, crc \div 256>>
        out == <<FLAG>> \o FlattenSeq([i \in DOMAIN raw |-> put_stuffed(raw[i])])
    IN  IF Len(out) <= OutCap THEN out ELSE <<>>

----------------------------------------------------------------------------
(* The reader *)

States == {"WAIT_FLAG", "READ_SRC", "READ_DST", "READ_LEN_LSB", "READ_LEN_MSB",
           "READ_PAYLOAD", "READ_CRC_LSB", "READ_CRC_MSB"}

\* buf holds payload_buf[0 .. pos-1]; later bytes are never read.
xrce_serial_reader_init ==
    [state |-> "WAIT_FLAG", src_addr |-> 0, len |-> 0, buf |-> <<>>,
     crc |-> 0, rx_crc |-> 0, have_escape |-> FALSE]

reset_to_wait(q) == [q EXCEPT !.state = "WAIT_FLAG", !.have_escape = FALSE]

unstuff(byte) == IF r.have_escape THEN byte ^^ XOR ELSE byte

\* Faulty variants: no resynchronisation in the middle of a frame, no capacity check, no CRC
\* check.
RestartsWhenIdle(byte) == r.state = "WAIT_FLAG" /\ byte = FLAG

FitsAlways(len) == TRUE

CrcIgnored(q) == TRUE

\* A FLAG that is not escaped starts a frame in every state.
RestartsFrame(byte) == ~r.have_escape /\ byte = FLAG

Fits(len) == len <= PayloadCap

CrcMatches(q) == q.rx_crc = q.crc

----------------------------------------------------------------------------
(* The switch of xrce_serial_reader_feed(): the reader after decoded byte d. *)

Decoded(d) ==
    LET q == [r EXCEPT !.have_escape = FALSE]
        len == r.len + 256 * d
    IN  CASE r.state = "READ_SRC" ->
                [q EXCEPT !.src_addr = d, !.state = "READ_DST"]
          [] r.state = "READ_DST" ->
                IF d # LocalAddr THEN reset_to_wait(q)
                ELSE [q EXCEPT !.state = "READ_LEN_LSB"]
          [] r.state = "READ_LEN_LSB" ->
                [q EXCEPT !.len = d, !.state = "READ_LEN_MSB"]
          [] r.state = "READ_LEN_MSB" ->
                LET p == [q EXCEPT !.len = len, !.buf = <<>>, !.crc = 0]
                IN  IF ~Fits(len) THEN reset_to_wait(p)
                    ELSE [p EXCEPT !.state = IF len = 0 THEN "READ_CRC_LSB"
                                             ELSE "READ_PAYLOAD"]
          [] r.state = "READ_PAYLOAD" ->
                [q EXCEPT !.buf = Append(@, d), !.crc = crc16_update(@, d),
                          !.state = IF Len(r.buf) + 1 = r.len THEN "READ_CRC_LSB"
                                    ELSE @]
          [] r.state = "READ_CRC_LSB" ->
                [q EXCEPT !.rx_crc = d, !.state = "READ_CRC_MSB"]
          [] r.state = "READ_CRC_MSB" ->
                reset_to_wait([q EXCEPT !.rx_crc = @ + 256 * d])

xrce_serial_reader_feed(byte) ==
    \/ /\ RestartsFrame(byte)
       /\ r' = [r EXCEPT !.state = "READ_SRC"]
       /\ UNCHANGED log
    \/ /\ ~RestartsFrame(byte)
       /\ r.state = "WAIT_FLAG"
       /\ UNCHANGED <<r, log>>
    \/ /\ ~RestartsFrame(byte)
       /\ r.state # "WAIT_FLAG" /\ ~r.have_escape /\ byte = ESC
       /\ r' = [r EXCEPT !.have_escape = TRUE]
       /\ UNCHANGED log
    \/ /\ ~RestartsFrame(byte)
       /\ r.state # "WAIT_FLAG" /\ (r.have_escape \/ byte # ESC)
       /\ r' = Decoded(unstuff(byte))
       /\ log' = IF r.state = "READ_CRC_MSB" /\ CrcMatches(r')
                 THEN Append(log, r.buf)
                 ELSE log

----------------------------------------------------------------------------
(* The wire *)

Frames ==
    [dst \in {LocalAddr, RemoteAddr}, payload \in Payloads |->
        xrce_serial_frame_encode(RemoteAddr, dst, payload)]

Init ==
    /\ r = xrce_serial_reader_init
    /\ wire = <<>>
    /\ faults = 0
    /\ sent = [payload |-> <<>>, dst |-> RemoteAddr, clean |-> TRUE,
               header_hit |-> FALSE, escaped |-> FALSE, after_clean |-> TRUE]
    /\ log = <<>>

\* The history of a frame: whether all its bytes so far have arrived intact, whether a
\* fault hit its FLAG or its header, whether the reader was in the middle of an escape
\* when it started, and whether the frame before it arrived intact.
send_frame(dst, payload) ==
    LET out == Frames[dst, payload]
    IN  /\ wire = <<>>
        /\ out # <<>>
        /\ wire' = out
        /\ sent' = [payload |-> payload, dst |-> dst, clean |-> TRUE,
                    header_hit |-> FALSE, escaped |-> r.have_escape,
                    after_clean |-> sent.clean]
        /\ log' = <<>>
        /\ UNCHANGED <<r, faults>>

\* The addresses and lengths in use are not stuffed, so the FLAG and the header are
\* the first five bytes of a frame.
InHeader == Len(Frames[sent.dst, sent.payload]) - Len(wire) < 5

Hit ==
    /\ faults < MaxFaults
    /\ faults' = faults + 1
    /\ sent' = [sent EXCEPT !.clean = FALSE, !.header_hit = @ \/ InHeader]

transmit ==
    /\ wire # <<>>
    /\ wire' = Tail(wire)
    /\ xrce_serial_reader_feed(Head(wire))
    /\ UNCHANGED <<faults, sent>>

lose ==
    /\ wire # <<>>
    /\ wire' = Tail(wire)
    /\ Hit
    /\ UNCHANGED <<r, log>>

relay(bit) ==
    /\ wire # <<>>
    /\ wire' = Tail(wire)
    /\ Hit
    /\ xrce_serial_reader_feed(Head(wire) ^^ (2 ^ bit))

Next ==
    \/ \E dst \in {LocalAddr, RemoteAddr}, payload \in Payloads : send_frame(dst, payload)
    \/ transmit
    \/ lose
    \/ \E bit \in 0..7 : relay(bit)

Spec == Init /\ [][Next]_vars

----------------------------------------------------------------------------
(* Properties *)

Expected ==
    IF sent.dst = LocalAddr /\ Len(sent.payload) <= PayloadCap
    THEN <<sent.payload>>
    ELSE <<>>

\* xrce_serial_reader_feed() never writes past payload_buf[payload_cap - 1], whatever
\* length a damaged header announces, and every field keeps its width.
TypeOK ==
    /\ r.state \in States
    /\ r.have_escape \in BOOLEAN
    /\ r.len \in 0..65535 /\ r.crc \in 0..65535 /\ r.rx_crc \in 0..65535
    /\ r.src_addr \in 0..255
    /\ r.buf \in Seq(0..255) /\ Len(r.buf) <= PayloadCap
    /\ r.state = "WAIT_FLAG" => ~r.have_escape
    /\ \A i \in DOMAIN wire : wire[i] \in 0..255
    /\ faults \in 0..MaxFaults

\* However the bytes before it were damaged, a frame that arrives intact is decoded to
\* exactly the payload xrce_serial_frame_encode() was given, or filtered by its address
\* or length, unless the damage left the reader in the middle of an escape.  One intact
\* frame is always enough to be in step again.
Resyncs ==
    /\ wire = <<>>
    /\ sent.clean
    /\ sent.escaped => sent.after_clean
    => log = Expected

\* No frame whose FLAG and header arrive intact is delivered with other bytes than were
\* sent, twice, or to another address, whatever is lost or flipped in its payload, in
\* its CRC or between the two bytes of an escape.
NoGarbage == ~sent.header_hit => log \in {<<>>, Expected}

\* serial_transport.h promises that "the next well-formed frame after some lost/garbled
\* bytes is still parsed correctly": every frame that arrives intact is delivered.
NextFrameParsed == wire = <<>> /\ sent.clean => log = Expected
============================================================================
