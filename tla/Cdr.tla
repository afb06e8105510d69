--------------------------------- MODULE Cdr ---------------------------------
(***************************************************************************)
(* CDR serialisation (xrce/src/cdr.c) and the message types built on it    *)
(* (xrce/src/msgs.c).  A writer or reader is a record of its buffer, its   *)
(* position and the point alignment is counted from; a call that returns   *)
(* false clears ok, and every later call of the same && chain is skipped.  *)
(*                                                                         *)
(* A message type is a tree of the calls its *_encode() and *_decode()     *)
(* make, in their order; both walk the same tree, as in the code.  One     *)
(* sample is encoded into a buffer of any size, carried to a peer that     *)
(* may get it intact, cut short or with one byte changed, and decoded.     *)
(***************************************************************************)
EXTENDS Integers, Sequences, SequencesExt

CONSTANTS Variants,   \* which samples of each message type are encoded
          Noise       \* the values a damaged byte can take

VARIABLES step,    \* "idle", "encoded", or how the sample arrived
          type,    \* the name of the message type
          variant, \* which sample of it
          w,       \* the writer of the last encode
          wire,    \* the bytes that reach the decoder
          r        \* the reader of the last decode

vars == <<step, type, variant, w, wire, r>>

XRCE_MSGS_FRAME_ID_MAX == 64
XRCE_MSGS_STRING_MAX == 256
XRCE_MSGS_UUID_SIZE == 16
XRCE_MSGS_SEQ_I32_MAX == 16
XRCE_MSGS_GOAL_STATUS_MAX == 8
XRCE_MSGS_KV_MAX == 8
XRCE_MSGS_DIAG_STATUS_MAX == 16
XRCE_MSGS_DIAG_STR_MAX == 64

-----------------------------------------------------------------------------
(* Writing.  The position is the length of buf.                            *)

Zeros(n) == [i \in 1 .. n |-> 0]

\* The n low bytes of v, least significant first.
LittleEndian(v, n) == [i \in 1 .. n |-> (v \div 256 ^ (i - 1)) % 256]

\* The bytes from offset o to the next multiple of n.
Pad(o, n) == (0 - o) % n

\* Faulty variant: the last byte of the buffer is not used.
ensure_strict(cap, pos, n) == n < cap - pos

ensure(cap, pos, n) == n <= cap - pos

xrce_cdr_writer_init(cap) == [buf |-> <<>>, cap |-> cap, align_base |-> 0, ok |-> TRUE]

\* Padding stops at the end of the buffer; the write that follows then fails.
align_writer(q, n) ==
    LET pad == Pad(Len(q.buf) - q.align_base, n)
        room == q.cap - Len(q.buf)
    IN  [q EXCEPT !.buf = @ \o Zeros(IF pad <= room THEN pad ELSE room)]

\* xrce_cdr_write_bytes(), and what every other write ends with.
put(q, bytes) ==
    IF ensure(q.cap, Len(q.buf), Len(bytes))
    THEN [q EXCEPT !.buf = @ \o bytes]
    ELSE [q EXCEPT !.ok = FALSE]

xrce_cdr_write_header(q) ==
    LET h == put(q, <<0, 1, 0, 0>>)
    IN  IF h.ok THEN [h EXCEPT !.align_base = 4] ELSE h

xrce_cdr_write_u8(q, v) == put(q, LittleEndian(v, 1))

xrce_cdr_write_u32(q, v) == put(align_writer(q, 4), LittleEndian(v, 4))

\* A double is its eight bytes, most significant first.
xrce_cdr_write_f64(q, v) == put(align_writer(q, 8), Reverse(v))

\* The length and the characters include the terminator.
xrce_cdr_write_string(q, s) ==
    LET n == xrce_cdr_write_u32(q, Len(s) + 1)
    IN  IF n.ok THEN put(n, Append(s, 0)) ELSE n

-----------------------------------------------------------------------------
(* Reading.  out is what the last call stored through its pointer.         *)

xrce_cdr_reader_init(bytes) ==
    [buf |-> bytes, pos |-> 0, align_base |-> 0, ok |-> TRUE, out |-> <<>>]

\* Faulty variant: alignment is counted from the start of the buffer.
align_reader_absolute(q, n) ==
    LET pad == Pad(q.pos, n)
    IN  IF ensure(Len(q.buf), q.pos, pad) THEN [q EXCEPT !.pos = @ + pad]
        ELSE [q EXCEPT !.ok = FALSE]

align_reader(q, n) ==
    LET pad == Pad(q.pos - q.align_base, n)
    IN  IF ensure(Len(q.buf), q.pos, pad) THEN [q EXCEPT !.pos = @ + pad]
        ELSE [q EXCEPT !.ok = FALSE]

\* Faulty variant: no length check; what lies beyond the datagram reads as zeros.
take_unchecked(q, n) ==
    [q EXCEPT !.out = SubSeq(q.buf \o Zeros(q.pos + n), q.pos + 1, q.pos + n),
              !.pos = Min({@ + n, Len(q.buf)})]

\* xrce_cdr_read_bytes(), and what every other read ends with.
take(q, n) ==
    IF q.ok /\ ensure(Len(q.buf), q.pos, n)
    THEN [q EXCEPT !.out = SubSeq(q.buf, q.pos + 1, q.pos + n), !.pos = @ + n]
    ELSE [q EXCEPT !.ok = FALSE]

xrce_cdr_read_header(q) ==
    LET h == take(q, 4)
    IN  IF h.ok THEN [h EXCEPT !.align_base = h.pos,
                               !.ok = h.out[1] = 0 /\ h.out[2] = 1]
        ELSE h

xrce_cdr_read_u8(q) ==
    LET b == take(q, 1) IN IF b.ok THEN [b EXCEPT !.out = @[1]] ELSE b

\* xrce_cdr_read_bool(): any byte but 0 is true.
xrce_cdr_read_bool(q) ==
    LET b == xrce_cdr_read_u8(q)
    IN  IF b.ok THEN [b EXCEPT !.out = IF @ = 0 THEN 0 ELSE 1] ELSE b

\* The four bytes as a two's complement number.  A count of 2^31 or more reads
\* as a negative number here; TooMany makes it larger than every capacity.
Signed(b) == b[1] + 256 * b[2] + 65536 * b[3]
               + 16777216 * (IF b[4] < 128 THEN b[4] ELSE b[4] - 256)

TooMany(count, max) == count < 0 \/ count > max

xrce_cdr_read_u32(q) ==
    LET b == take(align_reader(q, 4), 4)
    IN  IF b.ok THEN [b EXCEPT !.out = Signed(@)] ELSE b

xrce_cdr_read_f64(q) ==
    LET b == take(align_reader(q, 8), 8)
    IN  IF b.ok THEN [b EXCEPT !.out = Reverse(@)] ELSE b

\* Faulty variant: the terminator is not looked for.
TerminatedAlways(bytes) == TRUE

Terminated(bytes) == Last(bytes) = 0

\* What the caller's char array holds is the string up to its first NUL.
CString(bytes) ==
    LET nul == SelectInSeq(bytes, LAMBDA c : c = 0)
    IN  IF nul = 0 THEN bytes ELSE SubSeq(bytes, 1, nul - 1)

xrce_cdr_read_string(q, out_cap) ==
    LET n == xrce_cdr_read_u32(q)
        s == take(n, n.out)
    IN  IF ~n.ok THEN n
        ELSE IF n.out = 0 \/ TooMany(n.out, out_cap) THEN [n EXCEPT !.ok = FALSE]
        ELSE IF ~s.ok THEN s
        ELSE IF ~Terminated(s.out) THEN [s EXCEPT !.ok = FALSE]
        ELSE [s EXCEPT !.out = CString(@)]

-----------------------------------------------------------------------------
(* Message types: trees of calls                                           *)

u8 == [kind |-> "u8"]
bool == [kind |-> "bool"]
u32 == [kind |-> "u32"]
f64 == [kind |-> "f64"]
doubles(n) == [kind |-> "doubles", n |-> n]
string(cap) == [kind |-> "string", cap |-> cap]
bytes16 == [kind |-> "bytes"]
struct(fields) == [kind |-> "struct", fields |-> fields]
seq(elem, max) == [kind |-> "seq", elem |-> elem, max |-> max]

Repeat(t, n) == [i \in 1 .. n |-> t]

builtin_interfaces_Time == struct(<<u32, u32>>)
std_msgs_Header == struct(<<builtin_interfaces_Time, string(XRCE_MSGS_FRAME_ID_MAX)>>)
vec3 == doubles(3)
cov == doubles(9)
fibonacci_result == seq(u32, XRCE_MSGS_SEQ_I32_MAX)
goal_info == struct(<<bytes16, builtin_interfaces_Time>>)
goal_status == struct(<<goal_info, u8>>)
key_value == struct(<<string(XRCE_MSGS_DIAG_STR_MAX), string(XRCE_MSGS_DIAG_STR_MAX)>>)
diagnostic_status ==
    struct(<<u8, string(XRCE_MSGS_DIAG_STR_MAX), string(XRCE_MSGS_DIAG_STR_MAX),
             string(XRCE_MSGS_DIAG_STR_MAX), seq(key_value, XRCE_MSGS_KV_MAX)>>)

std_msgs_Int32 == struct(<<u32>>)
std_msgs_String == struct(<<string(XRCE_MSGS_STRING_MAX)>>)
sensor_msgs_Imu ==
    struct(<<std_msgs_Header, doubles(4), cov, vec3, cov, vec3, cov>>)
geometry_msgs_Twist == struct(<<vec3, vec3>>)
std_srvs_Trigger_Request == struct(<<>>)
std_srvs_Trigger_Response == struct(<<bool, string(XRCE_MSGS_STRING_MAX)>>)
SendGoal_Request == struct(<<bytes16, u32>>)
SendGoal_Response == struct(<<bool, builtin_interfaces_Time>>)
GetResult_Request == struct(<<bytes16>>)
GetResult_Response == struct(<<u8, fibonacci_result>>)
FeedbackMessage == struct(<<bytes16, fibonacci_result>>)
action_msgs_GoalStatus == struct(<<goal_status>>)
action_msgs_GoalStatusArray == struct(<<seq(goal_status, XRCE_MSGS_GOAL_STATUS_MAX)>>)
CancelGoal_Request == struct(<<goal_info>>)
CancelGoal_Response == struct(<<u8, seq(goal_info, XRCE_MSGS_GOAL_STATUS_MAX)>>)
diagnostic_msgs_DiagnosticArray ==
    struct(<<std_msgs_Header, seq(diagnostic_status, XRCE_MSGS_DIAG_STATUS_MAX)>>)

Types ==
    [Int32 |-> std_msgs_Int32, String |-> std_msgs_String, Imu |-> sensor_msgs_Imu,
     Twist |-> geometry_msgs_Twist, Trigger_Request |-> std_srvs_Trigger_Request,
     Trigger_Response |-> std_srvs_Trigger_Response,
     SendGoal_Request |-> SendGoal_Request, SendGoal_Response |-> SendGoal_Response,
     GetResult_Request |-> GetResult_Request, GetResult_Response |-> GetResult_Response,
     FeedbackMessage |-> FeedbackMessage, GoalStatus |-> action_msgs_GoalStatus,
     GoalStatusArray |-> action_msgs_GoalStatusArray,
     CancelGoal_Request |-> CancelGoal_Request,
     CancelGoal_Response |-> CancelGoal_Response,
     DiagnosticArray |-> diagnostic_msgs_DiagnosticArray]

-----------------------------------------------------------------------------
(* The *_encode() and *_decode() functions                                 *)

RECURSIVE Write(_, _, _)
RECURSIVE Read(_, _)

\* A chain of writes, which ends at the first that fails, and the same for reads, whose
\* results are collected in acc.
RECURSIVE WriteEach(_, _, _)
WriteEach(q, ts, vs) ==
    IF ~q.ok \/ ts = <<>> THEN q
    ELSE WriteEach(Write(q, Head(ts), Head(vs)), Tail(ts), Tail(vs))

RECURSIVE ReadEach(_, _, _)
ReadEach(q, ts, acc) ==
    IF ~q.ok \/ ts = <<>> THEN [q EXCEPT !.out = acc]
    ELSE LET n == Read(q, Head(ts)) IN ReadEach(n, Tail(ts), Append(acc, n.out))

Write(q, t, v) ==
    CASE t.kind \in {"u8", "bool"} -> xrce_cdr_write_u8(q, v)
      [] t.kind = "u32" -> xrce_cdr_write_u32(q, v)
      [] t.kind = "f64" -> xrce_cdr_write_f64(q, v)
      [] t.kind = "bytes" -> put(q, v)
      [] t.kind = "string" -> xrce_cdr_write_string(q, v)
      [] t.kind = "doubles" -> WriteEach(q, Repeat(f64, t.n), v)
      [] t.kind = "struct" -> WriteEach(q, t.fields, v)
      [] t.kind = "seq" ->
           WriteEach(xrce_cdr_write_u32(q, Len(v)), Repeat(t.elem, Len(v)), v)

Read(q, t) ==
    CASE t.kind = "u8" -> xrce_cdr_read_u8(q)
      [] t.kind = "bool" -> xrce_cdr_read_bool(q)
      [] t.kind = "u32" -> xrce_cdr_read_u32(q)
      [] t.kind = "f64" -> xrce_cdr_read_f64(q)
      [] t.kind = "bytes" -> take(q, XRCE_MSGS_UUID_SIZE)
      [] t.kind = "string" -> xrce_cdr_read_string(q, t.cap)
      [] t.kind = "doubles" -> ReadEach(q, Repeat(f64, t.n), <<>>)
      [] t.kind = "struct" -> ReadEach(q, t.fields, <<>>)
      [] t.kind = "seq" ->
           LET n == xrce_cdr_read_u32(q)
           IN  IF ~n.ok \/ TooMany(n.out, t.max) THEN [n EXCEPT !.ok = FALSE]
               ELSE ReadEach(n, Repeat(t.elem, n.out), <<>>)

\* Every message type is a chain that starts with the header.
Encode(t, v, cap) ==
    WriteEach(xrce_cdr_write_header(xrce_cdr_writer_init(cap)), t.fields, v)

Decode(t, bytes) ==
    ReadEach(xrce_cdr_read_header(xrce_cdr_reader_init(bytes)), t.fields, <<>>)

-----------------------------------------------------------------------------
(* The samples.  Over the variants a string takes the lengths 0 to 8, so   *)
(* that what follows it starts at every alignment, and the longest one;    *)
(* numbers take both ends of their range.                                  *)

RECURSIVE Sample(_, _)
Sample(t, k) ==
    CASE t.kind = "u8" -> <<0, 1, 128, 255>>[(k % 4) + 1]
      [] t.kind = "bool" -> k % 2
      [] t.kind = "u32" -> <<0, 1, -1, 2147483647, -2147483647 - 1>>[(k % 5) + 1]
      [] t.kind = "f64" -> [i \in 1 .. 8 |-> (37 * i * k) % 256]
      [] t.kind = "bytes" -> [i \in 1 .. XRCE_MSGS_UUID_SIZE |-> (i + k) % 256]
      [] t.kind = "string" ->
           [i \in 1 .. (IF k % 10 = 9 THEN t.cap - 1 ELSE k % 10) |-> 64 + ((i + k) % 32)]
      [] t.kind = "doubles" -> [i \in 1 .. t.n |-> Sample(f64, i + k)]
      [] t.kind = "struct" -> [i \in DOMAIN t.fields |-> Sample(t.fields[i], i + k)]
      [] t.kind = "seq" ->
           [i \in 1 .. (IF t.elem.kind = "struct" THEN k % 3 ELSE (5 * k) % (t.max + 1))
              |-> Sample(t.elem, i + k)]

Samples == [n \in DOMAIN Types |-> [k \in Variants |-> Sample(Types[n], k)]]

\* The standard's layout: where a value that starts at offset o ends.
AlignedUp(o, n) == o + Pad(o, n)

RECURSIVE EndOf(_, _, _)
RECURSIVE EndOfEach(_, _, _)
EndOfEach(ts, vs, o) ==
    IF ts = <<>> THEN o
    ELSE EndOfEach(Tail(ts), Tail(vs), EndOf(Head(ts), Head(vs), o))

EndOf(t, v, o) ==
    CASE t.kind \in {"u8", "bool"} -> o + 1
      [] t.kind = "u32" -> AlignedUp(o, 4) + 4
      [] t.kind = "f64" -> AlignedUp(o, 8) + 8
      [] t.kind = "bytes" -> o + XRCE_MSGS_UUID_SIZE
      [] t.kind = "string" -> AlignedUp(o, 4) + 4 + Len(v) + 1
      [] t.kind = "doubles" -> AlignedUp(o, 8) + 8 * t.n
      [] t.kind = "struct" -> EndOfEach(t.fields, v, o)
      [] t.kind = "seq" -> EndOfEach(Repeat(t.elem, Len(v)), v, AlignedUp(o, 4) + 4)

Sizes == [n \in DOMAIN Types |-> [k \in Variants |->
            4 + EndOf(Types[n], Samples[n][k], 0)]]

-----------------------------------------------------------------------------
Unused == xrce_cdr_reader_init(<<>>)

Init ==
    /\ step = "idle" /\ type = "Int32" /\ variant = 0
    /\ w = xrce_cdr_writer_init(0)
    /\ wire = <<>>
    /\ r = Unused

encode(n, k, cap) ==
    /\ step = "idle"
    /\ w' = Encode(Types[n], Samples[n][k], cap)
    /\ step' = "encoded" /\ type' = n /\ variant' = k
    /\ UNCHANGED <<wire, r>>

\* A caller sends nothing when *_encode() has returned false.
give_up ==
    /\ step = "encoded" /\ ~w.ok
    /\ step' = "idle" /\ type' = "Int32" /\ variant' = 0
    /\ w' = xrce_cdr_writer_init(0)
    /\ UNCHANGED <<wire, r>>

Arrives(fate, bytes) ==
    /\ step = "encoded" /\ w.ok
    /\ step' = fate
    /\ wire' = bytes
    /\ w' = xrce_cdr_writer_init(0)
    /\ UNCHANGED <<type, variant, r>>

carry ==
    \/ Arrives("intact", w.buf)
    \/ \E n \in 0 .. Len(w.buf) - 1 : Arrives("cut", SubSeq(w.buf, 1, n))
    \/ \E i \in DOMAIN w.buf, b \in Noise : Arrives("changed", [w.buf EXCEPT ![i] = b])

Carried == step \in {"intact", "cut", "changed"}

decode ==
    /\ Carried /\ r = Unused
    /\ r' = Decode(Types[type], wire)
    /\ UNCHANGED <<step, type, variant, w, wire>>

finish ==
    /\ Carried /\ r # Unused
    /\ step' = "idle" /\ type' = "Int32" /\ variant' = 0
    /\ wire' = <<>>
    /\ r' = Unused
    /\ UNCHANGED w

Next ==
    \/ \E n \in DOMAIN Types, k \in Variants :
         \E cap \in 0 .. Sizes[n][k] + 1 : encode(n, k, cap)
    \/ give_up
    \/ carry
    \/ decode
    \/ finish

Spec == Init /\ [][Next]_vars

-----------------------------------------------------------------------------
(* Properties *)

Decoded == Carried /\ r # Unused
Sent == Samples[type][variant]

\* Whatever the alignments its strings cause, a message that *_encode() accepts is
\* read back by *_decode() field by field, to the last byte.  The receivers that parse
\* samples by hand, because the agent strips the CDR header (poll_once(),
\* handle_send_goal()), read the fields *_encode() wrote, too.
RoundTrip ==
    LET sample == SubSeq(wire, 5, Len(wire))
    IN  step = "intact" =>
          /\ Decoded => r.ok /\ r.out = Sent /\ r.pos = Len(wire)
          /\ type = "Int32" => Signed(sample) = Sent[1]
          /\ type = "SendGoal_Request" =>
               /\ SubSeq(sample, 1, XRCE_MSGS_UUID_SIZE) = Sent[1]
               /\ Signed(SubSeq(sample, 17, 20)) = Sent[2]

\* *_encode() succeeds exactly when the buffer has room for the standard's layout,
\* also when the room ends inside padding, and out_len is that layout's size.
FitsExactly ==
    step = "encoded" =>
      /\ w.ok <=> w.cap >= Sizes[type][variant]
      /\ w.ok => Len(w.buf) = Sizes[type][variant]

RECURSIVE Fits(_, _)
Fits(t, v) ==
    CASE t.kind = "string" -> Len(v) < t.cap
      [] t.kind = "struct" -> \A i \in DOMAIN t.fields : Fits(t.fields[i], v[i])
      [] t.kind = "seq" -> Len(v) <= t.max /\ \A i \in DOMAIN v : Fits(t.elem, v[i])
      [] OTHER -> TRUE

\* No proper prefix of a sample decodes, wherever the cut falls: in padding, a length, a
\* count or between fields.  And whatever byte is changed, what a successful *_decode()
\* has stored fits the arrays of its struct: strings end inside theirs, sequences have
\* at most their capacity.
DecodedFits == Decoded /\ r.ok => step # "cut" /\ Fits(Types[type], r.out)
==============================================================================
