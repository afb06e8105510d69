-------------------------------- MODULE Sha256 --------------------------------
(***************************************************************************)
(* The streaming half of SHA-256 (xrce/src/sha256.c) and HMAC on top of it *)
(* (xrce/src/hmac.c): how a message that comes in pieces is cut into       *)
(* blocks, padded and closed, and how one context is used twice.           *)
(*                                                                         *)
(* The compression function is left abstract: the hash state is the        *)
(* sequence of blocks compressed so far, so two digests are equal exactly  *)
(* when the same blocks went into them.  A byte is a pair of where it      *)
(* comes from and which one it is; block and field sizes are the code's.   *)
(***************************************************************************)
EXTENDS Integers, Sequences, SequencesExt

CONSTANTS UpdateLens,  \* the lengths of the pieces a message comes in
          MaxUpdates,  \* bound: pieces in a behaviour
          KeyLens      \* the lengths of HMAC keys

VARIABLES ctx,      \* an xrce_sha256_ctx_t
          phase,    \* "open", "final", or "hmac"
          fed,      \* the length of the message since xrce_sha256_init()
          updates,  \* pieces so far
          out,      \* the digest computed last
          asked     \* the key length and the data length of the last HMAC

vars == <<ctx, phase, fed, updates, out, asked>>

XRCE_SHA256_BLOCK_LEN == 64
XRCE_SHA256_DIGEST_LEN == 32

Byte(v) == <<"byte", v>>
Zeros(n) == [i \in 1 .. n |-> Byte(0)]
Piece(source, first, n) == [i \in 1 .. n |-> <<source, first + i>>]

\* The caller's context before its first use; buf is as long as what was ever written to it.
Unset == [state |-> <<>>, total_len |-> 0, buf |-> <<>>, buf_len |-> 0]

\* memcpy(buf + at, data, Len(data))
Copied(buf, at, data) ==
    SubSeq(buf, 1, at) \o data \o SubSeq(buf, at + Len(data) + 1, Len(buf))

process_block(c, block) == [c EXCEPT !.state = Append(@, block)]

\* buf keeps what it held.
xrce_sha256_init(c) == [c EXCEPT !.state = <<>>, !.total_len = 0, !.buf_len = 0]

\* The bytes that a partial block takes.
Taken(c, data) ==
    IF c.buf_len = 0 THEN 0
    ELSE Min({Len(data), XRCE_SHA256_BLOCK_LEN - c.buf_len})

TopUp(c, data) ==
    LET n == Taken(c, data)
        filled == [c EXCEPT !.buf = Copied(@, c.buf_len, SubSeq(data, 1, n)), !.buf_len = @ + n]
    IN  IF filled.buf_len = XRCE_SHA256_BLOCK_LEN
        THEN [process_block(filled, filled.buf) EXCEPT !.buf_len = 0]
        ELSE filled

Blocks(s) ==
    [k \in 1 .. Len(s) \div XRCE_SHA256_BLOCK_LEN |->
       SubSeq(s, (k - 1) * XRCE_SHA256_BLOCK_LEN + 1, k * XRCE_SHA256_BLOCK_LEN)]

xrce_sha256_update(c, data) ==
    LET counted == [c EXCEPT !.total_len = @ + Len(data)]
        rest == SubSeq(data, Taken(c, data) + 1, Len(data))
        left == SubSeq(rest, Len(rest) - (Len(rest) % XRCE_SHA256_BLOCK_LEN) + 1, Len(rest))
        hashed == FoldLeft(process_block, TopUp(counted, data), Blocks(rest))
    IN  IF left = <<>> THEN hashed
        ELSE [hashed EXCEPT !.buf = Copied(@, 0, left), !.buf_len = Len(left)]

\* An update whose bytes are not counted.
Uncounted(c, byte) == [xrce_sha256_update(c, <<byte>>) EXCEPT !.total_len = @ - 1]

RECURSIVE ZeroPadded(_)
ZeroPadded(c) ==
    IF c.buf_len = XRCE_SHA256_BLOCK_LEN - 8 THEN c ELSE ZeroPadded(Uncounted(c, Byte(0)))

\* The bit length of n bytes, most significant byte first; n is far below 2^28.
LenBytes(n) ==
    [i \in 1 .. 8 |-> Byte(IF i < 5 THEN 0 ELSE ((8 * n) \div 256 ^ (8 - i)) % 256)]

xrce_sha256_final(c) ==
    xrce_sha256_update(ZeroPadded(Uncounted(c, Byte(128))), LenBytes(c.total_len))

\* The bytes xrce_sha256_final() stores in out.  All of them depend on the whole state;
\* to keep values small only the first one shows it.
Digest(state) ==
    [i \in 1 .. XRCE_SHA256_DIGEST_LEN |->
       IF i = 1 THEN <<"digest", state>> ELSE <<"of digest", i>>]

xrce_sha256(data) ==
    Digest(xrce_sha256_final(xrce_sha256_update(xrce_sha256_init(Unset), data)).state)

\* Faulty variant: a key of one block is hashed too.
key_block_hashed(key) ==
    LET short == IF Len(key) >= XRCE_SHA256_BLOCK_LEN THEN xrce_sha256(key) ELSE key
    IN  short \o Zeros(XRCE_SHA256_BLOCK_LEN - Len(short))

key_block(key) ==
    LET short == IF Len(key) > XRCE_SHA256_BLOCK_LEN THEN xrce_sha256(key) ELSE key
    IN  short \o Zeros(XRCE_SHA256_BLOCK_LEN - Len(short))

Xor(block, mask) == [i \in DOMAIN block |-> <<"xor", mask, block[i]>>]

\* Both hashes run in the same context.
xrce_hmac_sha256(key, data) ==
    LET Close(c, pad, tail) ==
            xrce_sha256_final(xrce_sha256_update(
                xrce_sha256_update(xrce_sha256_init(c), Xor(key_block(key), pad)), tail))
        inner == Close(Unset, 54, data)
    IN  Digest(Close(inner, 92, Digest(inner.state)).state)

-----------------------------------------------------------------------------
Init ==
    /\ ctx = xrce_sha256_init(Unset)
    /\ phase = "open" /\ fed = 0 /\ updates = 0
    /\ out = <<>> /\ asked = <<0, 0>>

update(n) ==
    /\ phase = "open" /\ updates < MaxUpdates
    /\ ctx' = xrce_sha256_update(ctx, Piece("message", fed, n))
    /\ fed' = fed + n /\ updates' = updates + 1
    /\ UNCHANGED <<phase, out, asked>>

final ==
    /\ phase = "open"
    /\ ctx' = xrce_sha256_final(ctx)
    /\ out' = Digest(ctx'.state)
    /\ phase' = "final"
    /\ UNCHANGED <<fed, updates, asked>>

\* The context is used for another message.
init ==
    /\ phase = "final"
    /\ ctx' = xrce_sha256_init(ctx)
    /\ phase' = "open" /\ fed' = 0
    /\ UNCHANGED <<updates, out, asked>>

hmac(k, n) ==
    /\ phase = "open" /\ updates = 0
    /\ out' = xrce_hmac_sha256(Piece("key", 0, k), Piece("message", 0, n))
    /\ asked' = <<k, n>>
    /\ phase' = "hmac"
    /\ UNCHANGED <<ctx, fed, updates>>

Next ==
    \/ \E n \in UpdateLens : update(n)
    \/ final
    \/ init
    \/ \E k \in KeyLens, n \in UpdateLens : hmac(k, n)

Spec == Init /\ [][Next]_vars

-----------------------------------------------------------------------------
(* Properties *)

\* buf is never full between calls (sha256.h: "always < XRCE_SHA256_BLOCK_LEN"), and
\* total_len counts the message and nothing else until it is closed.
TypeOK ==
    /\ ctx.buf_len \in 0 .. XRCE_SHA256_BLOCK_LEN - 1
    /\ Len(ctx.buf) \in ctx.buf_len .. XRCE_SHA256_BLOCK_LEN
    /\ phase = "open" => ctx.total_len = fed

\* The padding of FIPS 180-4, section 5.1.1, and the hash of a message given whole.
Padded(s) == s \o <<Byte(128)>> \o Zeros((55 - Len(s)) % XRCE_SHA256_BLOCK_LEN) \o LenBytes(Len(s))

Hash(s) == Digest(Blocks(Padded(s)))

\* Whatever the pieces a message comes in, and whatever the context was used for before,
\* the digest is that of the whole message: no byte is lost, repeated or taken from an
\* earlier block, and the padding is right for every length.  xrce_hmac_sha256() is RFC
\* 2104's HMAC for keys shorter than, as long as and longer than a block.
DigestAsDefined ==
    LET key == Piece("key", 0, asked[1])
        short == IF asked[1] <= XRCE_SHA256_BLOCK_LEN THEN key ELSE Hash(key)
        K == short \o Zeros(XRCE_SHA256_BLOCK_LEN - Len(short))
    IN  CASE phase = "final" -> out = Hash(Piece("message", 0, fed))
          [] phase = "hmac" ->
               out = Hash(Xor(K, 92) \o Hash(Xor(K, 54) \o Piece("message", 0, asked[2])))
          [] OTHER -> TRUE
==============================================================================
