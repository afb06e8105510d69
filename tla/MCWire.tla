------------------------------- MODULE MCWire -------------------------------
(***************************************************************************)
(* The serial link for model checking: the frame (module SerialTransport), *)
(* the authenticated envelope inside it (module SecureLink) and the hash   *)
(* of the envelope's tag (module Sha256).  Each hands the next nothing but *)
(* a sequence of bytes, so each is explored by itself: layer says which    *)
(* one moves, the others stay in their initial states.                     *)
(***************************************************************************)
EXTENDS MCSerial, SecureLink

CONSTANTS UpdateLens, MaxUpdates, KeyLens   \* of Sha256

\* The board restarts with fewer frames sent than the gateway has seen, and passes them.
MCSendCap == [up |-> <<2, 4>>, down |-> <<1, 2>>]

VARIABLES layer, hashCtx, hashPhase, fed, updates, hashOut, asked

hashVars == <<hashCtx, hashPhase, fed, updates, hashOut, asked>>

Sha == INSTANCE Sha256 WITH ctx <- hashCtx, phase <- hashPhase, out <- hashOut

WireInit ==
    /\ Init /\ LinkInit /\ Sha!Init
    /\ layer \in {"hash", "secure", "serial"}
    /\ layer # "secure" => gateway_key = "default"

WireNext ==
    /\ \/ layer = "serial" /\ Next /\ UNCHANGED <<linkVars, hashVars>>
       \/ layer = "secure" /\ LinkNext /\ UNCHANGED <<vars, hashVars>>
       \/ layer = "hash" /\ Sha!Next /\ UNCHANGED <<vars, linkVars>>
    /\ UNCHANGED layer

WireSpec == WireInit /\ [][WireNext]_<<vars, linkVars, hashVars, layer>>

-----------------------------------------------------------------------------
(* The properties; Resyncs and NoGarbage are SerialTransport's,              *)
(* DeliveredInOrder and NewerAccepted SecureLink's.                          *)

\* The type invariants: nothing is written past payload_buf, counters and bytes
\* keep their ranges, and the hash's buffer is never left full.
TypesOK == TypeOK /\ LinkTypeOK /\ Sha!TypeOK

\* The digest does not depend on the pieces that xrce_sha256_update() gets, nor on what
\* the context was used for before, and xrce_hmac_sha256() is RFC 2104's HMAC.
DigestAsDefined == Sha!DigestAsDefined
=============================================================================
