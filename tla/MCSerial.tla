------------------------------ MODULE MCSerial ------------------------------
(***************************************************************************)
(* Payloads for model checking SerialTransport: empty; all zero (its CRC   *)
(* is zero too); one whose bytes are all stuffed; one that a single bit    *)
(* flip turns into FLAG or ESC; one whose CRC ends in a stuffed byte; one  *)
(* larger than the reader's buffer; one that the encoder has no room for.  *)
(***************************************************************************)
EXTENDS SerialTransport

MCPayloads == {<<>>, <<0, 0>>, <<126, 125>>, <<124>>, <<172>>, <<1, 2, 3>>,
               <<126, 125, 126>>}
=============================================================================
