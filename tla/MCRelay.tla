------------------------------ MODULE MCRelay -------------------------------
(* Two local connections and one carrier.  A domain length of 4 makes an  *)
(* ATYP 0x03 request 11 bytes long, so the read sizes 7, 10, 11 and 22    *)
(* give each address type both a short and a complete request.           *)
EXTENDS Relay

CONSTANTS c1, c2, k1
=============================================================================
