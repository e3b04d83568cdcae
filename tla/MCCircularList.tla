--------------------------- MODULE MCCircularList ---------------------------
(* CircularList with four bytes of buffer and requests of up to five, so    *)
(* that a request can be larger than the whole buffer.                      *)
EXTENDS CircularList
=============================================================================
