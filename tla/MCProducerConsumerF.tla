------------------------ MODULE MCProducerConsumerF ------------------------
(* A buffer of a few bytes, which fills, empties and wraps.                  *)
EXTENDS ProducerConsumerF
=============================================================================
