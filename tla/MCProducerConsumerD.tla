------------------------ MODULE MCProducerConsumerD -------------------------
(* Two producers and two consumers: two of a kind are enough for two pushes  *)
(* to be posted out of order and for two consumers to race for one item.     *)
EXTENDS ProducerConsumerD
=============================================================================
