------------------------ MODULE MCProducerConsumerG -------------------------
(* Two consumers and two posts a round: one consumer can take both posts or  *)
(* each can take one, and a reading can come before or after the wait.       *)
EXTENDS ProducerConsumerG
=============================================================================
