----------------------- MODULE ProducerConsumerGProofs ----------------------
(***************************************************************************)
(* For any set of consumers and any number of posts per round: every post  *)
(* is accounted for, and the producer replaces a value only after it was   *)
(* printed MaxConsumer times.                                              *)
(*                                                                         *)
(* The count of readings is kept under the mutex but the posts are taken   *)
(* without it, so PostsAccountedFor has to follow each post from the       *)
(* semaphore through the consumer into consumers_read.  It is inductive    *)
(* together with two facts about the producer: it reaches the wait only    *)
(* with all posts made, and the printed readings are consumers_read while  *)
(* a round lasts.                                                          *)
(***************************************************************************)
EXTENDS ProducerConsumerG, FiniteSetTheorems, TLAPS

AllPosted ==
    pc[Producer] \in {"check", "waiting", "woken"} => consumers = MaxConsumer

ReadingsCounted ==
    /\ InRound => readings = consumers_read
    /\ ~InRound => readings = MaxConsumer

Inv ==
    /\ TypeOK
    /\ MutualExclusion
    /\ PostsAccountedFor
    /\ AllPosted
    /\ ReadingsCounted

-----------------------------------------------------------------------------

USE ProducerConsumerGAssumption

LEMMA Kinds ==
    /\ Producer \in Thread
    /\ Consumer \subseteq Thread
    /\ Nobody \notin Thread
    /\ \A c \in Consumer : c # Producer
  BY DEF Thread

LEMMA CountType ==
    IsFiniteSet(Reading) /\ Cardinality(Reading) \in Nat
  <1>1. Reading \subseteq Consumer
    BY DEF Reading
  <1>2. IsFiniteSet(Reading)
    BY <1>1, FS_Subset
  <1>. QED BY <1>2, FS_CardinalityType

\* One element more, one less.
LEMMA CountChange ==
    ASSUME NEW S, IsFiniteSet(S), NEW x
    PROVE  /\ x \notin S => Cardinality(S \cup {x}) = Cardinality(S) + 1
           /\ x \in S => Cardinality(S \ {x}) = Cardinality(S) - 1
  BY FS_AddElement, FS_RemoveElement

\* A step of the producer moves no consumer.
LEMMA ProducerMoves ==
    ASSUME TypeOK, NEW label \in ProducerLabel, Goto(Producer, label)
    PROVE  /\ pc' \in [Thread -> ProducerLabel \cup ConsumerLabel]
           /\ pc'[Producer] = label
           /\ \A c \in Consumer : pc'[c] = pc[c]
           /\ Reading' = Reading
  <1>1. /\ pc' \in [Thread -> ProducerLabel \cup ConsumerLabel]
        /\ pc'[Producer] = label
        /\ \A c \in Consumer : pc'[c] = pc[c]
    BY Kinds DEF TypeOK, Goto
  <1>. QED BY <1>1 DEF Reading

\* A step of a consumer leaves the others where they are, but may wake the
\* producer, which stays inside or outside a round.
LEMMA ConsumerMoves ==
    ASSUME TypeOK, NEW c \in Consumer, NEW label \in ConsumerLabel,
           \/ Goto(c, label)
           \/ pc' = [pc EXCEPT ![c] = label,
                               ![Producer] = IF @ = "waiting" THEN "woken" ELSE @]
    PROVE  /\ pc' \in [Thread -> ProducerLabel \cup ConsumerLabel]
           /\ pc'[c] = label
           /\ \A d \in Consumer \ {c} : pc'[d] = pc[d]
           /\ \/ pc'[Producer] = pc[Producer]
              \/ pc[Producer] = "waiting" /\ pc'[Producer] = "woken"
           /\ label \in {"lock", "read"} => Reading' = Reading \cup {c}
           /\ label \notin {"lock", "read"} => Reading' = Reading \ {c}
  <1>1. /\ pc' \in [Thread -> ProducerLabel \cup ConsumerLabel]
        /\ pc'[c] = label
        /\ \A d \in Consumer \ {c} : pc'[d] = pc[d]
        /\ \/ pc'[Producer] = pc[Producer]
           \/ pc[Producer] = "waiting" /\ pc'[Producer] = "woken"
    BY Kinds DEF TypeOK, Goto, ProducerLabel
  <1>. QED BY <1>1 DEF Reading

-----------------------------------------------------------------------------
(* The producer's steps *)

LEMMA ProduceInv ==
    ASSUME Inv, Produce \/ SpuriousWakeup
    PROVE  Inv'
  <1>0. /\ TypeOK /\ MutualExclusion /\ PostsAccountedFor /\ AllPosted /\ ReadingsCounted
        /\ Cardinality(Reading) \in Nat
    BY CountType DEF Inv
  <1>1. CASE WriteLock
    <2>1. Goto(Producer, "write") /\ Reading' = Reading
      BY <1>0, <1>1, ProducerMoves DEF WriteLock, ProducerLabel
    <2>2. TypeOK'
      BY <1>0, <1>1, <2>1, ProducerMoves, Kinds DEF WriteLock, TypeOK, Lock, Unlock, ProducerLabel
    <2>3. MutualExclusion'
      BY <1>0, <1>1, <2>1, ProducerMoves, Kinds DEF WriteLock, MutualExclusion, Inside, Lock, Unlock, ProducerLabel
    <2>4. PostsAccountedFor' /\ AllPosted' /\ ReadingsCounted'
      BY <1>0, <1>1, <2>1, ProducerMoves DEF WriteLock, PostsAccountedFor, InRound, AllPosted,
         ReadingsCounted, TypeOK, ProducerLabel
    <2>. QED BY <2>2, <2>3, <2>4 DEF Inv
  <1>2. CASE Write
    <2>1. Goto(Producer, "post") /\ Reading' = Reading
      BY <1>0, <1>2, ProducerMoves DEF Write, ProducerLabel
    <2>2. TypeOK'
      BY <1>0, <1>2, <2>1, ProducerMoves, Kinds DEF Write, TypeOK, Lock, Unlock, ProducerLabel
    <2>3. MutualExclusion'
      BY <1>0, <1>2, <2>1, ProducerMoves, Kinds DEF Write, MutualExclusion, Inside, Lock, Unlock, ProducerLabel
    <2>4. PostsAccountedFor' /\ AllPosted' /\ ReadingsCounted'
      <3>1. non_read_consumer = 0 /\ Cardinality(Reading) = 0 /\ consumers_read = 0
        BY <1>0, <1>2 DEF Write, PostsAccountedFor, InRound, TypeOK
      <3>2. pc'[Producer] = "post"
        BY <1>0, <1>2, ProducerMoves DEF Write, ProducerLabel
      <3>. QED BY <1>2, <2>1, <3>1, <3>2 DEF Write, PostsAccountedFor, InRound, AllPosted,
           ReadingsCounted
    <2>. QED BY <2>2, <2>3, <2>4 DEF Inv
  <1>3. CASE SpuriousWakeup
    <2>1. Goto(Producer, "woken") /\ Reading' = Reading
      BY <1>0, <1>3, ProducerMoves DEF SpuriousWakeup, ProducerLabel
    <2>2. TypeOK'
      BY <1>0, <1>3, <2>1, ProducerMoves, Kinds DEF SpuriousWakeup, TypeOK, Lock, Unlock, ProducerLabel
    <2>3. MutualExclusion'
      BY <1>0, <1>3, <2>1, ProducerMoves, Kinds DEF SpuriousWakeup, MutualExclusion, Inside, Lock, Unlock, ProducerLabel
    <2>4. PostsAccountedFor' /\ AllPosted' /\ ReadingsCounted'
      BY <1>0, <1>3, <2>1, ProducerMoves DEF SpuriousWakeup, PostsAccountedFor, InRound, AllPosted,
         ReadingsCounted, TypeOK, ProducerLabel
    <2>. QED BY <2>2, <2>3, <2>4 DEF Inv
  <1>4. CASE Relock
    <2>1. Goto(Producer, "check") /\ Reading' = Reading
      BY <1>0, <1>4, ProducerMoves DEF Relock, ProducerLabel
    <2>2. TypeOK'
      BY <1>0, <1>4, <2>1, ProducerMoves, Kinds DEF Relock, TypeOK, Lock, Unlock, ProducerLabel
    <2>3. MutualExclusion'
      BY <1>0, <1>4, <2>1, ProducerMoves, Kinds DEF Relock, MutualExclusion, Inside, Lock, Unlock, ProducerLabel
    <2>4. PostsAccountedFor' /\ AllPosted' /\ ReadingsCounted'
      BY <1>0, <1>4, <2>1, ProducerMoves DEF Relock, PostsAccountedFor, InRound, AllPosted,
         ReadingsCounted, TypeOK, ProducerLabel
    <2>. QED BY <2>2, <2>3, <2>4 DEF Inv
  <1>5. CASE WriteUnlock
    <2>1. Goto(Producer, "top") /\ Reading' = Reading
      BY <1>0, <1>5, ProducerMoves DEF WriteUnlock, ProducerLabel
    <2>2. TypeOK'
      BY <1>0, <1>5, <2>1, ProducerMoves, Kinds DEF WriteUnlock, TypeOK, Lock, Unlock, ProducerLabel
    <2>3. MutualExclusion'
      BY <1>0, <1>5, <2>1, ProducerMoves, Kinds DEF WriteUnlock, MutualExclusion, Inside, Lock, Unlock, ProducerLabel
    <2>4. PostsAccountedFor' /\ AllPosted' /\ ReadingsCounted'
      BY <1>0, <1>5, <2>1, ProducerMoves DEF WriteUnlock, PostsAccountedFor, InRound, AllPosted,
         ReadingsCounted, TypeOK, ProducerLabel
    <2>. QED BY <2>2, <2>3, <2>4 DEF Inv
  <1>6. CASE Post
    <2>1. CASE consumers < MaxConsumer
      <3>1. pc' = pc /\ Reading' = Reading
        BY <1>6, <2>1 DEF Post, Reading
      <3>2. TypeOK' /\ PostsAccountedFor' /\ AllPosted' /\ ReadingsCounted'
        BY <1>0, <1>6, <2>1, <3>1 DEF Post, TypeOK, PostsAccountedFor, InRound, AllPosted,
           ReadingsCounted
      <3>. QED BY <1>0, <1>6, <3>1, <3>2 DEF Inv, Post, MutualExclusion, Inside
    <2>2. CASE ~(consumers < MaxConsumer)
      <3>1. /\ Goto(Producer, "check") /\ Reading' = Reading
            /\ consumers = MaxConsumer
        BY <1>0, <1>6, <2>2, ProducerMoves DEF Post, ProducerLabel, TypeOK
      <3>2. TypeOK'
        BY <1>0, <1>6, <2>2, <3>1, ProducerMoves DEF Post, TypeOK, ProducerLabel
      <3>3. MutualExclusion'
        BY <1>0, <1>6, <3>1, ProducerMoves, Kinds DEF Post, MutualExclusion, Inside, ProducerLabel
      <3>4. PostsAccountedFor' /\ AllPosted' /\ ReadingsCounted'
        BY <1>0, <1>6, <2>2, <3>1, ProducerMoves DEF Post, PostsAccountedFor, InRound,
           AllPosted, ReadingsCounted, TypeOK, ProducerLabel
      <3>. QED BY <3>2, <3>3, <3>4 DEF Inv
    <2>. QED BY <2>1, <2>2
  <1>7. CASE Check
    <2>1. CASE consumers_read # MaxConsumer
      <3>1. Goto(Producer, "waiting") /\ Reading' = Reading
        BY <1>0, <1>7, <2>1, ProducerMoves DEF Check, ProducerLabel
      <3>2. TypeOK'
        BY <1>0, <1>7, <2>1, <3>1, ProducerMoves DEF Check, TypeOK, ProducerLabel, Unlock
      <3>3. MutualExclusion'
        BY <1>0, <1>7, <2>1, <3>1, ProducerMoves, Kinds DEF Check, MutualExclusion, Inside,
           Unlock, ProducerLabel
      <3>4. PostsAccountedFor' /\ AllPosted' /\ ReadingsCounted'
        BY <1>0, <1>7, <2>1, <3>1, ProducerMoves DEF Check, PostsAccountedFor, InRound,
           AllPosted, ReadingsCounted, TypeOK, ProducerLabel
      <3>. QED BY <3>2, <3>3, <3>4 DEF Inv
    <2>2. CASE consumers_read = MaxConsumer
      <3>1. Goto(Producer, "unlock") /\ Reading' = Reading
        BY <1>0, <1>7, <2>2, ProducerMoves DEF Check, ProducerLabel
      <3>2. TypeOK'
        BY <1>0, <1>7, <2>2, <3>1, ProducerMoves DEF Check, TypeOK, ProducerLabel
      <3>3. MutualExclusion'
        BY <1>0, <1>7, <2>2, <3>1, ProducerMoves, Kinds DEF Check, MutualExclusion, Inside,
           ProducerLabel
      <3>4. PostsAccountedFor' /\ AllPosted' /\ ReadingsCounted'
        BY <1>0, <1>7, <2>2, <3>1, ProducerMoves DEF Check, PostsAccountedFor, InRound,
           AllPosted, ReadingsCounted, TypeOK, ProducerLabel
      <3>. QED BY <3>2, <3>3, <3>4 DEF Inv
    <2>. QED BY <2>1, <2>2
  <1>. QED BY <1>1, <1>2, <1>3, <1>4, <1>5, <1>6, <1>7 DEF Produce

-----------------------------------------------------------------------------
(* A consumer's steps *)

LEMMA ConsumeInv ==
    ASSUME Inv, NEW c \in Consumer, Consume(c)
    PROVE  Inv'
  <1>0. /\ TypeOK /\ MutualExclusion /\ PostsAccountedFor /\ AllPosted /\ ReadingsCounted
        /\ Cardinality(Reading) \in Nat /\ IsFiniteSet(Reading)
    BY CountType DEF Inv
  <1>1. CASE ReadWait(c)
    <2>1. Goto(c, "lock")
      BY <1>1 DEF ReadWait
    <2>2. /\ pc'[c] = "lock"
          /\ \A d \in Consumer \ {c} : pc'[d] = pc[d]
          /\ pc'[Producer] = pc[Producer]
      BY <1>0, <2>1, Kinds DEF Goto, TypeOK
    <2>3. TypeOK'
      <3>1. non_read_consumer' \in 0..MaxConsumer
        BY <1>0, <1>1 DEF ReadWait, TypeOK
      <3>. QED BY <1>0, <1>1, <2>1, <2>2, <3>1, ConsumerMoves, Kinds DEF ReadWait, TypeOK, Lock, Unlock,
           ConsumerLabel
    <2>4. MutualExclusion'
      BY <1>0, <1>1, <2>2, Kinds DEF ReadWait, MutualExclusion, Inside, Lock, Unlock, Thread
    <2>5. PostsAccountedFor'
      <3>1. c \notin Reading /\ Reading' = Reading \cup {c}
        BY <1>0, <1>1, <2>1, ConsumerMoves DEF ReadWait, Reading, ConsumerLabel
      <3>2. Cardinality(Reading') = Cardinality(Reading) + 1
        BY <1>0, <3>1, CountChange
      <3>3. InRound' <=> InRound
        BY <2>2 DEF InRound
      <3>. QED BY <1>0, <1>1, <3>2, <3>3 DEF ReadWait, PostsAccountedFor, TypeOK
    <2>6. AllPosted' /\ ReadingsCounted'
      BY <1>0, <1>1, <2>2 DEF ReadWait, AllPosted, ReadingsCounted, InRound
    <2>. QED BY <2>3, <2>4, <2>5, <2>6 DEF Inv
  <1>2. CASE ReadLock(c)
    <2>1. Goto(c, "read")
      BY <1>2 DEF ReadLock
    <2>2. /\ pc'[c] = "read"
          /\ \A d \in Consumer \ {c} : pc'[d] = pc[d]
          /\ pc'[Producer] = pc[Producer]
      BY <1>0, <2>1, Kinds DEF Goto, TypeOK
    <2>3. TypeOK'
      <3>1. non_read_consumer' \in 0..MaxConsumer
        BY <1>0, <1>2 DEF ReadLock, TypeOK
      <3>. QED BY <1>0, <1>2, <2>1, <2>2, <3>1, ConsumerMoves, Kinds DEF ReadLock, TypeOK, Lock, Unlock,
           ConsumerLabel
    <2>4. MutualExclusion'
      BY <1>0, <1>2, <2>2, Kinds DEF ReadLock, MutualExclusion, Inside, Lock, Unlock, Thread
    <2>5. PostsAccountedFor'
      <3>1. Reading' = Reading
        BY <1>0, <1>2, <2>1, ConsumerMoves DEF ReadLock, Reading, ConsumerLabel
      <3>2. InRound' <=> InRound
        BY <2>2 DEF InRound
      <3>. QED BY <1>0, <1>2, <3>1, <3>2 DEF ReadLock, PostsAccountedFor, TypeOK
    <2>6. AllPosted' /\ ReadingsCounted'
      BY <1>0, <1>2, <2>2 DEF ReadLock, AllPosted, ReadingsCounted, InRound
    <2>. QED BY <2>3, <2>4, <2>5, <2>6 DEF Inv
  <1>3. CASE ReadUnlock(c)
    <2>1. Goto(c, "top")
      BY <1>3 DEF ReadUnlock
    <2>2. /\ pc'[c] = "top"
          /\ \A d \in Consumer \ {c} : pc'[d] = pc[d]
          /\ pc'[Producer] = pc[Producer]
      BY <1>0, <2>1, Kinds DEF Goto, TypeOK
    <2>3. TypeOK'
      <3>1. non_read_consumer' \in 0..MaxConsumer
        BY <1>0, <1>3 DEF ReadUnlock, TypeOK
      <3>. QED BY <1>0, <1>3, <2>1, <2>2, <3>1, ConsumerMoves, Kinds DEF ReadUnlock, TypeOK, Lock, Unlock,
           ConsumerLabel
    <2>4. MutualExclusion'
      BY <1>0, <1>3, <2>2, Kinds DEF ReadUnlock, MutualExclusion, Inside, Lock, Unlock, Thread
    <2>5. PostsAccountedFor'
      <3>1. Reading' = Reading
        BY <1>0, <1>3, <2>1, ConsumerMoves DEF ReadUnlock, Reading, ConsumerLabel
      <3>2. InRound' <=> InRound
        BY <2>2 DEF InRound
      <3>. QED BY <1>0, <1>3, <3>1, <3>2 DEF ReadUnlock, PostsAccountedFor, TypeOK
    <2>6. AllPosted' /\ ReadingsCounted'
      BY <1>0, <1>3, <2>2 DEF ReadUnlock, AllPosted, ReadingsCounted, InRound
    <2>. QED BY <2>3, <2>4, <2>5, <2>6 DEF Inv
  <1>4. CASE Read(c)
    <2>1. /\ pc'[c] = "unlock"
          /\ \A d \in Consumer \ {c} : pc'[d] = pc[d]
          /\ \/ pc'[Producer] = pc[Producer]
             \/ pc[Producer] = "waiting" /\ pc'[Producer] = "woken"
          /\ pc' \in [Thread -> ProducerLabel \cup ConsumerLabel]
          /\ Reading' = Reading \ {c}
      BY <1>0, <1>4, ConsumerMoves DEF Read, ConsumerLabel
    <2>2. c \in Reading
      BY <1>4 DEF Read, Reading
    <2>3. /\ Cardinality(Reading') = Cardinality(Reading) - 1
          /\ Cardinality(Reading) > 0
      BY <1>0, <2>1, <2>2, CountChange, FS_EmptySet
    <2>4. InRound /\ InRound'
      <3>1. InRound
        BY <1>0, <2>3 DEF PostsAccountedFor, TypeOK
      <3>. QED BY <3>1, <2>1 DEF InRound
    <2>5. consumers_read + 1 <= consumers
      BY <1>0, <2>3, <2>4 DEF PostsAccountedFor, TypeOK
    <2>6. TypeOK'
      <3>1. consumers_read' \in 0..MaxConsumer /\ readings' \in 0..MaxConsumer
        BY <1>0, <1>4, <2>4, <2>5 DEF Read, TypeOK, ReadingsCounted
      <3>. QED BY <1>0, <1>4, <2>1, <3>1, Kinds DEF Read, TypeOK, ProducerLabel, ConsumerLabel
    <2>7. MutualExclusion'
      BY <1>0, <1>4, <2>1, Kinds DEF Read, MutualExclusion, Inside, Thread
    <2>8. PostsAccountedFor'
      BY <1>0, <1>4, <2>3, <2>4 DEF Read, PostsAccountedFor, TypeOK
    <2>9. AllPosted' /\ ReadingsCounted'
      BY <1>0, <1>4, <2>1, <2>4 DEF Read, AllPosted, ReadingsCounted
    <2>. QED BY <2>6, <2>7, <2>8, <2>9 DEF Inv
  <1>. QED BY <1>1, <1>2, <1>3, <1>4 DEF Consume

-----------------------------------------------------------------------------
(* The theorems *)

LEMMA InitInv == Init => Inv
  <1>. SUFFICES ASSUME Init PROVE Inv
    OBVIOUS
  <1>1. Reading = {}
    BY Kinds DEF Init, Reading
  <1>2. TypeOK /\ MutualExclusion /\ AllPosted /\ ReadingsCounted
    BY Kinds DEF Init, TypeOK, MutualExclusion, Inside, AllPosted, ReadingsCounted, InRound,
       ProducerLabel, ConsumerLabel
  <1>3. PostsAccountedFor
    BY <1>1, FS_EmptySet, Kinds DEF Init, PostsAccountedFor, InRound
  <1>. QED BY <1>2, <1>3 DEF Inv

\* The inductive invariant holds in every reachable state.
THEOREM Invariance == Spec => []Inv
  <1>1. Inv /\ [Next]_vars => Inv'
    <2>. SUFFICES ASSUME Inv, [Next]_vars PROVE Inv'
      OBVIOUS
    <2>1. CASE Produce \/ SpuriousWakeup
      BY <2>1, ProduceInv
    <2>2. CASE \E c \in Consumer : Consume(c)
      BY <2>2, ConsumeInv
    <2>3. CASE UNCHANGED vars
      BY <2>3 DEF vars, Inv, TypeOK, MutualExclusion, Inside, PostsAccountedFor, InRound,
         Reading, AllPosted, ReadingsCounted
    <2>. QED BY <2>1, <2>2, <2>3 DEF Next
  <1>. QED BY InitInv, <1>1, PTL DEF Spec

\* Every post of a round of producer_consumer_g.c is in the semaphore, with a
\* consumer, or in consumers_read, and none outlives its round.
THEOREM NoStrayPost == Spec => []PostsAccountedFor
  BY Invariance, PTL DEF Inv

\* The value is replaced only after MAX_CONSUMER readings of it, whichever
\* consumers made them.
THEOREM ReadBeforeOverwrite == Spec => NoOverwriteBeforeRead
  <1>1. Inv /\ [Next]_vars => [g_shared_data' # g_shared_data => readings = MaxConsumer]_vars
    <2>. SUFFICES ASSUME Inv, Next, g_shared_data' # g_shared_data
                  PROVE  readings = MaxConsumer
      OBVIOUS
    <2>1. Write
      BY DEF Next, Produce, Consume, WriteLock, Post, Check, Relock, WriteUnlock,
         SpuriousWakeup, ReadWait, ReadLock, Read, ReadUnlock
    <2>. QED BY <2>1 DEF Write, Inv, ReadingsCounted, InRound
  <1>. QED BY <1>1, Invariance, PTL DEF Spec, NoOverwriteBeforeRead
=============================================================================
