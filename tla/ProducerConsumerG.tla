------------------------- MODULE ProducerConsumerG --------------------------
(***************************************************************************)
(* producer_consumer/producer_consumer_g.c: one producer publishes a value *)
(* and waits on a condition variable until it was read MAX_CONSUMER times. *)
(*                                                                         *)
(* The producer posts non_read_consumer once for every reading it expects; *)
(* a consumer takes one post, prints the value, counts itself in           *)
(* consumers_read and signals.  Nothing ties a post to a consumer: one     *)
(* consumer may take several posts of a round.  CreateThreads starts       *)
(* MAX_PRODUCERS consumers, not MAX_CONSUMER, which is why the set of      *)
(* consumers and the number of posts are separate constants here.          *)
(***************************************************************************)
EXTENDS Integers, FiniteSets

CONSTANTS Consumer,      \* the consumer threads that CreateThreads started
          MaxConsumer,   \* MAX_CONSUMER, the posts per round
          Values,        \* bound: the value counts modulo Values
          MaxSpurious,   \* bound on spurious wakeups of pthread_cond_wait
          Producer,      \* the producer thread
          Nobody         \* holder of a free mutex

ASSUME ProducerConsumerGAssumption ==
    /\ IsFiniteSet(Consumer)
    /\ Producer \notin Consumer
    /\ Nobody \notin Consumer \cup {Producer}
    /\ MaxConsumer \in Nat \ {0}
    /\ Values \in Nat \ {0, 1}
    /\ MaxSpurious \in Nat

Thread == Consumer \cup {Producer}

VARIABLES lock,            \* holder of lock_shared_data, or Nobody
          non_read_consumer,  \* value of the semaphore
          consumers_read,
          g_shared_data,
          consumers,       \* the producer's loop counter: posts of this round
          pc,              \* where each thread is
          spurious,        \* spurious wakeups so far
          readings         \* history: how often the current value was printed

vars == <<lock, non_read_consumer, consumers_read, g_shared_data, consumers,
          pc, spurious, readings>>

Init ==
    /\ lock = Nobody
    /\ non_read_consumer = 0
    /\ consumers_read = 0
    /\ g_shared_data = 0
    /\ consumers = 0
    /\ pc = [t \in Thread |-> "top"]
    /\ spurious = 0
    /\ readings = MaxConsumer    \* nobody waits for a reading of the initial 0

Goto(t, label) == pc' = [pc EXCEPT ![t] = label]

Lock(t)   == lock = Nobody /\ lock' = t
Unlock(t) == lock = t /\ lock' = Nobody

-----------------------------------------------------------------------------
(* WriteOnGdata *)

WriteLock ==
    /\ pc[Producer] = "top"
    /\ Lock(Producer)
    /\ Goto(Producer, "write")
    /\ UNCHANGED <<non_read_consumer, consumers_read, g_shared_data, consumers,
                   spurious, readings>>

Write ==
    /\ pc[Producer] = "write"
    /\ g_shared_data' = (g_shared_data + 1) % Values
    /\ readings' = 0
    /\ consumers' = 0
    /\ Goto(Producer, "post")
    /\ UNCHANGED <<lock, non_read_consumer, consumers_read, spurious>>

Post ==
    /\ pc[Producer] = "post"
    /\ IF consumers < MaxConsumer
       THEN /\ non_read_consumer' = non_read_consumer + 1
            /\ consumers' = consumers + 1
            /\ UNCHANGED pc
       ELSE /\ Goto(Producer, "check")
            /\ UNCHANGED <<non_read_consumer, consumers>>
    /\ UNCHANGED <<lock, consumers_read, g_shared_data, spurious, readings>>

\* Mutant of Check: an if in place of the while, the first wakeup is enough.
CheckOnce ==
    /\ pc[Producer] = "check"
    /\ IF consumers_read = 0
       THEN /\ Unlock(Producer)
            /\ Goto(Producer, "waiting")
            /\ UNCHANGED consumers_read
       ELSE /\ consumers_read' = 0
            /\ Goto(Producer, "unlock")
            /\ UNCHANGED lock
    /\ UNCHANGED <<non_read_consumer, g_shared_data, consumers, spurious, readings>>

\* Mutant of Check: consumers_read is not put back to 0.
CheckWithoutReset ==
    /\ pc[Producer] = "check"
    /\ IF consumers_read # MaxConsumer
       THEN /\ Unlock(Producer)
            /\ Goto(Producer, "waiting")
       ELSE /\ Goto(Producer, "unlock")
            /\ UNCHANGED lock
    /\ UNCHANGED <<consumers_read, non_read_consumer, g_shared_data, consumers,
                   spurious, readings>>

\* The test of the while loop: wait, which releases the mutex in the same
\* step, or leave the loop and start the count again.
Check ==
    /\ pc[Producer] = "check"
    /\ IF consumers_read # MaxConsumer
       THEN /\ Unlock(Producer)
            /\ Goto(Producer, "waiting")
            /\ UNCHANGED consumers_read
       ELSE /\ consumers_read' = 0
            /\ Goto(Producer, "unlock")
            /\ UNCHANGED lock
    /\ UNCHANGED <<non_read_consumer, g_shared_data, consumers, spurious, readings>>

SpuriousWakeup ==
    /\ pc[Producer] = "waiting"
    /\ spurious < MaxSpurious
    /\ spurious' = spurious + 1
    /\ Goto(Producer, "woken")
    /\ UNCHANGED <<lock, non_read_consumer, consumers_read, g_shared_data, consumers,
                   readings>>

\* pthread_cond_wait takes the mutex again before it returns.
Relock ==
    /\ pc[Producer] = "woken"
    /\ Lock(Producer)
    /\ Goto(Producer, "check")
    /\ UNCHANGED <<non_read_consumer, consumers_read, g_shared_data, consumers,
                   spurious, readings>>

WriteUnlock ==
    /\ pc[Producer] = "unlock"
    /\ Unlock(Producer)
    /\ Goto(Producer, "top")
    /\ UNCHANGED <<non_read_consumer, consumers_read, g_shared_data, consumers,
                   spurious, readings>>

-----------------------------------------------------------------------------
(* ReadFromGData, one consumer *)

ReadWait(c) ==
    /\ pc[c] = "top"
    /\ non_read_consumer > 0
    /\ non_read_consumer' = non_read_consumer - 1
    /\ Goto(c, "lock")
    /\ UNCHANGED <<lock, consumers_read, g_shared_data, consumers, spurious, readings>>

ReadLock(c) ==
    /\ pc[c] = "lock"
    /\ Lock(c)
    /\ Goto(c, "read")
    /\ UNCHANGED <<non_read_consumer, consumers_read, g_shared_data, consumers,
                   spurious, readings>>

\* Mutant of Read: the consumer signals only on the first reading.
ReadSignalFirst(c) ==
    /\ pc[c] = "read"
    /\ readings' = readings + 1
    /\ consumers_read' = consumers_read + 1
    /\ pc' = [pc EXCEPT ![c] = "unlock",
                        ![Producer] = IF @ = "waiting" /\ consumers_read = 0
                                      THEN "woken" ELSE @]
    /\ UNCHANGED <<lock, non_read_consumer, g_shared_data, consumers, spurious>>

\* Prints the value, counts the reading and signals the producer, which is
\* woken if it waits.
Read(c) ==
    /\ pc[c] = "read"
    /\ readings' = readings + 1
    /\ consumers_read' = consumers_read + 1
    /\ pc' = [pc EXCEPT ![c] = "unlock",
                        ![Producer] = IF @ = "waiting" THEN "woken" ELSE @]
    /\ UNCHANGED <<lock, non_read_consumer, g_shared_data, consumers, spurious>>

ReadUnlock(c) ==
    /\ pc[c] = "unlock"
    /\ Unlock(c)
    /\ Goto(c, "top")
    /\ UNCHANGED <<non_read_consumer, consumers_read, g_shared_data, consumers,
                   spurious, readings>>

-----------------------------------------------------------------------------

Produce == WriteLock \/ Write \/ Post \/ Check \/ Relock \/ WriteUnlock

Consume(c) == ReadWait(c) \/ ReadLock(c) \/ Read(c) \/ ReadUnlock(c)

Next ==
    \/ Produce
    \/ SpuriousWakeup
    \/ \E c \in Consumer : Consume(c)

\* Every thread that can run does so eventually; nothing makes a spurious
\* wakeup happen, and no fairness of the mutex is assumed.
Fairness == WF_vars(Produce) /\ \A c \in Consumer : WF_vars(Consume(c))

Spec == Init /\ [][Next]_vars /\ Fairness

-----------------------------------------------------------------------------
(* Properties *)

ProducerLabel == {"top", "write", "post", "check", "waiting", "woken", "unlock"}
ConsumerLabel == {"top", "lock", "read", "unlock"}

\* Every variable has its type.
TypeOK ==
    /\ lock \in Thread \cup {Nobody}
    /\ non_read_consumer \in 0..MaxConsumer
    /\ consumers_read \in 0..MaxConsumer
    /\ g_shared_data \in 0..(Values - 1)
    /\ consumers \in 0..MaxConsumer
    /\ pc \in [Thread -> ProducerLabel \cup ConsumerLabel]
    /\ pc[Producer] \in ProducerLabel
    /\ \A c \in Consumer : pc[c] \in ConsumerLabel
    /\ spurious \in 0..MaxSpurious
    /\ readings \in 0..MaxConsumer

Inside(t) ==
    \/ t = Producer /\ pc[t] \in {"write", "post", "check", "unlock"}
    \/ t \in Consumer /\ pc[t] \in {"read", "unlock"}

\* One thread at a time has the shared data and the count of readings.
MutualExclusion == \A t \in Thread : Inside(t) => lock = t

\* The producer has published a value and not yet seen it read by all.
InRound == pc[Producer] \in {"post", "check", "waiting", "woken"}

\* Consumers that took a post and did not yet print the value.
Reading == {c \in Consumer : pc[c] \in {"lock", "read"}}

\* Every post of a round is in exactly one place: in the semaphore, with a
\* consumer on its way to the value, or counted in consumers_read.  No post
\* survives a round, or a consumer would print the next value once too often.
PostsAccountedFor ==
    non_read_consumer + Cardinality(Reading) + consumers_read =
        IF InRound THEN consumers ELSE 0

\* The producer never replaces a value that was not printed MAX_CONSUMER
\* times, and no value is printed more often.
NoOverwriteBeforeRead ==
    [][g_shared_data' # g_shared_data => readings = MaxConsumer]_vars

\* Every published value is printed MAX_CONSUMER times and the producer goes
\* on: no signal to the condition variable is lost, whatever the order in
\* which the readings and the wait happen.
EveryRoundEnds == (pc[Producer] = "post") ~> (pc[Producer] = "top")
=============================================================================
