------------------------- MODULE ProducerConsumerD --------------------------
(***************************************************************************)
(* producer_consumer/producer_consumer_d.c: producers push on the front of *)
(* a shared doubly linked list under a mutex and then post a counting      *)
(* semaphore; consumers wait on the semaphore and pop under the mutex.     *)
(*                                                                         *)
(* The list is a sequence whose elements are the producers, because every  *)
(* producer pushes the address of its own parameter.  malloc may fail in   *)
(* DLLPushFront, pthread_create may fail in CreateThreads.  The mutex and  *)
(* the semaphore are pthread objects that do not fail when used like this. *)
(* sem_destroy has no effect on waiters in the C library the code is built *)
(* against; freeing the list under a thread that uses it is undefined.     *)
(***************************************************************************)
EXTENDS Integers, Sequences, FiniteSets

CONSTANTS Threads,      \* MAX_PRODUCERS and MAX_CONSUMER, both 7 in the code
          MaxItems,     \* bound: producers stop when the list is this long
          MaxFailures   \* bound on the number of failed allocations

ASSUME ProducerConsumerAssumption ==
    /\ Threads \in Nat \ {0}
    /\ MaxItems \in Nat \ {0}
    /\ MaxFailures \in Nat

Producer == {"producer"} \X (1..Threads)
Consumer == {"consumer"} \X (1..Threads)
Thread   == Producer \cup Consumer
Nobody   == <<"nobody", 0>>

VARIABLES list,         \* the doubly linked list, front first
          destroys,     \* how often DLLDestroy ran on it
          mutex,        \* the thread that holds doubly_ll_mutex, or Nobody
          dlist_count,  \* value of the counting semaphore
          pc,           \* where each thread is
          main,         \* where main is
          i,            \* loop counter of CreateThreads, from 1
          failures,     \* number of DLLPushFront calls that found no memory
          outcome       \* of the process

vars == <<list, destroys, mutex, dlist_count, pc, main, i, failures, outcome>>
threadVars == <<list, mutex, dlist_count, pc, failures>>
mainVars   == <<destroys, main, i>>

\* main has initialised the semaphore and created the list.
Init ==
    /\ list = <<>>
    /\ destroys = 0
    /\ mutex = Nobody
    /\ dlist_count = 0
    /\ pc = [t \in Thread |-> "absent"]
    /\ main = "create_producer"
    /\ i = 1
    /\ failures = 0
    /\ outcome = "running"

Running == outcome = "running"

Goto(t, label) == pc' = [pc EXCEPT ![t] = label]

Lock(t)   == mutex = Nobody /\ mutex' = t
Unlock(t) == mutex = t /\ mutex' = Nobody

-----------------------------------------------------------------------------
(* Push, one producer *)

PushLock(p) ==
    /\ Running /\ pc[p] = "top"
    /\ destroys > 0 \/ Len(list) < MaxItems
    /\ Lock(p)
    /\ Goto(p, "push")
    /\ UNCHANGED <<list, dlist_count, failures, outcome, mainVars>>

\* Mutant of PushFront: the new node becomes the whole list, the nodes that
\* were there are not linked behind it.
PushFrontLost(p) ==
    /\ list' = <<p>>
    /\ UNCHANGED <<failures, outcome>>
    /\ Goto(p, "unlock")

\* DLLPushFront, the test of its result and DLLGetSize.  When malloc fails
\* DLLPushFront returns an iterator holding NULL, which is not DLLEnd: the
\* producer takes the push for done.
PushFront(p) ==
    \/ /\ destroys = 0
       /\ list' = <<p>> \o list
       /\ Goto(p, "unlock")
       /\ UNCHANGED <<failures, outcome>>
    \/ /\ destroys = 0
       /\ failures < MaxFailures
       /\ failures' = failures + 1
       /\ Goto(p, "unlock")
       /\ UNCHANGED <<list, outcome>>
    \/ /\ destroys > 0
       /\ outcome' = "undefined"
       /\ UNCHANGED <<list, failures, pc>>

Push(p) ==
    /\ Running /\ pc[p] = "push"
    /\ PushFront(p)
    /\ UNCHANGED <<mutex, dlist_count, mainVars>>

PushUnlock(p) ==
    /\ Running /\ pc[p] = "unlock"
    /\ Unlock(p)
    /\ Goto(p, "post")
    /\ UNCHANGED <<list, dlist_count, failures, outcome, mainVars>>

PushPost(p) ==
    /\ Running /\ pc[p] = "post"
    /\ dlist_count' = dlist_count + 1
    /\ Goto(p, "top")
    /\ UNCHANGED <<list, mutex, failures, outcome, mainVars>>

-----------------------------------------------------------------------------
(* Pop, one consumer *)

PopWait(c) ==
    /\ Running /\ pc[c] = "top"
    /\ dlist_count > 0
    /\ dlist_count' = dlist_count - 1
    /\ Goto(c, "lock")
    /\ UNCHANGED <<list, mutex, failures, outcome, mainVars>>

PopLock(c) ==
    /\ Running /\ pc[c] = "lock"
    /\ Lock(c)
    /\ Goto(c, "pop")
    /\ UNCHANGED <<list, dlist_count, failures, outcome, mainVars>>

\* DLLPopFront erases head->next without looking: on an empty list that is
\* the tail dummy, whose next is NULL and is dereferenced.
Pop(c) ==
    /\ Running /\ pc[c] = "pop"
    /\ \/ /\ destroys = 0 /\ list # <<>>
          /\ list' = Tail(list)
          /\ Goto(c, "unlock")
          /\ UNCHANGED outcome
       \/ /\ destroys = 0 /\ list = <<>>
          /\ outcome' = "crashed"
          /\ UNCHANGED <<list, pc>>
       \/ /\ destroys > 0
          /\ outcome' = "undefined"
          /\ UNCHANGED <<list, pc>>
    /\ UNCHANGED <<mutex, dlist_count, failures, mainVars>>

\* Mutant of PopUnlock: the consumer pops again without a token.
PopUnlockAndRetry(c) ==
    /\ Running /\ pc[c] = "unlock"
    /\ Unlock(c)
    /\ Goto(c, "lock")
    /\ UNCHANGED <<list, dlist_count, failures, outcome, mainVars>>

PopUnlock(c) ==
    /\ Running /\ pc[c] = "unlock"
    /\ Unlock(c)
    /\ Goto(c, "top")
    /\ UNCHANGED <<list, dlist_count, failures, outcome, mainVars>>

-----------------------------------------------------------------------------
(* main *)

\* CreateThreads: pthread_create of thread t, which starts at its first
\* statement, or its failure, which destroys the list and returns.
CreateThread(t) ==
    \/ /\ Goto(t, "top")
       /\ UNCHANGED destroys
       /\ IF t \in Producer THEN /\ main' = "create_consumer"
                                /\ UNCHANGED i
          ELSE IF i < Threads THEN /\ main' = "create_producer"
                                   /\ i' = i + 1
          ELSE main' = "join" /\ UNCHANGED i
    \/ /\ destroys' = destroys + 1
       /\ main' = "join"
       /\ UNCHANGED <<pc, i>>

CreateProducer ==
    /\ Running /\ main = "create_producer"
    /\ CreateThread(<<"producer", i>>)
    /\ UNCHANGED <<list, mutex, dlist_count, failures, outcome>>

CreateConsumer ==
    /\ Running /\ main = "create_consumer"
    /\ CreateThread(<<"consumer", i>>)
    /\ UNCHANGED <<list, mutex, dlist_count, failures, outcome>>

\* Mutant of JoinThreads: the join does not wait for the threads.
JoinThreadsAtOnce ==
    /\ Running /\ main = "join"
    /\ destroys' = destroys + 1
    /\ outcome' = "undefined"
    /\ UNCHANGED <<threadVars, main, i>>

\* JoinThreads waits for the first producer, which never returns.  When that
\* producer was never created its handle is uninitialised: the join may block
\* forever, or fail, and then the list is destroyed a second time.
JoinThreads ==
    /\ Running /\ main = "join"
    /\ pc[<<"producer", 1>>] = "absent"
    /\ \/ /\ destroys' = destroys + 1
          /\ outcome' = "undefined"
       \/ /\ outcome' = "blocked"
          /\ UNCHANGED destroys
    /\ UNCHANGED <<threadVars, main, i>>

\* The process is gone, or main blocks with no other thread alive.
Stopped == ~Running /\ UNCHANGED vars

Next ==
    \/ \E p \in Producer : PushLock(p) \/ Push(p) \/ PushUnlock(p) \/ PushPost(p)
    \/ \E c \in Consumer : PopWait(c) \/ PopLock(c) \/ Pop(c) \/ PopUnlock(c)
    \/ CreateProducer
    \/ CreateConsumer
    \/ JoinThreads
    \/ Stopped

Spec == Init /\ [][Next]_vars

-----------------------------------------------------------------------------
(* Properties *)

ProducerLabel == {"absent", "top", "push", "unlock", "post"}
ConsumerLabel == {"absent", "top", "lock", "pop", "unlock"}

\* Every variable has its type.
TypeOK ==
    /\ list \in Seq(Producer)
    /\ destroys \in Nat
    /\ mutex \in Thread \cup {Nobody}
    /\ dlist_count \in Nat
    /\ pc \in [Thread -> ProducerLabel \cup ConsumerLabel]
    /\ \A p \in Producer : pc[p] \in ProducerLabel
    /\ \A c \in Consumer : pc[c] \in ConsumerLabel
    /\ main \in {"create_producer", "create_consumer", "join"}
    /\ i \in 1..Threads
    /\ failures \in Nat
    /\ outcome \in {"running", "crashed", "undefined", "blocked"}

\* The threads between lock and unlock.
Inside(t) ==
    \/ t \in Producer /\ pc[t] \in {"push", "unlock"}
    \/ t \in Consumer /\ pc[t] \in {"pop", "unlock"}

\* The list is only touched by the thread that holds the mutex: at most one
\* thread is between pthread_mutex_lock and pthread_mutex_unlock.
MutualExclusion == \A t \in Thread : Inside(t) => mutex = t

\* Producers that pushed but did not yet post, and consumers that took a
\* token of the semaphore but did not yet pop.
Posting  == {p \in Producer : pc[p] \in {"unlock", "post"}}
Entitled == {c \in Consumer : pc[c] \in {"lock", "pop"}}

\* The semaphore is posted outside the mutex, so it lags behind the list; at
\* every moment the list, plus the pushes that failed unnoticed, holds exactly
\* one item for every token posted, still to be posted, or taken and unused.
TokensMatchItems ==
    Len(list) + failures =
        dlist_count + Cardinality(Posting) + Cardinality(Entitled)

\* A consumer that holds the mutex finds an item ("Cannot be empty list",
\* doubly_linked_list.h:203): DLLPopFront does not check.
PopFindsItem == \A c \in Consumer : pc[c] = "pop" => list # <<>>

\* No consumer pops an empty list, and the process does not crash, as long as
\* every allocation succeeded.
SafeUnlessMemoryFails ==
    failures = 0 => PopFindsItem /\ outcome # "crashed"

\* The failure paths of main call DLLDestroy up to three times.  They never do
\* so a second time while a thread exists, because JoinThreads blocks first.
DestroyedTwiceOnlyAlone ==
    destroys > 1 => \A t \in Thread : pc[t] = "absent"
=============================================================================
