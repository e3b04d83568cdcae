------------------------- MODULE ProducerConsumerC --------------------------
(***************************************************************************)
(* producer_consumer/producer_consumer_c.c: producers push on a shared     *)
(* doubly linked list, consumers poll it until it is not empty, both under *)
(* one mutex.  There is no semaphore, so that a push that fails for lack   *)
(* of memory deceives nobody.                                              *)
(*                                                                         *)
(* When pthread_create fails, main frees the list and clears the pointer   *)
(* to it without the mutex, while the threads it has started go on: one    *)
(* that then uses the list finds a freed one, which is undefined, or NULL, *)
(* which the asserts of doubly_linked_list.c stop.  The elements of the    *)
(* list are never looked at, so its size stands for it.                    *)
(***************************************************************************)
EXTENDS Integers

CONSTANTS Threads,      \* MAX_PRODUCERS and MAX_CONSUMER, both 7 in the code
          MaxItems      \* bound: producers stop when the list is this long

Producer == {"producer"} \X (1..Threads)
Consumer == {"consumer"} \X (1..Threads)
Thread   == Producer \cup Consumer
Nobody   == <<"nobody", 0>>

VARIABLES list,              \* the list is alive or freed, or the pointer NULL
          size,
          doubly_ll_mutex,   \* its holder, or Nobody
          pc, main,
          i,                 \* loop counter of CreateThreads, from 1
          create_failed,     \* pthread_create has failed
          frees,             \* how often the list was freed
          outcome            \* of the process

vars == <<list, size, doubly_ll_mutex, pc, main, i, create_failed, frees, outcome>>
threadVars == <<size, doubly_ll_mutex, pc>>
mainVars   == <<list, main, i, create_failed, frees>>

Init ==
    /\ list = "alive"
    /\ size = 0
    /\ doubly_ll_mutex = Nobody
    /\ pc = [t \in Thread |-> "absent"]
    /\ main = "create_producer"
    /\ i = 1
    /\ create_failed = FALSE
    /\ frees = 0
    /\ outcome = "running"

At(t, label)   == outcome = "running" /\ pc[t] = label
Goto(t, label) == pc' = [pc EXCEPT ![t] = label]

\* What becomes of a thread that uses the list when it is not alive.
UseDeadList ==
    /\ list # "alive"
    /\ outcome' = IF list = "freed" THEN "undefined" ELSE "aborted"
    /\ UNCHANGED <<size, pc>>

-----------------------------------------------------------------------------
(* Push and Pop *)

\* Mutant of Lock: the mutex is taken by whoever asks.
LockUnheld(t) ==
    /\ At(t, "lock")
    /\ t \in Producer /\ list = "alive" => size < MaxItems
    /\ doubly_ll_mutex' = t
    /\ Goto(t, IF t \in Producer THEN "push" ELSE "look")
    /\ UNCHANGED <<size, outcome, mainVars>>

Lock(t) ==
    /\ At(t, "lock")
    /\ t \in Producer /\ list = "alive" => size < MaxItems
    /\ doubly_ll_mutex = Nobody
    /\ doubly_ll_mutex' = t
    /\ Goto(t, IF t \in Producer THEN "push" ELSE "look")
    /\ UNCHANGED <<size, outcome, mainVars>>

\* DLLPushFront, whose failure is not noticed (DLLEnd is not what it returns),
\* and DLLGetSize.
Push(p) ==
    /\ At(p, "push")
    /\ \/ /\ list = "alive"
          /\ size' \in {size, size + 1}
          /\ Goto(p, "unlock")
          /\ UNCHANGED outcome
       \/ UseDeadList
    /\ UNCHANGED <<doubly_ll_mutex, mainVars>>

\* DLLIsEmpty
Look(c) ==
    /\ At(c, "look")
    /\ \/ /\ list = "alive"
          /\ Goto(c, IF size = 0 THEN "unlock" ELSE "pop")
          /\ UNCHANGED <<size, outcome>>
       \/ UseDeadList
    /\ UNCHANGED <<doubly_ll_mutex, mainVars>>

\* DLLPopFront, which follows a NULL pointer if the list is empty, and DLLGetSize.
Pop(c) ==
    /\ At(c, "pop")
    /\ \/ /\ list = "alive"
          /\ size' = IF size > 0 THEN size - 1 ELSE 0
          /\ outcome' = IF size > 0 THEN "running" ELSE "crashed"
          /\ Goto(c, "unlock")
       \/ UseDeadList
    /\ UNCHANGED <<doubly_ll_mutex, mainVars>>

Unlock(t) ==
    /\ At(t, "unlock")
    /\ doubly_ll_mutex' = Nobody
    /\ Goto(t, "lock")
    /\ UNCHANGED <<size, outcome, mainVars>>

-----------------------------------------------------------------------------
(* main *)

\* CreateThreads: the next thread starts, or pthread_create fails.
CreateThread ==
    /\ outcome = "running"
    /\ main \in {"create_producer", "create_consumer"}
    /\ LET t == <<IF main = "create_producer" THEN "producer" ELSE "consumer", i>>
       IN \/ /\ Goto(t, "lock")
             /\ main' = IF t \in Producer THEN "create_consumer"
                        ELSE IF i < Threads THEN "create_producer" ELSE "join"
             /\ i' = IF t \in Consumer /\ i < Threads THEN i + 1 ELSE i
             /\ UNCHANGED create_failed
          \/ /\ create_failed' = TRUE
             /\ main' = "destroy"
             /\ UNCHANGED <<pc, i>>
    /\ UNCHANGED <<list, size, doubly_ll_mutex, frees, outcome>>

\* DLLDestroy, which asserts that it is given a list.
DLLDestroy ==
    /\ outcome = "running"
    /\ main \in {"destroy", "destroy_again"}
    /\ IF list = "null"
       THEN outcome' = "aborted" /\ UNCHANGED <<list, frees>>
       ELSE list' = "freed" /\ frees' = frees + 1 /\ UNCHANGED outcome
    /\ main' = IF main = "destroy" THEN "clear" ELSE "returned"
    /\ UNCHANGED <<i, create_failed, threadVars>>

\* list = NULL
ClearList ==
    /\ outcome = "running" /\ main = "clear"
    /\ list' = "null"
    /\ main' = "join"
    /\ UNCHANGED <<i, create_failed, frees, outcome, threadVars>>

\* JoinThreads waits for the first producer, which does not return.  If that
\* was never created its handle is uninitialised: the join may fail, whereupon
\* the list is destroyed again, or block for ever.
JoinThreads ==
    /\ outcome = "running" /\ main = "join"
    /\ pc[<<"producer", 1>>] = "absent"
    /\ \/ main' = "destroy_again" /\ UNCHANGED outcome
       \/ outcome' = "blocked" /\ UNCHANGED main
    /\ UNCHANGED <<list, i, create_failed, frees, threadVars>>

-----------------------------------------------------------------------------

Main == CreateThread \/ DLLDestroy \/ ClearList \/ JoinThreads

Stopped == outcome # "running" /\ UNCHANGED vars

Next ==
    \/ \E t \in Thread : Lock(t) \/ Unlock(t)
    \/ \E p \in Producer : Push(p)
    \/ \E c \in Consumer : Look(c) \/ Pop(c)
    \/ Main
    \/ Stopped

Spec == Init /\ [][Next]_vars

-----------------------------------------------------------------------------
(* Properties *)

\* Every variable has its type.
TypeOK ==
    /\ list \in {"alive", "freed", "null"}
    /\ size \in Nat
    /\ doubly_ll_mutex \in Thread \cup {Nobody}
    /\ pc \in [Thread -> {"absent", "lock", "push", "look", "pop", "unlock"}]
    /\ \A p \in Producer : pc[p] \in {"absent", "lock", "push", "unlock"}
    /\ \A c \in Consumer : pc[c] \in {"absent", "lock", "look", "pop", "unlock"}
    /\ main \in {"create_producer", "create_consumer", "join", "destroy", "clear",
                 "destroy_again", "returned"}
    /\ i \in 1..Threads
    /\ create_failed \in BOOLEAN
    /\ frees \in Nat
    /\ outcome \in {"running", "crashed", "undefined", "aborted", "blocked"}

\* As long as every thread could be created nothing ends the program: no
\* consumer pops an empty list, even if a malloc failed or another consumer
\* took the item it saw, and nobody uses a list that is not alive.
OnlyCreateFailureEnds == outcome = "running" \/ create_failed
=============================================================================
