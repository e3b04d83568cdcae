------------------------- MODULE ProducerConsumerF -------------------------
(***************************************************************************)
(* producer_consumer/producer_consumer_f.c: a writer and a reader of one   *)
(* circular list, with two semaphores, and a mutex each.                   *)
(*                                                                         *)
(* The calls of the mutexes stand inside assert, without a comparison: as  *)
(* built by the makefile the first lock, which returns 0, ends the         *)
(* program; built with NDEBUG there are no locks.  Both threads then       *)
(* change number_of_unread_bytes, and each access of it is a step of its   *)
(* own.  Their requests are of one byte.  Each cursor belongs to one of    *)
(* the threads, and so does the move of a byte, which is one step.         *)
(***************************************************************************)
EXTENDS Integers

CONSTANTS Capacity,        \* the macro capacity, 100 in the code
          NDEBUG           \* TRUE: assert does not evaluate its argument

ASSUME ProducerConsumerFAssumption ==
    /\ Capacity \in Nat \ {0}
    /\ NDEBUG \in BOOLEAN

Thread == {"writer", "reader"}

VARIABLES free_space_to_write, avliable_to_read,   \* the semaphores
          write, read,     \* the cursors, as offsets from base
          unread,          \* number_of_unread_bytes
          pc, aborted,
          n,               \* the bytes a thread's call moves, after clipping
          count            \* a thread's copy of unread, about to be changed

vars == <<free_space_to_write, avliable_to_read, write, read, unread, pc,
          aborted, n, count>>

Init ==
    /\ free_space_to_write = Capacity
    /\ avliable_to_read = 0
    /\ write = 0
    /\ read = 0
    /\ unread = 0
    /\ pc = [t \in Thread |-> "wait"]
    /\ aborted = FALSE
    /\ n = [t \in Thread |-> 0]
    /\ count = [t \in Thread |-> 0]

At(t, label)   == ~aborted /\ pc[t] = label
Goto(t, label) == pc' = [pc EXCEPT ![t] = label]

AtMostOne(bytes) == IF bytes >= 1 THEN 1 ELSE bytes

\* Where a cursor is after a call that moves bytes: at the end of the buffer
\* it stays until a byte has to be moved.
Advance(cursor, bytes) ==
    IF cursor + bytes <= Capacity THEN cursor + bytes
                                  ELSE bytes - (Capacity - cursor)

-----------------------------------------------------------------------------

\* sem_wait
Wait(t) ==
    /\ At(t, "wait")
    /\ \/ /\ t = "writer"
          /\ free_space_to_write > 0
          /\ free_space_to_write' = free_space_to_write - 1
          /\ UNCHANGED avliable_to_read
       \/ /\ t = "reader"
          /\ avliable_to_read > 0
          /\ avliable_to_read' = avliable_to_read - 1
          /\ UNCHANGED free_space_to_write
    /\ Goto(t, "lock")
    /\ UNCHANGED <<write, read, unread, aborted, n, count>>

\* assert (pthread_mutex_lock (&...)): the lock is free and the call gives 0.
Lock(t) ==
    /\ At(t, "lock")
    /\ IF NDEBUG THEN Goto(t, "clip") /\ UNCHANGED aborted
                 ELSE aborted' = TRUE /\ UNCHANGED pc
    /\ UNCHANGED <<free_space_to_write, avliable_to_read, write, read, unread, n, count>>

\* Mutant of Clip: the writer does not look at the free bytes.
ClipReaderOnly(t) ==
    /\ At(t, "clip")
    /\ n' = [n EXCEPT ![t] = IF t = "writer" THEN 1 ELSE AtMostOne(unread)]
    /\ Goto(t, "move")
    /\ UNCHANGED <<free_space_to_write, avliable_to_read, write, read, unread,
                   aborted, count>>

Clip(t) ==
    /\ At(t, "clip")
    /\ n' = [n EXCEPT ![t] = AtMostOne(IF t = "writer" THEN Capacity - unread ELSE unread)]
    /\ Goto(t, "move")
    /\ UNCHANGED <<free_space_to_write, avliable_to_read, write, read, unread,
                   aborted, count>>

Move(t) ==
    /\ At(t, "move")
    /\ \/ t = "writer" /\ write' = Advance(write, n[t]) /\ UNCHANGED read
       \/ t = "reader" /\ read' = Advance(read, n[t]) /\ UNCHANGED write
    /\ Goto(t, "load")
    /\ UNCHANGED <<free_space_to_write, avliable_to_read, unread, aborted, n, count>>

Load(t) ==
    /\ At(t, "load")
    /\ count' = [count EXCEPT ![t] = unread]
    /\ Goto(t, "store")
    /\ UNCHANGED <<free_space_to_write, avliable_to_read, write, read, unread, aborted, n>>

StoreCount(t) ==
    /\ At(t, "store")
    /\ unread' = IF t = "writer" THEN count[t] + n[t] ELSE count[t] - n[t]
    /\ Goto(t, "post")
    /\ UNCHANGED <<free_space_to_write, avliable_to_read, write, read, aborted, n, count>>

\* Mutant of Post: a thread that moved nothing does not post.
PostIfMoved(t) ==
    /\ At(t, "post")
    /\ \/ /\ t = "writer"
          /\ avliable_to_read' = avliable_to_read + n[t]
          /\ UNCHANGED free_space_to_write
       \/ /\ t = "reader"
          /\ free_space_to_write' = free_space_to_write + n[t]
          /\ UNCHANGED avliable_to_read
    /\ Goto(t, "wait")
    /\ UNCHANGED <<write, read, unread, aborted, n, count>>

\* sem_post, however many bytes the call moved.
Post(t) ==
    /\ At(t, "post")
    /\ \/ /\ t = "writer"
          /\ avliable_to_read' = avliable_to_read + 1
          /\ UNCHANGED free_space_to_write
       \/ /\ t = "reader"
          /\ free_space_to_write' = free_space_to_write + 1
          /\ UNCHANGED avliable_to_read
    /\ Goto(t, "wait")
    /\ UNCHANGED <<write, read, unread, aborted, n, count>>

-----------------------------------------------------------------------------

Step(t) ==
    Wait(t) \/ Lock(t) \/ Clip(t) \/ Move(t) \/ Load(t) \/ StoreCount(t) \/ Post(t)

\* Nothing runs in a program that has aborted.
Next == \E t \in Thread : Step(t)

Spec == Init /\ [][Next]_vars /\ \A t \in Thread : WF_vars(Step(t))

-----------------------------------------------------------------------------
(* Properties *)

\* Every variable has its type; where unread and count are, UnreadInBounds says.
TypeOK ==
    /\ free_space_to_write \in 0..Capacity
    /\ avliable_to_read \in 0..Capacity
    /\ write \in 0..Capacity
    /\ read \in 0..Capacity
    /\ unread \in Int
    /\ pc \in [Thread -> {"wait", "lock", "clip", "move", "load", "store", "post"}]
    /\ aborted \in BOOLEAN
    /\ n \in [Thread -> {0, 1}]
    /\ count \in [Thread -> Int]

\* Lost updates make the count of unread bytes wrong, but with one thread on
\* either side never less than 0, which size_t would turn into a huge count,
\* nor more than the buffer has.
UnreadInBounds == unread \in 0..Capacity

Inside(t) == IF pc[t] = "wait" THEN 0 ELSE 1

\* A byte of the buffer is free, available, or in the hands of one thread.
TokensConserved ==
    free_space_to_write + avliable_to_read + Inside("writer") + Inside("reader") = Capacity

\* Neither thread ever waits for good, even when a count is lost.
BothGoOn == \A t \in Thread : []<>(pc[t] = "post")

\* What the asserts around the calls of the mutexes say.
AssertionsHold == ~aborted
=============================================================================
