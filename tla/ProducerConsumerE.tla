------------------------- MODULE ProducerConsumerE --------------------------
(***************************************************************************)
(* producer_consumer/producer_consumer_e.c: several writers and readers of *)
(* one circular list of bytes, one byte at a time, with two semaphores.    *)
(*                                                                         *)
(* The one mutex is locked inside assert, without a comparison: built by   *)
(* the makefile, the first lock returns 0 and ends the program; built with *)
(* NDEBUG there is no lock.  A writer and a reader at once then race only  *)
(* for number_of_unread_bytes, and each access of it is a step.  Two       *)
(* writers at once, or two readers, race for a cursor: what they do to the *)
(* buffer is undefined, and is not followed; so is what a thread does that *)
(* runs on after main has freed the list and destroyed the semaphores.     *)
(***************************************************************************)
EXTENDS Integers, FiniteSets

CONSTANTS Threads,     \* MAX_PRODUCERS and MAX_CONSUMER, both 3 in the code
          Capacity     \* the macro capacity, 20 in the code

Writer == {"writer"} \X (1..Threads)
Reader == {"reader"} \X (1..Threads)
Thread == Writer \cup Reader

VARIABLES ndebug,                \* how the program was built
          write_sem, read_sem,
          write, read,           \* the cursors, as offsets from base
          unread,                \* number_of_unread_bytes
          pc,
          n,                     \* the bytes a thread's call moves, after clipping
          count,                 \* a thread's copy of unread, about to be changed
          main, i,
          frees,                 \* how often the list was freed
          outcome                \* of the process

vars == <<ndebug, write_sem, read_sem, write, read, unread, pc, n, count,
          main, i, frees, outcome>>
semVars  == <<write_sem, read_sem>>
listVars == <<write, read, unread, n, count>>
mainVars == <<ndebug, main, i, frees>>

Init ==
    /\ ndebug \in BOOLEAN
    /\ write_sem = Capacity /\ read_sem = 0
    /\ write = 0 /\ read = 0 /\ unread = 0
    /\ pc = [t \in Thread |-> "absent"]
    /\ n = [t \in Thread |-> 0]
    /\ count = [t \in Thread |-> 0]
    /\ main = "create_writer"
    /\ i = 1
    /\ frees = 0
    /\ outcome = "running"

At(t, label)   == outcome = "running" /\ frees = 0 /\ pc[t] = label
Goto(t, label) == pc' = [pc EXCEPT ![t] = label]

Side(t) == IF t \in Writer THEN Writer ELSE Reader

\* The threads that are in CListWrite or CListRead.
InList == {t \in Thread : pc[t] \in {"clip", "move", "load", "store"}}

Min1(bytes) == IF bytes >= 1 THEN 1 ELSE bytes

\* Mutant of Advance: the cursor wraps one place too late.
AdvanceTooFar(cursor, bytes) ==
    IF cursor + bytes <= Capacity + 1 THEN cursor + bytes
                                      ELSE bytes - (Capacity - cursor)

\* Where a cursor is after a call that moves bytes.
Advance(cursor, bytes) ==
    IF cursor + bytes <= Capacity THEN cursor + bytes
                                  ELSE bytes - (Capacity - cursor)

-----------------------------------------------------------------------------
(* WriteToList and ReadFromList *)

\* sem_wait
Wait(t) ==
    /\ At(t, "wait")
    /\ IF t \in Writer
       THEN write_sem > 0 /\ write_sem' = write_sem - 1 /\ UNCHANGED read_sem
       ELSE read_sem > 0 /\ read_sem' = read_sem - 1 /\ UNCHANGED write_sem
    /\ Goto(t, "lock")
    /\ UNCHANGED <<outcome, listVars, mainVars>>

\* assert(pthread_mutex_lock (&c_list_mutex)), and the call of the list.
Lock(t) ==
    /\ At(t, "lock")
    /\ outcome' = IF ~ndebug THEN "aborted"
                  ELSE IF InList \cap Side(t) # {} THEN "undefined"
                  ELSE "running"
    /\ Goto(t, "clip")
    /\ UNCHANGED <<semVars, listVars, mainVars>>

Clip(t) ==
    /\ At(t, "clip")
    /\ n' = [n EXCEPT ![t] = Min1(IF t \in Writer THEN Capacity - unread ELSE unread)]
    /\ Goto(t, "move")
    /\ UNCHANGED <<write, read, unread, count, outcome, semVars, mainVars>>

Move(t) ==
    /\ At(t, "move")
    /\ write' = IF t \in Writer THEN Advance(write, n[t]) ELSE write
    /\ read' = IF t \in Reader THEN Advance(read, n[t]) ELSE read
    /\ Goto(t, "load")
    /\ UNCHANGED <<unread, n, count, outcome, semVars, mainVars>>

Load(t) ==
    /\ At(t, "load")
    /\ count' = [count EXCEPT ![t] = unread]
    /\ Goto(t, "store")
    /\ UNCHANGED <<write, read, unread, n, outcome, semVars, mainVars>>

\* The store, after which the call returns and its variables are gone.
StoreCount(t) ==
    /\ At(t, "store")
    /\ unread' = IF t \in Writer THEN count[t] + n[t] ELSE count[t] - n[t]
    /\ n' = [n EXCEPT ![t] = 0]
    /\ count' = [count EXCEPT ![t] = 0]
    /\ Goto(t, "post")
    /\ UNCHANGED <<write, read, outcome, semVars, mainVars>>

\* sem_post to the other side, and assert(pthread_mutex_unlock (...)).
Post(t) ==
    /\ At(t, "post")
    /\ IF t \in Writer THEN read_sem' = read_sem + 1 /\ UNCHANGED write_sem
                       ELSE write_sem' = write_sem + 1 /\ UNCHANGED read_sem
    /\ Goto(t, "wait")
    /\ UNCHANGED <<outcome, listVars, mainVars>>

\* A thread that runs on after Destroy: wherever it is, the list or the
\* semaphore it uses next is gone.  Only the assert comes before that.
AfterDestroy(t) ==
    /\ outcome = "running" /\ frees > 0 /\ pc[t] # "absent"
    /\ outcome' = IF ~ndebug /\ pc[t] = "lock" THEN "aborted" ELSE "undefined"
    /\ UNCHANGED <<pc, semVars, listVars, mainVars>>

-----------------------------------------------------------------------------
(* main *)

\* Destroy, from any of its three callers.
Destroy == frees' = frees + 1

\* CreateThreads: the next thread starts, or pthread_create fails.
CreateThread ==
    /\ outcome = "running"
    /\ main \in {"create_writer", "create_reader"}
    /\ LET t == <<IF main = "create_writer" THEN "writer" ELSE "reader", i>>
       IN \/ /\ Goto(t, "wait")
             /\ main' = IF t \in Writer THEN "create_reader"
                        ELSE IF i < Threads THEN "create_writer" ELSE "join"
             /\ i' = IF t \in Reader /\ i < Threads THEN i + 1 ELSE i
             /\ UNCHANGED frees
          \/ /\ Destroy
             /\ main' = "join"
             /\ UNCHANGED <<pc, i>>
    /\ UNCHANGED <<ndebug, outcome, semVars, listVars>>

\* JoinThreads waits for the first writer, which does not return.  If that was
\* never created its handle is uninitialised: the join may block for ever, or
\* fail, and the list is destroyed again.
JoinThreads ==
    /\ outcome = "running" /\ main = "join"
    /\ pc[<<"writer", 1>>] = "absent"
    /\ \/ Destroy /\ outcome' = "undefined"
       \/ outcome' = "blocked" /\ UNCHANGED frees
    /\ UNCHANGED <<ndebug, pc, main, i, semVars, listVars>>

-----------------------------------------------------------------------------

Step(t) ==
    Wait(t) \/ Lock(t) \/ Clip(t) \/ Move(t) \/ Load(t) \/ StoreCount(t) \/ Post(t)

\* The process is gone; or a thread could not be created, main waits for the
\* others, and they for a semaphore that was destroyed.
Stopped == (outcome # "running" \/ frees > 0) /\ UNCHANGED vars

Next ==
    \/ \E t \in Thread : Step(t) \/ AfterDestroy(t)
    \/ CreateThread \/ JoinThreads
    \/ Stopped

Spec == Init /\ [][Next]_vars

-----------------------------------------------------------------------------
(* Properties *)

\* Every variable has its type.
TypeOK ==
    /\ ndebug \in BOOLEAN
    /\ write_sem \in 0..Capacity /\ read_sem \in 0..Capacity
    /\ write \in Nat /\ read \in Nat /\ unread \in Int
    /\ pc \in [Thread -> {"absent", "wait", "lock", "clip", "move", "load", "store", "post"}]
    /\ n \in [Thread -> Int] /\ count \in [Thread -> Int]
    /\ main \in {"create_writer", "create_reader", "join"}
    /\ i \in 1..Threads
    /\ frees \in Nat
    /\ outcome \in {"running", "aborted", "undefined", "blocked"}

\* As long as no two threads of the same side were in the list at once, and no
\* thread ran on after a failed pthread_create had the list freed, the lock
\* that NDEBUG takes away is not missed: the cursors stay in the buffer, the
\* count within the capacity, and every byte of the buffer is free, available
\* or in the hands of one thread.
OnlyOwnSideRaces ==
    outcome = "running" =>
        /\ write \in 0..Capacity /\ read \in 0..Capacity
        /\ unread \in 0..Capacity
        /\ write_sem + read_sem +
              Cardinality({t \in Thread : pc[t] \notin {"absent", "wait"}}) = Capacity
=============================================================================
