---------------------------- MODULE FlagHandoff -----------------------------
(***************************************************************************)
(* Three programs with a number and a flag: the producer prints the        *)
(* number, hands the flag over and increments the number; the consumer     *)
(* prints the number and gives the flag back.  Both poll the flag.         *)
(*                                                                         *)
(*   "a"    producer_consumer/producer_consumer_a.c, for ever;             *)
(*   "ten"  producer_consumer_a/producer_consumer_a.c, until the number    *)
(*          is 10;                                                         *)
(*   "b"    producer_consumer/producer_consumer_b.c, each look at the flag *)
(*          under a mutex, for ever.                                       *)
(*                                                                         *)
(* The programs are compiled without optimisation (-ansi, no -O), so every *)
(* look at the flag or the number is a load.                               *)
(***************************************************************************)
EXTENDS Integers, Sequences

CONSTANT Rounds    \* 10 in "ten"; in "a" and "b" a bound: the producer stops there

Thread == {"producer", "consumer"}

VARIABLES handoff,            \* which of the three programs this is
          g_data_to_shared, g_data_lock,
          data_mutex,         \* its holder, or "nobody"
          pc,                 \* of each thread
          main,
          handed,             \* how often the producer handed over
          printed             \* what the consumer printed

vars == <<handoff, g_data_to_shared, g_data_lock, data_mutex, pc, main, handed, printed>>

Init ==
    /\ handoff \in {"a", "ten", "b"}
    /\ g_data_to_shared = 0
    /\ g_data_lock = "can_write"
    /\ data_mutex = "nobody"
    /\ pc = [t \in Thread |-> "absent"]
    /\ main = "create_producer"
    /\ handed = 0
    /\ printed = <<>>

\* The threads of a process end with main.
At(t, label)   == main # "returned" /\ pc[t] = label
Goto(t, label) == pc' = [pc EXCEPT ![t] = label]

Mine(t) == IF t = "producer" THEN "can_write" ELSE "can_read"

\* Where an iteration of the loop ends.
After == IF handoff = "b" THEN "unlock" ELSE "loop"

-----------------------------------------------------------------------------
(* main *)

\* pthread_create, or its failure: without its producer main returns, without
\* its consumer it waits for the producer first, except in "ten".
CreateThread ==
    /\ main \in {"create_producer", "create_consumer"}
    /\ LET t == IF main = "create_producer" THEN "producer" ELSE "consumer"
       IN \/ /\ Goto(t, "loop")
             /\ main' = IF t = "producer" THEN "create_consumer" ELSE "join"
          \/ /\ main' = IF t = "producer" \/ handoff = "ten" THEN "returned" ELSE "join"
             /\ UNCHANGED pc
    /\ UNCHANGED <<handoff, g_data_to_shared, g_data_lock, data_mutex, handed, printed>>

JoinThreads ==
    /\ main = "join"
    /\ \A t \in Thread : pc[t] \in {"absent", "done"}
    /\ main' = "returned"
    /\ UNCHANGED <<handoff, g_data_to_shared, g_data_lock, data_mutex, pc, handed, printed>>

-----------------------------------------------------------------------------
(* WriteOnGData and ReadGData *)

\* Mutant of Loop: in "ten" the consumer already leaves at the last value.
LoopLeavesEarly(t) ==
    /\ At(t, "loop")
    /\ handoff # "ten" /\ t = "producer" => g_data_to_shared < Rounds
    /\ Goto(t, IF handoff = "ten" /\ g_data_to_shared >= Rounds - 1 /\ t = "consumer"
               THEN "done"
               ELSE IF handoff = "ten" /\ g_data_to_shared >= Rounds THEN "done"
               ELSE IF handoff = "b" THEN "lock" ELSE "test")
    /\ UNCHANGED <<handoff, g_data_to_shared, g_data_lock, data_mutex, main, handed, printed>>

\* The head of the loop.
Loop(t) ==
    /\ At(t, "loop")
    /\ handoff # "ten" /\ t = "producer" => g_data_to_shared < Rounds
    /\ Goto(t, IF handoff = "ten" /\ g_data_to_shared >= Rounds THEN "done"
               ELSE IF handoff = "b" THEN "lock" ELSE "test")
    /\ UNCHANGED <<handoff, g_data_to_shared, g_data_lock, data_mutex, main, handed, printed>>

Lock(t) ==
    /\ At(t, "lock")
    /\ data_mutex = "nobody"
    /\ data_mutex' = t
    /\ Goto(t, "test")
    /\ UNCHANGED <<handoff, g_data_to_shared, g_data_lock, main, handed, printed>>

\* The test of the flag.
Test(t) ==
    /\ At(t, "test")
    /\ Goto(t, IF g_data_lock = Mine(t) THEN "print" ELSE After)
    /\ UNCHANGED <<handoff, g_data_to_shared, g_data_lock, data_mutex, main, handed, printed>>

\* The producer prints a number that only it changes.
HandOver ==
    /\ At("producer", "print")
    /\ g_data_lock' = "can_read"
    /\ handed' = handed + 1
    /\ Goto("producer", "increment")
    /\ UNCHANGED <<handoff, g_data_to_shared, data_mutex, main, printed>>

\* The increment comes after the flag was handed over.
Increment ==
    /\ At("producer", "increment")
    /\ g_data_to_shared' = g_data_to_shared + 1
    /\ Goto("producer", After)
    /\ UNCHANGED <<handoff, g_data_lock, data_mutex, main, handed, printed>>

\* Mutant of PrintNumber: the consumer does not give the flag back.
PrintAndKeep ==
    /\ At("consumer", "print")
    /\ printed' = Append(printed, g_data_to_shared)
    /\ Goto("consumer", After)
    /\ UNCHANGED <<handoff, g_data_to_shared, g_data_lock, data_mutex, main, handed>>

PrintNumber ==
    /\ At("consumer", "print")
    /\ printed' = Append(printed, g_data_to_shared)
    /\ Goto("consumer", "give_back")
    /\ UNCHANGED <<handoff, g_data_to_shared, g_data_lock, data_mutex, main, handed>>

GiveBack ==
    /\ At("consumer", "give_back")
    /\ g_data_lock' = "can_write"
    /\ Goto("consumer", After)
    /\ UNCHANGED <<handoff, g_data_to_shared, data_mutex, main, handed, printed>>

Unlock(t) ==
    /\ At(t, "unlock")
    /\ data_mutex' = "nobody"
    /\ Goto(t, "loop")
    /\ UNCHANGED <<handoff, g_data_to_shared, g_data_lock, main, handed, printed>>

-----------------------------------------------------------------------------

Look(t) == Loop(t) \/ Lock(t) \/ Test(t) \/ Unlock(t)
Write   == Look("producer") \/ HandOver \/ Increment
Read    == Look("consumer") \/ PrintNumber \/ GiveBack
Main    == CreateThread \/ JoinThreads

Stopped == main = "returned" /\ UNCHANGED vars

Next == Main \/ Write \/ Read \/ Stopped

Spec == Init /\ [][Next]_vars

-----------------------------------------------------------------------------
(* Properties *)

\* Every variable has its type.
TypeOK ==
    /\ handoff \in {"a", "ten", "b"}
    /\ g_data_to_shared \in Nat
    /\ g_data_lock \in {"can_write", "can_read"}
    /\ data_mutex \in Thread \cup {"nobody"}
    /\ pc \in [Thread -> {"absent", "loop", "lock", "test", "print", "increment",
                          "give_back", "unlock", "done"}]
    /\ main \in {"create_producer", "create_consumer", "join", "returned"}
    /\ handed \in Nat
    /\ printed \in Seq(Nat)

\* Every number that is handed over is printed once before the next one, and
\* printed as it was when it was handed over or already incremented, because
\* the producer increments it only after the handover; under the mutex of "b"
\* it is always incremented.
EachPrintedOnce ==
    /\ Len(printed) \in {handed - 1, handed}
    /\ \A k \in 1..Len(printed) :
          printed[k] \in (IF handoff = "b" THEN {k} ELSE {k - 1, k})

\* The program with a last number ends: the consumer does not leave before the
\* producer has had back every flag it waits for.  Unless a thread could not be
\* created, the producer has handed over every number by then, and the consumer
\* has printed all of them but perhaps the last.
TenEnds ==
    handoff = "ten" =>
        <>(/\ main = "returned"
           /\ pc["consumer"] # "absent" => handed = Rounds /\ Len(printed) >= Rounds - 1)
=============================================================================
