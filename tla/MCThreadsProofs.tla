--------------------------- MODULE MCThreadsProofs --------------------------
(***************************************************************************)
(* Proofs about MCThreads, for any number of threads, rounds and items and *)
(* any capacity: the programs that take turns by a flag, poll a list, use  *)
(* a buffer without its lock, count the pages of a file, add up divisors,  *)
(* or sort lines.                                                          *)
(*                                                                         *)
(* A step is one of the program that runs and leaves the variables of the  *)
(* others alone, so each program has an inductive invariant of its own.    *)
(***************************************************************************)
EXTENDS MCThreads, FunctionTheorems, SequenceTheorems, FiniteSetTheorems, WellFoundedInduction,
        TLAPS

\* What a step of MCThreads is for each of the programs.
LEMMA StepOfOne ==
    ASSUME [Next]_vars
    PROVE  /\ H!Next \/ UNCHANGED histogram
           /\ S!Next \/ UNCHANGED sort
           /\ D!Next \/ UNCHANGED divisors
           /\ A!Next \/ UNCHANGED flag
           /\ C!Next \/ UNCHANGED polling
           /\ E!Next \/ UNCHANGED unlocked
  BY DEF Next, vars

-----------------------------------------------------------------------------
(* FlagHandoff: the flag alone does not say whose turn it is, because the  *)
(* consumer may have given it back between the handover and the increment. *)
(* What is inductive ties the number, the count of handovers and the       *)
(* length of what was printed to where both threads are.                   *)

\* The number lags behind only until the increment; whoever is past the test
\* of the flag finds it as it was; the printed numbers lag behind only while
\* the flag is with the consumer and it has not printed.
FlagTurns ==
    /\ g_data_to_shared = IF a_pc["producer"] = "increment" THEN handed - 1 ELSE handed
    /\ a_pc["producer"] = "print" => g_data_lock = "can_write"
    /\ a_pc["consumer"] \in {"print", "give_back"} => g_data_lock = "can_read"
    /\ Len(printed) = IF g_data_lock = "can_read" /\ a_pc["consumer"] # "give_back"
                      THEN handed - 1 ELSE handed

\* What was printed was handed over, and in "b" incremented as well.
FlagPrinted ==
    \A k \in 1..Len(printed) :
        printed[k] \in (IF handoff = "b" THEN {k} ELSE {k - 1, k})

\* In "b" the mutex is held from the test to the end of the iteration.
FlagLocked ==
    handoff = "b" =>
        \A t \in A!Thread :
            a_pc[t] \in {"test", "print", "increment", "give_back", "unlock"} => data_mutex = t

\* A thread that main is still to create has not started.
FlagNotYetCreated ==
    /\ a_main = "create_producer" => a_pc["producer"] = "absent"
    /\ a_main \in {"create_producer", "create_consumer"} => a_pc["consumer"] = "absent"

FlagInv == A!TypeOK /\ FlagTurns /\ FlagPrinted /\ FlagLocked /\ FlagNotYetCreated

\* What moving a thread to another label does to pc.
LEMMA FlagMoves ==
    ASSUME A!TypeOK, NEW t \in A!Thread, NEW label, A!Goto(t, label)
    PROVE  /\ a_pc'[t] = label
           /\ \A u \in A!Thread \ {t} : a_pc'[u] = a_pc[u]
  BY DEF A!TypeOK, A!Goto

\* At the start nothing was handed over and nobody runs.
LEMMA FlagInit == A!Init => FlagInv
  <1>. SUFFICES ASSUME A!Init PROVE FlagInv
    OBVIOUS
  <1>1. A!TypeOK
    BY DEF A!Init, A!TypeOK, A!Thread
  <1>2. FlagTurns
    BY DEF A!Init, FlagTurns, A!Thread
  <1>3. FlagPrinted /\ FlagLocked /\ FlagNotYetCreated
    BY DEF A!Init, FlagPrinted, FlagLocked, FlagNotYetCreated, A!Thread
  <1>. QED BY <1>1, <1>2, <1>3 DEF FlagInv

\* A step of main starts a thread that is in no turn yet, or changes nothing
\* of the handover.
LEMMA FlagMain ==
    ASSUME FlagInv, A!Main
    PROVE  FlagInv'
  <1>. USE DEF FlagInv, A!Thread
  <1>1. CASE A!CreateThread
    <2>1. A!TypeOK'
      BY <1>1 DEF A!CreateThread, A!TypeOK, A!Goto
    <2>2. FlagTurns' /\ FlagPrinted'
      BY <1>1 DEF A!CreateThread, A!TypeOK, A!Goto, FlagTurns, FlagPrinted,
                  FlagNotYetCreated
    <2>3. FlagLocked' /\ FlagNotYetCreated'
      BY <1>1 DEF A!CreateThread, A!TypeOK, A!Goto, FlagLocked, FlagNotYetCreated
    <2>. QED BY <2>1, <2>2, <2>3
  <1>2. CASE A!JoinThreads
    BY <1>2 DEF A!JoinThreads, A!TypeOK, FlagTurns, FlagPrinted, FlagLocked,
                FlagNotYetCreated
  <1>. QED BY <1>1, <1>2 DEF A!Main

\* Looking at the flag and taking or releasing the mutex changes no number.
LEMMA FlagLook ==
    ASSUME FlagInv, NEW t \in A!Thread, A!Look(t)
    PROVE  FlagInv'
  <1>. USE DEF FlagInv, A!Thread
  <1>1. CASE A!Loop(t)
    BY <1>1 DEF A!Loop, A!At, A!Goto, A!TypeOK, FlagTurns, FlagPrinted, FlagLocked,
                FlagNotYetCreated
  <1>2. CASE A!Lock(t)
    BY <1>2 DEF A!Lock, A!At, A!Goto, A!TypeOK, FlagTurns, FlagPrinted, FlagLocked,
                FlagNotYetCreated
  <1>3. CASE A!Test(t)
    BY <1>3 DEF A!Test, A!At, A!Goto, A!After, A!Mine, A!TypeOK, FlagTurns, FlagPrinted,
                FlagLocked, FlagNotYetCreated
  <1>4. CASE A!Unlock(t)
    BY <1>4 DEF A!Unlock, A!At, A!Goto, A!TypeOK, FlagTurns, FlagPrinted, FlagLocked,
                FlagNotYetCreated
  <1>. QED BY <1>1, <1>2, <1>3, <1>4 DEF A!Look

\* The producer's two steps: first the handover, then the increment.
LEMMA FlagWrite ==
    ASSUME FlagInv, A!HandOver \/ A!Increment
    PROVE  FlagInv'
  <1>. USE DEF FlagInv, A!Thread
  <1>1. CASE A!HandOver
    BY <1>1 DEF A!HandOver, A!At, A!Goto, A!TypeOK, FlagTurns, FlagPrinted, FlagLocked,
                FlagNotYetCreated
  <1>2. CASE A!Increment
    <2>1. a_pc["producer"] = "increment" /\ a_pc'["consumer"] = a_pc["consumer"]
      BY <1>2 DEF A!Increment, A!At, A!Goto, A!TypeOK
    <2>2. a_pc'["producer"] \in {"loop", "unlock"} /\ (a_pc'["producer"] = "unlock" => handoff = "b")
      BY <1>2 DEF A!Increment, A!Goto, A!After, A!TypeOK
    <2>3. g_data_to_shared' = handed
      BY <1>2, <2>1 DEF A!Increment, A!TypeOK, FlagTurns
    <2>4. A!TypeOK'
      BY <1>2 DEF A!Increment, A!Goto, A!After, A!TypeOK
    <2>5. FlagTurns' /\ FlagPrinted'
      BY <1>2, <2>1, <2>2, <2>3 DEF A!Increment, FlagTurns, FlagPrinted
    <2>6. FlagLocked' /\ FlagNotYetCreated'
      BY <1>2, <2>1, <2>2 DEF A!Increment, FlagLocked, FlagNotYetCreated
    <2>. QED BY <2>4, <2>5, <2>6
  <1>. QED BY <1>1, <1>2

\* What the consumer prints is the number of the last handover: it is at the
\* print only while the flag is its own.
LEMMA FlagPrint ==
    ASSUME FlagInv, A!PrintNumber
    PROVE  FlagInv'
  <1>. USE DEF FlagInv, A!Thread
  <1>1. /\ a_pc["consumer"] = "print" /\ g_data_lock = "can_read"
        /\ g_data_to_shared \in Nat /\ handed \in Nat /\ printed \in Seq(Nat)
    BY DEF A!PrintNumber, A!At, A!TypeOK, FlagTurns
  <1>2. /\ printed' \in Seq(Nat)
        /\ Len(printed') = Len(printed) + 1
        /\ \A k \in 1..Len(printed) : printed'[k] = printed[k]
        /\ printed'[Len(printed) + 1] = g_data_to_shared
    BY <1>1 DEF A!PrintNumber
  <1>3. /\ a_pc'["consumer"] = "give_back" /\ a_pc'["producer"] = a_pc["producer"]
        /\ UNCHANGED <<handoff, g_data_to_shared, g_data_lock, data_mutex, a_main, handed>>
    BY DEF A!PrintNumber, A!Goto, A!TypeOK
  <1>4. A!TypeOK'
    BY <1>2 DEF A!PrintNumber, A!Goto, A!TypeOK
  <1>5. Len(printed) = handed - 1 /\ Len(printed) \in Nat
    BY <1>1 DEF FlagTurns
  <1>6. FlagTurns'
    BY <1>1, <1>2, <1>3, <1>5 DEF FlagTurns
  <1>7. g_data_to_shared \in (IF handoff = "b" THEN {handed} ELSE {handed - 1, handed})
    <2>1. g_data_to_shared \in {handed - 1, handed}
      BY DEF FlagTurns
    <2>2. handoff = "b" => a_pc["producer"] # "increment"
      BY <1>1 DEF FlagLocked
    <2>. QED BY <2>1, <2>2 DEF FlagTurns
  <1>8. FlagPrinted'
    <2>. SUFFICES ASSUME NEW k \in 1..Len(printed')
                  PROVE  printed'[k] \in (IF handoff = "b" THEN {k} ELSE {k - 1, k})
      BY <1>3 DEF FlagPrinted
    <2>1. CASE k \in 1..Len(printed)
      BY <2>1, <1>2 DEF FlagPrinted
    <2>2. CASE k = handed
      BY <2>2, <1>2, <1>5, <1>7
    <2>3. Len(printed') = handed /\ k \in 1..handed
      BY <1>1, <1>2, <1>5
    <2>. QED BY <2>1, <2>2, <2>3, <1>1, <1>5
  <1>9. FlagLocked' /\ FlagNotYetCreated'
    BY <1>1, <1>3 DEF FlagLocked, FlagNotYetCreated
  <1>. QED BY <1>4, <1>6, <1>8, <1>9

\* The flag comes back only after the print.
LEMMA FlagGiveBack ==
    ASSUME FlagInv, A!GiveBack
    PROVE  FlagInv'
  BY DEF FlagInv, A!Thread, A!GiveBack, A!At, A!Goto, A!After, A!TypeOK, FlagTurns,
         FlagPrinted, FlagLocked, FlagNotYetCreated

LEMMA FlagNext == FlagInv /\ (A!Next \/ UNCHANGED flag) => FlagInv'
  <1>. SUFFICES ASSUME FlagInv, (A!Next \/ UNCHANGED flag) PROVE FlagInv'
    OBVIOUS
  <1>1. CASE A!Main
    BY <1>1, FlagMain
  <1>2. CASE A!Write
    BY <1>2, FlagLook, FlagWrite DEF A!Write, A!Thread
  <1>3. CASE A!Read
    BY <1>3, FlagLook, FlagPrint, FlagGiveBack DEF A!Read, A!Thread
  <1>4. CASE UNCHANGED flag
    BY <1>4 DEF flag, FlagInv, A!TypeOK, FlagTurns, FlagPrinted, FlagLocked,
                FlagNotYetCreated
  <1>. QED BY <1>1, <1>2, <1>3, <1>4 DEF A!Next, A!Stopped, A!vars, flag

\* In all three programs no handover is printed twice or, but perhaps for the
\* last, not at all, and they are printed in order, for any number of rounds:
\* the polling of one flag is enough, with or without the mutex, and only "b"
\* fixes which number is printed.
THEOREM PrintsEveryHandover == Spec => []EachPrintedOnce
  <1>1. Init => FlagInv
    BY FlagInit DEF Init
  <1>2. FlagInv /\ [Next]_vars => FlagInv'
    BY StepOfOne, FlagNext
  <1>3. FlagInv => EachPrintedOnce
    <2>. SUFFICES ASSUME FlagInv PROVE EachPrintedOnce
      OBVIOUS
    <2>1. Len(printed) \in {handed - 1, handed}
      BY DEF FlagInv, FlagTurns
    <2>. QED BY <2>1 DEF FlagInv, FlagPrinted, EachPrintedOnce, A!EachPrintedOnce
  <1>. QED BY <1>1, <1>2, <1>3, PTL DEF Spec

-----------------------------------------------------------------------------
(* ProducerConsumerC: a failed pthread_create stays failed, so the         *)
(* inductive invariant describes only the states without one: there the    *)
(* list is alive, the mutex is held from the look at the list to the pop,  *)
(* and main never gets past the join of the first producer.                *)

PollingLabel == {"absent", "lock", "push", "look", "pop", "unlock"}

\* Only the holder of the mutex is between its lock and its unlock.
PollingLocked ==
    \A t \in C!Thread : c_pc[t] \in {"push", "look", "pop", "unlock"} => doubly_ll_mutex = t

\* A consumer that is about to pop has seen an item that nobody else can take.
SeenItem == \A t \in C!Thread : c_pc[t] = "pop" => size > 0

\* Main creates threads or waits for the first producer, which it created first.
PollingCreating ==
    /\ c_main \in {"create_producer", "create_consumer", "join"}
    /\ c_i \in 1..Threads
    /\ c_pc[<<"producer", 1>>] = "absent" => c_main = "create_producer" /\ c_i = 1

PollingGood ==
    /\ list = "alive" /\ c_outcome = "running"
    /\ size \in Nat
    /\ c_pc \in [C!Thread -> PollingLabel]
    /\ PollingLocked /\ SeenItem /\ PollingCreating

PollingInv == create_failed = TRUE \/ PollingGood

\* The first producer is a thread.
LEMMA PollingThreads ==
    /\ <<"producer", 1>> \in C!Producer
    /\ C!Producer \subseteq C!Thread /\ C!Consumer \subseteq C!Thread
    /\ C!Nobody \notin C!Thread
  BY ThreadsAssumption DEF C!Producer, C!Consumer, C!Thread, C!Nobody

\* What moving a thread that was created does to pc.
LEMMA PollingMoves ==
    ASSUME c_pc \in [C!Thread -> PollingLabel], NEW t \in C!Thread, NEW label \in PollingLabel,
           C!Goto(t, label)
    PROVE  /\ c_pc' \in [C!Thread -> PollingLabel]
           /\ c_pc'[t] = label
           /\ \A u \in C!Thread \ {t} : c_pc'[u] = c_pc[u]
  BY DEF C!Goto

LEMMA PollingInit ==
    ASSUME C!Init
    PROVE  PollingInv
  <1>1. c_pc \in [C!Thread -> PollingLabel]
    BY DEF C!Init, PollingLabel
  <1>2. PollingLocked /\ SeenItem
    BY DEF C!Init, PollingLocked, SeenItem
  <1>3. PollingCreating
    BY PollingThreads, ThreadsAssumption DEF C!Init, PollingCreating
  <1>. QED BY <1>1, <1>2, <1>3 DEF C!Init, PollingInv, PollingGood

\* A thread takes the free mutex.
LEMMA PollingLock ==
    ASSUME PollingGood, NEW t \in C!Thread, C!Lock(t)
    PROVE  PollingGood'
  <1>. USE DEF PollingGood
  <1>1. PICK label \in {"push", "look"} : C!Goto(t, label)
    BY DEF C!Lock
  <1>2. /\ c_pc' \in [C!Thread -> PollingLabel] /\ c_pc'[t] = label
        /\ \A u \in C!Thread \ {t} : c_pc'[u] = c_pc[u]
    BY <1>1, PollingMoves DEF PollingLabel
  <1>3. PollingLocked'
    BY <1>2, PollingThreads DEF PollingLocked, C!Lock
  <1>4. SeenItem'
    BY <1>2 DEF SeenItem, C!Lock
  <1>5. PollingCreating'
    BY <1>2, PollingThreads DEF PollingCreating, C!Lock, C!mainVars
  <1>. QED BY <1>2, <1>3, <1>4, <1>5 DEF C!Lock, C!mainVars

\* A thread that holds the mutex moves on and keeps it, or releases it last.
LEMMA PollingHolder ==
    ASSUME PollingGood, NEW t \in C!Thread, NEW label \in PollingLabel \ {"absent"},
           C!Goto(t, label), c_pc[t] \in {"push", "look", "pop", "unlock"},
           UNCHANGED <<c_outcome, C!mainVars>>, size' \in Nat,
           \/ doubly_ll_mutex' = t
           \/ label = "lock",
           label = "pop" => size' > 0
    PROVE  PollingGood'
  <1>. USE DEF PollingGood
  <1>1. /\ c_pc' \in [C!Thread -> PollingLabel] /\ c_pc'[t] = label
        /\ \A u \in C!Thread \ {t} : c_pc'[u] = c_pc[u]
    BY PollingMoves
  <1>2. \A u \in C!Thread \ {t} : c_pc[u] \notin {"push", "look", "pop", "unlock"}
    BY DEF PollingLocked
  <1>3. PollingLocked' /\ SeenItem'
    BY <1>1, <1>2 DEF PollingLocked, SeenItem
  <1>4. PollingCreating'
    BY <1>1, PollingThreads DEF PollingCreating, C!mainVars
  <1>. QED BY <1>1, <1>3, <1>4 DEF C!mainVars

\* What a thread does with the list it has locked.
LEMMA PollingThread ==
    ASSUME PollingGood, NEW t \in C!Thread,
           \/ C!Unlock(t)
           \/ t \in C!Producer /\ C!Push(t)
           \/ t \in C!Consumer /\ (C!Look(t) \/ C!Pop(t))
    PROVE  PollingGood'
  <1>1. list = "alive" /\ c_outcome = "running" /\ size \in Nat
    BY DEF PollingGood
  <1>2. doubly_ll_mutex = t \/ c_pc[t] \notin {"push", "look", "pop", "unlock"}
    BY DEF PollingGood, PollingLocked
  <1>3. CASE C!Unlock(t)
    BY <1>1, <1>3, PollingHolder DEF C!Unlock, C!At, PollingLabel
  <1>4. CASE C!Push(t)
    <2>1. size' \in {size, size + 1} /\ C!Goto(t, "unlock") /\ UNCHANGED c_outcome
      BY <1>1, <1>4 DEF C!Push, C!UseDeadList
    <2>. QED BY <1>1, <1>2, <1>4, <2>1, PollingHolder DEF C!Push, C!At, PollingLabel
  <1>5. CASE C!Look(t)
    <2>1. /\ C!Goto(t, IF size = 0 THEN "unlock" ELSE "pop")
          /\ UNCHANGED <<size, c_outcome>>
      BY <1>1, <1>5 DEF C!Look, C!UseDeadList
    <2>2. PICK label \in {"unlock", "pop"} :
              C!Goto(t, label) /\ (label = "pop" => size > 0)
      BY <1>1, <2>1
    <2>. QED BY <1>1, <1>2, <1>5, <2>1, <2>2, PollingHolder DEF C!Look, C!At, PollingLabel
  <1>6. CASE C!Pop(t)
    <2>1. size > 0
      BY <1>6 DEF PollingGood, SeenItem, C!Pop, C!At
    <2>2. size' = size - 1 /\ c_outcome' = "running" /\ C!Goto(t, "unlock")
      BY <1>1, <1>6, <2>1 DEF C!Pop, C!UseDeadList
    <2>. QED BY <1>1, <1>2, <1>6, <2>1, <2>2, PollingHolder DEF C!Pop, C!At, PollingLabel
  <1>. QED BY <1>3, <1>4, <1>5, <1>6

\* Main creates the next thread, or fails to; it cannot join the first
\* producer.
LEMMA PollingMain ==
    ASSUME PollingGood, C!Main
    PROVE  PollingInv'
  <1>. USE DEF PollingGood
  <1>1. CASE C!CreateThread
    <2>. DEFINE t == <<IF c_main = "create_producer" THEN "producer" ELSE "consumer", c_i>>
    <2>1. CASE create_failed' = TRUE
      BY <2>1 DEF PollingInv
    <2>2. CASE /\ C!Goto(t, "lock")
               /\ c_main' = IF t \in C!Producer THEN "create_consumer"
                          ELSE IF c_i < Threads THEN "create_producer" ELSE "join"
               /\ c_i' = IF t \in C!Consumer /\ c_i < Threads THEN c_i + 1 ELSE c_i
      <3>1. t \in C!Thread /\ (t \in C!Producer <=> c_main = "create_producer")
            /\ (t \in C!Consumer <=> c_main # "create_producer")
        BY DEF PollingCreating, C!Thread, C!Producer, C!Consumer
      <3>2. /\ c_pc' \in [C!Thread -> PollingLabel] /\ c_pc'[t] = "lock"
            /\ \A u \in C!Thread \ {t} : c_pc'[u] = c_pc[u]
        BY <2>2, <3>1, PollingMoves DEF PollingLabel
      <3>3. UNCHANGED <<list, size, doubly_ll_mutex, c_outcome>>
        BY <1>1 DEF C!CreateThread
      <3>4. PollingLocked' /\ SeenItem'
        BY <3>2, <3>3 DEF PollingLocked, SeenItem
      <3>5. c_i' \in 1..Threads /\ c_main' \in {"create_producer", "create_consumer", "join"}
        BY <2>2, <3>1, ThreadsAssumption DEF PollingCreating
      <3>6. c_pc'[<<"producer", 1>>] # "absent"
        <4>1. CASE c_main = "create_producer" /\ c_i = 1
          BY <4>1, <3>2
        <4>2. CASE c_pc[<<"producer", 1>>] # "absent"
          BY <4>2, <3>2, PollingThreads
        <4>. QED BY <4>1, <4>2 DEF PollingCreating
      <3>. QED BY <3>2, <3>3, <3>4, <3>5, <3>6 DEF PollingInv, PollingCreating
    <2>. QED BY <1>1, <2>1, <2>2 DEF C!CreateThread
  <1>2. CASE C!DLLDestroy \/ C!ClearList
    BY <1>2 DEF C!DLLDestroy, C!ClearList, PollingCreating
  <1>3. CASE C!JoinThreads
    BY <1>3 DEF C!JoinThreads, PollingCreating
  <1>. QED BY <1>1, <1>2, <1>3 DEF C!Main

LEMMA PollingNext ==
    ASSUME PollingInv, C!Next \/ UNCHANGED polling
    PROVE  PollingInv'
  <1>1. CASE create_failed = TRUE
    BY <1>1 DEF PollingInv, C!Next, C!Lock, C!Unlock, C!Push, C!Look, C!Pop, C!Main,
                C!CreateThread, C!DLLDestroy, C!vars,
                C!ClearList, C!JoinThreads, C!Stopped, polling, C!mainVars
  <1>2. CASE PollingGood
    <2>1. CASE \E t \in C!Thread : C!Lock(t)
      BY <1>2, <2>1, PollingLock DEF PollingInv
    <2>2. CASE \/ \E t \in C!Thread : C!Unlock(t)
               \/ \E p \in C!Producer : C!Push(p)
               \/ \E c \in C!Consumer : C!Look(c) \/ C!Pop(c)
      BY <1>2, <2>2, PollingThread, PollingThreads DEF PollingInv
    <2>3. CASE C!Main
      BY <1>2, <2>3, PollingMain
    <2>4. CASE UNCHANGED polling
      BY <1>2, <2>4 DEF polling, PollingInv, PollingGood, PollingLocked, SeenItem,
                        PollingCreating
    <2>. QED BY <2>1, <2>2, <2>3, <2>4 DEF C!Next, C!Stopped, C!vars, polling
  <1>. QED BY <1>1, <1>2 DEF PollingInv

\* As long as every thread could be created no consumer pops an empty list and
\* nobody uses one that is gone, for any number of threads and items and
\* whichever allocations fail.
THEOREM OnlyFailedCreateEnds == Spec => []OnlyCreateFailureEnds
  <1>1. Init => PollingInv
    BY PollingInit DEF Init
  <1>2. PollingInv /\ [Next]_vars => PollingInv'
    BY StepOfOne, PollingNext
  <1>3. PollingInv => OnlyCreateFailureEnds
    BY DEF PollingInv, PollingGood, OnlyCreateFailureEnds, C!OnlyCreateFailureEnds
  <1>. QED BY <1>1, <1>2, <1>3, PTL DEF Spec

-----------------------------------------------------------------------------
(* ProducerConsumerE: with one writer and one reader in the list each has  *)
(* a count that is out of date in one direction only, as in                *)
(* ProducerConsumerF, and the semaphores count the threads between their   *)
(* wait and their post.                                                    *)

UnlockedLabel == {"absent", "wait", "lock", "clip", "move", "load", "store", "post"}

\* The types, and the cursors and the count within the buffer.
UnlockedRanges ==
    /\ e_pc \in [E!Thread -> UnlockedLabel]
    /\ n \in [E!Thread -> Int] /\ count \in [E!Thread -> Int]
    /\ e_main \in {"create_writer", "create_reader", "join"} /\ e_i \in 1..Threads
    /\ write_sem \in Nat /\ read_sem \in Nat
    /\ write \in 0..Capacity /\ read \in 0..Capacity /\ unread \in 0..Capacity

\* Two threads of one side in the list at once would have ended the run.
OneOfASide ==
    e_outcome = "running" =>
        \A t, u \in E!InList : (t \in E!Writer <=> u \in E!Writer) => t = u

\* Between its clipping and its load a thread finds room for what it moves.
RoomBefore ==
    \A t \in E!Thread :
        e_outcome = "running" /\ e_pc[t] \in {"move", "load"} =>
            /\ n[t] \in {0, 1}
            /\ IF t \in E!Writer THEN unread + n[t] <= Capacity ELSE n[t] <= unread

\* Between its load and its store its count is too high for a writer, and too
\* low for a reader, or right.
StaleCounts ==
    \A t \in E!Thread :
        e_outcome = "running" /\ e_pc[t] = "store" =>
            /\ n[t] \in {0, 1}
            /\ IF t \in E!Writer THEN unread <= count[t] /\ count[t] + n[t] <= Capacity
                                 ELSE count[t] <= unread /\ n[t] <= count[t]

\* The threads that have taken from a semaphore and not given to the other.
Busy == {t \in E!Thread : e_pc[t] \notin {"absent", "wait"}}

TokensInUse == write_sem + read_sem + Cardinality(Busy) = Capacity

UnlockedInv == UnlockedRanges /\ OneOfASide /\ RoomBefore /\ StaleCounts /\ TokensInUse

\* There are finitely many threads, so that one more or less can be counted.
LEMMA UnlockedThreads ==
    /\ \A k \in 1..Threads : <<"writer", k>> \in E!Writer /\ <<"reader", k>> \in E!Reader
    /\ E!Thread = E!Writer \cup E!Reader
    /\ E!Writer \cap E!Reader = {}
    /\ IsFiniteSet(E!Thread)
  <1>1. IsFiniteSet(1..Threads) /\ IsFiniteSet({"writer"}) /\ IsFiniteSet({"reader"})
    <2>1. 1 \in Int /\ Threads \in Int
      BY ThreadsAssumption
    <2>. QED BY <2>1, FS_Interval, FS_Singleton
  <1>2. IsFiniteSet(E!Writer) /\ IsFiniteSet(E!Reader)
    BY <1>1, FS_Product DEF E!Writer, E!Reader
  <1>3. IsFiniteSet(E!Thread)
    BY <1>2, FS_Union DEF E!Thread
  <1>. QED BY <1>3 DEF E!Thread, E!Writer, E!Reader

LEMMA BusyCount == IsFiniteSet(Busy) /\ Cardinality(Busy) \in Nat
  <1>1. Busy \subseteq E!Thread
    BY DEF Busy
  <1>. QED BY <1>1, UnlockedThreads, FS_Subset, FS_CardinalityType

\* What moving a thread to another label does to pc and to who is where.
LEMMA UnlockedMoves ==
    ASSUME e_pc \in [E!Thread -> UnlockedLabel], NEW t \in E!Thread,
           NEW label \in UnlockedLabel, E!Goto(t, label)
    PROVE  /\ e_pc' \in [E!Thread -> UnlockedLabel]
           /\ e_pc'[t] = label
           /\ \A u \in E!Thread \ {t} : e_pc'[u] = e_pc[u]
           /\ label \in {"absent", "wait"} => Busy' = Busy \ {t}
           /\ label \notin {"absent", "wait"} => Busy' = Busy \cup {t}
           /\ label \in {"clip", "move", "load", "store"} => E!InList' = E!InList \cup {t}
           /\ label \notin {"clip", "move", "load", "store"} => E!InList' = E!InList \ {t}
  <1>1. /\ e_pc' \in [E!Thread -> UnlockedLabel]
        /\ e_pc'[t] = label
        /\ \A u \in E!Thread \ {t} : e_pc'[u] = e_pc[u]
    BY DEF E!Goto
  <1>2. /\ label \in {"absent", "wait"} => Busy' = Busy \ {t}
        /\ label \notin {"absent", "wait"} => Busy' = Busy \cup {t}
    BY <1>1 DEF Busy
  <1>3. /\ label \in {"clip", "move", "load", "store"} => E!InList' = E!InList \cup {t}
        /\ label \notin {"clip", "move", "load", "store"} => E!InList' = E!InList \ {t}
    BY <1>1 DEF E!InList
  <1>. QED BY <1>1, <1>2, <1>3

\* A cursor stays in the buffer when at most one byte is moved.
LEMMA AdvanceInBuffer ==
    \A c \in 0..Capacity, b \in {0, 1} : E!Advance(c, b) \in 0..Capacity
  BY ThreadsAssumption DEF E!Advance

\* At the start nobody is in the list, and all tokens are with the writers.
LEMMA UnlockedInit == E!Init => UnlockedInv
  <1>. SUFFICES ASSUME E!Init PROVE UnlockedInv
    OBVIOUS
  <1>1. UnlockedRanges
    BY ThreadsAssumption DEF E!Init, UnlockedRanges, UnlockedLabel
  <1>2. \A t \in E!Thread : e_pc[t] = "absent"
    BY DEF E!Init
  <1>3. OneOfASide /\ RoomBefore /\ StaleCounts
    BY <1>2 DEF OneOfASide, RoomBefore, StaleCounts, E!InList
  <1>4. Busy = {}
    BY <1>2 DEF Busy
  <1>5. TokensInUse
    BY <1>4, FS_EmptySet, ThreadsAssumption DEF E!Init, TokensInUse
  <1>. QED BY <1>1, <1>3, <1>5 DEF UnlockedInv

\* A step of a thread that leaves the list alone changes nothing of those in it.
LEMMA OutsideTheList ==
    ASSUME UnlockedInv, NEW t \in E!Thread, NEW label \in {"wait", "lock"}, E!Goto(t, label),
           UNCHANGED <<n, count, unread, e_outcome>>
    PROVE  OneOfASide' /\ RoomBefore' /\ StaleCounts'
  <1>1. /\ e_pc'[t] = label
        /\ \A u \in E!Thread \ {t} : e_pc'[u] = e_pc[u]
        /\ E!InList' = E!InList \ {t}
    BY UnlockedMoves DEF UnlockedInv, UnlockedRanges, UnlockedLabel
  <1>2. OneOfASide'
    BY <1>1 DEF UnlockedInv, OneOfASide
  <1>3. RoomBefore'
    BY <1>1 DEF UnlockedInv, RoomBefore
  <1>4. StaleCounts'
    BY <1>1 DEF UnlockedInv, StaleCounts
  <1>. QED BY <1>2, <1>3, <1>4

\* sem_wait takes the token that the thread then is.
LEMMA UnlockedWait ==
    ASSUME UnlockedInv, NEW t \in E!Thread, E!Wait(t)
    PROVE  UnlockedInv'
  <1>. USE DEF E!Wait, E!semVars, E!listVars, E!mainVars
  <1>1. OneOfASide' /\ RoomBefore' /\ StaleCounts'
    BY OutsideTheList
  <1>2. /\ e_pc' \in [E!Thread -> UnlockedLabel]
        /\ Busy' = Busy \cup {t}
    BY UnlockedMoves DEF UnlockedInv, UnlockedRanges, UnlockedLabel
  <1>3. t \notin Busy
    BY DEF Busy, E!At
  <1>4. Cardinality(Busy') = Cardinality(Busy) + 1
    BY <1>2, <1>3, BusyCount, FS_AddElement
  <1>5. /\ write_sem' \in Nat /\ read_sem' \in Nat
        /\ write_sem' + read_sem' = write_sem + read_sem - 1
    BY DEF UnlockedInv, UnlockedRanges
  <1>6. TokensInUse'
    BY <1>4, <1>5, BusyCount DEF UnlockedInv, UnlockedRanges, TokensInUse
  <1>7. UnlockedRanges'
    BY <1>2, <1>5 DEF UnlockedInv, UnlockedRanges
  <1>. QED BY <1>1, <1>6, <1>7 DEF UnlockedInv

\* sem_post gives a token to the other side.
LEMMA UnlockedPost ==
    ASSUME UnlockedInv, NEW t \in E!Thread, E!Post(t)
    PROVE  UnlockedInv'
  <1>. USE DEF E!Post, E!semVars, E!listVars, E!mainVars
  <1>1. OneOfASide' /\ RoomBefore' /\ StaleCounts'
    BY OutsideTheList
  <1>2. /\ e_pc' \in [E!Thread -> UnlockedLabel]
        /\ Busy' = Busy \ {t}
    BY UnlockedMoves DEF UnlockedInv, UnlockedRanges, UnlockedLabel
  <1>3. t \in Busy
    BY DEF Busy, E!At
  <1>4. Cardinality(Busy') = Cardinality(Busy) - 1
    BY <1>2, <1>3, BusyCount, FS_RemoveElement
  <1>5. /\ write_sem' \in Nat /\ read_sem' \in Nat
        /\ write_sem' + read_sem' = write_sem + read_sem + 1
    BY DEF UnlockedInv, UnlockedRanges
  <1>6. TokensInUse'
    BY <1>4, <1>5, BusyCount DEF UnlockedInv, UnlockedRanges, TokensInUse
  <1>7. UnlockedRanges'
    BY <1>2, <1>5 DEF UnlockedInv, UnlockedRanges
  <1>. QED BY <1>1, <1>6, <1>7 DEF UnlockedInv

\* Whoever enters the list finds nobody of its side in it, or the run ends.
LEMMA UnlockedLock ==
    ASSUME UnlockedInv, NEW t \in E!Thread, E!Lock(t)
    PROVE  UnlockedInv'
  <1>. USE DEF E!Lock, E!semVars, E!listVars, E!mainVars
  <1>1. /\ e_pc' \in [E!Thread -> UnlockedLabel]
        /\ e_pc'[t] = "clip"
        /\ \A u \in E!Thread \ {t} : e_pc'[u] = e_pc[u]
        /\ Busy' = Busy \cup {t}
        /\ E!InList' = E!InList \cup {t}
    BY UnlockedMoves DEF UnlockedInv, UnlockedRanges, UnlockedLabel
  <1>2. t \in Busy /\ Busy' = Busy
    BY <1>1 DEF Busy, E!At
  <1>3. OneOfASide'
    <2>. SUFFICES ASSUME e_outcome' = "running",
                         NEW u \in E!InList', NEW v \in E!InList',
                         u \in E!Writer <=> v \in E!Writer
                  PROVE  u = v
      BY DEF OneOfASide
    <2>1. e_outcome = "running" /\ E!InList \cap E!Side(t) = {}
      BY DEF E!At
    <2>2. \A w \in E!InList : ~(w \in E!Writer <=> t \in E!Writer)
      BY <2>1, UnlockedThreads DEF E!Side, E!InList
    <2>. QED BY <1>1, <2>1, <2>2 DEF UnlockedInv, OneOfASide
  <1>4. RoomBefore' /\ StaleCounts'
    BY <1>1 DEF UnlockedInv, RoomBefore, StaleCounts, E!At
  <1>5. TokensInUse'
    BY <1>2 DEF UnlockedInv, TokensInUse
  <1>6. UnlockedRanges'
    BY <1>1 DEF UnlockedInv, UnlockedRanges
  <1>. QED BY <1>3, <1>4, <1>5, <1>6 DEF UnlockedInv

\* A step of a thread in the list changes neither the tokens nor who is alone
\* on its side; whoever else is in the list is on the other side.
LEMMA InTheList ==
    ASSUME UnlockedInv, NEW t \in E!Thread, e_pc[t] \in {"clip", "move", "load", "store"},
           NEW label \in {"move", "load", "store", "post"}, E!Goto(t, label),
           e_outcome = "running", UNCHANGED <<e_outcome, write_sem, read_sem>>
    PROVE  /\ e_pc' \in [E!Thread -> UnlockedLabel]
           /\ e_pc'[t] = label
           /\ \A u \in E!Thread \ {t} : e_pc'[u] = e_pc[u]
           /\ OneOfASide' /\ TokensInUse'
           /\ \A u \in E!InList \ {t} : u \in E!Writer <=> t \notin E!Writer
  <1>1. /\ e_pc' \in [E!Thread -> UnlockedLabel]
        /\ e_pc'[t] = label
        /\ \A u \in E!Thread \ {t} : e_pc'[u] = e_pc[u]
        /\ Busy' = Busy \cup {t}
        /\ E!InList' \in {E!InList \cup {t}, E!InList \ {t}}
    BY UnlockedMoves DEF UnlockedInv, UnlockedRanges, UnlockedLabel
  <1>2. t \in E!InList /\ Busy' = Busy
    BY <1>1 DEF Busy, E!InList
  <1>3. OneOfASide'
    BY <1>1, <1>2 DEF UnlockedInv, OneOfASide
  <1>4. TokensInUse'
    BY <1>2 DEF UnlockedInv, TokensInUse
  <1>5. \A u \in E!InList \ {t} : u \in E!Writer <=> t \notin E!Writer
    BY <1>2 DEF UnlockedInv, OneOfASide
  <1>. QED BY <1>1, <1>3, <1>4, <1>5

LEMMA UnlockedClip ==
    ASSUME UnlockedInv, NEW t \in E!Thread, E!Clip(t)
    PROVE  UnlockedInv'
  <1>. USE DEF E!Clip, E!At, E!semVars, E!listVars, E!mainVars
  <1>1. /\ e_pc' \in [E!Thread -> UnlockedLabel] /\ e_pc'[t] = "move"
        /\ \A u \in E!Thread \ {t} : e_pc'[u] = e_pc[u]
        /\ OneOfASide' /\ TokensInUse'
    BY InTheList
  <1>2. unread \in 0..Capacity /\ n \in [E!Thread -> Int] /\ Capacity \in Nat
    BY ThreadsAssumption DEF UnlockedInv, UnlockedRanges
  <1>3. /\ n' \in [E!Thread -> Int]
        /\ n'[t] = E!Min1(IF t \in E!Writer THEN Capacity - unread ELSE unread)
        /\ \A u \in E!Thread \ {t} : n'[u] = n[u]
    BY <1>2 DEF E!Min1
  <1>4. /\ n'[t] \in {0, 1}
        /\ IF t \in E!Writer THEN unread + n'[t] <= Capacity ELSE n'[t] <= unread
    BY <1>2, <1>3 DEF E!Min1
  <1>5. RoomBefore'
    BY <1>1, <1>3, <1>4 DEF UnlockedInv, RoomBefore
  <1>6. StaleCounts'
    BY <1>1, <1>3 DEF UnlockedInv, StaleCounts
  <1>7. UnlockedRanges'
    BY <1>1, <1>3 DEF UnlockedInv, UnlockedRanges
  <1>. QED BY <1>1, <1>5, <1>6, <1>7 DEF UnlockedInv

LEMMA UnlockedMove ==
    ASSUME UnlockedInv, NEW t \in E!Thread, E!Move(t)
    PROVE  UnlockedInv'
  <1>. USE DEF E!Move, E!At, E!semVars, E!listVars, E!mainVars
  <1>1. /\ e_pc' \in [E!Thread -> UnlockedLabel] /\ e_pc'[t] = "load"
        /\ \A u \in E!Thread \ {t} : e_pc'[u] = e_pc[u]
        /\ OneOfASide' /\ TokensInUse'
    BY InTheList
  <1>2. n[t] \in {0, 1}
    BY DEF UnlockedInv, RoomBefore
  <1>3. write' \in 0..Capacity /\ read' \in 0..Capacity
    BY <1>2, AdvanceInBuffer DEF UnlockedInv, UnlockedRanges
  <1>4. RoomBefore' /\ StaleCounts'
    BY <1>1 DEF UnlockedInv, RoomBefore, StaleCounts
  <1>5. UnlockedRanges'
    BY <1>1, <1>3 DEF UnlockedInv, UnlockedRanges
  <1>. QED BY <1>1, <1>4, <1>5 DEF UnlockedInv

LEMMA UnlockedLoad ==
    ASSUME UnlockedInv, NEW t \in E!Thread, E!Load(t)
    PROVE  UnlockedInv'
  <1>. USE DEF E!Load, E!At, E!semVars, E!listVars, E!mainVars
  <1>1. /\ e_pc' \in [E!Thread -> UnlockedLabel] /\ e_pc'[t] = "store"
        /\ \A u \in E!Thread \ {t} : e_pc'[u] = e_pc[u]
        /\ OneOfASide' /\ TokensInUse'
    BY InTheList
  <1>2. unread \in 0..Capacity /\ count \in [E!Thread -> Int] /\ Capacity \in Nat
    BY ThreadsAssumption DEF UnlockedInv, UnlockedRanges
  <1>3. /\ count' \in [E!Thread -> Int]
        /\ count'[t] = unread
        /\ \A u \in E!Thread \ {t} : count'[u] = count[u]
    BY <1>2
  <1>4. RoomBefore'
    BY <1>1 DEF UnlockedInv, RoomBefore
  <1>5. /\ n[t] \in {0, 1}
        /\ IF t \in E!Writer THEN unread + n[t] <= Capacity ELSE n[t] <= unread
    BY DEF UnlockedInv, RoomBefore
  <1>6. StaleCounts'
    BY <1>1, <1>2, <1>3, <1>5 DEF UnlockedInv, StaleCounts
  <1>7. UnlockedRanges'
    BY <1>1, <1>3 DEF UnlockedInv, UnlockedRanges
  <1>. QED BY <1>1, <1>4, <1>6, <1>7 DEF UnlockedInv

\* A writer never lowers the count and a reader never raises it, whatever the
\* other has stored since they read it.
LEMMA UnlockedStore ==
    ASSUME UnlockedInv, NEW t \in E!Thread, E!StoreCount(t)
    PROVE  UnlockedInv'
  <1>. USE DEF E!StoreCount, E!At, E!semVars, E!listVars, E!mainVars
  <1>1. /\ e_pc' \in [E!Thread -> UnlockedLabel] /\ e_pc'[t] = "post"
        /\ \A u \in E!Thread \ {t} : e_pc'[u] = e_pc[u]
        /\ OneOfASide' /\ TokensInUse'
        /\ \A u \in E!InList \ {t} : u \in E!Writer <=> t \notin E!Writer
    BY InTheList
  <1>2. /\ unread \in 0..Capacity /\ Capacity \in Nat
        /\ n \in [E!Thread -> Int] /\ count \in [E!Thread -> Int]
    BY ThreadsAssumption DEF UnlockedInv, UnlockedRanges
  <1>3. /\ n' \in [E!Thread -> Int] /\ count' \in [E!Thread -> Int]
        /\ \A u \in E!Thread \ {t} : n'[u] = n[u] /\ count'[u] = count[u]
    BY <1>2
  <1>4. IF t \in E!Writer THEN unread' \in unread..Capacity ELSE unread' \in 0..unread
    BY <1>2 DEF UnlockedInv, StaleCounts
  <1>5. RoomBefore'
    <2>. SUFFICES ASSUME NEW u \in E!Thread, e_pc'[u] \in {"move", "load"}
                  PROVE  /\ n'[u] \in {0, 1}
                         /\ IF u \in E!Writer THEN unread' + n'[u] <= Capacity
                                              ELSE n'[u] <= unread'
      BY DEF RoomBefore
    <2>1. u \in E!InList \ {t} /\ e_pc[u] \in {"move", "load"}
      BY <1>1 DEF E!InList
    <2>2. /\ n[u] \in {0, 1}
          /\ IF u \in E!Writer THEN unread + n[u] <= Capacity ELSE n[u] <= unread
      BY <2>1 DEF UnlockedInv, RoomBefore
    <2>3. n'[u] = n[u] /\ (u \in E!Writer <=> t \notin E!Writer)
      BY <1>1, <1>3, <2>1
    <2>. QED BY <1>2, <1>4, <2>2, <2>3
  <1>6. StaleCounts'
    <2>. SUFFICES ASSUME NEW u \in E!Thread, e_pc'[u] = "store"
                  PROVE  /\ n'[u] \in {0, 1}
                         /\ IF u \in E!Writer
                            THEN unread' <= count'[u] /\ count'[u] + n'[u] <= Capacity
                            ELSE count'[u] <= unread' /\ n'[u] <= count'[u]
      BY DEF StaleCounts
    <2>1. u \in E!InList \ {t} /\ e_pc[u] = "store"
      BY <1>1 DEF E!InList
    <2>2. /\ n[u] \in {0, 1}
          /\ IF u \in E!Writer THEN unread <= count[u] /\ count[u] + n[u] <= Capacity
                               ELSE count[u] <= unread /\ n[u] <= count[u]
      BY <2>1 DEF UnlockedInv, StaleCounts
    <2>3. n'[u] = n[u] /\ count'[u] = count[u] /\ count[u] \in Int
          /\ (u \in E!Writer <=> t \notin E!Writer)
      BY <1>1, <1>2, <1>3, <2>1
    <2>. QED BY <1>2, <1>4, <2>2, <2>3
  <1>7. UnlockedRanges'
    BY <1>1, <1>2, <1>3, <1>4 DEF UnlockedInv, UnlockedRanges
  <1>. QED BY <1>1, <1>5, <1>6, <1>7 DEF UnlockedInv

\* A thread that main is still to create is absent.
UnlockedNotYetCreated ==
    \A k \in e_i..Threads :
        /\ e_main = "create_writer" => e_pc[<<"writer", k>>] = "absent"
        /\ e_main = "create_reader" /\ k > e_i => e_pc[<<"writer", k>>] = "absent"
        /\ e_main # "join" => e_pc[<<"reader", k>>] = "absent"

LEMMA UnlockedKeepsAbsent ==
    ASSUME UnlockedInv, UnlockedNotYetCreated, NEW t \in E!Thread, E!Step(t)
    PROVE  UnlockedNotYetCreated'
  <1>1. e_pc[t] # "absent" /\ UNCHANGED <<e_main, e_i>>
    BY DEF E!Step, E!Wait, E!Lock, E!Clip, E!Move, E!Load, E!StoreCount, E!Post, E!At,
           E!mainVars
  <1>2. PICK label \in UnlockedLabel : E!Goto(t, label)
    BY DEF E!Step, E!Wait, E!Lock, E!Clip, E!Move, E!Load, E!StoreCount, E!Post,
           UnlockedLabel
  <1>3. \A u \in E!Thread \ {t} : e_pc'[u] = e_pc[u]
    BY <1>2, UnlockedMoves DEF UnlockedInv, UnlockedRanges
  <1>4. \A k \in e_i..Threads : <<"writer", k>> \in E!Thread /\ <<"reader", k>> \in E!Thread
    <2>1. \A k \in e_i..Threads : k \in 1..Threads
      BY ThreadsAssumption DEF UnlockedInv, UnlockedRanges
    <2>. QED BY <2>1, UnlockedThreads
  <1>. QED BY <1>1, <1>3, <1>4 DEF UnlockedNotYetCreated

\* Main creates the next thread, which starts outside the list, or fails to.
LEMMA UnlockedCreate ==
    ASSUME UnlockedInv, UnlockedNotYetCreated, E!CreateThread
    PROVE  UnlockedInv' /\ UnlockedNotYetCreated'
  <1>. DEFINE t == <<IF e_main = "create_writer" THEN "writer" ELSE "reader", e_i>>
  <1>1. /\ e_i \in 1..Threads /\ e_main \in {"create_writer", "create_reader"}
        /\ UNCHANGED <<e_outcome, write_sem, read_sem, write, read, unread, n, count>>
    BY DEF UnlockedInv, UnlockedRanges, E!CreateThread, E!semVars, E!listVars
  <1>2. CASE UNCHANGED <<e_pc, e_i>> /\ e_main' = "join"
    <2>1. E!InList' = E!InList /\ Busy' = Busy
      BY <1>2 DEF E!InList, Busy
    <2>2. UnlockedRanges' /\ OneOfASide' /\ RoomBefore' /\ StaleCounts' /\ TokensInUse'
      BY <1>1, <1>2, <2>1 DEF UnlockedInv, UnlockedRanges, OneOfASide, RoomBefore,
                              StaleCounts,
                              TokensInUse
    <2>. QED BY <1>2, <2>2 DEF UnlockedInv, UnlockedNotYetCreated
  <1>3. CASE /\ E!Goto(t, "wait")
             /\ e_main' = IF t \in E!Writer THEN "create_reader"
                          ELSE IF e_i < Threads THEN "create_writer" ELSE "join"
             /\ e_i' = IF t \in E!Reader /\ e_i < Threads THEN e_i + 1 ELSE e_i
    <2>1. /\ t \in E!Thread
          /\ t \in E!Writer <=> e_main = "create_writer"
          /\ t \in E!Reader <=> e_main = "create_reader"
      BY <1>1 DEF E!Thread, E!Writer, E!Reader
    <2>2. e_pc[t] = "absent"
      <3>1. e_i \in e_i..Threads
        BY <1>1, ThreadsAssumption
      <3>2. CASE e_main = "create_writer"
        BY <3>1, <3>2 DEF UnlockedNotYetCreated
      <3>3. CASE e_main = "create_reader"
        BY <3>1, <3>3 DEF UnlockedNotYetCreated
      <3>. QED BY <1>1, <3>2, <3>3
    <2>3. OneOfASide' /\ RoomBefore' /\ StaleCounts'
      BY <1>1, <1>3, <2>1, OutsideTheList
    <2>4. /\ e_pc' \in [E!Thread -> UnlockedLabel]
          /\ \A u \in E!Thread \ {t} : e_pc'[u] = e_pc[u]
          /\ Busy' = Busy \ {t}
      BY <1>3, <2>1, UnlockedMoves DEF UnlockedInv, UnlockedRanges, UnlockedLabel
    <2>5. TokensInUse'
      <3>1. Busy' = Busy
        BY <2>2, <2>4 DEF Busy
      <3>. QED BY <1>1, <3>1 DEF UnlockedInv, TokensInUse
    <2>6. /\ e_i' \in 1..Threads /\ e_i' >= e_i
          /\ e_main' \in {"create_writer", "create_reader", "join"}
      BY <1>1, <1>3, ThreadsAssumption
    <2>7. UnlockedRanges'
      BY <1>1, <2>4, <2>6 DEF UnlockedInv, UnlockedRanges
    <2>8. UnlockedNotYetCreated'
      <3>. SUFFICES ASSUME NEW k \in e_i'..Threads
                    PROVE  /\ e_main' = "create_writer" => e_pc'[<<"writer", k>>] = "absent"
                           /\ e_main' = "create_reader" /\ k > e_i' => e_pc'[<<"writer", k>>] = "absent"
                           /\ e_main' # "join" => e_pc'[<<"reader", k>>] = "absent"
        BY DEF UnlockedNotYetCreated
      <3>1. k \in e_i..Threads /\ k \in 1..Threads
        BY <1>1, <2>6, ThreadsAssumption
      <3>2. <<"writer", k>> \in E!Thread /\ <<"reader", k>> \in E!Thread
        BY <3>1, UnlockedThreads
      <3>3. CASE e_main = "create_writer"
        <4>1. e_main' = "create_reader" /\ e_i' = e_i
          BY <1>3, <2>1, <3>3
        <4>. QED BY <2>4, <3>1, <3>2, <3>3, <4>1 DEF UnlockedNotYetCreated
      <3>4. CASE e_main = "create_reader"
        <4>1. IF e_i < Threads THEN e_main' = "create_writer" /\ e_i' = e_i + 1
                               ELSE e_main' = "join" /\ e_i' = e_i
          BY <1>3, <2>1, <3>4
        <4>. QED BY <1>1, <2>4, <3>1, <3>2, <3>4, <4>1 DEF UnlockedNotYetCreated
      <3>. QED BY <1>1, <3>3, <3>4
    <2>. QED BY <2>3, <2>5, <2>7, <2>8 DEF UnlockedInv
  <1>. QED BY <1>2, <1>3 DEF E!CreateThread

LEMMA UnlockedNext ==
    ASSUME UnlockedInv, UnlockedNotYetCreated, E!Next \/ UNCHANGED unlocked
    PROVE  UnlockedInv' /\ UnlockedNotYetCreated'
  <1>1. CASE \E t \in E!Thread : E!Step(t)
    BY <1>1, UnlockedKeepsAbsent, UnlockedWait, UnlockedLock, UnlockedClip, UnlockedMove,
       UnlockedLoad, UnlockedStore, UnlockedPost DEF E!Step
  <1>2. CASE E!CreateThread
    BY <1>2, UnlockedCreate
  <1>3. CASE E!JoinThreads \/ (\E t \in E!Thread : E!AfterDestroy(t)) \/ UNCHANGED unlocked
    <2>1. /\ UNCHANGED <<e_pc, e_main, e_i, write_sem, read_sem, write, read, unread, n, count>>
          /\ e_outcome' = "running" => e_outcome = "running"
      BY <1>3 DEF E!JoinThreads, E!AfterDestroy, E!semVars, E!listVars, E!mainVars, unlocked
    <2>2. E!InList' = E!InList /\ Busy' = Busy
      BY <2>1 DEF E!InList, Busy
    <2>. QED BY <2>1, <2>2 DEF UnlockedInv, UnlockedRanges, OneOfASide, RoomBefore, StaleCounts,
                               TokensInUse, UnlockedNotYetCreated
  <1>. QED BY <1>1, <1>2, <1>3 DEF E!Next, E!Stopped, E!vars, unlocked

\* Without the lock that NDEBUG takes away, and for any number of threads and
\* any capacity, nothing goes wrong as long as no two threads of one side are
\* in the list at once and none runs on after a failed pthread_create had the
\* list freed: cursors and count stay in the buffer, and the tokens of the
\* semaphores are those of its bytes.
THEOREM OneOfEachSideIsSafe == Spec => []OnlyOwnSideRaces
  <1>1. Init => UnlockedInv /\ UnlockedNotYetCreated
    <2>. SUFFICES ASSUME E!Init PROVE UnlockedNotYetCreated
      BY UnlockedInit DEF Init
    <2>1. \A k \in e_i..Threads : <<"writer", k>> \in E!Thread /\ <<"reader", k>> \in E!Thread
      BY UnlockedThreads DEF E!Init
    <2>. QED BY <2>1 DEF E!Init, UnlockedNotYetCreated
  <1>2. UnlockedInv /\ UnlockedNotYetCreated /\ [Next]_vars
           => (UnlockedInv /\ UnlockedNotYetCreated)'
    BY StepOfOne, UnlockedNext
  <1>3. UnlockedInv => OnlyOwnSideRaces
    <2>1. Busy = {t \in E!Thread : e_pc[t] \notin {"absent", "wait"}}
      BY DEF Busy
    <2>2. UnlockedInv => /\ write \in 0..Capacity /\ read \in 0..Capacity
                         /\ unread \in 0..Capacity
                         /\ write_sem + read_sem + Cardinality(Busy) = Capacity
      BY DEF UnlockedInv, UnlockedRanges, TokensInUse
    <2>3. E!Cardinality(Busy) = Cardinality(Busy)
      BY Zenon DEF E!Cardinality, Cardinality
    <2>. QED BY <2>1, <2>2, <2>3, Zenon DEF OnlyOwnSideRaces, E!OnlyOwnSideRaces
  <1>. QED BY <1>1, <1>2, <1>3, PTL DEF Spec

-----------------------------------------------------------------------------
(* Histogram: the lock keeps two producers from the same index, and the     *)
(* token that is posted behind a pointer from running ahead of it.  What is *)
(* inductive follows each histogram from its producer through the buffer    *)
(* into the total, and each token with it.                                  *)

HistogramLabel == {"lock", "take", "choose", "unlock", "count", "write", "post", "leave", "done"}

\* The labels at which a producer has the lock, and those behind the buffer.
Holding  == {"take", "choose", "unlock", "write", "post", "leave"}
HandedIn == {"post", "leave", "done"}

HistogramRanges ==
    /\ size_of_file \in Nat
    /\ g_i_segment_arr \in Int /\ g_i_segment_arr >= -1
    /\ h_pc \in [H!Producer -> HistogramLabel]
    /\ segment \in [H!Producer -> H!Segment]
    /\ personal_histo \in [H!Producer -> [H!Segment -> Nat]]
    /\ g_bucket_histo \in Seq(H!Producer)
    /\ g_histo_to_read \in Nat
    /\ consumer \in {"loop", "read", "add", "done"}
    /\ h_i \in Nat
    /\ g_total_histo \in [H!Segment -> Nat]

\* The lock excludes, which the index and the one pointer without a token need.
HistogramLocked ==
    \A p \in H!Producer : h_pc[p] \in Holding <=> lock = p

\* The index that was taken is one, and the last look at it found the end.
IndexTaken ==
    \A p \in H!Producer :
        /\ h_pc[p] = "choose" => g_i_segment_arr >= 0
        /\ h_pc[p] \in {"write"} \cup HandedIn => g_i_segment_arr > H!num_of_segments

\* Nobody counts what is not in the file.
OnlyPages ==
    \A p \in H!Producer, s \in H!Segment \ H!Page : personal_histo[p][s] = 0

Queued(p) == \E k \in 1..Len(g_bucket_histo) : g_bucket_histo[k] = p

\* The buffer holds pointers of producers that count no more, each once, and
\* not the one that the consumer has read.
Buffered ==
    /\ \A k \in 1..Len(g_bucket_histo) : h_pc[g_bucket_histo[k]] \in HandedIn
    /\ \A k, l \in 1..Len(g_bucket_histo) : g_bucket_histo[k] = g_bucket_histo[l] => k = l
    /\ consumer = "add" =>
          current \in H!Producer /\ h_pc[current] \in HandedIn /\ ~Queued(current)

\* One token for each pointer, but for the one being written and the one being read.
Tokens ==
    Len(g_bucket_histo) = g_histo_to_read
                          + (IF \E p \in H!Producer : h_pc[p] = "post" THEN 1 ELSE 0)
                          + (IF consumer = "read" THEN 1 ELSE 0)

\* The producers whose histograms are in the total.
Added ==
    {p \in H!Producer : h_pc[p] \in HandedIn /\ ~Queued(p) /\ ~(consumer = "add" /\ current = p)}

\* The total counts what they counted, and i how many they are.
Totalled ==
    /\ \A s \in H!Segment :
          g_total_histo[s] = IF \E p \in Added : personal_histo[p][s] > 0 THEN 1 ELSE 0
    /\ h_i = Cardinality(Added)
    /\ consumer = "done" => h_i >= NumOfProducers
    /\ h_main = "printed" => consumer = "done"

HistogramInv ==
    /\ HistogramRanges /\ HistogramLocked /\ IndexTaken /\ OnlyPages /\ H!CountedOnce
    /\ Buffered /\ Tokens /\ Totalled

\* What moving a producer to another label does to pc.
LEMMA HistogramMoves ==
    ASSUME HistogramInv, NEW p \in H!Producer, NEW label \in HistogramLabel, H!Goto(p, label)
    PROVE  /\ h_pc' \in [H!Producer -> HistogramLabel]
           /\ h_pc'[p] = label
           /\ \A q \in H!Producer \ {p} : h_pc'[q] = h_pc[q]
  BY DEF HistogramInv, HistogramRanges, H!Goto

LEMMA SegmentsAreCounted ==
    ASSUME HistogramInv
    PROVE  H!num_of_segments \in Nat
  <1>1. size_of_file \in Nat /\ PageSize \in Nat \ {0}
    BY ThreadsAssumption DEF HistogramInv, HistogramRanges, H!HistogramAssumption
  <1>. QED BY <1>1 DEF H!num_of_segments

\* The file does not change, and its last segment is the first one for an empty file.
LEMMA SameFile ==
    ASSUME HistogramInv, size_of_file' = size_of_file
    PROVE  /\ H!num_of_segments' = H!num_of_segments
           /\ H!Segment' = H!Segment /\ H!Page' = H!Page
           /\ H!num_of_segments \in Nat
  BY SegmentsAreCounted DEF H!num_of_segments, H!Segment, H!Page

\* Where no share changes, and the index stays, every page stays counted once.
LEMMA SharesKept ==
    ASSUME HistogramInv, size_of_file' = size_of_file, g_i_segment_arr' = g_i_segment_arr,
           \A q \in H!Producer : \A s \in H!Page : H!Share(q, s)' = H!Share(q, s)
    PROVE  H!CountedOnce'
  <1>1. H!Page' = H!Page
    BY SameFile
  <1>. QED BY <1>1 DEF HistogramInv, H!CountedOnce, H!Producer

\* A producer with work left to do touches nothing of the way into the total.
LEMMA BeforeTheBuffer ==
    ASSUME HistogramInv, NEW p \in H!Producer, h_pc[p] \notin HandedIn,
           NEW label \in HistogramLabel \ HandedIn, H!Goto(p, label),
           \A q \in H!Producer \ {p} : personal_histo'[q] = personal_histo[q],
           UNCHANGED <<g_bucket_histo, g_histo_to_read, consumer, h_i, current, g_total_histo,
                       size_of_file, h_main>>
    PROVE  Buffered' /\ Tokens' /\ Totalled'
  <1>1. /\ h_pc'[p] = label
        /\ \A q \in H!Producer \ {p} : h_pc'[q] = h_pc[q]
    BY HistogramMoves
  <1>2. \A q \in H!Producer : h_pc'[q] \in HandedIn <=> h_pc[q] \in HandedIn
    BY <1>1
  <1>3. \A q \in H!Producer : h_pc[q] \in HandedIn => q # p /\ h_pc'[q] = h_pc[q]
    BY <1>1
  <1>4. H!Segment' = H!Segment
    BY SameFile
  <1>5. \A k \in 1..Len(g_bucket_histo) : g_bucket_histo[k] \in H!Producer
    BY DEF HistogramInv, HistogramRanges
  <1>6. Buffered'
    BY <1>2, <1>5 DEF HistogramInv, Buffered, Queued, H!Producer
  <1>7. Tokens'
    <2>1. (\E q \in H!Producer : h_pc'[q] = "post") <=> (\E q \in H!Producer : h_pc[q] = "post")
      BY <1>1 DEF HandedIn
    <2>. QED BY <2>1 DEF HistogramInv, Tokens, H!Producer
  <1>8. Added' = Added
    BY <1>2 DEF Added, Queued, H!Producer
  <1>9. \A q \in Added : personal_histo'[q] = personal_histo[q]
    BY DEF Added
  <1>10. Totalled'
    BY <1>4, <1>8, <1>9 DEF HistogramInv, Totalled
  <1>. QED BY <1>6, <1>7, <1>10

LEMMA HistogramLockSegments ==
    ASSUME HistogramInv, NEW p \in H!Producer, H!LockSegments(p)
    PROVE  HistogramInv'
  <1>. USE DEF H!LockSegments, H!consumerVars
  <1>1. /\ h_pc' \in [H!Producer -> HistogramLabel] /\ h_pc'[p] = "take"
        /\ \A q \in H!Producer \ {p} : h_pc'[q] = h_pc[q]
    BY HistogramMoves DEF HistogramLabel
  <1>2. /\ H!num_of_segments' = H!num_of_segments
        /\ H!Segment' = H!Segment /\ H!Page' = H!Page
    BY SameFile
  <1>3. Buffered' /\ Tokens' /\ Totalled'
    BY BeforeTheBuffer DEF HistogramLabel, HandedIn
  <1>4. H!CountedOnce'
    <2>1. \A q \in H!Producer : \A s \in H!Page : H!Share(q, s)' = H!Share(q, s)
      BY <1>1 DEF H!Share
    <2>. QED BY <2>1, SharesKept
  <1>5. HistogramLocked'
    BY <1>1, ThreadsAssumption DEF HistogramInv, HistogramLocked, Holding, H!Producer,
                                   H!HistogramAssumption
  <1>6. HistogramRanges' /\ IndexTaken' /\ OnlyPages'
    BY <1>1, <1>2 DEF HistogramInv, HistogramRanges, IndexTaken, OnlyPages, H!Producer,
                      HandedIn
  <1>. QED BY <1>3, <1>4, <1>5, <1>6 DEF HistogramInv

\* The next index becomes the share of the one that has the lock.
LEMMA HistogramTake ==
    ASSUME HistogramInv, NEW p \in H!Producer, H!TakeSegment(p)
    PROVE  HistogramInv'
  <1>. USE DEF H!TakeSegment, H!consumerVars
  <1>1. /\ h_pc' \in [H!Producer -> HistogramLabel] /\ h_pc'[p] = "choose"
        /\ \A q \in H!Producer \ {p} : h_pc'[q] = h_pc[q]
    BY HistogramMoves DEF HistogramLabel
  <1>2. /\ H!num_of_segments' = H!num_of_segments
        /\ H!Segment' = H!Segment /\ H!Page' = H!Page
    BY SameFile
  <1>3. Buffered' /\ Tokens' /\ Totalled'
    BY BeforeTheBuffer DEF HistogramLabel, HandedIn
  <1>4. /\ g_i_segment_arr \in Int /\ g_i_segment_arr >= -1
        /\ g_i_segment_arr' = g_i_segment_arr + 1
    BY DEF HistogramInv, HistogramRanges
  <1>5. /\ h_pc[p] = "take" /\ UNCHANGED <<segment, personal_histo>>
        /\ \A q \in H!Producer \ {p} : h_pc[q] # "choose"
    BY DEF HistogramInv, HistogramLocked, Holding
  <1>6. H!CountedOnce'
    <2>1. \A q \in H!Producer \ {p} : \A s \in H!Page : H!Share(q, s)' = H!Share(q, s)
      BY <1>1, <1>5 DEF H!Share
    <2>2. \A s \in H!Page :
             /\ H!Share(p, s) = personal_histo[p][s] + 0
             /\ H!Share(p, s)' = personal_histo[p][s] + (IF g_i_segment_arr + 1 = s THEN 1 ELSE 0)
      BY <1>1, <1>4, <1>5 DEF H!Share
    <2>3. \A s \in H!Page : s \in Int /\ personal_histo[p][s] \in Nat
      BY SameFile DEF HistogramInv, HistogramRanges, H!Page, H!Segment
    <2>4. \A s \in H!Page :
             H!Share(p, s)' = IF g_i_segment_arr + 1 = s THEN H!Share(p, s) + 1 ELSE H!Share(p, s)
      BY <2>2, <2>3
    <2>. SUFFICES ASSUME NEW s \in H!Page
                  PROVE  IF s <= g_i_segment_arr'
                         THEN \E o \in H!Producer :
                                 \A q \in H!Producer : H!Share(q, s)' = IF q = o THEN 1 ELSE 0
                         ELSE \A q \in H!Producer : H!Share(q, s)' = 0
      BY <1>2, Zenon DEF H!CountedOnce, H!Producer
    <2>5. IF s <= g_i_segment_arr
          THEN \E o \in H!Producer : \A q \in H!Producer : H!Share(q, s) = IF q = o THEN 1 ELSE 0
          ELSE \A q \in H!Producer : H!Share(q, s) = 0
      BY DEF HistogramInv, H!CountedOnce
    <2>6. CASE s = g_i_segment_arr + 1
      <3>1. \A q \in H!Producer : H!Share(q, s) = 0
        BY <1>4, <2>5, <2>6
      <3>2. \A q \in H!Producer : H!Share(q, s)' = IF q = p THEN 1 ELSE 0
        BY <2>1, <2>4, <2>6, <3>1
      <3>. QED BY <1>4, <2>6, <3>2
    <2>7. CASE s # g_i_segment_arr + 1
      <3>1. \A q \in H!Producer : H!Share(q, s)' = H!Share(q, s)
        BY <2>1, <2>4, <2>7
      <3>2. s <= g_i_segment_arr' <=> s <= g_i_segment_arr
        BY <1>4, <2>3, <2>7
      <3>. QED BY <2>5, <3>1, <3>2
    <2>. QED BY <2>6, <2>7
  <1>7. HistogramLocked'
    BY <1>1, <1>5 DEF HistogramInv, HistogramLocked, Holding, H!Producer
  <1>8. IndexTaken'
    <2>1. H!num_of_segments \in Nat
      BY SameFile
    <2>. QED BY <1>1, <1>2, <1>4, <2>1 DEF HistogramInv, IndexTaken, H!Producer, HandedIn
  <1>9. HistogramRanges' /\ OnlyPages'
    BY <1>1, <1>2, <1>4 DEF HistogramInv, HistogramRanges, OnlyPages, H!Producer
  <1>. QED BY <1>3, <1>6, <1>7, <1>8, <1>9 DEF HistogramInv

LEMMA HistogramChoose ==
    ASSUME HistogramInv, NEW p \in H!Producer, H!Choose(p)
    PROVE  HistogramInv'
  <1>. USE DEF H!Choose, H!consumerVars
  <1>. DEFINE label == IF H!num_of_segments < g_i_segment_arr THEN "write" ELSE "unlock"
  <1>1. /\ label \in HistogramLabel \ HandedIn /\ H!Goto(p, label)
        /\ h_pc[p] = "choose"
    BY DEF HistogramLabel, HandedIn
  <1>2. /\ h_pc' \in [H!Producer -> HistogramLabel] /\ h_pc'[p] = label
        /\ \A q \in H!Producer \ {p} : h_pc'[q] = h_pc[q]
    BY <1>1, HistogramMoves
  <1>3. /\ H!num_of_segments' = H!num_of_segments
        /\ H!Segment' = H!Segment /\ H!Page' = H!Page
        /\ H!num_of_segments \in Nat
    BY SameFile
  <1>4. Buffered' /\ Tokens' /\ Totalled'
    BY <1>1, BeforeTheBuffer DEF HandedIn
  <1>5. /\ g_i_segment_arr \in Int /\ g_i_segment_arr >= 0
        /\ UNCHANGED <<g_i_segment_arr, personal_histo>>
        /\ segment \in [H!Producer -> H!Segment]
    BY <1>1 DEF HistogramInv, HistogramRanges, IndexTaken
  <1>6. /\ segment' \in [H!Producer -> H!Segment]
        /\ \A q \in H!Producer \ {p} : segment'[q] = segment[q]
        /\ label = "unlock" => segment'[p] = g_i_segment_arr
    <2>1. CASE H!num_of_segments < g_i_segment_arr
      BY <1>5, <2>1
    <2>2. CASE ~(H!num_of_segments < g_i_segment_arr)
      <3>1. g_i_segment_arr \in H!Segment
        BY <1>3, <1>5, <2>2 DEF H!Segment
      <3>2. segment' = [segment EXCEPT ![p] = g_i_segment_arr]
        BY <2>2
      <3>. QED BY <1>5, <3>1, <3>2
    <2>. QED BY <2>1, <2>2
  <1>7. H!CountedOnce'
    <2>1. \A s \in H!Page : s \in Int /\ s <= H!num_of_segments
      BY <1>3 DEF H!Page, H!Segment
    <2>2. \A q \in H!Producer \ {p} : \A s \in H!Page : H!Share(q, s)' = H!Share(q, s)
      BY <1>2, <1>5, <1>6 DEF H!Share
    <2>3. ASSUME NEW s \in H!Page
          PROVE  H!Share(p, s)' = H!Share(p, s)
      <3>1. CASE label = "write"
        BY <1>1, <1>2, <1>3, <1>5, <2>1, <3>1 DEF H!Share
      <3>2. CASE label = "unlock"
        BY <1>1, <1>2, <1>5, <1>6, <3>2 DEF H!Share
      <3>. QED BY <3>1, <3>2
    <2>. QED BY <1>5, <2>2, <2>3, SharesKept
  <1>8. HistogramLocked'
    BY <1>1, <1>2 DEF HistogramInv, HistogramLocked, Holding, H!Producer
  <1>9. IndexTaken'
    BY <1>1, <1>2, <1>3, <1>5 DEF HistogramInv, IndexTaken, H!Producer, HandedIn
  <1>10. HistogramRanges' /\ OnlyPages'
    BY <1>2, <1>3, <1>5, <1>6 DEF HistogramInv, HistogramRanges, OnlyPages, H!Producer
  <1>. QED BY <1>4, <1>7, <1>8, <1>9, <1>10 DEF HistogramInv

LEMMA HistogramUnlock ==
    ASSUME HistogramInv, NEW p \in H!Producer, H!UnlockAndCount(p)
    PROVE  HistogramInv'
  <1>. USE DEF H!UnlockAndCount, H!consumerVars
  <1>1. /\ h_pc' \in [H!Producer -> HistogramLabel] /\ h_pc'[p] = "count"
        /\ \A q \in H!Producer \ {p} : h_pc'[q] = h_pc[q]
    BY HistogramMoves DEF HistogramLabel
  <1>2. /\ H!num_of_segments' = H!num_of_segments
        /\ H!Segment' = H!Segment /\ H!Page' = H!Page
    BY SameFile
  <1>3. Buffered' /\ Tokens' /\ Totalled'
    BY BeforeTheBuffer DEF HistogramLabel, HandedIn
  <1>4. H!CountedOnce'
    <2>1. \A q \in H!Producer : \A s \in H!Page : H!Share(q, s)' = H!Share(q, s)
      BY <1>1 DEF H!Share
    <2>. QED BY <2>1, SharesKept
  <1>5. HistogramLocked'
    BY <1>1, ThreadsAssumption DEF HistogramInv, HistogramLocked, Holding, H!Producer,
                                   H!HistogramAssumption
  <1>6. HistogramRanges' /\ IndexTaken' /\ OnlyPages'
    BY <1>1, <1>2 DEF HistogramInv, HistogramRanges, IndexTaken, OnlyPages, H!Producer,
                      HandedIn
  <1>. QED BY <1>3, <1>4, <1>5, <1>6 DEF HistogramInv

\* What was a share becomes a count; a segment that is no page kills the process.
LEMMA HistogramCount ==
    ASSUME HistogramInv, NEW p \in H!Producer, H!FillLocalHistogram(p)
    PROVE  HistogramInv'
  <1>. USE DEF H!FillLocalHistogram, H!consumerVars
  <1>1. /\ H!num_of_segments' = H!num_of_segments
        /\ H!Segment' = H!Segment /\ H!Page' = H!Page
    BY SameFile
  <1>2. CASE segment[p] \notin H!Page
    <2>1. /\ UNCHANGED <<g_i_segment_arr, lock, h_pc, segment, personal_histo, g_bucket_histo,
                         g_histo_to_read, consumer, h_i, current, g_total_histo, size_of_file>>
          /\ h_main' = "killed"
      BY <1>2
    <2>2. HistogramRanges' /\ HistogramLocked' /\ IndexTaken' /\ OnlyPages'
      BY <1>1, <2>1 DEF HistogramInv, HistogramRanges, HistogramLocked, IndexTaken,
                        OnlyPages, H!Producer
    <2>3. H!CountedOnce'
      BY <2>1, SharesKept DEF H!Share
    <2>4. Buffered' /\ Tokens' /\ Added' = Added
      BY <2>1 DEF HistogramInv, Buffered, Tokens, Added, Queued, H!Producer
    <2>5. Totalled'
      BY <1>1, <2>1, <2>4 DEF HistogramInv, Totalled
    <2>. QED BY <2>2, <2>3, <2>4, <2>5 DEF HistogramInv
  <1>3. CASE segment[p] \in H!Page
    <2>1. /\ h_pc[p] = "count" /\ h_pc' \in [H!Producer -> HistogramLabel] /\ h_pc'[p] = "lock"
          /\ \A q \in H!Producer \ {p} : h_pc'[q] = h_pc[q]
      BY <1>3, HistogramMoves DEF HistogramLabel
    <2>2. segment[p] \in H!Segment /\ personal_histo \in [H!Producer -> [H!Segment -> Nat]]
      BY DEF HistogramInv, HistogramRanges
    <2>3. /\ personal_histo' \in [H!Producer -> [H!Segment -> Nat]]
          /\ \A q \in H!Producer \ {p} : personal_histo'[q] = personal_histo[q]
          /\ personal_histo'[p][segment[p]] = personal_histo[p][segment[p]] + 1
          /\ \A s \in H!Segment \ {segment[p]} : personal_histo'[p][s] = personal_histo[p][s]
      <3>. DEFINE histo == [personal_histo[p] EXCEPT ![segment[p]] = @ + 1]
      <3>1. histo \in [H!Segment -> Nat]
        BY <2>2
      <3>2. personal_histo' = [personal_histo EXCEPT ![p] = histo]
        BY <1>3
      <3>3. personal_histo'[p] = histo
        BY <2>2, <3>2
      <3>. QED BY <2>2, <3>1, <3>2, <3>3
    <2>4. Buffered' /\ Tokens' /\ Totalled'
      BY <1>3, <2>3, BeforeTheBuffer DEF HistogramLabel, HandedIn
    <2>5. H!CountedOnce'
      <3>1. H!Page \subseteq H!Segment
        BY DEF H!Page
      <3>2. \A q \in H!Producer \ {p} : \A s \in H!Page : H!Share(q, s)' = H!Share(q, s)
        BY <2>1, <2>3 DEF H!Share
      <3>3. \A s \in H!Page : H!Share(p, s)' = personal_histo'[p][s] + 0
        BY <2>1 DEF H!Share
      <3>4. \A s \in H!Page : H!Share(p, s) = personal_histo[p][s] + IF segment[p] = s THEN 1 ELSE 0
        BY <2>1 DEF H!Share
      <3>5. \A s \in H!Page : H!Share(p, s)' = H!Share(p, s)
        BY <2>2, <2>3, <3>1, <3>3, <3>4
      <3>. QED BY <3>2, <3>5, SharesKept
    <2>6. HistogramLocked'
      BY <2>1 DEF HistogramInv, HistogramLocked, Holding, H!Producer
    <2>7. OnlyPages'
      <3>. SUFFICES ASSUME NEW q \in H!Producer, NEW s \in H!Segment \ H!Page
                    PROVE  personal_histo'[q][s] = 0
        BY <1>1 DEF OnlyPages, H!Producer
      <3>. QED BY <1>3, <2>3 DEF HistogramInv, OnlyPages
    <2>8. HistogramRanges' /\ IndexTaken'
      BY <1>1, <2>1, <2>3 DEF HistogramInv, HistogramRanges, IndexTaken, H!Producer,
                              HandedIn
    <2>. QED BY <2>4, <2>5, <2>6, <2>7, <2>8 DEF HistogramInv
  <1>. QED BY <1>2, <1>3

\* Behind its last segment a producer, and the consumer all the time, leave the
\* counting alone.
LEMMA CountingIsOver ==
    ASSUME HistogramInv, h_pc' \in [H!Producer -> HistogramLabel],
           \A p \in H!Producer :
               \/ h_pc'[p] = h_pc[p]
               \/ h_pc[p] \in {"write"} \cup HandedIn /\ h_pc'[p] \in HandedIn,
           UNCHANGED <<g_i_segment_arr, segment, personal_histo, size_of_file>>
    PROVE  /\ IndexTaken' /\ OnlyPages' /\ H!CountedOnce'
           /\ H!Segment' = H!Segment
           /\ h_pc' \in [H!Producer -> HistogramLabel]
           /\ segment' \in [H!Producer -> H!Segment']
           /\ personal_histo' \in [H!Producer -> [H!Segment' -> Nat]]
           /\ size_of_file' \in Nat /\ g_i_segment_arr' \in Int /\ g_i_segment_arr' >= -1
  <1>1. /\ H!num_of_segments' = H!num_of_segments
        /\ H!Segment' = H!Segment /\ H!Page' = H!Page
    BY SameFile
  <1>2. H!CountedOnce'
    <2>1. \A q \in H!Producer : \A s \in H!Page : H!Share(q, s)' = H!Share(q, s)
      BY DEF H!Share, HandedIn
    <2>. QED BY <2>1, SharesKept
  <1>3. IndexTaken' /\ OnlyPages'
    BY <1>1 DEF HistogramInv, IndexTaken, OnlyPages, H!Producer, HandedIn
  <1>. QED BY <1>1, <1>2, <1>3 DEF HistogramInv, HistogramRanges

\* The pointer goes to the end of the buffer; the token follows under the lock.
LEMMA HistogramWrite ==
    ASSUME HistogramInv, NEW p \in H!Producer, H!WriteHistogram(p)
    PROVE  HistogramInv'
  <1>. USE DEF H!WriteHistogram, H!consumerVars
  <1>1. /\ h_pc[p] = "write" /\ h_pc' \in [H!Producer -> HistogramLabel] /\ h_pc'[p] = "post"
        /\ \A q \in H!Producer \ {p} : h_pc'[q] = h_pc[q]
    BY HistogramMoves DEF HistogramLabel
  <1>2. /\ IndexTaken' /\ OnlyPages' /\ H!CountedOnce' /\ H!Segment' = H!Segment
        /\ segment' \in [H!Producer -> H!Segment']
        /\ personal_histo' \in [H!Producer -> [H!Segment' -> Nat]]
        /\ size_of_file' \in Nat /\ g_i_segment_arr' \in Int /\ g_i_segment_arr' >= -1
    BY <1>1, CountingIsOver DEF HandedIn
  <1>3. /\ g_bucket_histo \in Seq(H!Producer)
        /\ g_bucket_histo' \in Seq(H!Producer)
        /\ Len(g_bucket_histo') = Len(g_bucket_histo) + 1
        /\ Len(g_bucket_histo) \in Nat
        /\ g_bucket_histo'[Len(g_bucket_histo) + 1] = p
        /\ \A k \in 1..Len(g_bucket_histo) : g_bucket_histo'[k] = g_bucket_histo[k]
    BY DEF HistogramInv, HistogramRanges
  <1>4. HistogramRanges'
    BY <1>1, <1>2, <1>3 DEF HistogramInv, HistogramRanges, H!Producer
  <1>5. HistogramLocked'
    BY <1>1 DEF HistogramInv, HistogramLocked, Holding, H!Producer
  <1>6. \A q \in H!Producer : Queued(q)' <=> Queued(q) \/ q = p
    BY <1>3 DEF Queued
  <1>7. \A k \in 1..Len(g_bucket_histo) : g_bucket_histo[k] # p
    BY <1>1 DEF HistogramInv, Buffered, HandedIn
  <1>8. \A q \in H!Producer : h_pc[q] \in HandedIn => q # p /\ h_pc'[q] = h_pc[q]
    BY <1>1 DEF HandedIn
  <1>9. Buffered'
    <2>1. \A k \in 1..Len(g_bucket_histo') : h_pc'[g_bucket_histo'[k]] \in HandedIn
      BY <1>1, <1>3, <1>8 DEF HistogramInv, Buffered, HandedIn
    <2>2. \A k, l \in 1..Len(g_bucket_histo') :
             g_bucket_histo'[k] = g_bucket_histo'[l] => k = l
      BY <1>3, <1>7 DEF HistogramInv, Buffered
    <2>3. consumer = "add" =>
             current \in H!Producer /\ h_pc'[current] \in HandedIn /\ ~Queued(current)'
      BY <1>6, <1>8 DEF HistogramInv, Buffered
    <2>. QED BY <2>1, <2>2, <2>3 DEF Buffered, H!Producer, Queued
  <1>10. Tokens'
    <2>1. \A q \in H!Producer : h_pc[q] # "post"
      BY <1>1 DEF HistogramInv, HistogramLocked, Holding
    <2>2. \E q \in H!Producer : h_pc'[q] = "post"
      BY <1>1
    <2>3. Len(g_bucket_histo) = g_histo_to_read + 0 + (IF consumer = "read" THEN 1 ELSE 0)
      BY <2>1 DEF HistogramInv, Tokens
    <2>4. g_histo_to_read \in Nat
      BY DEF HistogramInv, HistogramRanges
    <2>. QED BY <1>3, <2>2, <2>3, <2>4 DEF Tokens, H!Producer
  <1>11. Added' = Added
    BY <1>1, <1>6, <1>8 DEF Added, H!Producer, HandedIn
  <1>12. Totalled'
    BY <1>2, <1>11 DEF HistogramInv, Totalled
  <1>. QED BY <1>2, <1>4, <1>5, <1>9, <1>10, <1>12 DEF HistogramInv

\* The two steps after the write: the token, and the way out.
LEMMA HistogramPost ==
    ASSUME HistogramInv, NEW p \in H!Producer, H!Post(p) \/ H!Leave(p)
    PROVE  HistogramInv'
  <1>. USE DEF H!Post, H!Leave, H!consumerVars
  <1>1. PICK label \in {"leave", "done"} :
            /\ h_pc' \in [H!Producer -> HistogramLabel] /\ h_pc'[p] = label
            /\ \A q \in H!Producer \ {p} : h_pc'[q] = h_pc[q]
            /\ label = "leave" => h_pc[p] = "post"
            /\ label = "done" => h_pc[p] = "leave"
            /\ lock' = IF label = "done" THEN 0 ELSE lock
            /\ g_histo_to_read' = IF label = "leave" THEN g_histo_to_read + 1 ELSE g_histo_to_read
    <2>1. CASE H!Post(p)
      BY <2>1, HistogramMoves DEF HistogramLabel
    <2>2. CASE H!Leave(p)
      BY <2>2, HistogramMoves DEF HistogramLabel
    <2>. QED BY <2>1, <2>2
  <1>2. UNCHANGED <<g_i_segment_arr, segment, personal_histo, g_bucket_histo, consumer, h_i,
                    current, g_total_histo, size_of_file, h_main>>
    OBVIOUS
  <1>3. /\ IndexTaken' /\ OnlyPages' /\ H!CountedOnce' /\ H!Segment' = H!Segment
        /\ segment' \in [H!Producer -> H!Segment']
        /\ personal_histo' \in [H!Producer -> [H!Segment' -> Nat]]
        /\ size_of_file' \in Nat /\ g_i_segment_arr' \in Int /\ g_i_segment_arr' >= -1
    BY <1>1, <1>2, CountingIsOver DEF HandedIn
  <1>4. HistogramRanges'
    BY <1>1, <1>2, <1>3 DEF HistogramInv, HistogramRanges, H!Producer
  <1>5. HistogramLocked'
    BY <1>1, ThreadsAssumption DEF HistogramInv, HistogramLocked, Holding, H!Producer,
                                   H!HistogramAssumption
  <1>6. \A q \in H!Producer : h_pc'[q] \in HandedIn <=> h_pc[q] \in HandedIn
    BY <1>1 DEF HandedIn
  <1>7. Buffered'
    <2>1. \A k \in 1..Len(g_bucket_histo) : g_bucket_histo[k] \in H!Producer
      BY DEF HistogramInv, HistogramRanges
    <2>. QED BY <1>2, <1>6, <2>1 DEF HistogramInv, Buffered, Queued, H!Producer
  <1>8. Tokens'
    <2>1. CASE label = "leave"
      <3>1. (\E q \in H!Producer : h_pc[q] = "post") /\ (\A q \in H!Producer : h_pc'[q] # "post")
        BY <1>1, <2>1 DEF HistogramInv, HistogramLocked, Holding
      <3>. QED BY <1>1, <1>2, <2>1, <3>1 DEF HistogramInv, HistogramRanges, Tokens, H!Producer
    <2>2. CASE label = "done"
      <3>1. (\E q \in H!Producer : h_pc'[q] = "post") <=> (\E q \in H!Producer : h_pc[q] = "post")
        BY <1>1, <2>2
      <3>. QED BY <1>1, <1>2, <2>2, <3>1 DEF HistogramInv, Tokens, H!Producer
    <2>. QED BY <2>1, <2>2
  <1>9. Added' = Added
    BY <1>2, <1>6 DEF Added, Queued, H!Producer
  <1>10. Totalled'
    BY <1>2, <1>3, <1>9 DEF HistogramInv, Totalled
  <1>. QED BY <1>3, <1>4, <1>5, <1>7, <1>8, <1>10 DEF HistogramInv

LEMMA ProducersAreFinite ==
    /\ IsFiniteSet(Added) /\ IsFiniteSet(H!Producer)
    /\ Cardinality(H!Producer) = NumOfProducers
  <1>1. 1 \in Int /\ NumOfProducers \in Nat
    BY ThreadsAssumption DEF H!HistogramAssumption
  <1>2. IsFiniteSet(H!Producer) /\ Cardinality(H!Producer) = NumOfProducers
    BY <1>1, FS_Interval DEF H!Producer
  <1>3. Added \subseteq H!Producer
    BY DEF Added
  <1>. QED BY <1>2, <1>3, FS_Subset

\* Adding a histogram that nobody else has a share of.
LEMMA HistogramAdd ==
    ASSUME HistogramInv, H!AddHistogram
    PROVE  HistogramInv'
  <1>. USE DEF H!AddHistogram
  <1>1. IndexTaken' /\ OnlyPages' /\ H!CountedOnce' /\ H!Segment' = H!Segment
    BY CountingIsOver DEF HistogramInv, HistogramRanges
  <1>2. /\ current \in H!Producer /\ h_pc[current] \in HandedIn /\ ~Queued(current)
        /\ consumer = "add" /\ consumer' = "loop"
    BY DEF HistogramInv, Buffered
  <1>3. Added' = Added \cup {current} /\ current \notin Added
    BY <1>2 DEF Added, Queued, H!Producer
  <1>4. /\ personal_histo \in [H!Producer -> [H!Segment -> Nat]]
        /\ g_total_histo \in [H!Segment -> Nat] /\ h_i \in Nat
    BY DEF HistogramInv, HistogramRanges
  <1>5. ASSUME NEW s \in H!Segment
        PROVE  g_total_histo'[s] = IF \E p \in Added' : personal_histo[p][s] > 0 THEN 1 ELSE 0
    <2>1. g_total_histo'[s] = g_total_histo[s] + personal_histo[current][s]
      BY <1>1
    <2>2. g_total_histo[s] = IF \E p \in Added : personal_histo[p][s] > 0 THEN 1 ELSE 0
      BY DEF HistogramInv, Totalled
    <2>3. personal_histo[current][s] \in Nat
      BY <1>2, <1>4
    <2>4. CASE personal_histo[current][s] = 0
      <3>1. (\E p \in Added' : personal_histo[p][s] > 0)
                <=> \E p \in Added : personal_histo[p][s] > 0
        BY <1>3, <2>4
      <3>. QED BY <2>1, <2>2, <2>4, <3>1
    <2>5. CASE personal_histo[current][s] # 0
      <3>1. s \in H!Page
        BY <1>2, <2>5 DEF HistogramInv, OnlyPages
      <3>2. \A p \in Added \cup {current} : H!Share(p, s) = personal_histo[p][s] + 0
        BY <1>2 DEF H!Share, Added, HandedIn
      <3>3. \A p \in Added \cup {current} : p \in H!Producer /\ personal_histo[p][s] \in Nat
        BY <1>2, <1>4 DEF Added
      <3>4. \A p \in Added \cup {current} : H!Share(p, s) = personal_histo[p][s]
        BY <3>2, <3>3
      <3>5. \E o \in H!Producer : \A q \in H!Producer : H!Share(q, s) = IF q = o THEN 1 ELSE 0
        BY <1>2, <2>5, <3>1, <3>4 DEF HistogramInv, H!CountedOnce
      <3>6. /\ personal_histo[current][s] = 1
            /\ \A p \in Added : personal_histo[p][s] = 0
        BY <1>2, <1>3, <2>5, <3>3, <3>4, <3>5
      <3>7. g_total_histo'[s] = 1
        BY <2>1, <2>2, <3>6
      <3>. QED BY <1>3, <3>6, <3>7
    <2>. QED BY <2>4, <2>5
  <1>6. h_i' = Cardinality(Added')
    <2>1. IsFiniteSet(Added)
      BY ProducersAreFinite
    <2>. QED BY <1>3, <1>4, <2>1, FS_AddElement DEF HistogramInv, Totalled
  <1>7. g_total_histo' \in [H!Segment' -> Nat] /\ h_i' \in Nat
    BY <1>1, <1>2, <1>4
  <1>8. Totalled'
    BY <1>1, <1>2, <1>5, <1>6, ThreadsAssumption
       DEF HistogramInv, Totalled
  <1>9. HistogramRanges' /\ HistogramLocked'
    BY <1>1, <1>2, <1>7 DEF HistogramInv, HistogramRanges, HistogramLocked, H!Producer
  <1>10. Buffered' /\ Tokens'
    BY <1>2 DEF HistogramInv, Buffered, Tokens, Queued, H!Producer
  <1>. QED BY <1>1, <1>8, <1>9, <1>10 DEF HistogramInv

\* The consumer takes a token, or has had all; main prints when all are done.
LEMMA HistogramWait ==
    ASSUME HistogramInv, H!WaitForHistogram \/ H!JoinAndPrint
    PROVE  HistogramInv'
  <1>. USE DEF H!WaitForHistogram, H!JoinAndPrint, H!consumerVars
  <1>1. UNCHANGED <<g_i_segment_arr, lock, h_pc, segment, personal_histo, g_bucket_histo, h_i,
                    current, g_total_histo, size_of_file>>
    OBVIOUS
  <1>2. IndexTaken' /\ OnlyPages' /\ H!CountedOnce' /\ H!Segment' = H!Segment
    BY CountingIsOver DEF HistogramInv, HistogramRanges
  <1>3. /\ (consumer' # "add" /\ consumer # "add") \/ consumer' = consumer
        /\ consumer' \in {"loop", "read", "add", "done"}
        /\ g_histo_to_read' \in Nat
        /\ g_histo_to_read' + (IF consumer' = "read" THEN 1 ELSE 0)
             = g_histo_to_read + (IF consumer = "read" THEN 1 ELSE 0)
    BY DEF HistogramInv, HistogramRanges
  <1>4. /\ consumer' = "done" => h_i >= NumOfProducers
        /\ h_main' = "printed" => consumer' = "done"
    BY ThreadsAssumption DEF HistogramInv, HistogramRanges, Totalled, H!Running,
                             H!HistogramAssumption
  <1>5. HistogramRanges' /\ HistogramLocked'
    BY <1>1, <1>2, <1>3 DEF HistogramInv, HistogramRanges, HistogramLocked, H!Producer
  <1>6. Buffered' /\ Added' = Added
    BY <1>1, <1>3 DEF HistogramInv, Buffered, Added, Queued, H!Producer
  <1>7. Tokens'
    <2>1. PICK posting \in Nat :
              posting = IF \E p \in H!Producer : h_pc[p] = "post" THEN 1 ELSE 0
      OBVIOUS
    <2>2. Len(g_bucket_histo) = g_histo_to_read + posting + (IF consumer = "read" THEN 1 ELSE 0)
      BY <2>1 DEF HistogramInv, Tokens
    <2>3. g_histo_to_read \in Nat /\ g_bucket_histo' = g_bucket_histo
      BY <1>1 DEF HistogramInv, HistogramRanges
    <2>4. Len(g_bucket_histo) = g_histo_to_read' + posting + (IF consumer' = "read" THEN 1 ELSE 0)
      <3>1. CASE consumer = "loop" /\ consumer' = "read" /\ g_histo_to_read' = g_histo_to_read - 1
        BY <2>2, <2>3, <3>1
      <3>2. CASE consumer # "read" /\ consumer' # "read" /\ g_histo_to_read' = g_histo_to_read
        BY <2>2, <2>3, <3>2
      <3>. QED BY <3>1, <3>2
    <2>. QED BY <1>1, <2>1, <2>3, <2>4 DEF Tokens, H!Producer
  <1>8. Totalled'
    BY <1>1, <1>2, <1>4, <1>6 DEF HistogramInv, Totalled
  <1>. QED BY <1>2, <1>5, <1>6, <1>7, <1>8 DEF HistogramInv

\* The first pointer of the buffer, which is there, goes to the consumer.
LEMMA HistogramRead ==
    ASSUME HistogramInv, H!ReadHistogram
    PROVE  HistogramInv'
  <1>. USE DEF H!ReadHistogram
  <1>1. IndexTaken' /\ OnlyPages' /\ H!CountedOnce' /\ H!Segment' = H!Segment
    BY CountingIsOver DEF HistogramInv, HistogramRanges
  <1>2. /\ g_bucket_histo \in Seq(H!Producer) /\ g_histo_to_read \in Nat
        /\ consumer = "read"
    BY DEF HistogramInv, HistogramRanges
  <1>3. g_bucket_histo # <<>>
    <2>1. Len(g_bucket_histo)
            = g_histo_to_read + (IF \E p \in H!Producer : h_pc[p] = "post" THEN 1 ELSE 0) + 1
      BY <1>2 DEF HistogramInv, Tokens
    <2>. QED BY <1>2, <2>1
  <1>4. /\ current' = g_bucket_histo[1] /\ g_bucket_histo[1] \in H!Producer
        /\ consumer' = "add"
        /\ g_bucket_histo' \in Seq(H!Producer)
        /\ Len(g_bucket_histo) \in Nat \ {0}
        /\ Len(g_bucket_histo') = Len(g_bucket_histo) - 1
        /\ \A k \in 1..Len(g_bucket_histo') : g_bucket_histo'[k] = g_bucket_histo[k + 1]
    BY <1>2, <1>3
  <1>5. \A k \in 1..Len(g_bucket_histo') :
           k + 1 \in 1..Len(g_bucket_histo) /\ g_bucket_histo[k + 1] # g_bucket_histo[1]
    BY <1>4 DEF HistogramInv, Buffered
  <1>6. \A p \in H!Producer : Queued(p)' <=> Queued(p) /\ p # current'
    <2>1. \A k \in 2..Len(g_bucket_histo) :
             k - 1 \in 1..Len(g_bucket_histo') /\ g_bucket_histo'[k - 1] = g_bucket_histo[k]
      BY <1>4
    <2>. QED BY <1>4, <1>5, <2>1 DEF Queued
  <1>7. Buffered'
    <2>1. \A k \in 1..Len(g_bucket_histo') : h_pc[g_bucket_histo'[k]] \in HandedIn
      BY <1>4, <1>5 DEF HistogramInv, Buffered
    <2>2. \A k, l \in 1..Len(g_bucket_histo') : g_bucket_histo'[k] = g_bucket_histo'[l] => k = l
      <3>. SUFFICES ASSUME NEW k \in 1..Len(g_bucket_histo'), NEW l \in 1..Len(g_bucket_histo'),
                           g_bucket_histo'[k] = g_bucket_histo'[l]
                    PROVE  k = l
        OBVIOUS
      <3>1. k + 1 = l + 1
        BY <1>4, <1>5 DEF HistogramInv, Buffered
      <3>. QED BY <3>1
    <2>3. h_pc[current'] \in HandedIn
      BY <1>4 DEF HistogramInv, Buffered
    <2>. QED BY <1>4, <1>6, <2>1, <2>2, <2>3 DEF Buffered, H!Producer
  <1>8. Added' = Added
    <2>1. \A p \in H!Producer :
             h_pc[p] \in HandedIn /\ ~Queued(p)' /\ ~(consumer' = "add" /\ current' = p)
                 <=> h_pc[p] \in HandedIn /\ ~Queued(p) /\ ~(consumer = "add" /\ current = p)
      <3>1. Queued(current')
        BY <1>4 DEF Queued
      <3>. QED BY <1>2, <1>4, <1>6, <3>1
    <2>2. h_pc' = h_pc
      OBVIOUS
    <2>. QED BY <2>1, <2>2, Zenon DEF Added, H!Producer
  <1>9. Tokens'
    <2>. DEFINE posting == IF \E p \in H!Producer : h_pc[p] = "post" THEN 1 ELSE 0
    <2>1. posting' = posting /\ posting \in Nat
      BY DEF H!Producer
    <2>2. Len(g_bucket_histo) = g_histo_to_read + posting + 1
      BY <1>2 DEF HistogramInv, Tokens
    <2>3. g_histo_to_read' = g_histo_to_read
      OBVIOUS
    <2>4. Len(g_bucket_histo')
            = g_histo_to_read' + posting' + (IF consumer' = "read" THEN 1 ELSE 0)
      <3>. HIDE DEF posting
      <3>. QED BY <1>2, <1>4, <2>1, <2>2, <2>3
    <2>. QED BY <2>4 DEF Tokens
  <1>10. Totalled'
    BY <1>1, <1>2, <1>4, <1>8 DEF HistogramInv, HistogramRanges, Totalled, H!Running
  <1>11. HistogramRanges' /\ HistogramLocked'
    BY <1>1, <1>4 DEF HistogramInv, HistogramRanges, HistogramLocked, H!Producer
  <1>. QED BY <1>1, <1>7, <1>9, <1>10, <1>11 DEF HistogramInv

LEMMA HistogramInit == H!Init => HistogramInv
  <1>. SUFFICES ASSUME H!Init PROVE HistogramInv
    OBVIOUS
  <1>. USE DEF H!Init
  <1>1. size_of_file \in Nat /\ NumOfProducers \in Nat
    <2>1. PageSize \in Nat /\ FileSizes \subseteq 0..(3 * PageSize - 1)
      BY ThreadsAssumption DEF H!HistogramAssumption
    <2>2. 0..(3 * PageSize - 1) \subseteq Nat
      BY <2>1
    <2>. QED BY <2>1, <2>2, ThreadsAssumption DEF H!HistogramAssumption
  <1>2. H!num_of_segments \in Nat
    BY <1>1, ThreadsAssumption DEF H!num_of_segments, H!HistogramAssumption
  <1>3. 0 \in H!Segment /\ H!Empty \in [H!Segment -> Nat]
    BY <1>2 DEF H!Segment, H!Empty
  <1>4. \A p \in H!Producer : h_pc[p] = "lock" /\ segment[p] = 0 /\ personal_histo[p] = H!Empty
    OBVIOUS
  <1>5. g_bucket_histo = <<>> /\ Len(g_bucket_histo) = 0 /\ g_bucket_histo \in Seq(H!Producer)
    OBVIOUS
  <1>6. HistogramRanges
    BY <1>1, <1>3, <1>5 DEF HistogramRanges, HistogramLabel
  <1>7. HistogramLocked /\ IndexTaken
    BY <1>4 DEF HistogramLocked, IndexTaken, Holding, HandedIn, H!Producer
  <1>8. OnlyPages
    BY <1>4 DEF OnlyPages, H!Empty
  <1>9. H!CountedOnce
    <2>1. \A s \in H!Page : s \in Int /\ ~(s <= g_i_segment_arr) /\ s \in H!Segment
      BY <1>2 DEF H!Page, H!Segment
    <2>2. \A q \in H!Producer : \A s \in H!Page : H!Share(q, s) = 0
      BY <1>4, <2>1 DEF H!Share, H!Empty
    <2>. QED BY <2>1, <2>2 DEF H!CountedOnce
  <1>10. Buffered /\ Tokens
    BY <1>4, <1>5 DEF Buffered, Tokens
  <1>11. Totalled
    <2>1. Added = {}
      BY <1>4 DEF Added, HandedIn
    <2>. QED BY <2>1, FS_EmptySet DEF Totalled, H!Empty
  <1>. QED BY <1>6, <1>7, <1>8, <1>9, <1>10, <1>11 DEF HistogramInv

LEMMA HistogramNext ==
    ASSUME HistogramInv, H!Next \/ UNCHANGED histogram
    PROVE  HistogramInv'
  <1>1. CASE \E p \in H!Producer : H!Produce(p)
    BY <1>1, HistogramLockSegments, HistogramTake, HistogramChoose, HistogramUnlock,
       HistogramCount, HistogramWrite, HistogramPost DEF H!Produce
  <1>2. CASE H!Consume \/ H!JoinAndPrint
    BY <1>2, HistogramWait, HistogramRead, HistogramAdd DEF H!Consume
  <1>3. CASE UNCHANGED histogram
    <2>1. IndexTaken' /\ OnlyPages' /\ H!CountedOnce' /\ H!Segment' = H!Segment
      BY <1>3, CountingIsOver DEF HistogramInv, HistogramRanges, histogram
    <2>2. HistogramRanges' /\ HistogramLocked'
      BY <1>3, <2>1 DEF HistogramInv, HistogramRanges, HistogramLocked, H!Producer,
                        histogram
    <2>3. Buffered' /\ Tokens' /\ Added' = Added
      BY <1>3 DEF HistogramInv, Buffered, Tokens, Added, Queued, H!Producer, histogram
    <2>4. Totalled'
      BY <1>3, <2>1, <2>3 DEF HistogramInv, Totalled, histogram
    <2>. QED BY <2>1, <2>2, <2>3, <2>4 DEF HistogramInv
  <1>. QED BY <1>1, <1>2, <1>3 DEF H!Next, H!Stopped, H!vars, H!consumerVars, histogram

\* When the consumer is done every producer is, and the sum of what they
\* counted has every page once.
LEMMA PrintedIsComplete ==
    ASSUME HistogramInv, NumOfProducers > 0
    PROVE  H!TotalIsComplete
  <1>1. H!ReadsFinishedHistograms
    BY DEF HistogramInv, HistogramRanges, Buffered, HandedIn, H!ReadsFinishedHistograms
  <1>2. ASSUME h_main = "printed"
        PROVE  g_total_histo = [s \in H!Segment |-> IF s \in H!Page THEN 1 ELSE 0]
    <2>1. Added = H!Producer
      <3>1. /\ Cardinality(Added) = h_i /\ h_i \in Nat
            /\ h_i >= NumOfProducers
        BY <1>2 DEF HistogramInv, Totalled, HistogramRanges
      <3>2. Added \subseteq H!Producer
        BY DEF Added
      <3>3. Cardinality(Added) <= Cardinality(H!Producer)
        BY <3>2, ProducersAreFinite, FS_Subset
      <3>4. Cardinality(Added) = Cardinality(H!Producer)
        BY <3>1, <3>3, ProducersAreFinite, ThreadsAssumption DEF H!HistogramAssumption
      <3>. QED BY <3>2, <3>4, ProducersAreFinite, FS_Subset
    <2>2. \A p \in H!Producer : h_pc[p] \in HandedIn
      BY <2>1 DEF Added
    <2>3. 1 \in H!Producer
      BY ThreadsAssumption DEF H!Producer, H!HistogramAssumption
    <2>4. g_i_segment_arr > H!num_of_segments /\ g_i_segment_arr \in Int
      BY <2>2, <2>3 DEF HistogramInv, HistogramRanges, IndexTaken
    <2>5. ASSUME NEW s \in H!Segment
          PROVE  g_total_histo[s] = IF s \in H!Page THEN 1 ELSE 0
      <3>1. g_total_histo[s] = IF \E p \in H!Producer : personal_histo[p][s] > 0 THEN 1 ELSE 0
        BY <2>1 DEF HistogramInv, Totalled
      <3>2. CASE s \notin H!Page
        <4>1. \A p \in H!Producer : personal_histo[p][s] = 0
          BY <3>2 DEF HistogramInv, OnlyPages
        <4>. QED BY <3>1, <3>2, <4>1
      <3>3. CASE s \in H!Page
        <4>1. H!num_of_segments \in Nat
          BY SegmentsAreCounted
        <4>2. s <= g_i_segment_arr
          BY <2>4, <4>1 DEF H!Segment
        <4>3. PICK o \in H!Producer : H!Share(o, s) = 1
          BY <3>3, <4>2 DEF HistogramInv, H!CountedOnce
        <4>4. personal_histo[o][s] \in Nat
          BY DEF HistogramInv, HistogramRanges
        <4>5. H!Share(o, s) = personal_histo[o][s] + 0
          BY <2>2 DEF H!Share, HandedIn
        <4>6. personal_histo[o][s] > 0
          BY <4>3, <4>4, <4>5
        <4>. QED BY <3>1, <3>3, <4>6
      <3>. QED BY <3>2, <3>3
    <2>. QED BY <2>5 DEF HistogramInv, HistogramRanges
  <1>. QED BY <1>1, <1>2 DEF H!TotalIsComplete

\* For any number of producers, and any file that the assumption admits, every
\* page up to the index is counted by one producer, once, or about to be.
THEOREM PagesCountedOnce == Spec => []CountedOnce
  <1>1. Init => HistogramInv
    BY HistogramInit DEF Init
  <1>2. HistogramInv /\ [Next]_vars => HistogramInv'
    BY StepOfOne, HistogramNext
  <1>3. HistogramInv => CountedOnce
    BY DEF HistogramInv, CountedOnce
  <1>. QED BY <1>1, <1>2, <1>3, PTL DEF Spec

\* With at least one producer the consumer never looks for a pointer that is
\* not there, adds only histograms that are finished, and when the total is
\* printed it has counted every page once.  (With none, nobody counts.)
THEOREM PrintedTotalIsComplete ==
    ASSUME NumOfProducers > 0
    PROVE  Spec => []TotalIsComplete
  <1>1. Init => HistogramInv
    BY HistogramInit DEF Init
  <1>2. HistogramInv /\ [Next]_vars => HistogramInv'
    BY StepOfOne, HistogramNext
  <1>3. HistogramInv => TotalIsComplete
    BY PrintedIsComplete DEF TotalIsComplete
  <1>. QED BY <1>1, <1>2, <1>3, PTL DEF Spec

-----------------------------------------------------------------------------
(* Induction over the numbers *)

\* A set of numbers with 0 and, with a number, the next one has all of them:
\* otherwise the least number left out would have its predecessor left out.
LEMMA NatSetInduction ==
    ASSUME NEW N0 \in SUBSET Nat, 0 \in N0, \A m \in N0 : m + 1 \in N0
    PROVE  N0 = Nat
  <1>. DEFINE Less == {p \in Nat \X Nat : p[1] < p[2]}
  <1>1. IsWellFoundedOn(Less, Nat)
    BY NatLessThanWellFounded, Zenon DEF OpToRel
  <1>2. SUFFICES ASSUME Nat \ N0 # {}
                 PROVE  FALSE
    OBVIOUS
  <1>3. PICK x \in Nat \ N0 : \A y \in Nat \ N0 : ~(<<y, x>> \in Less)
    <2>1. Nat \ N0 \subseteq Nat
      OBVIOUS
    <2>. HIDE DEF Less
    <2>. QED BY <1>1, <1>2, <2>1, WFMin
  <1>4. x \in Nat /\ x # 0
    BY <1>3
  <1>5. x - 1 \in Nat /\ <<x - 1, x>> \in Less
    BY <1>4
  <1>6. x - 1 \in N0
    BY <1>3, <1>5
  <1>7. (x - 1) + 1 \in N0
    BY <1>6
  <1>. QED BY <1>3, <1>4, <1>7

-----------------------------------------------------------------------------
(* Sums over finite sets *)

\* The element that a fold over s takes first.
Chosen(s) == CHOOSE x \in s : TRUE

\* What g gives for s, when it adds up the values of v: one value and the rest.
OneAndRest(g, v, s) == IF s = {} THEN 0 ELSE v[Chosen(s)] + g[s \ {Chosen(s)}]

\* g adds up the values that v has in a subset of U.
IsSum(g, v, U) == g = [s \in SUBSET U |-> OneAndRest(g, v, s)]

SumOver(v, U) == (CHOOSE g : IsSum(g, v, U))[U]

\* What is left of a finite set without one element is finite, and smaller.
LEMMA OneLess ==
    ASSUME NEW s, IsFiniteSet(s), NEW x \in s, NEW m \in Nat, Cardinality(s) <= m + 1
    PROVE  IsFiniteSet(s \ {x}) /\ Cardinality(s \ {x}) <= m
  <1>1. IsFiniteSet(s \ {x}) /\ Cardinality(s \ {x}) = Cardinality(s) - 1 /\ Cardinality(s) \in Nat
    BY FS_RemoveElement, FS_CardinalityType
  <1>. QED BY <1>1

\* The recursive definition of a sum defines something.
LEMMA SumExists ==
    ASSUME NEW U, IsFiniteSet(U), NEW v
    PROVE  \E g : IsSum(g, v, U)
  <1>. DEFINE Upto(m) == {s \in SUBSET U : Cardinality(s) <= m}
              Sums(g, m) == g = [s \in Upto(m) |-> OneAndRest(g, v, s)]
              Known == {m \in Nat : \E g : Sums(g, m)}
  <1>1. \A s \in SUBSET U : IsFiniteSet(s) /\ Cardinality(s) \in Nat /\ Cardinality(s) <= Cardinality(U)
    BY FS_Subset, FS_CardinalityType
  <1>2. 0 \in Known
    <2>. DEFINE g == [s \in Upto(0) |-> 0]
    <2>1. ASSUME NEW s \in Upto(0)
          PROVE  s = {}
      BY <1>1, FS_EmptySet
    <2>2. Sums(g, 0)
      BY <2>1 DEF OneAndRest
    <2>. QED BY <2>2
  <1>3. ASSUME NEW m \in Known
        PROVE  m + 1 \in Known
    <2>1. m \in Nat /\ m + 1 \in Nat
      OBVIOUS
    <2>2. PICK g : Sums(g, m)
      OBVIOUS
    <2>. DEFINE h == [s \in Upto(m + 1) |-> OneAndRest(g, v, s)]
    <2>3. \A s \in Upto(m) : s \in Upto(m + 1)
      BY <1>1, <2>1
    <2>4. ASSUME NEW s \in Upto(m + 1), s # {}
          PROVE  s \ {Chosen(s)} \in Upto(m)
      <3>1. Chosen(s) \in s
        BY <2>4 DEF Chosen
      <3>. QED BY <1>1, <2>1, <3>1, OneLess
    <2>5. \A s \in Upto(m) : h[s] = g[s]
      <3>. HIDE DEF Upto
      <3>. QED BY <2>2, <2>3
    <2>6. \A s \in Upto(m + 1) : OneAndRest(h, v, s) = OneAndRest(g, v, s)
      <3>. HIDE DEF Upto, h
      <3>. QED BY <2>4, <2>5, Zenon DEF OneAndRest
    <2>7. Sums(h, m + 1)
      <3>. HIDE DEF Upto
      <3>. QED BY <2>6
    <2>. QED BY <2>1, <2>7
  <1>4. Known = Nat
    <2>1. Known \in SUBSET Nat
      OBVIOUS
    <2>. HIDE DEF Known
    <2>. QED BY <1>2, <1>3, <2>1, NatSetInduction
  <1>5. Cardinality(U) \in Nat /\ Upto(Cardinality(U)) = SUBSET U
    BY <1>1, FS_CardinalityType
  <1>6. PICK g : Sums(g, Cardinality(U))
    <2>. HIDE DEF Sums
    <2>. QED BY <1>4, <1>5
  <1>7. IsSum(g, v, U)
    <2>. HIDE DEF Upto
    <2>. QED BY <1>5, <1>6 DEF IsSum
  <1>. QED BY <1>7

\* It is the same whichever values there are besides.
LEMMA SumOfSubset ==
    ASSUME NEW U, IsFiniteSet(U), NEW T \in SUBSET U, NEW v, NEW g, IsSum(g, v, U)
    PROVE  SumOver(v, T) = g[T]
  <1>. DEFINE h == CHOOSE f : IsSum(f, v, T)
              Same(m) == \A s \in SUBSET T : Cardinality(s) <= m => h[s] = g[s]
              Known == {m \in Nat : Same(m)}
  <1>1. /\ IsFiniteSet(T) /\ Cardinality(T) \in Nat
        /\ \A s \in SUBSET T : IsFiniteSet(s) /\ Cardinality(s) \in Nat
    BY FS_Subset, FS_CardinalityType
  <1>2. IsSum(h, v, T)
    BY <1>1, SumExists, Zenon
  <1>3. \A s \in SUBSET T : h[s] = OneAndRest(h, v, s) /\ g[s] = OneAndRest(g, v, s)
    <2>. HIDE DEF h
    <2>. QED BY <1>2 DEF IsSum
  <1>. HIDE DEF h
  <1>4. 0 \in Known
    <2>1. ASSUME NEW s \in SUBSET T, Cardinality(s) <= 0
          PROVE  s = {}
      BY <1>1, <2>1, FS_EmptySet
    <2>2. ASSUME NEW s \in SUBSET T, Cardinality(s) <= 0
          PROVE  h[s] = g[s]
      BY <1>3, <2>1, <2>2 DEF OneAndRest
    <2>. QED BY <2>2
  <1>5. ASSUME NEW m \in Known
        PROVE  m + 1 \in Known
    <2>1. m \in Nat /\ m + 1 \in Nat
      OBVIOUS
    <2>2. ASSUME NEW s \in SUBSET T, Cardinality(s) <= m + 1
          PROVE  h[s] = g[s]
      <3>1. CASE s = {}
        BY <1>3, <3>1 DEF OneAndRest
      <3>2. CASE s # {}
        <4>1. Chosen(s) \in s /\ s \ {Chosen(s)} \in SUBSET T
          BY <3>2 DEF Chosen
        <4>2. Cardinality(s \ {Chosen(s)}) <= m
          BY <1>1, <2>1, <2>2, <4>1, OneLess
        <4>3. h[s \ {Chosen(s)}] = g[s \ {Chosen(s)}]
          BY <4>1, <4>2
        <4>. QED BY <1>3, <3>2, <4>3, Zenon DEF OneAndRest
      <3>. QED BY <3>1, <3>2
    <2>. QED BY <2>1, <2>2
  <1>6. Known = Nat
    <2>1. Known \in SUBSET Nat
      OBVIOUS
    <2>. HIDE DEF Known
    <2>. QED BY <1>4, <1>5, <2>1, NatSetInduction
  <1>7. Same(Cardinality(T))
    <2>. HIDE DEF Same
    <2>. QED BY <1>1, <1>6
  <1>8. h[T] = g[T]
    BY <1>1, <1>7
  <1>. QED BY <1>8, Zenon DEF SumOver, h

\* The order in which values are added does not matter.
LEMMA SumRemoves ==
    ASSUME NEW U, IsFiniteSet(U), NEW v \in [U -> Int], NEW g, IsSum(g, v, U)
    PROVE  \A s \in SUBSET U : g[s] \in Int /\ \A x \in s : g[s] = v[x] + g[s \ {x}]
  <1>. DEFINE Good(s) == g[s] \in Int /\ \A x \in s : g[s] = v[x] + g[s \ {x}]
              Known == {m \in Nat : \A s \in SUBSET U : Cardinality(s) <= m => Good(s)}
  <1>1. \A s \in SUBSET U : IsFiniteSet(s) /\ Cardinality(s) \in Nat
    BY FS_Subset, FS_CardinalityType
  <1>2. \A s \in SUBSET U : g[s] = OneAndRest(g, v, s)
    BY DEF IsSum
  <1>7. Good({})
    <2>1. {} \in SUBSET U
      OBVIOUS
    <2>2. g[{}] = 0
      BY <1>2, <2>1, Zenon DEF OneAndRest
    <2>. QED BY <2>2
  <1>3. 0 \in Known
    <2>1. ASSUME NEW s \in SUBSET U, Cardinality(s) <= 0
          PROVE  Good(s)
      <3>1. s = {}
        BY <1>1, <2>1, FS_EmptySet
      <3>. QED BY <1>7, <3>1, Zenon
    <2>. QED BY <2>1
  <1>4. ASSUME NEW m \in Known
        PROVE  m + 1 \in Known
    <2>1. m \in Nat /\ m + 1 \in Nat /\ \A s \in SUBSET U : Cardinality(s) <= m => Good(s)
      OBVIOUS
    <2>2. ASSUME NEW s \in SUBSET U, Cardinality(s) <= m + 1
          PROVE  Good(s)
      <3>1. CASE s = {}
        BY <1>7, <3>1, Zenon
      <3>2. CASE s # {}
        <4>. DEFINE c == Chosen(s)
        <4>1. c \in s
          BY <3>2 DEF Chosen
        <4>2. ASSUME NEW x \in s
              PROVE  /\ s \ {x} \in SUBSET U /\ Good(s \ {x})
                     /\ IsFiniteSet(s \ {x}) /\ v[x] \in Int
          <5>1. IsFiniteSet(s \ {x}) /\ Cardinality(s \ {x}) <= m
            BY <1>1, <2>1, <2>2, OneLess
          <5>. HIDE DEF Good
          <5>. QED BY <2>1, <5>1
        <4>3. g[s] = v[c] + g[s \ {c}]
          BY <1>2, <3>2, Zenon DEF OneAndRest
        <4>4. g[s] \in Int /\ v[c] \in Int
          <5>1. v[c] \in Int /\ g[s \ {c}] \in Int
            BY <4>1, <4>2
          <5>. HIDE DEF c, Good, Known
          <5>. QED BY <4>3, <5>1
        <4>5. ASSUME NEW x \in s, x # c
              PROVE  g[s] = v[x] + g[s \ {x}]
          <5>1. x \in s \ {c} /\ c \in s \ {x} /\ (s \ {c}) \ {x} = (s \ {x}) \ {c}
            BY <4>1, <4>5
          <5>2. g[s \ {c}] = v[x] + g[(s \ {c}) \ {x}]
            BY <4>1, <4>2, <5>1
          <5>3. g[s \ {x}] = v[c] + g[(s \ {x}) \ {c}]
            BY <4>2, <5>1
          <5>4. g[(s \ {x}) \ {c}] \in Int
            <6>1. (s \ {x}) \ {c} \in SUBSET U
              OBVIOUS
            <6>2. Cardinality((s \ {x}) \ {c}) <= m
              <7>1. Cardinality(s \ {x}) <= m /\ IsFiniteSet(s \ {x})
                BY <1>1, <2>1, <2>2, OneLess
              <7>2. Cardinality((s \ {x}) \ {c}) = Cardinality(s \ {x}) - 1 /\ Cardinality(s \ {x}) \in Nat
                BY <5>1, <7>1, FS_RemoveElement, FS_CardinalityType
              <7>. QED BY <2>1, <7>1, <7>2
            <6>. QED BY <2>1, <6>1, <6>2
          <5>5. v[x] \in Int
            OBVIOUS
          <5>. DEFINE both == g[(s \ {x}) \ {c}]
                      first == v[c]
                      second == v[x]
                      rest == g[s \ {x}]
          <5>6. /\ both \in Int /\ first \in Int /\ second \in Int
                /\ g[s] = first + (second + both) /\ rest = first + both
            BY <4>3, <4>4, <5>1, <5>2, <5>3, <5>4, <5>5, Zenon
          <5>7. g[s] = second + rest
            <6>. HIDE DEF both, first, second, rest
            <6>. QED BY <5>6
          <5>. QED BY <5>7
        <4>. QED BY <4>3, <4>4, <4>5
      <3>. QED BY <3>1, <3>2
    <2>. QED BY <2>1, <2>2
  <1>5. Known = Nat
    <2>1. Known \in SUBSET Nat
      OBVIOUS
    <2>. HIDE DEF Known
    <2>. QED BY <1>3, <1>4, <2>1, NatSetInduction
  <1>6. ASSUME NEW s \in SUBSET U
        PROVE  Good(s)
    <2>1. Cardinality(s) \in Known
      BY <1>1, <1>5
    <2>2. Cardinality(s) <= Cardinality(s)
      BY <1>1
    <2>. HIDE DEF Good
    <2>. QED BY <2>1, <2>2
  <1>. QED BY <1>6

\* What one expects of sums over the subsets of U.
AddsUp(v, U) ==
    /\ SumOver(v, {}) = 0
    /\ \A s \in SUBSET U : SumOver(v, s) \in Int
    /\ \A s \in SUBSET U : \A x \in s : SumOver(v, s) = v[x] + SumOver(v, s \ {x})

LEMMA SumLaws ==
    ASSUME NEW U, IsFiniteSet(U), NEW v \in [U -> Int]
    PROVE  AddsUp(v, U)
  <1>1. PICK g : IsSum(g, v, U)
    BY SumExists
  <1>2. \A s \in SUBSET U : SumOver(v, s) = g[s]
    BY <1>1, SumOfSubset
  <1>3. g[{}] = 0
    BY <1>1 DEF IsSum, OneAndRest
  <1>4. \A s \in SUBSET U : g[s] \in Int /\ \A x \in s : g[s] = v[x] + g[s \ {x}]
    BY <1>1, SumRemoves
  <1>5. {} \in SUBSET U /\ \A s \in SUBSET U : \A x \in s : s \ {x} \in SUBSET U
    OBVIOUS
  <1>. QED BY <1>2, <1>3, <1>4, <1>5, Zenon DEF AddsUp

\* How the model adds up what the threads found.
LEMMA SumOfValues ==
    ASSUME NEW v, NEW U
    PROVE  D!MapThenSumSet(LAMBDA t : v[t], U) = SumOver(v, U)
  BY Zenon DEF D!MapThenSumSet, D!MapThenFoldSet, SumOver, IsSum, OneAndRest, Chosen

\* How it adds up numbers.
LEMMA SumOfNumbers ==
    ASSUME NEW U, NEW v, \A x \in U : v[x] = x
    PROVE  D!SumSet(U) = SumOver(v, U)
  <1>. DEFINE Sums(g) == g = [s \in SUBSET U |-> IF s = {} THEN 0 ELSE Chosen(s) + g[s \ {Chosen(s)}]]
  <1>1. D!SumSet(U) = (CHOOSE g : Sums(g))[U]
    BY Zenon DEF D!SumSet, D!FoldSet, D!MapThenFoldSet, Chosen
  <1>2. ASSUME NEW s \in SUBSET U, s # {}
        PROVE  v[Chosen(s)] = Chosen(s)
    BY <1>2 DEF Chosen
  <1>3. ASSUME NEW g
        PROVE  Sums(g) <=> IsSum(g, v, U)
    <2>1. \A s \in SUBSET U : (IF s = {} THEN 0 ELSE Chosen(s) + g[s \ {Chosen(s)}]) = OneAndRest(g, v, s)
      BY <1>2, Zenon DEF OneAndRest
    <2>2. [s \in SUBSET U |-> IF s = {} THEN 0 ELSE Chosen(s) + g[s \ {Chosen(s)}]]
             = [s \in SUBSET U |-> OneAndRest(g, v, s)]
      BY <2>1
    <2>. QED BY <2>2, Zenon DEF IsSum
  <1>4. (CHOOSE g : Sums(g)) = (CHOOSE g : IsSum(g, v, U))
    <2>. HIDE DEF Sums
    <2>. QED BY <1>3
  <1>. QED BY <1>1, <1>4, Zenon DEF SumOver

\* How much the numbers of a set are.
Total(s) == D!SumSet(s)

\* One number more makes a total greater by that number, and the totals of two
\* sets with nothing in common add up to that of both.
HasTotals(U) ==
    /\ Total({}) = 0
    /\ \A s \in SUBSET U : Total(s) \in Nat
    /\ \A s \in SUBSET U : \A x \in U \ s : Total(s \cup {x}) = x + Total(s)
    /\ \A s, t \in SUBSET U : s \cap t = {} => Total(s \cup t) = Total(s) + Total(t)

\* Every finite set of numbers has totals.
LEMMA Totals ==
    ASSUME NEW U, IsFiniteSet(U), U \subseteq Nat
    PROVE  HasTotals(U)
  <1>. DEFINE v == [x \in U |-> x]
              Apart(t) == \A s \in SUBSET U : s \cap t = {} => Total(s \cup t) = Total(s) + Total(t)
              Good(t) == Total(t) \in Nat /\ Apart(t)
              Known == {m \in Nat : \A t \in SUBSET U : Cardinality(t) <= m => Good(t)}
  <1>1. \A s \in SUBSET U : IsFiniteSet(s) /\ Cardinality(s) \in Nat
    BY FS_Subset, FS_CardinalityType
  <1>2. \A s \in SUBSET U : Total(s) = SumOver(v, s)
    <2>1. \A s \in SUBSET U : \A x \in s : v[x] = x
      OBVIOUS
    <2>. HIDE DEF v
    <2>. QED BY <2>1, SumOfNumbers, Zenon DEF Total
  <1>3. /\ Total({}) = 0
        /\ \A s \in SUBSET U : Total(s) \in Int
        /\ \A s \in SUBSET U : \A x \in s : Total(s) = x + Total(s \ {x})
    <2>1. v \in [U -> Int]
      OBVIOUS
    <2>2. \A x \in U : v[x] = x
      OBVIOUS
    <2>. HIDE DEF v
    <2>3. AddsUp(v, U)
      BY <2>1, SumLaws
    <2>4. {} \in SUBSET U /\ \A s \in SUBSET U : \A x \in s : s \ {x} \in SUBSET U /\ x \in U
      OBVIOUS
    <2>. QED BY <1>2, <2>2, <2>3, <2>4, Zenon DEF AddsUp
  <1>4. Good({})
    <2>1. \A s \in SUBSET U : s \cup {} = s
      OBVIOUS
    <2>. QED BY <1>3, <2>1
  <1>5. 0 \in Known
    <2>1. ASSUME NEW t \in SUBSET U, Cardinality(t) <= 0
          PROVE  t = {}
      BY <1>1, <2>1, FS_EmptySet
    <2>. HIDE DEF Good
    <2>. QED BY <1>4, <2>1
  <1>6. ASSUME NEW m \in Known
        PROVE  m + 1 \in Known
    <2>1. m \in Nat /\ m + 1 \in Nat /\ \A t \in SUBSET U : Cardinality(t) <= m => Good(t)
      OBVIOUS
    <2>2. ASSUME NEW t \in SUBSET U, Cardinality(t) <= m + 1
          PROVE  Good(t)
      <3>1. CASE t = {}
        BY <1>4, <3>1, Zenon
      <3>2. CASE t # {}
        <4>1. PICK x : x \in t
          BY <3>2
        <4>2. Cardinality(t \ {x}) <= m /\ t \ {x} \in SUBSET U
          BY <1>1, <2>1, <2>2, <4>1, OneLess
        <4>3. Total(t \ {x}) \in Nat /\ Apart(t \ {x})
          BY <2>1, <4>2
        <4>4. Total(t) = x + Total(t \ {x}) /\ x \in Nat
          BY <1>3, <4>1
        <4>5. Total(t) \in Nat
          BY <4>3, <4>4
        <4>6. ASSUME NEW s \in SUBSET U, s \cap t = {}
              PROVE  Total(s \cup t) = Total(s) + Total(t)
          <5>1. /\ s \cup t \in SUBSET U /\ x \in s \cup t
                /\ (s \cup t) \ {x} = s \cup (t \ {x}) /\ s \cap (t \ {x}) = {}
            BY <4>1, <4>6
          <5>2. Total(s \cup t) = x + Total(s \cup (t \ {x}))
            BY <1>3, <5>1
          <5>3. Total(s \cup (t \ {x})) = Total(s) + Total(t \ {x}) /\ Total(s) \in Int
            BY <1>3, <4>3, <5>1
          <5>. DEFINE p == Total(s)
                      q == Total(t \ {x})
          <5>4. p \in Int /\ q \in Int /\ x \in Int
                /\ Total(s \cup t) = x + (p + q) /\ Total(t) = x + q
            BY <4>3, <4>4, <5>2, <5>3
          <5>5. Total(s \cup t) = p + Total(t)
            <6>. HIDE DEF p, q
            <6>. QED BY <5>4
          <5>. QED BY <5>5
        <4>. QED BY <4>5, <4>6
      <3>. QED BY <3>1, <3>2
    <2>. HIDE DEF Good
    <2>. QED BY <2>1, <2>2
  <1>7. Known = Nat
    <2>1. Known \in SUBSET Nat
      OBVIOUS
    <2>. HIDE DEF Known
    <2>. QED BY <1>5, <1>6, <2>1, NatSetInduction
  <1>8. ASSUME NEW t \in SUBSET U
        PROVE  Good(t)
    <2>1. Cardinality(t) \in Known /\ Cardinality(t) <= Cardinality(t)
      BY <1>1, <1>7
    <2>. HIDE DEF Good
    <2>. QED BY <2>1
  <1>9. ASSUME NEW s \in SUBSET U, NEW x \in U \ s
        PROVE  Total(s \cup {x}) = x + Total(s)
    <2>1. s \cup {x} \in SUBSET U /\ x \in s \cup {x} /\ (s \cup {x}) \ {x} = s
      OBVIOUS
    <2>. QED BY <1>3, <2>1
  <1>10. \A t \in SUBSET U : Total(t) \in Nat /\ Apart(t)
    BY <1>8
  <1>11. \A s, t \in SUBSET U : s \cap t = {} => Total(s \cup t) = Total(s) + Total(t)
    BY <1>10
  <1>. QED BY <1>3, <1>9, <1>10, <1>11, Zenon DEF HasTotals

-----------------------------------------------------------------------------
(* SumOfDivisors: the ranges are a partition.  What a thread has added is  *)
(* known from what it has left; what racing workers do to sum is only that *)
(* additions are lost.                                                     *)

SumMains == {"start", "create", "join", "printed", "failed", "killed", "undefined"}

SumTypes ==
    /\ to_check \in Nat \ {0}
    /\ num_thread \in Nat
    /\ checked \in BOOLEAN /\ openmp \in BOOLEAN
    /\ param \in [D!Index -> [start : Nat, end : Nat]]
    /\ d_pc \in [D!Index -> {"absent", "start", "add", "done"}]
    /\ left \in [D!Index -> [D!Worker -> SUBSET Nat]]
    /\ copy \in [D!Index -> [D!Worker -> Int]]
    /\ sum \in [D!Index -> Nat]
    /\ g_sum_of_div \in [D!Index -> Nat]
    /\ d_i \in Nat
    /\ d_main \in SumMains

\* Main creates the threads in turn.
SumCreating ==
    /\ d_main \in {"create", "join"} => num_thread > 0
    /\ d_main = "create" =>
          d_i < num_thread /\ \A t \in D!Index : t >= d_i => d_pc[t] = "absent"
    /\ d_main = "start" => d_i = 0 /\ \A t \in D!Index : d_pc[t] = "absent"

\* The divisors that thread t is to add, those it has still to add, and those
\* it has added.
DivisorsOf(t) == D!Divisors(param[t])
StillLeft(t) == left[t][1] \cup left[t][2]
AddedSoFar(t) == DivisorsOf(t) \ StillLeft(t)

\* k is the total of the numbers in s, or with racing workers no more than
\* that, and not zero unless s is empty.
Counts(k, s) ==
    IF openmp THEN k <= Total(s) /\ (s # {} => k >= 1) ELSE k = Total(s)

\* A worker between load and store has something to add; its copy is sum, or
\* with racing workers no more than what had been added.
WorkerCopies(t, w) ==
    /\ copy[t][w] \in Nat
    /\ left[t][w] # {}
    /\ IF openmp THEN copy[t][w] <= Total(AddedSoFar(t)) ELSE copy[t][w] = sum[t]

SumAdding(t) ==
    /\ StillLeft(t) \subseteq DivisorsOf(t)
    /\ left[t][1] \cap left[t][2] = {}
    /\ ~openmp => left[t][2] = {}
    /\ Counts(sum[t], AddedSoFar(t))
    /\ \A w \in D!Worker : copy[t][w] # -1 => WorkerCopies(t, w)

SumThread(t) ==
    /\ d_pc[t] # "absent" => param[t] = D!RangeOf(t)
    /\ d_pc[t] \in {"absent", "start"} => sum[t] = 0 /\ \A w \in D!Worker : copy[t][w] = -1
    /\ d_pc[t] = "add" => SumAdding(t)
    /\ d_pc[t] = "done" => Counts(g_sum_of_div[t], DivisorsOf(t))

SumInv == SumTypes /\ SumCreating /\ (\A t \in D!Index : SumThread(t)) /\ PrintsSum

\* The numbers of a range, and its divisors, are finitely many.
LEMMA DivisorsAreFinite ==
    ASSUME NEW r \in [start : Nat, end : Nat]
    PROVE  /\ D!Divisors(r) \subseteq (r.start + 1)..r.end
           /\ IsFiniteSet((r.start + 1)..r.end) /\ (r.start + 1)..r.end \subseteq Nat \ {0}
  <1>1. r.start + 1 \in Int /\ r.end \in Int /\ r.start \in Nat
    OBVIOUS
  <1>2. IsFiniteSet((r.start + 1)..r.end)
    BY <1>1, FS_Interval
  <1>3. (r.start + 1)..r.end \subseteq Nat \ {0}
    BY <1>1
  <1>. QED BY <1>2, <1>3 DEF D!Divisors

\* A set of numbers that are not zero does not count as nothing.
LEMMA CountsPositive ==
    ASSUME NEW U, IsFiniteSet(U), U \subseteq Nat \ {0}, NEW s \in SUBSET U, s # {}
    PROVE  Total(s) >= 1
  <1>1. PICK x \in s : TRUE
    OBVIOUS
  <1>2. x \in U \ (s \ {x}) /\ s \ {x} \in SUBSET U /\ (s \ {x}) \cup {x} = s /\ x \in Nat /\ x >= 1
    OBVIOUS
  <1>3. Total((s \ {x}) \cup {x}) = x + Total(s \ {x}) /\ Total(s \ {x}) \in Nat
    <2>1. HasTotals(U)
      <3>1. U \subseteq Nat
        OBVIOUS
      <3>. QED BY <3>1, Totals
    <2>. QED BY <1>2, <2>1, Zenon DEF HasTotals
  <1>. QED BY <1>2, <1>3

\* Counting two sets with nothing in common.
LEMMA CountsBoth ==
    ASSUME NEW U, IsFiniteSet(U), U \subseteq Nat, NEW s \in SUBSET U, NEW t \in SUBSET U,
           s \cap t = {}, NEW k \in Nat, NEW l \in Nat, Counts(k, s), Counts(l, t)
    PROVE  Counts(k + l, s \cup t)
  <1>1. /\ Total(s) \in Nat /\ Total(t) \in Nat
        /\ Total(s \cup t) = Total(s) + Total(t)
    <2>1. HasTotals(U)
      BY Totals
    <2>. QED BY <2>1 DEF HasTotals
  <1>2. s \cup t # {} => s # {} \/ t # {}
    OBVIOUS
  <1>. QED BY <1>1, <1>2 DEF Counts

\* Where the range of thread t starts, and that of the one before it ends.
Border(t) == IF t = num_thread THEN to_check ELSE t * (to_check \div num_thread)

LEMMA Borders ==
    ASSUME SumTypes, num_thread > 0
    PROVE  /\ \A t \in 0..num_thread : Border(t) \in Nat /\ Border(t) <= to_check
           /\ \A t \in D!Index : Border(t) <= Border(t + 1)
           /\ \A t \in D!Index : D!RangeOf(t) = [start |-> Border(t), end |-> Border(t + 1)]
           /\ Border(0) = 0 /\ Border(num_thread) = to_check
  <1>. DEFINE m == to_check
              k == num_thread
              r == m \div k
  <1>0. m \in Nat /\ k \in Nat /\ k > 0 /\ D!Index = 0..(k - 1)
    BY DEF SumTypes, D!Index
  <1>1. \A t : Border(t) = IF t = k THEN m ELSE t * r
    BY Zenon DEF Border
  <1>2. \A t : D!RangeOf(t) = [start |-> t * r, end |-> IF t = k - 1 THEN m ELSE t * r + r]
    BY Zenon DEF D!RangeOf
  <1>. HIDE DEF m, k
  <1>3. r \in Nat /\ k * r <= m
    <2>1. r \in Int /\ k * r <= m /\ m < k * r + k
      BY <1>0
    <2>2. ASSUME r <= -1
          PROVE  FALSE
      <3>1. k * r <= k * (-1)
        BY <1>0, <2>1, <2>2
      <3>2. k * (-1) = -k /\ k * r \in Int
        BY <1>0, <2>1
      <3>. HIDE DEF r
      <3>. QED BY <1>0, <2>1, <3>1, <3>2
    <2>. HIDE DEF r
    <2>. QED BY <2>1, <2>2
  <1>. HIDE DEF r
  <1>4. ASSUME NEW t \in 0..k
        PROVE  t * r \in Nat /\ (t + 1) * r = t * r + r /\ t * r <= m
    <2>1. t * r \in Nat /\ (t + 1) * r = t * r + r
      BY <1>0, <1>3
    <2>2. k - t \in Nat /\ (k - t) * r \in Nat
      BY <1>0, <1>3
    <2>3. k * r = t * r + (k - t) * r
      BY <1>0, <1>3
    <2>. DEFINE a == t * r
                b == (k - t) * r
    <2>4. a \in Nat /\ b \in Nat /\ k * r = a + b
      BY <2>1, <2>2, <2>3
    <2>5. a <= m
      <3>. HIDE DEF a, b
      <3>. QED BY <1>0, <1>3, <2>4
    <2>. QED BY <2>1, <2>5
  <1>5. \A t \in 0..k : Border(t) \in Nat /\ Border(t) <= m
    <2>1. ASSUME NEW t \in 0..k
          PROVE  Border(t) \in Nat /\ Border(t) <= m
      <3>1. t * r \in Nat /\ t * r <= m
        BY <1>4
      <3>. QED BY <1>0, <1>1, <3>1
    <2>. QED BY <2>1
  <1>6. Border(0) = 0 /\ Border(k) = m
    BY <1>0, <1>1, <1>3
  <1>7. ASSUME NEW t \in 0..(k - 1)
        PROVE  /\ Border(t) = t * r
               /\ Border(t + 1) = IF t = k - 1 THEN m ELSE t * r + r
    <2>1. t \in 0..k /\ t # k /\ (t + 1 = k <=> t = k - 1)
      BY <1>0
    <2>. QED BY <1>1, <1>4, <2>1
  <1>8. ASSUME NEW t \in 0..(k - 1)
        PROVE  Border(t) <= Border(t + 1)
    <2>1. t * r \in Nat
      BY <1>0, <1>4
    <2>2. CASE t = k - 1
      <3>1. (t + 1) * r = t * r + r
        BY <1>0, <1>4
      <3>2. t + 1 = k
        BY <1>0, <2>2
      <3>3. t * r + r <= m
        BY <1>3, <3>1, <3>2
      <3>. QED BY <1>0, <1>3, <1>7, <2>1, <2>2, <3>3
    <2>3. CASE t # k - 1
      BY <1>3, <1>7, <2>1, <2>3
    <2>. QED BY <2>2, <2>3
  <1>9. \A t \in 0..(k - 1) : D!RangeOf(t) = [start |-> Border(t), end |-> Border(t + 1)]
    BY <1>2, <1>7
  <1>. QED BY <1>0, <1>5, <1>6, <1>8, <1>9 DEF m, k

\* A thread that a step leaves alone is as it was.
LEMMA SumThreadSame ==
    ASSUME UNCHANGED <<to_check, num_thread, openmp>>, NEW t, SumThread(t),
           param'[t] = param[t], d_pc'[t] = d_pc[t], left'[t] = left[t],
           copy'[t] = copy[t], sum'[t] = sum[t], g_sum_of_div'[t] = g_sum_of_div[t]
    PROVE  SumThread(t)'
  <1>1. DivisorsOf(t)' = DivisorsOf(t) /\ StillLeft(t)' = StillLeft(t) /\ D!RangeOf(t)' = D!RangeOf(t)
    BY DEF DivisorsOf, StillLeft, D!Divisors, D!RangeOf
  <1>2. AddedSoFar(t)' = AddedSoFar(t)
    BY <1>1 DEF AddedSoFar
  <1>3. \A w : WorkerCopies(t, w) => WorkerCopies(t, w)'
    BY <1>2 DEF WorkerCopies
  <1>4. /\ Counts(sum[t], AddedSoFar(t)) => Counts(sum[t], AddedSoFar(t))'
        /\ Counts(g_sum_of_div[t], DivisorsOf(t)) => Counts(g_sum_of_div[t], DivisorsOf(t))'
    BY <1>1, <1>2 DEF Counts
  <1>5. SumAdding(t) => SumAdding(t)'
    BY <1>1, <1>3, <1>4 DEF SumAdding, D!Worker
  <1>. QED BY <1>1, <1>4, <1>5 DEF SumThread, D!Worker

LEMMA SumInit == D!Init => SumInv
  <1>. SUFFICES ASSUME D!Init
                PROVE  SumInv
    OBVIOUS
  <1>1. to_check \in Nat \ {0} /\ num_thread \in Nat
    BY ThreadsAssumption DEF D!Init, S!MergeSortAssumption
  <1>2. SumTypes
    <2>1. checked \in BOOLEAN /\ openmp \in BOOLEAN
      BY Zenon DEF D!Init
    <2>2. /\ param \in [D!Index -> [start : Nat, end : Nat]]
          /\ d_pc \in [D!Index -> {"absent", "start", "add", "done"}]
      BY DEF D!Init
    <2>3. /\ left \in [D!Index -> [D!Worker -> SUBSET Nat]]
          /\ copy \in [D!Index -> [D!Worker -> Int]]
      BY DEF D!Init
    <2>4. /\ sum \in [D!Index -> Nat] /\ g_sum_of_div \in [D!Index -> Nat]
          /\ d_i \in Nat /\ d_main \in SumMains
      BY DEF D!Init, SumMains
    <2>. QED BY <1>1, <2>1, <2>2, <2>3, <2>4 DEF SumTypes
  <1>3. ASSUME NEW t \in D!Index
        PROVE  SumThread(t)
    BY <1>3 DEF D!Init, SumThread
  <1>4. d_main = "start" /\ SumCreating
    BY DEF D!Init, SumCreating
  <1>. QED BY <1>2, <1>3, <1>4 DEF SumInv, PrintsSum, D!PrintsSum

\* The steps of main but the last.
LEMMA SumMain ==
    ASSUME SumInv, D!Divide \/ D!CreateThread \/ D!ThreadAction
    PROVE  SumInv'
  <1>1. SumTypes /\ SumCreating /\ \A t \in D!Index : SumThread(t)
    BY DEF SumInv
  <1>2. /\ UNCHANGED <<to_check, num_thread, checked, openmp>>
        /\ UNCHANGED <<left, copy, sum, g_sum_of_div, ans>>
        /\ d_main' # "printed"
    BY DEF D!Divide, D!CreateThread, D!ThreadAction, D!input
  <1>3. D!Index' = D!Index /\ D!Worker' = D!Worker
    BY <1>2 DEF D!Index, D!Worker
  <1>4. PrintsSum'
    BY <1>2 DEF PrintsSum, D!PrintsSum
  <1>5. CASE D!Divide \/ D!ThreadAction
    <2>1. UNCHANGED <<param, d_pc, d_i>>
      BY <1>5 DEF D!Divide, D!ThreadAction
    <2>2. /\ d_main' \in {"killed", "create", "failed", "undefined"}
          /\ d_main' = "create" => d_main = "start" /\ num_thread # 0
      BY <1>5 DEF D!Divide, D!ThreadAction
    <2>3. SumTypes'
      BY <1>1, <1>2, <1>3, <2>1, <2>2 DEF SumTypes, SumMains
    <2>4. SumCreating'
      BY <1>1, <1>2, <1>3, <2>1, <2>2 DEF SumTypes, SumCreating, D!Index
    <2>5. \A t \in D!Index : SumThread(t)'
      BY <1>1, <1>2, <2>1, SumThreadSame
    <2>. QED BY <1>3, <1>4, <2>3, <2>4, <2>5 DEF SumInv
  <1>6. CASE D!CreateThread
    <2>1. /\ d_main = "create" /\ d_i \in D!Index /\ d_i < num_thread /\ d_pc[d_i] = "absent"
      BY <1>1, <1>6 DEF D!CreateThread, SumTypes, SumCreating, D!Index
    <2>2. /\ param' = [param EXCEPT ![d_i] = D!RangeOf(d_i)]
          /\ d_i' = d_i + 1
          /\ d_main' \in {"create", "join", "failed"}
          /\ d_main' # "failed" => d_main' = (IF d_i = num_thread - 1 THEN "join" ELSE "create")
          /\ d_pc' \in {d_pc, [d_pc EXCEPT ![d_i] = "start"]}
      BY <1>6 DEF D!CreateThread
    <2>3. D!RangeOf(d_i) \in [start : Nat, end : Nat]
      <3>1. num_thread > 0 /\ d_i \in 0..num_thread /\ d_i + 1 \in 0..num_thread
        BY <1>1, <2>1 DEF SumTypes, D!Index
      <3>2. Border(d_i) \in Nat /\ Border(d_i + 1) \in Nat
        BY <1>1, <3>1, Borders
      <3>3. D!RangeOf(d_i) = [start |-> Border(d_i), end |-> Border(d_i + 1)]
        BY <1>1, <2>1, <3>1, Borders
      <3>. QED BY <3>2, <3>3
    <2>4. SumTypes'
      <3>1. param' \in [D!Index -> [start : Nat, end : Nat]]
        BY <1>1, <2>1, <2>2, <2>3 DEF SumTypes
      <3>2. /\ d_pc' \in [D!Index -> {"absent", "start", "add", "done"}]
            /\ d_i' \in Nat /\ d_main' \in SumMains
        BY <1>1, <2>1, <2>2 DEF SumTypes, SumMains
      <3>. QED BY <1>1, <1>2, <1>3, <3>1, <3>2 DEF SumTypes
    <2>5. SumCreating'
      <3>1. num_thread \in Nat /\ d_i \in Nat /\ D!Index \subseteq Nat
        BY <1>1 DEF SumTypes, D!Index
      <3>2. d_main' \in {"create", "join"} => num_thread > 0
        BY <2>1, <3>1
      <3>3. d_main' = "create" => d_i' < num_thread
        BY <2>1, <2>2, <3>1
      <3>4. ASSUME NEW t \in D!Index, t >= d_i'
            PROVE  d_pc'[t] = "absent"
        <4>1. t >= d_i /\ t # d_i
          BY <2>2, <3>1, <3>4
        <4>2. d_pc'[t] = d_pc[t]
          BY <1>1, <2>2, <4>1 DEF SumTypes
        <4>3. d_pc[t] = "absent"
          BY <1>1, <2>1, <4>1 DEF SumCreating
        <4>. QED BY <4>2, <4>3
      <3>. QED BY <1>2, <1>3, <2>2, <3>2, <3>3, <3>4 DEF SumCreating
    <2>6. ASSUME NEW t \in D!Index
          PROVE  SumThread(t)'
      <3>1. CASE t = d_i
        <4>1. /\ d_pc'[t] \in {"absent", "start"}
              /\ param'[t] = D!RangeOf(t)
          BY <1>1, <2>1, <2>2, <3>1 DEF SumTypes
        <4>2. D!RangeOf(t)' = D!RangeOf(t)
          BY <1>2 DEF D!RangeOf
        <4>3. sum'[t] = 0 /\ \A w \in D!Worker : copy'[t][w] = -1
          BY <1>1, <1>2, <2>1, <3>1 DEF SumThread
        <4>. QED BY <1>3, <4>1, <4>2, <4>3 DEF SumThread
      <3>2. CASE t # d_i
        <4>1. param'[t] = param[t] /\ d_pc'[t] = d_pc[t]
          BY <1>1, <2>1, <2>2, <3>2 DEF SumTypes
        <4>. QED BY <1>1, <1>2, <4>1, SumThreadSame
      <3>. QED BY <3>1, <3>2
    <2>. QED BY <1>3, <1>4, <2>4, <2>5, <2>6 DEF SumInv
  <1>. QED BY <1>5, <1>6

\* What a step of a thread leaves alone, when it keeps the types and all is
\* well with that thread.
LEMMA SumThreadStep ==
    ASSUME SumInv, NEW t \in D!Index, SumTypes', SumThread(t)',
           UNCHANGED <<to_check, num_thread, checked, openmp, param, d_main, d_i, ans>>,
           d_pc[t] # "absent",
           \A u \in D!Index \ {t} :
               /\ d_pc'[u] = d_pc[u] /\ left'[u] = left[u] /\ copy'[u] = copy[u]
               /\ sum'[u] = sum[u] /\ g_sum_of_div'[u] = g_sum_of_div[u]
    PROVE  SumInv'
  <1>1. D!Index' = D!Index
    BY DEF D!Index
  <1>2. \A u \in D!Index \ {t} : SumThread(u)'
    <2>1. \A u \in D!Index \ {t} : SumThread(u)
      BY DEF SumInv
    <2>. QED BY <2>1, SumThreadSame
  <1>3. SumCreating'
    <2>1. d_main # "start"
      BY DEF SumInv, SumCreating
    <2>2. d_main = "create" => \A u \in D!Index : u >= d_i => d_pc'[u] = "absent"
      BY DEF SumInv, SumCreating
    <2>. QED BY <1>1, <2>1, <2>2 DEF SumInv, SumCreating
  <1>4. PrintsSum'
    BY DEF SumInv, PrintsSum, D!PrintsSum, D!Divisors
  <1>. QED BY <1>1, <1>2, <1>3, <1>4 DEF SumInv

\* The head of the loop: the divisors are given to the workers.
LEMMA SumStart ==
    ASSUME SumInv, NEW t \in D!Index, D!SumOfDiv(t)
    PROVE  SumInv'
  <1>1. SumTypes /\ SumThread(t)
    BY DEF SumInv
  <1>2. /\ UNCHANGED <<to_check, num_thread, checked, openmp, param, copy, sum, g_sum_of_div,
                       d_main, d_i, ans>>
        /\ d_pc[t] = "start" /\ d_pc' = [d_pc EXCEPT ![t] = "add"]
    BY DEF D!SumOfDiv, D!input
  <1>3. D!Index' = D!Index /\ D!Worker' = D!Worker /\ D!Worker = {1, 2}
    BY <1>2 DEF D!Index, D!Worker
  <1>4. DivisorsOf(t) \subseteq Nat /\ DivisorsOf(t)' = DivisorsOf(t)
    <2>1. param[t] \in [start : Nat, end : Nat]
      BY <1>1 DEF SumTypes
    <2>2. DivisorsOf(t) \subseteq Nat
      BY <2>1, DivisorsAreFinite DEF DivisorsOf
    <2>. QED BY <1>2, <2>2 DEF DivisorsOf, D!Divisors
  <1>5. PICK parts : /\ parts \in [D!Worker -> SUBSET DivisorsOf(t)]
                     /\ parts[1] \cup parts[2] = DivisorsOf(t)
                     /\ parts[1] \cap parts[2] = {}
                     /\ ~openmp => parts[2] = {}
                     /\ left' = [left EXCEPT ![t] = parts]
    <2>. DEFINE d == DivisorsOf(t)
                half == (param[t].start + param[t].end) \div 2
                parts == [w \in D!Worker |-> IF ~openmp THEN (IF w = 1 THEN d ELSE {})
                                             ELSE {x \in d : (x <= half) <=> (w = 1)}]
    <2>1. left' = [left EXCEPT ![t] = parts]
      BY DEF D!SumOfDiv, DivisorsOf
    <2>2. /\ parts[1] = IF ~openmp THEN d ELSE {x \in d : x <= half}
          /\ parts[2] = IF ~openmp THEN {} ELSE {x \in d : ~(x <= half)}
      <3>. HIDE DEF d, half
      <3>. QED BY <1>3
    <2>3. parts \in [D!Worker -> SUBSET d]
      <3>. HIDE DEF d, half
      <3>. QED BY <1>3
    <2>4. /\ parts[1] \cup parts[2] = d /\ parts[1] \cap parts[2] = {}
          /\ ~openmp => parts[2] = {}
      <3>. HIDE DEF parts, d, half
      <3>. QED BY <2>2
    <2>. HIDE DEF parts
    <2>. QED BY <2>1, <2>3, <2>4
  <1>6. SumTypes'
    <2>1. left' \in [D!Index -> [D!Worker -> SUBSET Nat]]
      BY <1>1, <1>4, <1>5 DEF SumTypes
    <2>2. d_pc' \in [D!Index -> {"absent", "start", "add", "done"}]
      BY <1>1, <1>2 DEF SumTypes
    <2>. QED BY <1>1, <1>2, <1>3, <2>1, <2>2 DEF SumTypes
  <1>7. SumThread(t)'
    <2>1. left'[t] = parts /\ d_pc'[t] = "add"
      BY <1>1, <1>2, <1>5 DEF SumTypes
    <2>2. StillLeft(t)' = DivisorsOf(t) /\ AddedSoFar(t)' = {}
      BY <1>4, <1>5, <2>1 DEF StillLeft, AddedSoFar
    <2>3. sum'[t] = 0 /\ \A w \in D!Worker : copy'[t][w] = -1
      BY <1>1, <1>2 DEF SumThread
    <2>4. Counts(0, {})
      <3>1. HasTotals({})
        BY FS_EmptySet, Totals
      <3>. QED BY <3>1 DEF HasTotals, Counts
    <2>5. Counts(sum[t], AddedSoFar(t))'
      BY <1>2, <2>2, <2>3, <2>4 DEF Counts
    <2>6. SumAdding(t)'
      BY <1>2, <1>3, <1>4, <1>5, <2>1, <2>2, <2>3, <2>5 DEF SumAdding
    <2>7. param'[t] = D!RangeOf(t)'
      BY <1>1, <1>2 DEF SumThread, D!RangeOf
    <2>. QED BY <2>1, <2>6, <2>7 DEF SumThread
  <1>8. \A u \in D!Index \ {t} : d_pc'[u] = d_pc[u] /\ left'[u] = left[u]
    BY <1>1, <1>2, <1>5 DEF SumTypes
  <1>. QED BY <1>2, <1>6, <1>7, <1>8, SumThreadStep

\* A worker loads sum.
LEMMA SumLoad ==
    ASSUME SumInv, NEW t \in D!Index, NEW w \in D!Worker, D!Load(t, w)
    PROVE  SumInv'
  <1>1. SumTypes /\ SumThread(t)
    BY DEF SumInv
  <1>2. /\ UNCHANGED <<to_check, num_thread, checked, openmp, param, d_pc, left, sum, g_sum_of_div,
                       d_main, d_i, ans>>
        /\ d_pc[t] = "add" /\ left[t][w] # {}
        /\ copy' = [copy EXCEPT ![t][w] = sum[t]]
    BY DEF D!Load, D!input
  <1>3. D!Index' = D!Index /\ D!Worker' = D!Worker
    BY <1>2 DEF D!Index, D!Worker
  <1>4. SumTypes'
    <2>1. copy' \in [D!Index -> [D!Worker -> Int]]
      BY <1>1, <1>2 DEF SumTypes
    <2>. QED BY <1>1, <1>2, <1>3, <2>1 DEF SumTypes
  <1>5. /\ copy'[t][w] = sum[t] /\ sum[t] \in Nat
        /\ \A o \in D!Worker \ {w} : copy'[t][o] = copy[t][o]
        /\ \A u \in D!Index \ {t} : copy'[u] = copy[u]
    BY <1>1, <1>2 DEF SumTypes
  <1>6. SumThread(t)'
    <2>1. SumAdding(t)
      BY <1>1, <1>2 DEF SumThread
    <2>2. /\ DivisorsOf(t)' = DivisorsOf(t) /\ StillLeft(t)' = StillLeft(t)
          /\ D!RangeOf(t)' = D!RangeOf(t)
      BY <1>2 DEF DivisorsOf, StillLeft, D!Divisors, D!RangeOf
    <2>3. AddedSoFar(t)' = AddedSoFar(t)
      BY <2>2 DEF AddedSoFar
    <2>4. Counts(sum[t], AddedSoFar(t))'
      BY <1>2, <2>1, <2>3 DEF SumAdding, Counts
    <2>5. WorkerCopies(t, w)'
      BY <1>2, <1>5, <2>1, <2>3 DEF SumAdding, Counts, WorkerCopies
    <2>6. ASSUME NEW o \in D!Worker \ {w}, copy'[t][o] # -1
          PROVE  WorkerCopies(t, o)'
      BY <1>2, <1>5, <2>1, <2>3, <2>6 DEF SumAdding, WorkerCopies
    <2>7. SumAdding(t)'
      BY <1>2, <1>3, <2>1, <2>2, <2>4, <2>5, <2>6 DEF SumAdding
    <2>. QED BY <1>1, <1>2, <2>2, <2>7 DEF SumThread
  <1>. QED BY <1>2, <1>4, <1>5, <1>6, SumThreadStep

\* A thread is ready.
LEMMA SumFinish ==
    ASSUME SumInv, NEW t \in D!Index, D!Finish(t)
    PROVE  SumInv'
  <1>1. SumTypes /\ SumThread(t)
    BY DEF SumInv
  <1>2. /\ UNCHANGED <<to_check, num_thread, checked, openmp, param, left, copy, sum,
                       d_main, d_i, ans>>
        /\ d_pc[t] = "add" /\ \A w \in D!Worker : left[t][w] = {}
        /\ g_sum_of_div' = [g_sum_of_div EXCEPT ![t] = sum[t]]
        /\ d_pc' = [d_pc EXCEPT ![t] = "done"]
    BY DEF D!Finish, D!input
  <1>3. D!Index' = D!Index /\ D!Worker' = D!Worker
    BY <1>2 DEF D!Index, D!Worker
  <1>4. SumTypes'
    <2>1. g_sum_of_div' \in [D!Index -> Nat]
      BY <1>1, <1>2 DEF SumTypes
    <2>2. d_pc' \in [D!Index -> {"absent", "start", "add", "done"}]
      BY <1>1, <1>2 DEF SumTypes
    <2>. QED BY <1>1, <1>2, <1>3, <2>1, <2>2 DEF SumTypes
  <1>5. /\ g_sum_of_div'[t] = sum[t] /\ d_pc'[t] = "done"
        /\ \A u \in D!Index \ {t} : g_sum_of_div'[u] = g_sum_of_div[u] /\ d_pc'[u] = d_pc[u]
    BY <1>1, <1>2 DEF SumTypes
  <1>6. SumThread(t)'
    <2>1. Counts(sum[t], AddedSoFar(t))
      BY <1>1, <1>2 DEF SumThread, SumAdding
    <2>2. AddedSoFar(t) = DivisorsOf(t)
      BY <1>2 DEF AddedSoFar, StillLeft, D!Worker
    <2>3. DivisorsOf(t)' = DivisorsOf(t) /\ D!RangeOf(t)' = D!RangeOf(t)
      BY <1>2 DEF DivisorsOf, D!Divisors, D!RangeOf
    <2>4. Counts(g_sum_of_div[t], DivisorsOf(t))'
      BY <1>2, <1>5, <2>1, <2>2, <2>3 DEF Counts
    <2>. QED BY <1>1, <1>2, <1>5, <2>3, <2>4 DEF SumThread
  <1>. QED BY <1>2, <1>4, <1>5, <1>6, SumThreadStep

\* A set of numbers has a least one.
LEMMA LeastIsIn ==
    ASSUME NEW s \in SUBSET Nat, s # {}
    PROVE  D!Min(s) \in s
  <1>. DEFINE Less == {p \in Nat \X Nat : p[1] < p[2]}
  <1>1. IsWellFoundedOn(Less, Nat)
    BY NatLessThanWellFounded, Zenon DEF OpToRel
  <1>2. PICK x \in s : \A y \in s : ~(<<y, x>> \in Less)
    <2>. HIDE DEF Less
    <2>. QED BY <1>1, WFMin
  <1>3. ASSUME NEW y \in s
        PROVE  x <= y
    <2>1. x \in Nat /\ y \in Nat /\ <<y, x>> \in Nat \X Nat
      OBVIOUS
    <2>2. ~(y < x)
      BY <1>2, <2>1
    <2>. QED BY <2>1, <2>2
  <1>. QED BY <1>3 DEF D!Min

\* A worker stores its copy and the next number.
LEMMA SumStore ==
    ASSUME SumInv, NEW t \in D!Index, NEW w \in D!Worker, D!Store(t, w)
    PROVE  SumInv'
  <1>. DEFINE m == D!Min(left[t][w])
  <1>1. SumTypes /\ SumThread(t)
    BY DEF SumInv
  <1>2. /\ UNCHANGED <<to_check, num_thread, checked, openmp, param, d_pc, g_sum_of_div,
                       d_main, d_i, ans>>
        /\ d_pc[t] = "add" /\ copy[t][w] >= 0
        /\ sum' = [sum EXCEPT ![t] = copy[t][w] + m]
        /\ left' = [left EXCEPT ![t][w] = @ \ {m}]
        /\ copy' = [copy EXCEPT ![t][w] = -1]
    BY DEF D!Store, D!input
  <1>3. D!Index' = D!Index /\ D!Worker' = D!Worker /\ D!Worker = {1, 2}
    BY <1>2 DEF D!Index, D!Worker
  <1>4. SumAdding(t) /\ WorkerCopies(t, w)
    <2>1. SumAdding(t)
      BY <1>1, <1>2 DEF SumThread
    <2>2. copy[t][w] # -1
      BY <1>2
    <2>. QED BY <2>1, <2>2 DEF SumAdding
  <1>5. m \in left[t][w] /\ left[t][w] \subseteq Nat
    <2>1. left[t][w] \in SUBSET Nat /\ left[t][w] # {}
      BY <1>1, <1>4 DEF SumTypes, WorkerCopies
    <2>. QED BY <2>1, LeastIsIn
  <1>6. PICK U : IsFiniteSet(U) /\ U \subseteq Nat \ {0} /\ DivisorsOf(t) \subseteq U
    <2>1. param[t] \in [start : Nat, end : Nat]
      BY <1>1 DEF SumTypes
    <2>. QED BY <2>1, DivisorsAreFinite DEF DivisorsOf
  <1>. HIDE DEF m
  <1>7. m \in StillLeft(t) /\ m \in DivisorsOf(t) /\ m \in Nat /\ m >= 1
    BY <1>3, <1>4, <1>5, <1>6 DEF StillLeft, SumAdding
  <1>8. /\ DivisorsOf(t)' = DivisorsOf(t) /\ D!RangeOf(t)' = D!RangeOf(t)
    BY <1>2 DEF DivisorsOf, D!Divisors, D!RangeOf
  <1>9. /\ sum'[t] = copy[t][w] + m /\ copy[t][w] \in Nat
        /\ left'[t][w] = left[t][w] \ {m} /\ copy'[t][w] = -1
        /\ \A o \in D!Worker \ {w} : left'[t][o] = left[t][o] /\ copy'[t][o] = copy[t][o]
        /\ \A u \in D!Index \ {t} : sum'[u] = sum[u] /\ left'[u] = left[u] /\ copy'[u] = copy[u]
    BY <1>1, <1>2, <1>4 DEF SumTypes, WorkerCopies
  <1>10. SumTypes'
    <2>1. sum' \in [D!Index -> Nat]
      BY <1>1, <1>2, <1>7, <1>9 DEF SumTypes
    <2>2. left' \in [D!Index -> [D!Worker -> SUBSET Nat]]
      BY <1>1, <1>2 DEF SumTypes
    <2>3. copy' \in [D!Index -> [D!Worker -> Int]]
      BY <1>1, <1>2 DEF SumTypes
    <2>. QED BY <1>1, <1>2, <1>3, <2>1, <2>2, <2>3 DEF SumTypes
  <1>11. /\ StillLeft(t)' = StillLeft(t) \ {m}
         /\ left'[t][1] \cap left'[t][2] = {}
    BY <1>3, <1>4, <1>5, <1>9 DEF StillLeft, SumAdding
  <1>12. /\ AddedSoFar(t)' = AddedSoFar(t) \cup {m}
         /\ m \notin AddedSoFar(t)
    BY <1>7, <1>8, <1>11 DEF AddedSoFar
  <1>13. /\ Total(AddedSoFar(t)) \in Nat
         /\ Total(AddedSoFar(t) \cup {m}) = m + Total(AddedSoFar(t))
    <2>1. HasTotals(U)
      <3>1. U \subseteq Nat
        BY <1>6
      <3>. QED BY <1>6, <3>1, Totals
    <2>2. AddedSoFar(t) \in SUBSET U /\ m \in U \ AddedSoFar(t)
      BY <1>6, <1>7, <1>12 DEF AddedSoFar
    <2>. QED BY <2>1, <2>2 DEF HasTotals
  <1>14. Counts(sum'[t], AddedSoFar(t) \cup {m})
    <2>1. CASE openmp
      BY <1>4, <1>7, <1>9, <1>13, <2>1 DEF WorkerCopies, Counts
    <2>2. CASE ~openmp
      BY <1>4, <1>7, <1>9, <1>13, <2>2 DEF WorkerCopies, SumAdding, Counts
    <2>. QED BY <2>1, <2>2
  <1>15. ASSUME NEW o \in D!Worker, copy'[t][o] # -1
         PROVE  WorkerCopies(t, o)'
    <2>1. o # w /\ left'[t][o] = left[t][o] /\ copy'[t][o] = copy[t][o]
      BY <1>9, <1>15
    <2>2. WorkerCopies(t, o)
      BY <1>4, <1>15, <2>1 DEF SumAdding
    <2>3. openmp
      <3>1. left[t][o] # {} /\ left[t][w] # {}
        BY <1>4, <2>2 DEF WorkerCopies
      <3>. QED BY <1>3, <1>4, <2>1, <3>1 DEF SumAdding
    <2>4. copy[t][o] <= Total(AddedSoFar(t) \cup {m})
      BY <1>7, <1>13, <2>2, <2>3 DEF WorkerCopies
    <2>. QED BY <1>2, <1>12, <2>1, <2>2, <2>3, <2>4 DEF WorkerCopies
  <1>16. ~openmp => left'[t][2] = {}
    <2>1. left'[t][2] \subseteq left[t][2]
      BY <1>3, <1>9
    <2>. QED BY <1>4, <2>1 DEF SumAdding
  <1>17. SumAdding(t)'
    <2>1. StillLeft(t)' \subseteq DivisorsOf(t)'
      BY <1>4, <1>8, <1>11 DEF SumAdding
    <2>2. Counts(sum[t], AddedSoFar(t))'
      BY <1>2, <1>12, <1>14 DEF Counts
    <2>. QED BY <1>2, <1>3, <1>11, <1>15, <1>16, <2>1, <2>2 DEF SumAdding
  <1>18. SumThread(t)'
    BY <1>1, <1>2, <1>8, <1>17 DEF SumThread
  <1>. QED BY <1>2, <1>9, <1>10, <1>18, SumThreadStep

\* What the first k threads found counts the divisors up to where they end.
FirstThreads(k) == SumOver(g_sum_of_div, 0..(k - 1))
UpTo(k) == D!Divisors([start |-> 0, end |-> Border(k)])

\* When all are ready, what they found counts all divisors.
LEMMA SumOfAll ==
    ASSUME SumInv, num_thread > 0, \A t \in D!Index : d_pc[t] = "done"
    PROVE  /\ SumOver(g_sum_of_div, D!Index) \in Int
           /\ Counts(SumOver(g_sum_of_div, D!Index), D!Divisors([start |-> 0, end |-> to_check]))
  <1>1. /\ SumTypes /\ num_thread \in Nat /\ num_thread > 0
        /\ \A t \in D!Index : /\ param[t] = D!RangeOf(t)
                              /\ Counts(g_sum_of_div[t], DivisorsOf(t))
    BY DEF SumInv, SumTypes, SumThread
  <1>2. D!Index = 0..(num_thread - 1) /\ IsFiniteSet(D!Index)
    BY <1>1, FS_Interval DEF D!Index
  <1>3. AddsUp(g_sum_of_div, D!Index)
    <2>1. g_sum_of_div \in [D!Index -> Int]
      BY <1>1 DEF SumTypes
    <2>. QED BY <1>2, <2>1, SumLaws
  <1>. DEFINE U == 1..to_check
  <1>4. IsFiniteSet(U) /\ U \subseteq Nat
    BY <1>1, FS_Interval DEF SumTypes
  <1>. DEFINE Good(k) == FirstThreads(k) \in Nat /\ Counts(FirstThreads(k), UpTo(k))
              Known == {k \in Nat : k <= num_thread => Good(k)}
  <1>5. 0 \in Known
    <2>1. 0..(0 - 1) = {}
      OBVIOUS
    <2>2. FirstThreads(0) = 0
      BY <1>3, <2>1 DEF FirstThreads, AddsUp
    <2>3. UpTo(0) = {}
      BY <1>1, Borders DEF UpTo, D!Divisors
    <2>4. HasTotals({})
      BY FS_EmptySet, Totals
    <2>. QED BY <2>2, <2>3, <2>4 DEF HasTotals, Counts
  <1>6. ASSUME NEW k \in Known
        PROVE  k + 1 \in Known
    <2>1. k \in Nat /\ k + 1 \in Nat
      OBVIOUS
    <2>2. ASSUME k + 1 <= num_thread
          PROVE  Good(k + 1)
      <3>1. k \in D!Index /\ k <= num_thread /\ Good(k)
        BY <1>1, <1>2, <2>1, <2>2
      <3>2. FirstThreads(k + 1) = g_sum_of_div[k] + FirstThreads(k)
        <4>1. /\ (k + 1) - 1 = k /\ k <= num_thread - 1 /\ k \in Nat
          BY <1>1, <2>1, <2>2
        <4>2. /\ 0..((k + 1) - 1) \in SUBSET D!Index /\ k \in 0..((k + 1) - 1)
              /\ (0..((k + 1) - 1)) \ {k} = 0..(k - 1)
          <5>1. 0..k \in SUBSET (0..(num_thread - 1)) /\ k \in 0..k /\ (0..k) \ {k} = 0..(k - 1)
            BY <1>1, <4>1
          <5>. QED BY <1>2, <4>1, <5>1
        <4>. QED BY <1>3, <4>2 DEF FirstThreads, AddsUp
      <3>3. /\ k \in 0..num_thread /\ k + 1 \in 0..num_thread
            /\ Border(k) \in Nat /\ Border(k + 1) \in Nat /\ Border(k) <= Border(k + 1)
            /\ param[k] = [start |-> Border(k), end |-> Border(k + 1)]
        <4>1. k \in 0..num_thread /\ k + 1 \in 0..num_thread
          BY <1>1, <2>1, <2>2
        <4>. QED BY <1>1, <3>1, <4>1, Borders
      <3>4. Border(k + 1) <= to_check
        BY <1>1, <3>3, Borders
      <3>5. /\ UpTo(k + 1) = UpTo(k) \cup DivisorsOf(k)
            /\ UpTo(k) \cap DivisorsOf(k) = {}
            /\ UpTo(k) \in SUBSET U /\ DivisorsOf(k) \in SUBSET U
        <4>. DEFINE b == Border(k)
                    c == Border(k + 1)
        <4>1. /\ UpTo(k) = {d \in 1..b : to_check % d = 0}
              /\ UpTo(k + 1) = {d \in 1..c : to_check % d = 0}
              /\ DivisorsOf(k) = {d \in (b + 1)..c : to_check % d = 0}
          BY <3>3 DEF UpTo, DivisorsOf, D!Divisors
        <4>2. /\ b \in Nat /\ c \in Nat /\ b <= c /\ c <= to_check /\ to_check \in Nat
          BY <1>1, <3>3, <3>4 DEF SumTypes
        <4>. HIDE DEF b, c
        <4>3. 1..c = (1..b) \cup ((b + 1)..c) /\ (1..b) \cap ((b + 1)..c) = {} /\ 1..c \subseteq U
          BY <4>2
        <4>. HIDE DEF U
        <4>. QED BY <4>1, <4>3
      <3>6. g_sum_of_div[k] \in Nat
        BY <1>1, <3>1 DEF SumTypes
      <3>7. Counts(FirstThreads(k) + g_sum_of_div[k], UpTo(k) \cup DivisorsOf(k))
        <4>1. Counts(g_sum_of_div[k], DivisorsOf(k))
          BY <1>1, <3>1
        <4>. HIDE DEF U
        <4>. QED BY <1>4, <3>1, <3>5, <3>6, <4>1, CountsBoth
      <3>8. FirstThreads(k) + g_sum_of_div[k] = FirstThreads(k + 1)
            /\ FirstThreads(k + 1) \in Nat
        BY <3>1, <3>2, <3>6
      <3>. QED BY <3>5, <3>7, <3>8
    <2>. QED BY <2>1, <2>2
  <1>7. Known = Nat
    <2>1. Known \in SUBSET Nat
      OBVIOUS
    <2>. HIDE DEF Known
    <2>. QED BY <1>5, <1>6, <2>1, NatSetInduction
  <1>8. Good(num_thread)
    <2>1. num_thread \in Known /\ num_thread <= num_thread
      BY <1>1, <1>7
    <2>. HIDE DEF Good
    <2>. QED BY <2>1
  <1>9. UpTo(num_thread) = D!Divisors([start |-> 0, end |-> to_check])
    BY <1>1, Borders DEF UpTo
  <1>10. FirstThreads(num_thread) = SumOver(g_sum_of_div, D!Index)
    BY <1>2 DEF FirstThreads
  <1>. QED BY <1>8, <1>9, <1>10

\* The joins and the sum.
LEMMA SumTotal ==
    ASSUME SumInv, D!PrintTotal
    PROVE  SumInv'
  <1>1. SumTypes /\ num_thread > 0
    BY DEF SumInv, SumCreating, D!PrintTotal
  <1>2. /\ UNCHANGED <<to_check, num_thread, checked, openmp, param, d_pc, left, copy, sum,
                       g_sum_of_div, d_i>>
        /\ \A t \in D!Index : d_pc[t] = "done"
        /\ ans' = SumOver(g_sum_of_div, D!Index)
        /\ d_main' = "printed"
    BY SumOfValues DEF D!PrintTotal, D!input
  <1>3. D!Index' = D!Index /\ D!Worker' = D!Worker
    BY <1>2 DEF D!Index, D!Worker
  <1>4. SumTypes'
    BY <1>1, <1>2, <1>3 DEF SumTypes, SumMains
  <1>5. \A t \in D!Index : SumThread(t)'
    BY <1>2, SumThreadSame DEF SumInv
  <1>. DEFINE all == D!Divisors([start |-> 0, end |-> to_check])
  <1>6. ans' \in Int /\ Counts(ans', all)
    BY <1>1, <1>2, SumOfAll
  <1>7. 1 \in all
    BY <1>1 DEF D!Divisors, SumTypes
  <1>8. all' = all
    BY <1>2 DEF D!Divisors
  <1>9. Total(all) \in Nat
    <2>. DEFINE U == 1..to_check
    <2>1. IsFiniteSet(U) /\ U \subseteq Nat /\ all \in SUBSET U
      BY <1>1, FS_Interval DEF SumTypes, D!Divisors
    <2>2. HasTotals(U)
      <3>. HIDE DEF U
      <3>. QED BY <2>1, Totals
    <2>. HIDE DEF U, all
    <2>. QED BY <2>1, <2>2 DEF HasTotals
  <1>10. PrintsSum'
    <2>1. IF openmp THEN ans' \in 1..Total(all) ELSE ans' = Total(all)
      <3>. HIDE DEF all
      <3>. QED BY <1>6, <1>7, <1>9 DEF Counts
    <2>. QED BY <1>2, <1>8, <2>1 DEF PrintsSum, D!PrintsSum, Total
  <1>. QED BY <1>2, <1>3, <1>4, <1>5, <1>10 DEF SumInv, SumCreating

\* Each step keeps the invariant.
LEMMA SumNext == SumInv /\ (D!Next \/ UNCHANGED divisors) => SumInv'
  <1>. SUFFICES ASSUME SumInv, D!Next \/ UNCHANGED divisors
                PROVE  SumInv'
    OBVIOUS
  <1>1. CASE UNCHANGED divisors
    <2>1. /\ UNCHANGED <<to_check, num_thread, checked, openmp, param, d_pc, left, copy, sum,
                         g_sum_of_div, d_main, d_i, ans>>
      BY <1>1 DEF divisors
    <2>2. D!Index' = D!Index /\ D!Worker' = D!Worker
      BY <2>1 DEF D!Index, D!Worker
    <2>3. \A t \in D!Index : SumThread(t)'
      BY <2>1, SumThreadSame DEF SumInv
    <2>4. SumTypes' /\ SumCreating'
      BY <2>1, <2>2 DEF SumInv, SumTypes, SumCreating
    <2>5. PrintsSum'
      BY <2>1 DEF SumInv, PrintsSum, D!PrintsSum, D!Divisors
    <2>. QED BY <2>2, <2>3, <2>4, <2>5 DEF SumInv
  <1>2. CASE D!Main
    BY <1>2, SumMain, SumTotal DEF D!Main
  <1>3. ASSUME NEW t \in D!Index, D!ThreadStep(t)
        PROVE  SumInv'
    BY <1>3, SumStart, SumLoad, SumStore, SumFinish DEF D!ThreadStep
  <1>4. CASE D!Stopped
    BY <1>1, <1>4 DEF D!Stopped, D!vars, divisors
  <1>. QED BY <1>1, <1>2, <1>3, <1>4 DEF D!Next

\* The printed sum is that of the divisors of to_check for any number of
\* threads, more of them than numbers included: the ranges leave out nothing and
\* share nothing.  Racing workers lose additions, but count no divisor twice.
THEOREM SumIsOfAllDivisors == Spec => []PrintsSum
  <1>1. Init => SumInv
    BY SumInit DEF Init
  <1>2. SumInv /\ [Next]_vars => SumInv'
    BY StepOfOne, SumNext
  <1>3. SumInv => PrintsSum
    BY DEF SumInv
  <1>. QED BY <1>1, <1>2, <1>3, PTL DEF Spec

-----------------------------------------------------------------------------
(* MergeSort, for any words, any number of lines and of threads, and any   *)
(* failures: what the loops of QuickSort and of MergeConv compute, that    *)
(* the threads keep out of each other's part, and that the output is the   *)
(* input in order.  The loops are recursive functions.  That they exist    *)
(* and what they compute is shown by induction over the sets of the        *)
(* numbers of turns after which it holds.                                  *)

-----------------------------------------------------------------------------
(* Arrays of words *)

\* b is a, an array with the places P, with what is at the places of R
\* rearranged among them.
Rearranged(b, a, P, R) ==
    \E p \in [P -> P] :
        /\ \A x, y \in P : p[x] = p[y] => x = y
        /\ \A y \in P : \E x \in P : p[x] = y
        /\ \A x \in P \ R : p[x] = x
        /\ b = [x \in P |-> a[p[x]]]

\* a is in order from the place x to the place y.
Sorted(a, x, y) == \A u, v \in x..y : u < v => a[u] <= a[v]

-----------------------------------------------------------------------------
(* The invariant *)

SortMains == {"params", "create", "join", "merge", "written", "failed", "undefined", "crashed"}

\* The counters, and the words, one at every position of the three arrays.
SortTypes ==
    /\ S!lines \in Nat \ {0}
    /\ file \in [S!Position -> Word]
    /\ words_ptr \in [S!Position -> Word]
    /\ written \in [S!Position -> Word]
    /\ num_of_threads \in 0..(S!lines - 1)
    /\ calls \in Seq(Seq(Nat \X Nat))
    /\ created = Len(calls)
    /\ s_i \in Nat \ {0}
    /\ s_main \in SortMains

\* No part is divided among no threads; a thread more is created only for a
\* part; nothing is merged before all are joined, nor after the last part.
SortPhases ==
    /\ s_main \notin {"params", "crashed"} => num_of_threads > 0
    /\ s_main \in {"params", "crashed"} => created = 0
    /\ s_main = "create" => created < num_of_threads
    /\ s_main = "join" => created = num_of_threads
    /\ created <= num_of_threads
    /\ s_main \in {"params", "create", "join"} => s_i = 1
    /\ s_main = "merge" => s_i <= num_of_threads
    /\ s_main = "written" => s_i = num_of_threads

\* What the calls of a stack have to sort lies between two places, and that of
\* a call before that of the next one on the stack.
Stacked(stack, from, to) ==
    /\ \A k \in 1..Len(stack) : from <= stack[k][1] /\ stack[k][1] + stack[k][2] <= to + 1
    /\ \A k, m \in 1..Len(stack) : k < m => stack[k][1] + stack[k][2] <= stack[m][1]

\* One of the calls of a stack has to sort both x and y.
InOneCall(stack, x, y) ==
    \E k \in 1..Len(stack) : stack[k][1] <= x /\ y < stack[k][1] + stack[k][2]

\* Two words between two places are out of order only if they are both left to
\* one call of a stack.
LeftToCalls(a, stack, from, to) ==
    \A x, y \in from..to : x < y => a[x] <= a[y] \/ InOneCall(stack, x, y)

\* The calls of a thread lie in its part.
SortCalls ==
    \A t \in 1..Len(calls) : Stacked(calls[t], S!From(t - 1), S!To(t - 1))

\* What is out of order in the part of a thread is left to its calls.
SortPending ==
    s_main \in {"create", "join"} =>
        \A t \in 1..Len(calls) :
            LeftToCalls(words_ptr, calls[t], S!From(t - 1), S!To(t - 1))

\* The parts merged so far are in order together, the others each.
SortMerged ==
    s_main = "merge" =>
        /\ Sorted(words_ptr, 0, S!To(s_i - 1))
        /\ \A t \in s_i..(num_of_threads - 1) : Sorted(words_ptr, S!From(t), S!To(t))

\* Both arrays hold the words of the input, in some order, and the output in
\* the end in order.
SortContents ==
    /\ Rearranged(words_ptr, file, S!Position, S!Position)
    /\ Rearranged(written, file, S!Position, S!Position)
    /\ s_main = "written" => Sorted(written, 0, S!lines - 1)

SortInv ==
    SortTypes /\ SortPhases /\ SortCalls /\ SortPending /\ SortMerged /\ SortContents

-----------------------------------------------------------------------------
(* Rearranging arrays *)

\* An array is a rearrangement of itself.
LEMMA RearrangedItself ==
    ASSUME NEW P, NEW T, NEW a \in [P -> T], NEW R
    PROVE  Rearranged(a, a, P, R)
  <1>. DEFINE p == [x \in P |-> x]
  <1>1. p \in [P -> P] /\ a = [x \in P |-> a[p[x]]]
    BY Zenon
  <1>. QED BY <1>1, Zenon DEF Rearranged

\* b has the words of a outside R, and words of a from R in R.
MovesWithin(b, a, P, R) ==
    /\ \A x \in P \ R : b[x] = a[x]
    /\ \A x \in P \cap R : \E y \in P \cap R : b[x] = a[y]

\* A rearrangement is an array of the same words, and outside R the same.
LEMMA RearrangedKeeps ==
    ASSUME NEW P, NEW T, NEW a \in [P -> T], NEW R, NEW b, Rearranged(b, a, P, R)
    PROVE  b \in [P -> T] /\ MovesWithin(b, a, P, R)
  <1>2. PICK p \in [P -> P] :
            /\ \A x, y \in P : p[x] = p[y] => x = y
            /\ \A x \in P \ R : p[x] = x
            /\ b = [x \in P |-> a[p[x]]]
    BY Zenon DEF Rearranged
  <1>3. ASSUME NEW x \in P \cap R
        PROVE  p[x] \in P \cap R
    <2>1. ASSUME p[x] \notin R
          PROVE  FALSE
      <3>1. p[p[x]] = p[x]
        BY <1>2, <2>1, Zenon
      <3>. QED BY <1>2, <2>1, <3>1, Zenon
    <2>. QED BY <1>2, <2>1, Zenon
  <1>4. \A x \in P : b[x] = a[p[x]]
    BY <1>2, Zenon
  <1>5. b \in [P -> T]
    BY <1>2, Zenon
  <1>. QED BY <1>2, <1>3, <1>4, <1>5, Zenon DEF MovesWithin

\* Rearranging what was rearranged rearranges.
LEMMA RearrangedAgain ==
    ASSUME NEW P, NEW T, NEW a \in [P -> T], NEW R, NEW Q, NEW b, NEW c,
           Rearranged(b, a, P, R), Rearranged(c, b, P, Q), R \subseteq Q
    PROVE  Rearranged(c, a, P, Q)
  <1>1. b \in [P -> T]
    BY RearrangedKeeps
  <1>3. PICK p \in [P -> P] :
            /\ \A x, y \in P : p[x] = p[y] => x = y
            /\ \A y \in P : \E x \in P : p[x] = y
            /\ \A x \in P \ R : p[x] = x
            /\ b = [x \in P |-> a[p[x]]]
    BY Zenon DEF Rearranged
  <1>4. PICK q \in [P -> P] :
            /\ \A x, y \in P : q[x] = q[y] => x = y
            /\ \A y \in P : \E x \in P : q[x] = y
            /\ \A x \in P \ Q : q[x] = x
            /\ c = [x \in P |-> b[q[x]]]
    BY Zenon DEF Rearranged
  <1>. DEFINE r == [x \in P |-> p[q[x]]]
  <1>5. r \in [P -> P] /\ \A x \in P : r[x] = p[q[x]]
    BY Zenon
  <1>6. \A x, y \in P : r[x] = r[y] => x = y
    BY <1>3, <1>4, <1>5, Zenon
  <1>7. ASSUME NEW y \in P
        PROVE  \E x \in P : r[x] = y
    <2>1. PICK z \in P : p[z] = y
      BY <1>3
    <2>2. PICK x \in P : q[x] = z
      BY <1>4
    <2>. QED BY <1>5, <2>1, <2>2, Zenon
  <1>8. \A x \in P \ Q : r[x] = x
    BY <1>3, <1>4, <1>5, Zenon
  <1>9. \A x \in P : b[x] = a[p[x]]
    BY <1>3, Zenon
  <1>10. \A x \in P : b[q[x]] = a[r[x]]
    BY <1>4, <1>5, <1>9, Zenon
  <1>11. c = [x \in P |-> a[r[x]]]
    BY <1>4, <1>10, Zenon
  <1>. HIDE DEF r
  <1>. QED BY <1>5, <1>6, <1>7, <1>8, <1>11, Zenon DEF Rearranged

\* A rearrangement within a set is one within a larger set.
LEMMA RearrangedWithin ==
    ASSUME NEW P, NEW T, NEW a \in [P -> T], NEW R, NEW Q, NEW b,
           Rearranged(b, a, P, R), R \subseteq Q
    PROVE  Rearranged(b, a, P, Q)
  <1>1. b \in [P -> T]
    BY RearrangedKeeps
  <1>2. Rearranged(b, b, P, Q)
    BY <1>1, RearrangedItself
  <1>. QED BY <1>2, RearrangedAgain

\* What Swap gives at every place.
LEMMA SwapValues ==
    ASSUME NEW P, NEW T, NEW a \in [P -> T], NEW x \in P, NEW y \in P
    PROVE  /\ S!Swap(a, x, y) \in [P -> T]
           /\ S!Swap(a, x, y)[x] = a[y]
           /\ S!Swap(a, x, y)[y] = a[x]
           /\ \A z \in P \ {x, y} : S!Swap(a, x, y)[z] = a[z]
  BY DEF S!Swap

\* Swap rearranges.
LEMMA SwapRearranges ==
    ASSUME NEW P, NEW T, NEW a \in [P -> T], NEW x \in P, NEW y \in P, NEW R,
           x \in R, y \in R
    PROVE  Rearranged(S!Swap(a, x, y), a, P, R)
  <1>. DEFINE p == [z \in P |-> IF z = x THEN y ELSE IF z = y THEN x ELSE z]
              b == S!Swap(a, x, y)
  <1>2. p \in [P -> P]
    OBVIOUS
  <1>3. /\ \A u, v \in P : p[u] = p[v] => u = v
        /\ \A z \in P \ R : p[z] = z
    OBVIOUS
  <1>4. \A v \in P : p[p[v]] = v
    OBVIOUS
  <1>5. \A v \in P : \E u \in P : p[u] = v
    BY <1>2, <1>4, Zenon
  <1>6. b \in [P -> T] /\ \A z \in P : b[z] = a[p[z]]
    <2>1. /\ b[x] = a[y]
          /\ b[y] = a[x]
          /\ \A z \in P \ {x, y} : b[z] = a[z]
      BY DEF S!Swap
    <2>2. b \in [P -> T]
      BY DEF S!Swap
    <2>. HIDE DEF b
    <2>. QED BY <2>1, <2>2
  <1>7. b = [z \in P |-> a[p[z]]]
    <2>. HIDE DEF p, b
    <2>. QED BY <1>6
  <1>. HIDE DEF p
  <1>. QED BY <1>2, <1>3, <1>5, <1>7, Zenon DEF Rearranged

\* Every word is as often in a rearrangement.
LEMMA RearrangedOccurrences ==
    ASSUME NEW P, IsFiniteSet(P), NEW T, NEW a \in [P -> T], NEW R, NEW b,
           Rearranged(b, a, P, R), NEW w
    PROVE  S!Occurrences(b, w) = S!Occurrences(a, w)
  <1>1. b \in [P -> T]
    BY RearrangedKeeps
  <1>2. DOMAIN a = P /\ DOMAIN b = P
    BY <1>1
  <1>3. PICK p \in [P -> P] :
            /\ \A x, y \in P : p[x] = p[y] => x = y
            /\ \A y \in P : \E x \in P : p[x] = y
            /\ b = [x \in P |-> a[p[x]]]
    BY Zenon DEF Rearranged
  <1>. DEFINE A0 == {k \in P : a[k] = w}
              B0 == {k \in P : b[k] = w}
              q == [k \in B0 |-> p[k]]
  <1>4. \A x \in P : b[x] = a[p[x]]
    BY <1>3, Zenon
  <1>5. q \in [B0 -> A0]
    BY <1>3, <1>4
  <1>6. q \in Injection(B0, A0)
    BY <1>3, <1>5, Zenon DEF Injection, IsInjective
  <1>7. \A y \in A0 : \E x \in B0 : q[x] = y
    BY <1>3, <1>4, Zenon
  <1>8. q \in Surjection(B0, A0)
    <2>. HIDE DEF q, A0, B0
    <2>. QED BY <1>5, <1>7, Zenon DEF Surjection
  <1>9. ExistsBijection(B0, A0)
    <2>. HIDE DEF q, A0, B0
    <2>. QED BY <1>6, <1>8, Zenon DEF ExistsBijection, Bijection
  <1>10. IsFiniteSet(B0)
    BY FS_Subset
  <1>11. Cardinality(A0) = Cardinality(B0)
    <2>. HIDE DEF q, A0, B0
    <2>. QED BY <1>9, <1>10, FS_Bijection
  <1>12. \A s : S!Cardinality(s) = Cardinality(s)
    BY Zenon DEF S!Cardinality, Cardinality
  <1>13. S!Occurrences(b, w) = Cardinality(B0) /\ S!Occurrences(a, w) = Cardinality(A0)
    <2>1. S!Occurrences(b, w) = S!Cardinality(B0) /\ S!Occurrences(a, w) = S!Cardinality(A0)
      BY <1>2, Zenon DEF S!Occurrences
    <2>. QED BY <1>12, <2>1, Zenon
  <1>. QED BY <1>11, <1>13, Zenon


-----------------------------------------------------------------------------
(* The loop of QuickSort *)

\* One turn of the loop of QuickSort, on the array and i after the others.
PartitionTurn(loop, base, m, j) ==
    IF loop[1][base + j - 1] < loop[1][base + m - 1]
    THEN <<S!Swap(loop[1], base + j - 1, base + loop[2] + 1), loop[2] + 1>>
    ELSE <<loop[1], loop[2]>>

\* f gives the array and i after each turn up to the k-th.
IsPartitionLoop(f, a, base, m, k) ==
    f = [j \in 0..k |-> IF j = 0 THEN <<a, -1>> ELSE PartitionTurn(f[j - 1], base, m, j)]

\* f gives the array and i after every turn of the loop.
PartitionTurns(f, a, base, m) ==
    /\ S!PartitionLoop(a, base, m) = f[m]
    /\ f[0] = <<a, -1>>
    /\ \A j \in 1..m : f[j] = PartitionTurn(f[j - 1], base, m, j)

\* The loop ends after its last turn: there is a function with all of them.
LEMMA PartitionLoopTurns ==
    ASSUME NEW a, NEW base, NEW m \in Nat
    PROVE  \E f : PartitionTurns(f, a, base, m)
  <1>. DEFINE Known == {k \in Nat : \E f : IsPartitionLoop(f, a, base, m, k)}
  <1>1. 0 \in Known
    <2>. DEFINE f == [j \in 0..0 |-> <<a, -1>>]
    <2>1. \A j \in 0..0 : j = 0
      OBVIOUS
    <2>2. IsPartitionLoop(f, a, base, m, 0)
      BY <2>1, Zenon DEF IsPartitionLoop
    <2>. QED BY <2>2
  <1>2. ASSUME NEW k \in Known
        PROVE  k + 1 \in Known
    <2>1. PICK f : IsPartitionLoop(f, a, base, m, k)
      OBVIOUS
    <2>. DEFINE last == PartitionTurn(f[k], base, m, k + 1)
                Turn(g, j) == IF j = 0 THEN <<a, -1>> ELSE PartitionTurn(g[j - 1], base, m, j)
                h == [j \in 0..(k + 1) |-> IF j = k + 1 THEN last ELSE f[j]]
    <2>2. /\ \A j \in 0..(k + 1) : j = k + 1 \/ j \in 0..k
          /\ \A j \in 0..k : j # k + 1 /\ (j = 0 \/ j - 1 \in 0..k)
          /\ \A j \in 0..k : j \in 0..(k + 1)
          /\ k \in 0..(k + 1) /\ k + 1 \in 0..(k + 1)
          /\ k + 1 # 0 /\ (k + 1) - 1 = k /\ k # k + 1 /\ k \in 0..k
      OBVIOUS
    <2>3. \A j \in 0..k : h[j] = f[j]
      BY <2>2, Zenon
    <2>4. \A j \in 0..k : f[j] = Turn(f, j)
      BY <2>1, Zenon DEF IsPartitionLoop
    <2>5. h[k + 1] = last
      BY <2>2, Zenon
    <2>6. \A j \in 0..k : h[j] = Turn(h, j)
      <3>. HIDE DEF h
      <3>. QED BY <2>2, <2>3, <2>4, Zenon
    <2>7. last = Turn(h, k + 1)
      <3>1. h[(k + 1) - 1] = f[k]
        BY <2>2, <2>3, Zenon
      <3>. HIDE DEF h
      <3>. QED BY <2>2, <3>1, Zenon
    <2>8. \A j \in 0..(k + 1) : h[j] = Turn(h, j)
      <3>. HIDE DEF h, Turn, last
      <3>. QED BY <2>2, <2>5, <2>6, <2>7, Zenon
    <2>9. h = [j \in 0..(k + 1) |-> h[j]]
      BY Zenon
    <2>10. h = [j \in 0..(k + 1) |-> Turn(h, j)]
      <3>. HIDE DEF h, Turn
      <3>. QED BY <2>8, <2>9, Zenon
    <2>11. IsPartitionLoop(h, a, base, m, k + 1)
      <3>. HIDE DEF h
      <3>. QED BY <2>10, Zenon DEF IsPartitionLoop
    <2>. HIDE DEF h
    <2>. QED BY <2>11
  <1>3. Known = Nat
    <2>1. Known \in SUBSET Nat
      OBVIOUS
    <2>. HIDE DEF Known
    <2>. QED BY <1>1, <1>2, <2>1, NatSetInduction
  <1>4. \E f : IsPartitionLoop(f, a, base, m, m)
    BY <1>3, Zenon
  <1>. DEFINE loop == CHOOSE f : IsPartitionLoop(f, a, base, m, m)
  <1>5. S!PartitionLoop(a, base, m) = loop[m]
    BY Zenon DEF S!PartitionLoop, PartitionTurn, IsPartitionLoop
  <1>6. IsPartitionLoop(loop, a, base, m, m)
    BY <1>4, Zenon
  <1>7. /\ 0 \in 0..m
        /\ \A j \in 1..m : j \in 0..m /\ j # 0
    OBVIOUS
  <1>8. /\ loop[0] = <<a, -1>>
        /\ \A j \in 1..m : loop[j] = PartitionTurn(loop[j - 1], base, m, j)
    <2>. HIDE DEF loop
    <2>. QED BY <1>6, <1>7, Zenon DEF IsPartitionLoop
  <1>. QED BY <1>5, <1>8, Zenon DEF PartitionTurns


\* After j turns the words up to base + k are less than the last one, the
\* pivot, and those after them that were compared are not; the pivot is where
\* it was, and only words of the call have moved.
PartitionedSoFar(b, k, a, P, base, m, j) ==
    /\ Rearranged(b, a, P, base..(base + m - 1))
    /\ b[base + m - 1] = a[base + m - 1]
    /\ k \in Int /\ -1 <= k /\ k <= j - 1 /\ k <= m - 2
    /\ \A x \in base..(base + k) : b[x] < a[base + m - 1]
    /\ \A x \in (base + k + 1)..(base + j - 1) : b[x] >= a[base + m - 1]

\* A turn brings one more word to where it belongs.
LEMMA PartitionTurnKeeps ==
    ASSUME NEW P, NEW T, T \subseteq Int, NEW a \in [P -> T], NEW base \in Int,
           NEW m \in Nat, m > 0, base..(base + m - 1) \subseteq P,
           NEW j \in 1..m, NEW b, NEW k, PartitionedSoFar(b, k, a, P, base, m, j - 1)
    PROVE  \E c, l : /\ PartitionTurn(<<b, k>>, base, m, j) = <<c, l>>
                     /\ PartitionedSoFar(c, l, a, P, base, m, j)
  <1>. DEFINE R == base..(base + m - 1)
              v == a[base + m - 1]
  <1>1. /\ Rearranged(b, a, P, R)
        /\ b[base + m - 1] = v
        /\ k \in Int /\ -1 <= k /\ k <= (j - 1) - 1 /\ k <= m - 2
        /\ \A x \in base..(base + k) : b[x] < v
        /\ \A x \in (base + k + 1)..(base + (j - 1) - 1) : b[x] >= v
    BY Zenon DEF PartitionedSoFar
  <1>2. b \in [P -> T]
    <2>. HIDE DEF R, v
    <2>. QED BY <1>1, RearrangedKeeps
  <1>3. j \in Int /\ 1 <= j /\ j <= m
    OBVIOUS
  <1>4. base + j - 1 \in R /\ base + k + 1 \in R /\ base + m - 1 \in R
    BY <1>1, <1>3
  <1>5. base + j - 1 \in P /\ base + k + 1 \in P /\ base + m - 1 \in P
    BY <1>4
  <1>6. /\ b[base + j - 1] \in Int /\ v \in Int
        /\ \A x \in P : b[x] \in Int
    BY <1>2, <1>5
  <1>. HIDE DEF R, v
  <1>7. CASE b[base + j - 1] < v
    <2>. DEFINE c == S!Swap(b, base + j - 1, base + k + 1)
    <2>1. j <= m - 1
      <3>1. base + j - 1 # base + m - 1
        BY <1>1, <1>6, <1>7
      <3>. QED BY <1>3, <3>1
    <2>2. PartitionTurn(<<b, k>>, base, m, j) = <<c, k + 1>>
      BY <1>1, <1>7 DEF PartitionTurn
    <2>3. /\ c[base + j - 1] = b[base + k + 1]
          /\ c[base + k + 1] = b[base + j - 1]
          /\ \A x \in P \ {base + j - 1, base + k + 1} : c[x] = b[x]
      BY <1>2, <1>5 DEF S!Swap
    <2>4. Rearranged(c, b, P, R)
      BY <1>2, <1>4, <1>5, SwapRearranges, Zenon
    <2>5. Rearranged(c, a, P, R)
      BY <1>1, <2>4, RearrangedAgain, Zenon
    <2>. HIDE DEF c
    <2>6. c[base + m - 1] = v
      <3>1. base + m - 1 # base + j - 1 /\ base + m - 1 # base + k + 1
        BY <1>1, <1>3, <2>1
      <3>. QED BY <1>1, <1>5, <2>3, <3>1, Zenon
    <2>7. ASSUME NEW x \in base..(base + (k + 1))
          PROVE  c[x] < v
      <3>1. x \in P
        BY <1>1, <1>3
      <3>2. x = base + k + 1 \/ (x # base + k + 1 /\ x # base + j - 1 /\ x \in base..(base + k))
        BY <1>1, <1>3
      <3>. QED BY <1>1, <1>7, <2>3, <3>1, <3>2
    <2>8. ASSUME NEW x \in (base + (k + 1) + 1)..(base + j - 1)
          PROVE  c[x] >= v
      <3>1. x \in P
        BY <1>1, <1>3
      <3>2. CASE x = base + j - 1
        <4>1. base + k + 1 \in (base + k + 1)..(base + (j - 1) - 1)
          BY <1>1, <1>3, <3>2
        <4>. QED BY <1>1, <2>3, <3>2, <4>1
      <3>3. CASE x # base + j - 1
        <4>1. x # base + k + 1 /\ x \in (base + k + 1)..(base + (j - 1) - 1)
          BY <1>1, <1>3, <3>3
        <4>. QED BY <1>1, <2>3, <3>1, <3>3, <4>1
      <3>. QED BY <3>2, <3>3
    <2>9. k + 1 \in Int /\ -1 <= k + 1 /\ k + 1 <= j - 1 /\ k + 1 <= m - 2
      BY <1>1, <1>3, <2>1
    <2>10. PartitionedSoFar(c, k + 1, a, P, base, m, j)
      BY <2>5, <2>6, <2>7, <2>8, <2>9, Zenon DEF PartitionedSoFar, R, v
    <2>. QED BY <2>2, <2>10, Zenon
  <1>8. CASE ~(b[base + j - 1] < v)
    <2>1. PartitionTurn(<<b, k>>, base, m, j) = <<b, k>>
      BY <1>1, <1>8 DEF PartitionTurn
    <2>2. ASSUME NEW x \in (base + k + 1)..(base + j - 1)
          PROVE  b[x] >= v
      <3>1. x = base + j - 1 \/ x \in (base + k + 1)..(base + (j - 1) - 1)
        BY <1>1, <1>3
      <3>. QED BY <1>1, <1>6, <1>8, <3>1
    <2>3. k <= j - 1
      BY <1>1, <1>3
    <2>4. PartitionedSoFar(b, k, a, P, base, m, j)
      BY <1>1, <2>2, <2>3, Zenon DEF PartitionedSoFar, R, v
    <2>. QED BY <2>1, <2>4, Zenon
  <1>. QED BY <1>7, <1>8

\* The loop leaves the words as PartitionedSoFar says.
LEMMA PartitionLoopPartitions ==
    ASSUME NEW P, NEW T, T \subseteq Int, NEW a \in [P -> T], NEW base \in Int,
           NEW m \in Nat, m > 0, base..(base + m - 1) \subseteq P
    PROVE  \E b, k : /\ S!PartitionLoop(a, base, m) = <<b, k>>
                     /\ PartitionedSoFar(b, k, a, P, base, m, m)
  <1>0. PICK f : PartitionTurns(f, a, base, m)
    BY PartitionLoopTurns
  <1>1. /\ S!PartitionLoop(a, base, m) = f[m]
        /\ f[0] = <<a, -1>>
        /\ \A j \in 1..m : f[j] = PartitionTurn(f[j - 1], base, m, j)
    BY <1>0, Zenon DEF PartitionTurns
  <1>. DEFINE Kept(j) == \E b, k : f[j] = <<b, k>> /\ PartitionedSoFar(b, k, a, P, base, m, j)
              Known == {j \in Nat : j <= m => Kept(j)}
  <1>2. 0 \in Known
    <2>1. Rearranged(a, a, P, base..(base + m - 1))
      BY RearrangedItself
    <2>2. PartitionedSoFar(a, -1, a, P, base, m, 0)
      BY <2>1 DEF PartitionedSoFar
    <2>. QED BY <1>1, <2>2
  <1>3. ASSUME NEW j \in Known
        PROVE  j + 1 \in Known
    <2>1. j \in Nat /\ j + 1 \in Nat
      OBVIOUS
    <2>2. ASSUME j + 1 <= m
          PROVE  Kept(j + 1)
      <3>1. j <= m /\ j + 1 \in 1..m /\ (j + 1) - 1 = j
        BY <2>1, <2>2
      <3>2. PICK b, k : f[j] = <<b, k>> /\ PartitionedSoFar(b, k, a, P, base, m, j)
        BY <3>1
      <3>3. \E c, l : /\ PartitionTurn(<<b, k>>, base, m, j + 1) = <<c, l>>
                      /\ PartitionedSoFar(c, l, a, P, base, m, j + 1)
        <4>1. PartitionedSoFar(b, k, a, P, base, m, (j + 1) - 1)
          BY <3>1, <3>2, Zenon
        <4>. HIDE DEF Known, Kept
        <4>. QED BY <3>1, <4>1, PartitionTurnKeeps, ZenonT(40)
      <3>. QED BY <1>1, <3>1, <3>2, <3>3, Zenon
    <2>. QED BY <2>1, <2>2
  <1>4. Known = Nat
    <2>1. Known \in SUBSET Nat
      OBVIOUS
    <2>. HIDE DEF Known
    <2>. QED BY <1>2, <1>3, <2>1, NatSetInduction
  <1>5. Kept(m)
    <2>1. m <= m
      OBVIOUS
    <2>. HIDE DEF Kept
    <2>. QED BY <1>4, <2>1
  <1>. QED BY <1>1, <1>5, Zenon

\* No word left of the p-th among the m words from base is greater than that
\* one, and no word right of it is less.
PivotAt(b, base, m, p) ==
    /\ \A x \in base..(base + p - 1) : b[x] <= b[base + p]
    /\ \A x \in (base + p + 1)..(base + m - 1) : b[base + p] <= b[x]

\* What a call does before its own two calls: it puts the pivot where it
\* belongs, with the lesser words of the call before it and the others after it.
LEMMA PartitionSplits ==
    ASSUME NEW P, NEW T, T \subseteq Int, NEW a \in [P -> T], NEW base \in Int,
           NEW m \in Nat, m > 0, base..(base + m - 1) \subseteq P,
           NEW b, b = S!Partition(a, base, m).array, NEW p, p = S!Partition(a, base, m).pivot
    PROVE  /\ p \in 0..(m - 1)
           /\ Rearranged(b, a, P, base..(base + m - 1))
           /\ PivotAt(b, base, m, p)
  <1>. DEFINE R == base..(base + m - 1)
              v == a[base + m - 1]
  <1>1. PICK c, k : /\ S!PartitionLoop(a, base, m) = <<c, k>>
                    /\ PartitionedSoFar(c, k, a, P, base, m, m)
    BY PartitionLoopPartitions
  <1>2. /\ Rearranged(c, a, P, R)
        /\ c[base + m - 1] = v
        /\ k \in Int /\ -1 <= k /\ k <= m - 2
        /\ \A x \in base..(base + k) : c[x] < v
        /\ \A x \in (base + k + 1)..(base + m - 1) : c[x] >= v
    BY <1>1, Zenon DEF PartitionedSoFar
  <1>3. c \in [P -> T]
    <2>. HIDE DEF R, v
    <2>. QED BY <1>2, RearrangedKeeps
  <1>4. p = k + 1 /\ b = S!Swap(c, base + m - 1, base + p)
    BY <1>1 DEF S!Partition
  <1>5. base + m - 1 \in R /\ base + p \in R
    BY <1>2, <1>4
  <1>6. base + m - 1 \in P /\ base + p \in P
    BY <1>5
  <1>7. /\ b[base + m - 1] = c[base + p]
        /\ b[base + p] = v
        /\ \A x \in P \ {base + m - 1, base + p} : b[x] = c[x]
    <2>. HIDE DEF R, v
    <2>. QED BY <1>2, <1>3, <1>4, <1>6 DEF S!Swap
  <1>8. Rearranged(b, c, P, R)
    <2>. HIDE DEF R, v
    <2>. QED BY <1>3, <1>4, <1>5, <1>6, SwapRearranges, ZenonT(40)
  <1>9. Rearranged(b, a, P, R)
    <2>. HIDE DEF R, v
    <2>. QED BY <1>2, <1>8, RearrangedAgain
  <1>10. v \in Int /\ \A x \in P : c[x] \in Int
    BY <1>3, <1>6
  <1>. HIDE DEF R, v
  <1>11. ASSUME NEW x \in base..(base + p - 1)
         PROVE  b[x] <= b[base + p]
    <2>1. x \in P /\ x # base + m - 1 /\ x # base + p /\ x \in base..(base + k)
      BY <1>2, <1>4
    <2>. QED BY <1>2, <1>7, <1>10, <2>1
  <1>12. ASSUME NEW x \in (base + p + 1)..(base + m - 1)
         PROVE  b[base + p] <= b[x]
    <2>1. x \in P /\ x # base + p
      BY <1>2, <1>4
    <2>2. x \in (base + k + 1)..(base + m - 1) /\ base + p \in (base + k + 1)..(base + m - 1)
      BY <1>2, <1>4
    <2>3. b[x] = c[x] \/ b[x] = c[base + p]
      BY <1>7, <2>1, Zenon
    <2>. QED BY <1>2, <1>6, <1>7, <1>10, <2>1, <2>2, <2>3
  <1>13. p \in 0..(m - 1)
    BY <1>2, <1>4
  <1>14. PivotAt(b, base, m, p)
    BY <1>11, <1>12, Zenon DEF PivotAt
  <1>. QED BY <1>9, <1>13, <1>14 DEF R


-----------------------------------------------------------------------------
(* The loop of MergeConv *)

\* One turn of the loop of MergeConv, on what the others have left.
MergeTurn(g, a, lhs, from, rhs) ==
    IF g.l < lhs /\ (g.r >= rhs \/ a[g.l] < a[from + g.r])
    THEN [g EXCEPT !.l = @ + 1, !.merged = Append(@, a[g.l])]
    ELSE [g EXCEPT !.r = @ + 1, !.merged = Append(@, a[from + g.r])]

MergeBegin == [l |-> 0, r |-> 0, merged |-> <<>>]

\* f gives the state of the loop after each turn up to the k-th.
IsMergeLoop(f, a, lhs, from, rhs, k) ==
    f = [j \in 0..k |-> IF j = 0 THEN MergeBegin
                        ELSE MergeTurn(f[j - 1], a, lhs, from, rhs)]

\* f gives the state after every turn, and MergeConv copies the last.
MergeTurns(f, a, lhs, from, rhs) ==
    /\ S!MergeConv(a, lhs, from, rhs) =
          [k \in DOMAIN a |->
              IF k < lhs + rhs THEN f[lhs + rhs].merged[k + 1] ELSE a[k]]
    /\ f[0] = MergeBegin
    /\ \A j \in 1..(lhs + rhs) : f[j] = MergeTurn(f[j - 1], a, lhs, from, rhs)

\* The loop ends after its last turn: there is a function with all of them.
LEMMA MergeLoopTurns ==
    ASSUME NEW a, NEW lhs \in Nat, NEW from, NEW rhs \in Nat
    PROVE  \E f : MergeTurns(f, a, lhs, from, rhs)
  <1>. DEFINE m == lhs + rhs
              Known == {k \in Nat : \E f : IsMergeLoop(f, a, lhs, from, rhs, k)}
  <1>1. 0 \in Known
    <2>. DEFINE f == [j \in 0..0 |-> MergeBegin]
    <2>1. \A j \in 0..0 : j = 0
      OBVIOUS
    <2>2. IsMergeLoop(f, a, lhs, from, rhs, 0)
      BY <2>1, Zenon DEF IsMergeLoop
    <2>. QED BY <2>2
  <1>2. ASSUME NEW k \in Known
        PROVE  k + 1 \in Known
    <2>1. PICK f : IsMergeLoop(f, a, lhs, from, rhs, k)
      OBVIOUS
    <2>. DEFINE last == MergeTurn(f[k], a, lhs, from, rhs)
                Turn(g, j) == IF j = 0 THEN MergeBegin
                              ELSE MergeTurn(g[j - 1], a, lhs, from, rhs)
                h == [j \in 0..(k + 1) |-> IF j = k + 1 THEN last ELSE f[j]]
    <2>2. /\ \A j \in 0..(k + 1) : j = k + 1 \/ j \in 0..k
          /\ \A j \in 0..k : j # k + 1 /\ (j = 0 \/ j - 1 \in 0..k)
          /\ \A j \in 0..k : j \in 0..(k + 1)
          /\ k \in 0..(k + 1) /\ k + 1 \in 0..(k + 1)
          /\ k + 1 # 0 /\ (k + 1) - 1 = k /\ k # k + 1 /\ k \in 0..k
      OBVIOUS
    <2>3. \A j \in 0..k : h[j] = f[j]
      BY <2>2, Zenon
    <2>4. \A j \in 0..k : f[j] = Turn(f, j)
      BY <2>1, Zenon DEF IsMergeLoop
    <2>5. h[k + 1] = last
      BY <2>2, Zenon
    <2>6. \A j \in 0..k : h[j] = Turn(h, j)
      <3>. HIDE DEF h
      <3>. QED BY <2>2, <2>3, <2>4, Zenon
    <2>7. last = Turn(h, k + 1)
      <3>1. h[(k + 1) - 1] = f[k]
        BY <2>2, <2>3, Zenon
      <3>. HIDE DEF h
      <3>. QED BY <2>2, <3>1, Zenon
    <2>8. \A j \in 0..(k + 1) : h[j] = Turn(h, j)
      <3>. HIDE DEF h, Turn, last
      <3>. QED BY <2>2, <2>5, <2>6, <2>7, Zenon
    <2>9. h = [j \in 0..(k + 1) |-> h[j]]
      BY Zenon
    <2>10. h = [j \in 0..(k + 1) |-> Turn(h, j)]
      <3>. HIDE DEF h, Turn
      <3>. QED BY <2>8, <2>9, Zenon
    <2>11. IsMergeLoop(h, a, lhs, from, rhs, k + 1)
      <3>. HIDE DEF h
      <3>. QED BY <2>10, Zenon DEF IsMergeLoop
    <2>. HIDE DEF h
    <2>. QED BY <2>11
  <1>3. Known = Nat
    <2>1. Known \in SUBSET Nat
      OBVIOUS
    <2>. HIDE DEF Known
    <2>. QED BY <1>1, <1>2, <2>1, NatSetInduction
  <1>4. m \in Nat
    OBVIOUS
  <1>5. \E f : IsMergeLoop(f, a, lhs, from, rhs, m)
    BY <1>3, <1>4, Zenon
  <1>. DEFINE loop == CHOOSE f : IsMergeLoop(f, a, lhs, from, rhs, m)
  <1>6. S!MergeConv(a, lhs, from, rhs) =
          [k \in DOMAIN a |-> IF k < lhs + rhs THEN loop[m].merged[k + 1] ELSE a[k]]
    BY Zenon DEF S!MergeConv, MergeTurn, MergeBegin, IsMergeLoop
  <1>7. IsMergeLoop(loop, a, lhs, from, rhs, m)
    BY <1>5, Zenon
  <1>8. /\ 0 \in 0..m
        /\ \A j \in 1..m : j \in 0..m /\ j # 0
    OBVIOUS
  <1>9. /\ loop[0] = MergeBegin
        /\ \A j \in 1..m : loop[j] = MergeTurn(loop[j - 1], a, lhs, from, rhs)
    <2>. HIDE DEF loop, m
    <2>. QED BY <1>7, <1>8, Zenon DEF IsMergeLoop
  <1>. QED BY <1>6, <1>9, Zenon DEF MergeTurns

\* The k words of s are those of a at the places of A, each once.
Traced(s, k, a, Src) ==
    \E q \in [1..k -> Src] :
        /\ \A x, y \in 1..k : q[x] = q[y] => x = y
        /\ \A z \in Src : \E x \in 1..k : q[x] = z
        /\ \A x \in 1..k : s[x] = a[q[x]]

\* Appending the word at a place that was not taken.
LEMMA TracedAppend ==
    ASSUME NEW k \in Nat, NEW s \in Seq(Int), Len(s) = k, NEW a, NEW Src, Traced(s, k, a, Src),
           NEW z, z \notin Src, a[z] \in Int, NEW B, B = Src \union {z}
    PROVE  Traced(Append(s, a[z]), k + 1, a, B)
  <1>1. PICK q \in [1..k -> Src] :
            /\ \A x, y \in 1..k : q[x] = q[y] => x = y
            /\ \A u \in Src : \E x \in 1..k : q[x] = u
            /\ \A x \in 1..k : s[x] = a[q[x]]
    BY Zenon DEF Traced
  <1>. DEFINE p == [x \in 1..(k + 1) |-> IF x = k + 1 THEN z ELSE q[x]]
              s1 == Append(s, a[z])
  <1>2. /\ \A x \in 1..(k + 1) : x = k + 1 \/ x \in 1..k
        /\ \A x \in 1..k : x # k + 1 /\ x \in 1..(k + 1)
        /\ k + 1 \in 1..(k + 1)
    OBVIOUS
  <1>3. p[k + 1] = z /\ \A x \in 1..k : p[x] = q[x]
    BY <1>2, Zenon
  <1>4. s1[k + 1] = a[z] /\ \A x \in 1..k : s1[x] = s[x]
    BY AppendProperties
  <1>5. p \in [1..(k + 1) -> Src \union {z}]
    BY <1>2, Zenon
  <1>. HIDE DEF p, s1
  <1>6. ASSUME NEW x \in 1..(k + 1), NEW y \in 1..(k + 1), p[x] = p[y]
        PROVE  x = y
    <2>1. \A u \in 1..k : p[u] \in Src /\ p[u] # z
      BY <1>3, Zenon
    <2>2. CASE x = k + 1
      <3>1. y \notin 1..k
        BY <1>3, <1>6, <2>1, <2>2, Zenon
      <3>. QED BY <1>2, <2>2, <3>1, Zenon
    <2>3. CASE x \in 1..k
      <3>1. y # k + 1
        BY <1>3, <1>6, <2>1, <2>3, Zenon
      <3>2. y \in 1..k
        BY <1>2, <3>1, Zenon
      <3>3. q[x] = q[y]
        BY <1>3, <1>6, <2>3, <3>2, Zenon
      <3>. QED BY <1>1, <2>3, <3>2, <3>3, Zenon
    <2>. QED BY <1>2, <2>2, <2>3
  <1>7. ASSUME NEW u \in Src \union {z}
        PROVE  \E x \in 1..(k + 1) : p[x] = u
    <2>1. CASE u = z
      BY <1>2, <1>3, <2>1, Zenon
    <2>2. CASE u \in Src
      <3>1. PICK x \in 1..k : q[x] = u
        BY <1>1, <2>2, Zenon
      <3>. QED BY <1>2, <1>3, <3>1, Zenon
    <2>. QED BY <2>1, <2>2
  <1>8. \A x \in 1..(k + 1) : s1[x] = a[p[x]]
    BY <1>1, <1>2, <1>3, <1>4, ZenonT(40)
  <1>. QED BY <1>5, <1>6, <1>7, <1>8, ZenonT(40) DEF Traced, s1


\* Where the first x words of the left part and the first y of the right one are.
Taken(lhs, x, y) == 0..(x - 1) \union lhs..(lhs + y - 1)

\* After k turns the l first words of the left part and the r first of the
\* right part are merged, in order, and none of the others is less.
MergedSoFar(g, a, lhs, rhs, k) ==
    /\ g \in [l : Nat, r : Nat, merged : Seq(Int)]
    /\ g.l <= lhs /\ g.r <= rhs /\ g.l + g.r = k /\ Len(g.merged) = k
    /\ \A x, y \in 1..k : x < y => g.merged[x] <= g.merged[y]
    /\ \A x \in 1..k : \A y \in g.l..(lhs - 1) : g.merged[x] <= a[y]
    /\ \A x \in 1..k : \A y \in (lhs + g.r)..(lhs + rhs - 1) : g.merged[x] <= a[y]
    /\ Traced(g.merged, k, a, Taken(lhs, g.l, g.r))

\* Appending a word that is not less than the last keeps a sequence in order
\* and below what it was below, if the word is as well.
LEMMA OrderedAppend ==
    ASSUME NEW k \in Nat, NEW s \in Seq(Int), Len(s) = k, NEW w \in Int,
           \A x, y \in 1..k : x < y => s[x] <= s[y],
           \A x \in 1..k : s[x] <= w
    PROVE  /\ Append(s, w) \in Seq(Int) /\ Len(Append(s, w)) = k + 1
           /\ \A x, y \in 1..(k + 1) : x < y => Append(s, w)[x] <= Append(s, w)[y]
           /\ \A u \in Int : w <= u /\ (\A x \in 1..k : s[x] <= u)
                                => \A x \in 1..(k + 1) : Append(s, w)[x] <= u
  <1>. DEFINE b == Append(s, w)
  <1>1. /\ b \in Seq(Int) /\ Len(b) = k + 1
        /\ b[k + 1] = w /\ \A x \in 1..k : b[x] = s[x]
    BY AppendProperties
  <1>. HIDE DEF b
  <1>2. ASSUME NEW x \in 1..(k + 1), NEW y \in 1..(k + 1), x < y
        PROVE  b[x] <= b[y]
    <2>1. x \in 1..k
      BY <1>2
    <2>2. y = k + 1 \/ y \in 1..k
      OBVIOUS
    <2>. QED BY <1>1, <1>2, <2>1, <2>2
  <1>3. ASSUME NEW u \in Int, w <= u, \A x \in 1..k : s[x] <= u
        PROVE  \A x \in 1..(k + 1) : b[x] <= u
    <2>1. \A x \in 1..(k + 1) : x = k + 1 \/ x \in 1..k
      OBVIOUS
    <2>. QED BY <1>1, <1>3, <2>1
  <1>. QED BY <1>1, <1>2, <1>3 DEF b

\* The state after a turn, field by field.
LEMMA MergeTurnFields ==
    ASSUME NEW g \in [l : Nat, r : Nat, merged : Seq(Int)], NEW w \in Int,
           NEW b, b = Append(g.merged, w), NEW h
    PROVE  /\ h = [g EXCEPT !.l = @ + 1, !.merged = Append(@, w)] =>
                /\ h \in [l : Nat, r : Nat, merged : Seq(Int)]
                /\ h.l = g.l + 1 /\ h.r = g.r /\ h.merged = b
           /\ h = [g EXCEPT !.r = @ + 1, !.merged = Append(@, w)] =>
                /\ h \in [l : Nat, r : Nat, merged : Seq(Int)]
                /\ h.l = g.l /\ h.r = g.r + 1 /\ h.merged = b
  <1>. DEFINE l == g.l + 1
              r == g.r + 1
  <1>1. l \in Nat /\ r \in Nat /\ b \in Seq(Int)
    BY AppendProperties
  <1>2. /\ [g EXCEPT !.l = @ + 1, !.merged = Append(@, w)] = [g EXCEPT !.l = l, !.merged = b]
        /\ [g EXCEPT !.r = @ + 1, !.merged = Append(@, w)] = [g EXCEPT !.r = r, !.merged = b]
    BY Zenon
  <1>. HIDE DEF l, r
  <1>3. CASE h = [g EXCEPT !.l = l, !.merged = b]
    <2>1. /\ h \in [l : Nat, r : Nat, merged : Seq(Int)]
          /\ h.l = l /\ h.r = g.r /\ h.merged = b
      BY <1>1, <1>3
    <2>. QED BY <2>1 DEF l
  <1>4. CASE h = [g EXCEPT !.r = r, !.merged = b]
    <2>1. /\ h \in [l : Nat, r : Nat, merged : Seq(Int)]
          /\ h.l = g.l /\ h.r = r /\ h.merged = b
      BY <1>1, <1>4
    <2>. QED BY <2>1 DEF r
  <1>. QED BY <1>2, <1>3, <1>4, Zenon

\* A turn appends the lesser of the two first words that are left.
LEMMA MergeTurnKeeps ==
    ASSUME NEW P, NEW T, T \subseteq Int, NEW a \in [P -> T],
           NEW lhs \in Nat, NEW rhs \in Nat, 0..(lhs + rhs - 1) \subseteq P,
           Sorted(a, 0, lhs - 1), Sorted(a, lhs, lhs + rhs - 1),
           NEW k \in Nat, k < lhs + rhs, NEW g, MergedSoFar(g, a, lhs, rhs, k)
    PROVE  MergedSoFar(MergeTurn(g, a, lhs, lhs, rhs), a, lhs, rhs, k + 1)
  <1>. DEFINE l == g.l
              r == g.r
              s == g.merged
              h == MergeTurn(g, a, lhs, lhs, rhs)
  <1>1. l \in Nat /\ r \in Nat /\ s \in Seq(Int)
    BY DEF MergedSoFar
  <1>2. l <= lhs /\ r <= rhs /\ l + r = k /\ Len(s) = k
    BY DEF MergedSoFar
  <1>3. /\ \A x, y \in 1..k : x < y => s[x] <= s[y]
        /\ \A x \in 1..k : \A y \in l..(lhs - 1) : s[x] <= a[y]
        /\ \A x \in 1..k : \A y \in (lhs + r)..(lhs + rhs - 1) : s[x] <= a[y]
        /\ Traced(s, k, a, Taken(lhs, l, r))
    BY Zenon DEF MergedSoFar
  <1>4. \A y \in 0..(lhs + rhs - 1) : y \in P /\ a[y] \in Int
    OBVIOUS
  <1>5. ASSUME NEW w \in Int
        PROVE  /\ h = [g EXCEPT !.l = @ + 1, !.merged = Append(@, w)] =>
                    /\ h \in [l : Nat, r : Nat, merged : Seq(Int)]
                    /\ h.l = l + 1 /\ h.r = r /\ h.merged = Append(s, w)
               /\ h = [g EXCEPT !.r = @ + 1, !.merged = Append(@, w)] =>
                    /\ h \in [l : Nat, r : Nat, merged : Seq(Int)]
                    /\ h.l = l /\ h.r = r + 1 /\ h.merged = Append(s, w)
    <2>1. g \in [l : Nat, r : Nat, merged : Seq(Int)]
      BY DEF MergedSoFar
    <2>. HIDE DEF h
    <2>. QED BY <2>1, MergeTurnFields, ZenonT(40)
  <1>. HIDE DEF l, r, s, h
  <1>6. CASE l < lhs /\ (r >= rhs \/ a[l] < a[lhs + r])
    <2>. DEFINE z == l
    <2>1. z \in 0..(lhs + rhs - 1) /\ z \in l..(lhs - 1)
      BY <1>1, <1>2, <1>6
    <2>2. h = [g EXCEPT !.l = @ + 1, !.merged = Append(@, a[z])]
      BY <1>6, Zenon DEF h, l, r, MergeTurn
    <2>3. a[z] \in Int /\ \A x \in 1..k : s[x] <= a[z]
      BY <1>3, <1>4, <2>1, Zenon
    <2>4. ASSUME NEW y \in (l + 1)..(lhs - 1)
          PROVE  a[z] <= a[y] /\ \A x \in 1..k : s[x] <= a[y]
      <3>1. y \in l..(lhs - 1) /\ z \in 0..(lhs - 1) /\ y \in 0..(lhs - 1) /\ z < y
        BY <1>1, <1>2, <2>1
      <3>. QED BY <1>3, <3>1 DEF Sorted
    <2>5. ASSUME NEW y \in (lhs + r)..(lhs + rhs - 1)
          PROVE  a[z] <= a[y] /\ \A x \in 1..k : s[x] <= a[y]
      <3>1. /\ y \in lhs..(lhs + rhs - 1) /\ lhs + r \in lhs..(lhs + rhs - 1)
            /\ lhs + r = y \/ lhs + r < y
            /\ r < rhs
            /\ y \in 0..(lhs + rhs - 1) /\ lhs + r \in 0..(lhs + rhs - 1)
        <4>1. y \in Int /\ lhs + r <= y /\ y <= lhs + rhs - 1
          BY <1>1
        <4>2. y \in lhs..(lhs + rhs - 1) /\ lhs + r \in lhs..(lhs + rhs - 1)
          BY <1>1, <4>1
        <4>3. y \in 0..(lhs + rhs - 1) /\ lhs + r \in 0..(lhs + rhs - 1)
          BY <1>1, <4>1
        <4>4. r < rhs /\ (lhs + r = y \/ lhs + r < y)
          BY <1>1, <4>1, SMTT(20)
        <4>. QED BY <4>2, <4>3, <4>4
      <3>2. a[lhs + r] <= a[y]
        BY <1>4, <3>1 DEF Sorted
      <3>3. a[z] < a[lhs + r]
        BY <1>1, <1>2, <1>6, <3>1
      <3>4. a[z] \in Int /\ a[lhs + r] \in Int /\ a[y] \in Int
        BY <1>4, <2>3, <3>1
      <3>. QED BY <1>3, <3>2, <3>3, <3>4
    <2>6. Taken(lhs, l + 1, r) = Taken(lhs, l, r) \union {z} /\ z \notin Taken(lhs, l, r)
      BY <1>1, <1>2, <1>6 DEF Taken
    <2>. HIDE DEF z
    <2>7. Traced(Append(s, a[z]), k + 1, a, Taken(lhs, l + 1, r))
      BY <1>1, <1>2, <1>3, <2>3, <2>6, TracedAppend
    <2>8. /\ Append(s, a[z]) \in Seq(Int) /\ Len(Append(s, a[z])) = k + 1
          /\ \A x, y \in 1..(k + 1) : x < y => Append(s, a[z])[x] <= Append(s, a[z])[y]
          /\ \A u \in Int : a[z] <= u /\ (\A x \in 1..k : s[x] <= u)
                                => \A x \in 1..(k + 1) : Append(s, a[z])[x] <= u
      BY <1>1, <1>2, <1>3, <2>3, OrderedAppend
    <2>9. /\ \A x \in 1..(k + 1) : \A y \in (l + 1)..(lhs - 1) : Append(s, a[z])[x] <= a[y]
          /\ \A x \in 1..(k + 1) : \A y \in (lhs + r)..(lhs + rhs - 1) : Append(s, a[z])[x] <= a[y]
      <3>1. /\ \A y \in (l + 1)..(lhs - 1) : y \in 0..(lhs + rhs - 1)
            /\ \A y \in (lhs + r)..(lhs + rhs - 1) : y \in 0..(lhs + rhs - 1)
        BY <1>1, <1>2
      <3>. QED BY <1>4, <2>4, <2>5, <2>8, <3>1, Zenon
    <2>10. /\ h \in [l : Nat, r : Nat, merged : Seq(Int)]
           /\ h.l = l + 1 /\ h.r = r /\ h.merged = Append(s, a[z])
      BY <1>5, <2>2, <2>3, Zenon
    <2>11. l + 1 <= lhs /\ r <= rhs /\ (l + 1) + r = k + 1
      BY <1>1, <1>2, <1>6
    <2>. QED BY <2>7, <2>8, <2>9, <2>10, <2>11, Zenon DEF MergedSoFar, h
  <1>7. CASE ~(l < lhs /\ (r >= rhs \/ a[l] < a[lhs + r]))
    <2>. DEFINE z == lhs + r
    <2>1. r < rhs /\ (l < lhs => ~(a[l] < a[lhs + r]))
      BY <1>1, <1>2, <1>7
    <2>2. /\ z \in 0..(lhs + rhs - 1) /\ z \in (lhs + r)..(lhs + rhs - 1)
          /\ z \in lhs..(lhs + rhs - 1)
      BY <1>1, <1>2, <2>1
    <2>3. h = [g EXCEPT !.r = @ + 1, !.merged = Append(@, a[z])]
      BY <1>7, Zenon DEF h, l, r, MergeTurn
    <2>4. a[z] \in Int /\ \A x \in 1..k : s[x] <= a[z]
      BY <1>3, <1>4, <2>2, Zenon
    <2>5. ASSUME NEW y \in (lhs + (r + 1))..(lhs + rhs - 1)
          PROVE  a[z] <= a[y] /\ \A x \in 1..k : s[x] <= a[y]
      <3>1. y \in (lhs + r)..(lhs + rhs - 1) /\ y \in lhs..(lhs + rhs - 1) /\ z < y
        BY <1>1, <1>2, <2>1
      <3>. QED BY <1>3, <2>2, <3>1 DEF Sorted
    <2>6. ASSUME NEW y \in l..(lhs - 1)
          PROVE  a[z] <= a[y] /\ \A x \in 1..k : s[x] <= a[y]
      <3>1. /\ y \in 0..(lhs - 1) /\ l \in 0..(lhs - 1)
            /\ l = y \/ l < y
            /\ l < lhs
            /\ y \in 0..(lhs + rhs - 1) /\ l \in 0..(lhs + rhs - 1)
        BY <1>1, <1>2
      <3>2. a[l] <= a[y]
        BY <1>4, <3>1 DEF Sorted
      <3>3. ~(a[l] < a[z])
        BY <2>1, <3>1
      <3>4. a[z] \in Int /\ a[l] \in Int /\ a[y] \in Int
        BY <1>4, <2>4, <3>1
      <3>. QED BY <1>3, <3>2, <3>3, <3>4
    <2>7. Taken(lhs, l, r + 1) = Taken(lhs, l, r) \union {z} /\ z \notin Taken(lhs, l, r)
      <3>. DEFINE m == lhs + r - 1
      <3>0. m \in Int /\ lhs <= m + 1 /\ z = m + 1 /\ lhs + (r + 1) - 1 = m + 1
        BY <1>1
      <3>1. /\ lhs..(lhs + (r + 1) - 1) = lhs..(lhs + r - 1) \union {z}
            /\ z \notin lhs..(lhs + r - 1)
        <4>. HIDE DEF m, z
        <4>1. lhs..(m + 1) = lhs..m \union {m + 1} /\ m + 1 \notin lhs..m
          BY <3>0
        <4>. QED BY <3>0, <4>1, Zenon DEF m
      <3>2. z \notin 0..(l - 1)
        BY <1>1, <1>2
      <3>. QED BY <3>1, <3>2, Zenon DEF Taken
    <2>. HIDE DEF z
    <2>8. Traced(Append(s, a[z]), k + 1, a, Taken(lhs, l, r + 1))
      BY <1>1, <1>2, <1>3, <2>4, <2>7, TracedAppend
    <2>9. /\ Append(s, a[z]) \in Seq(Int) /\ Len(Append(s, a[z])) = k + 1
          /\ \A x, y \in 1..(k + 1) : x < y => Append(s, a[z])[x] <= Append(s, a[z])[y]
          /\ \A u \in Int : a[z] <= u /\ (\A x \in 1..k : s[x] <= u)
                                => \A x \in 1..(k + 1) : Append(s, a[z])[x] <= u
      BY <1>1, <1>2, <1>3, <2>4, OrderedAppend
    <2>10. /\ \A x \in 1..(k + 1) : \A y \in l..(lhs - 1) : Append(s, a[z])[x] <= a[y]
           /\ \A x \in 1..(k + 1) : \A y \in (lhs + (r + 1))..(lhs + rhs - 1) :
                 Append(s, a[z])[x] <= a[y]
      <3>1. /\ \A y \in l..(lhs - 1) : y \in 0..(lhs + rhs - 1)
            /\ \A y \in (lhs + (r + 1))..(lhs + rhs - 1) : y \in 0..(lhs + rhs - 1)
        BY <1>1, <1>2
      <3>. QED BY <1>4, <2>5, <2>6, <2>9, <3>1, Zenon
    <2>11. /\ h \in [l : Nat, r : Nat, merged : Seq(Int)]
           /\ h.l = l /\ h.r = r + 1 /\ h.merged = Append(s, a[z])
      BY <1>5, <2>3, <2>4, Zenon
    <2>12. l <= lhs /\ r + 1 <= rhs /\ l + (r + 1) = k + 1
      BY <1>1, <1>2, <2>1
    <2>. QED BY <2>8, <2>9, <2>10, <2>11, <2>12, Zenon DEF MergedSoFar, h
  <1>. QED BY <1>6, <1>7


\* The loop merges the two parts.
LEMMA MergeLoopMerges ==
    ASSUME NEW P, NEW T, T \subseteq Int, NEW a \in [P -> T],
           NEW lhs \in Nat, NEW rhs \in Nat, 0..(lhs + rhs - 1) \subseteq P,
           Sorted(a, 0, lhs - 1), Sorted(a, lhs, lhs + rhs - 1),
           NEW f, MergeTurns(f, a, lhs, lhs, rhs)
    PROVE  MergedSoFar(f[lhs + rhs], a, lhs, rhs, lhs + rhs)
  <1>. DEFINE Known == {k \in Nat : k <= lhs + rhs => MergedSoFar(f[k], a, lhs, rhs, k)}
  <1>1. /\ f[0] = MergeBegin
        /\ \A j \in 1..(lhs + rhs) : f[j] = MergeTurn(f[j - 1], a, lhs, lhs, rhs)
    BY Zenon DEF MergeTurns
  <1>2. 0 \in Known
    <2>1. /\ MergeBegin \in [l : Nat, r : Nat, merged : Seq(Int)]
          /\ MergeBegin.l = 0 /\ MergeBegin.r = 0 /\ MergeBegin.merged = <<>>
      BY DEF MergeBegin
    <2>2. Traced(<<>>, 0, a, Taken(lhs, 0, 0))
      <3>1. Taken(lhs, 0, 0) = {} /\ 1..0 = {}
        BY DEF Taken
      <3>2. [x \in {} |-> x] \in [{} -> {}]
        BY Zenon
      <3>. QED BY <3>1, <3>2, Zenon DEF Traced
    <2>3. /\ \A x, y \in 1..0 : x < y => <<>>[x] <= <<>>[y]
          /\ \A x \in 1..0 : \A y \in 0..(lhs - 1) : <<>>[x] <= a[y]
          /\ \A x \in 1..0 : \A y \in (lhs + 0)..(lhs + rhs - 1) : <<>>[x] <= a[y]
          /\ 0 <= lhs /\ 0 <= rhs /\ 0 + 0 = 0 /\ Len(<<>>) = 0
      OBVIOUS
    <2>4. MergedSoFar(MergeBegin, a, lhs, rhs, 0)
      BY <2>1, <2>2, <2>3, Zenon DEF MergedSoFar
    <2>. QED BY <1>1, <2>4
  <1>3. ASSUME NEW k \in Known
        PROVE  k + 1 \in Known
    <2>1. k \in Nat /\ k + 1 \in Nat
      OBVIOUS
    <2>2. ASSUME k + 1 <= lhs + rhs
          PROVE  MergedSoFar(f[k + 1], a, lhs, rhs, k + 1)
      <3>1. k <= lhs + rhs /\ k < lhs + rhs /\ k + 1 \in 1..(lhs + rhs) /\ (k + 1) - 1 = k
        BY <2>1, <2>2
      <3>2. MergedSoFar(f[k], a, lhs, rhs, k)
        BY <3>1
      <3>3. f[k + 1] = MergeTurn(f[k], a, lhs, lhs, rhs)
        BY <1>1, <3>1, Zenon
      <3>. HIDE DEF Known
      <3>. QED BY <2>1, <3>1, <3>2, <3>3, MergeTurnKeeps
    <2>. QED BY <2>1, <2>2
  <1>4. Known = Nat
    <2>1. Known \in SUBSET Nat
      OBVIOUS
    <2>. HIDE DEF Known
    <2>. QED BY <1>2, <1>3, <2>1, NatSetInduction
  <1>5. lhs + rhs \in Nat /\ lhs + rhs <= lhs + rhs
    OBVIOUS
  <1>. QED BY <1>4, <1>5, Zenon

\* Two parts in order, the second after the first, are rearranged into one in
\* order; what comes after them is left alone.
LEMMA MergeConvSorts ==
    ASSUME NEW len \in Nat, NEW P, P = 0..(len - 1), NEW T, T \subseteq Int, NEW a \in [P -> T],
           NEW lhs \in Nat, NEW rhs \in Nat, lhs + rhs <= len,
           Sorted(a, 0, lhs - 1), Sorted(a, lhs, lhs + rhs - 1),
           NEW b, b = S!MergeConv(a, lhs, lhs, rhs)
    PROVE  /\ Rearranged(b, a, P, 0..(lhs + rhs - 1))
           /\ Sorted(b, 0, lhs + rhs - 1)
  <1>. DEFINE m == lhs + rhs
              R == 0..(m - 1)
  <1>1. PICK f : MergeTurns(f, a, lhs, lhs, rhs)
    BY MergeLoopTurns
  <1>. DEFINE g == f[m]
              s == g.merged
  <1>2. m \in Nat /\ R \subseteq P
    OBVIOUS
  <1>3. MergedSoFar(g, a, lhs, rhs, m)
    <2>1. 0..(lhs + rhs - 1) \subseteq P
      OBVIOUS
    <2>2. MergedSoFar(f[lhs + rhs], a, lhs, rhs, lhs + rhs)
      <3>. HIDE DEF m, R, g, s
      <3>. QED BY <1>1, <2>1, MergeLoopMerges
    <2>. QED BY <2>2, Zenon
  <1>4. b = [k \in P |-> IF k < m THEN s[k + 1] ELSE a[k]]
    <2>1. DOMAIN a = P
      OBVIOUS
    <2>. QED BY <1>1, <2>1, Zenon DEF MergeTurns
  <1>5. Taken(lhs, g.l, g.r) = R
    <2>1. g.l \in Nat /\ g.r \in Nat /\ g.l <= lhs /\ g.r <= rhs /\ g.l + g.r = m
      BY <1>3 DEF MergedSoFar
    <2>. HIDE DEF g
    <2>2. g.l = lhs /\ g.r = rhs
      BY <2>1
    <2>. QED BY <2>2 DEF Taken
  <1>6. /\ \A x, y \in 1..m : x < y => s[x] <= s[y]
        /\ Traced(s, m, a, R)
    BY <1>3, <1>5, Zenon DEF MergedSoFar
  <1>7. PICK q \in [1..m -> R] :
            /\ \A x, y \in 1..m : q[x] = q[y] => x = y
            /\ \A z \in R : \E x \in 1..m : q[x] = z
            /\ \A x \in 1..m : s[x] = a[q[x]]
    BY <1>6, Zenon DEF Traced
  <1>. HIDE DEF s, m
  <1>. DEFINE p == [x \in P |-> IF x < m THEN q[x + 1] ELSE x]
  <1>8. /\ \A x \in P : x < m => x \in R /\ x + 1 \in 1..m
        /\ \A x \in P : ~(x < m) => x \notin R
        /\ \A x \in R : x < m /\ x \in P
        /\ \A x \in 1..m : x - 1 \in P /\ x - 1 < m /\ (x - 1) + 1 = x
        /\ \A x, y \in P : x + 1 = y + 1 => x = y
    <2>1. \A x \in P : x \in Nat /\ (x < m => x \in R /\ x + 1 \in 1..m)
      BY <1>2
    <2>2. \A x \in P : ~(x < m) => x \notin R
      BY <1>2
    <2>3. ASSUME NEW x \in R
          PROVE  x < m /\ x \in P
      <3>1. x \in P
        <4>. HIDE DEF R
        <4>. QED BY <1>2
      <3>2. x \in 0..(m - 1) /\ m \in Int
        BY <1>2
      <3>. QED BY <3>1, <3>2
    <2>4. \A x \in 1..m : x - 1 \in R /\ x - 1 < m /\ (x - 1) + 1 = x
      BY <1>2
    <2>5. \A x, y \in P : x + 1 = y + 1 => x = y
      BY <2>1
    <2>. HIDE DEF R, p
    <2>. QED BY <1>2, <2>1, <2>2, <2>3, <2>4, <2>5
  <1>9. /\ \A x \in P : x < m => p[x] = q[x + 1]
        /\ \A x \in P : ~(x < m) => p[x] = x
    BY Zenon
  <1>10. p \in [P -> P]
    BY <1>2, <1>8, Zenon
  <1>. HIDE DEF p, R
  <1>11. ASSUME NEW x \in P, NEW y \in P, p[x] = p[y]
         PROVE  x = y
    <2>0. \A z \in P : z < m <=> p[z] \in R
      <3>1. ASSUME NEW z \in P, z < m
            PROVE  p[z] \in R
        <4>1. z + 1 \in 1..m /\ p[z] = q[z + 1]
          BY <1>8, <1>9, <3>1, Zenon
        <4>. QED BY <4>1, Zenon
      <3>2. ASSUME NEW z \in P, ~(z < m)
            PROVE  p[z] \notin R
        <4>1. z \notin R /\ p[z] = z
          BY <1>8, <1>9, <3>2, Zenon
        <4>. QED BY <4>1, Zenon
      <3>. QED BY <3>1, <3>2, Zenon
    <2>1. CASE x < m /\ y < m
      <3>1. x + 1 \in 1..m /\ y + 1 \in 1..m /\ q[x + 1] = q[y + 1]
        BY <1>8, <1>9, <1>11, <2>1, Zenon
      <3>2. x + 1 = y + 1
        BY <1>7, <3>1, Zenon
      <3>. QED BY <1>8, <3>2, Zenon
    <2>2. CASE x < m /\ ~(y < m)
      <3>1. p[x] \in R /\ p[y] \notin R
        BY <2>0, <2>2, Zenon
      <3>. QED BY <1>11, <3>1, Zenon
    <2>3. CASE ~(x < m) /\ y < m
      <3>1. p[x] \notin R /\ p[y] \in R
        BY <2>0, <2>3, Zenon
      <3>. QED BY <1>11, <3>1, Zenon
    <2>4. CASE ~(x < m) /\ ~(y < m)
      BY <1>9, <1>11, <2>4, Zenon
    <2>. QED BY <2>1, <2>2, <2>3, <2>4, Zenon
  <1>12. ASSUME NEW z \in P
         PROVE  \E x \in P : p[x] = z
    <2>1. CASE z < m
      <3>1. PICK x \in 1..m : q[x] = z
        BY <1>7, <1>8, <2>1, Zenon
      <3>. QED BY <1>8, <1>9, <3>1, Zenon
    <2>2. CASE ~(z < m)
      BY <1>9, <2>2, Zenon
    <2>. QED BY <2>1, <2>2, Zenon
  <1>13. \A x \in P \ R : p[x] = x
    BY <1>8, <1>9, Zenon
  <1>14. \A x \in P : b[x] = a[p[x]]
    <2>1. \A x \in P : b[x] = IF x < m THEN s[x + 1] ELSE a[x]
      BY <1>4, Zenon
    <2>2. ASSUME NEW x \in P, x < m
          PROVE  b[x] = a[p[x]]
      <3>1. x + 1 \in 1..m /\ p[x] = q[x + 1] /\ b[x] = s[x + 1]
        BY <1>8, <1>9, <2>1, <2>2, ZenonT(40)
      <3>. QED BY <1>7, <3>1, ZenonT(40)
    <2>3. ASSUME NEW x \in P, ~(x < m)
          PROVE  b[x] = a[p[x]]
      BY <1>9, <2>1, <2>3, Zenon
    <2>. QED BY <2>2, <2>3, Zenon
  <1>15. b = [x \in P |-> a[p[x]]]
    <2>1. b = [x \in P |-> b[x]]
      BY <1>4, Zenon
    <2>. QED BY <1>14, <2>1, Zenon
  <1>16. Rearranged(b, a, P, R)
    BY <1>10, <1>11, <1>12, <1>13, <1>15, Zenon DEF Rearranged
  <1>17. Sorted(b, 0, m - 1)
    <2>1. ASSUME NEW x \in 0..(m - 1), NEW y \in 0..(m - 1), x < y
          PROVE  b[x] <= b[y]
      <3>1. x \in P /\ y \in P /\ x < m /\ y < m /\ x + 1 \in 1..m /\ y + 1 \in 1..m /\ x + 1 < y + 1
        BY <1>2, <2>1 DEF R
      <3>2. b[x] = s[x + 1] /\ b[y] = s[y + 1]
        BY <1>4, <3>1, Zenon
      <3>. QED BY <1>6, <3>1, <3>2, Zenon
    <2>. QED BY <2>1, Zenon DEF Sorted
  <1>18. m = lhs + rhs /\ R = 0..(lhs + rhs - 1)
    BY DEF m, R
  <1>. QED BY <1>16, <1>17, <1>18


-----------------------------------------------------------------------------
(* The parts of the threads *)

\* The arrays keep their lines, and so the threads their parts.
LEMMA PartsStay ==
    ASSUME SortTypes, num_of_threads' = num_of_threads, words_ptr' \in [S!Position -> Word]
    PROVE  /\ S!lines' = S!lines
           /\ S!Position' = S!Position
           /\ \A t : S!From(t)' = S!From(t) /\ S!To(t)' = S!To(t)
  <1>1. DOMAIN words_ptr' = DOMAIN words_ptr
    BY DEF SortTypes
  <1>2. S!lines' = S!lines
    BY <1>1, Zenon DEF S!lines
  <1>3. \A t : S!From(t)' = S!From(t)
    BY <1>2, Zenon DEF S!From, S!range
  <1>4. \A t : S!To(t)' = S!To(t)
    BY <1>2, <1>3, Zenon DEF S!To, S!range
  <1>. QED BY <1>2, <1>3, <1>4, Zenon DEF S!Position

\* The lines divided by threads: r each, and for the last what is left over.
LEMMA PartsDivide ==
    ASSUME NEW m \in Nat, NEW threads \in Nat, 0 < threads, threads < m, NEW r, r = m \div threads
    PROVE  /\ r \in Nat \ {0}
           /\ \A t \in 0..threads : t * r \in Nat /\ t * r <= m
           /\ \A t \in 0..threads : (t + 1) * r = t * r + r
           /\ \A t, u \in 0..threads : t < u => t * r + r <= u * r
  <1>1. r \in Int /\ threads * r <= m /\ m < threads * r + threads
    OBVIOUS
  <1>2. r >= 1
    <2>1. ASSUME r <= 0
          PROVE  FALSE
      <3>1. threads * r <= 0
        BY <1>1, <2>1
      <3>. QED BY <1>1, <3>1
    <2>. QED BY <1>1, <2>1
  <1>3. \A t \in Int : (t + 1) * r = t * r + r /\ t * r \in Int
    BY <1>1
  <1>4. ASSUME NEW t \in Nat, NEW u \in Nat, t <= u
        PROVE  t * r <= u * r
    <2>1. PICK d \in Nat : u = t + d
      <3>1. u - t \in Nat /\ u = t + (u - t)
        BY <1>4
      <3>. QED BY <3>1
    <2>2. u * r = t * r + d * r
      BY <1>1, <2>1
    <2>3. d * r >= 0
      BY <1>1, <1>2
    <2>4. t * r \in Int /\ d * r \in Int
      BY <1>1
    <2>. QED BY <2>2, <2>3, <2>4
  <1>5. ASSUME NEW t \in 0..threads
        PROVE  t * r \in Nat /\ t * r <= m
    <2>1. 0 * r <= t * r /\ t * r <= threads * r
      BY <1>4
    <2>2. 0 * r = 0 /\ t * r \in Int /\ threads * r \in Int
      BY <1>1
    <2>. QED BY <1>1, <2>1, <2>2
  <1>6. ASSUME NEW t \in 0..threads, NEW u \in 0..threads, t < u
        PROVE  t * r + r <= u * r
    <2>1. (t + 1) * r <= u * r
      BY <1>4, <1>6
    <2>. QED BY <1>3, <2>1
  <1>7. ASSUME NEW t \in 0..threads
        PROVE  (t + 1) * r = t * r + r
    BY <1>3
  <1>8. r \in Nat \ {0}
    BY <1>1, <1>2
  <1>. QED BY <1>5, <1>6, <1>7, <1>8, Zenon

\* The parts of the threads lie one behind the other from the first line to
\* the last.
LEMMA Parts ==
    ASSUME SortTypes, num_of_threads > 0
    PROVE  /\ \A t \in 0..(num_of_threads - 1) :
                 /\ S!From(t) \in Nat /\ S!To(t) \in Nat
                 /\ S!From(t) <= S!To(t) /\ S!To(t) <= S!lines - 1
           /\ \A t, u \in 0..(num_of_threads - 1) : t < u => S!To(t) < S!From(u)
           /\ \A t \in 1..(num_of_threads - 1) : S!From(t) = S!To(t - 1) + 1
           /\ S!From(0) = 0
           /\ S!To(num_of_threads - 1) = S!lines - 1
  <1>. DEFINE m == S!lines
              threads == num_of_threads
              r == S!range
  <1>1. m \in Nat /\ threads \in Nat /\ 0 < threads /\ threads < m /\ r = m \div threads
    BY DEF SortTypes, S!range
  <1>2. \A t : /\ S!From(t) = t * r
               /\ S!To(t) = IF t = threads - 1 THEN m - 1 ELSE S!From(t) + r - 1
    BY Zenon DEF S!From, S!To
  <1>. HIDE DEF m, threads, r
  <1>3. /\ r \in Nat \ {0}
        /\ \A t \in 0..threads : t * r \in Nat /\ t * r <= m
        /\ \A t \in 0..threads : (t + 1) * r = t * r + r
        /\ \A t, u \in 0..threads : t < u => t * r + r <= u * r
    BY <1>1, PartsDivide
  <1>. DEFINE F(t) == S!From(t)
              Ends(t) == S!To(t)
  <1>4. \A t \in 0..threads : F(t) \in Nat
    BY <1>2, <1>3, Zenon
  <1>5. \A t, u \in 0..threads : t < u => F(t) + r <= F(u)
    BY <1>2, <1>3, Zenon
  <1>6. F(0) = 0
    BY <1>1, <1>2, <1>3
  <1>7. \A t : Ends(t) = IF t = threads - 1 THEN m - 1 ELSE F(t) + r - 1
    BY <1>2
  <1>8. F(threads) <= m
    <2>1. threads \in 0..threads
      BY <1>1
    <2>. QED BY <1>2, <1>3, <2>1, Zenon
  <1>9. \A t \in 0..threads : F(t + 1) = F(t) + r
    BY <1>2, <1>3, Zenon
  <1>. HIDE DEF F, Ends
  <1>10. ASSUME NEW t \in 0..(threads - 1)
         PROVE  Ends(t) \in Nat /\ F(t) <= Ends(t) /\ Ends(t) <= m - 1
    <2>1. t \in 0..threads /\ threads \in 0..threads /\ t < threads
      BY <1>1
    <2>2. F(t) \in Nat /\ F(threads) \in Nat /\ F(t) + r <= F(threads)
      BY <1>4, <1>5, <2>1, Zenon
    <2>. DEFINE x == F(t)
                y == F(threads)
                z == Ends(t)
    <2>5. x \in Nat /\ y \in Nat /\ x + r <= y /\ y <= m /\ r \in Nat \ {0} /\ m \in Nat
      BY <1>1, <1>3, <1>8, <2>2
    <2>3. z = m - 1 \/ z = x + r - 1
      BY <1>7
    <2>. HIDE DEF x, y, z
    <2>4. z \in Nat /\ x <= z /\ z <= m - 1
      BY <2>3, <2>5
    <2>. QED BY <2>4 DEF x, z
  <1>11. ASSUME NEW t \in 0..(threads - 1), NEW u \in 0..(threads - 1), t < u
         PROVE  Ends(t) < F(u)
    <2>1. t \in 0..threads /\ u \in 0..threads /\ t # threads - 1
      BY <1>1, <1>11
    <2>2. F(t) + r <= F(u) /\ F(t) \in Nat /\ F(u) \in Nat
      BY <1>4, <1>5, <1>11, <2>1, Zenon
    <2>3. Ends(t) = F(t) + r - 1
      BY <1>7, <2>1
    <2>. QED BY <1>3, <2>2, <2>3
  <1>12. ASSUME NEW t \in 1..(threads - 1)
         PROVE  F(t) = Ends(t - 1) + 1
    <2>1. t - 1 \in 0..threads /\ (t - 1) + 1 = t /\ t - 1 # threads - 1
      BY <1>1
    <2>2. F(t) = F(t - 1) + r /\ F(t - 1) \in Nat
      BY <1>4, <1>9, <2>1
    <2>3. Ends(t - 1) = F(t - 1) + r - 1
      BY <1>7, <2>1
    <2>. QED BY <1>3, <2>2, <2>3
  <1>13. \A t \in 0..(threads - 1) : t \in 0..threads
    BY <1>1
  <1>14. Ends(threads - 1) = m - 1
    BY <1>7
  <1>. QED BY <1>4, <1>6, <1>10, <1>11, <1>12, <1>13, <1>14, Zenon DEF F, Ends, m, threads


-----------------------------------------------------------------------------
(* The sort *)

\* What program can start with satisfies the invariant.
LEMMA SortInit ==
    ASSUME Init
    PROVE  SortInv
  <1>1. S!Init
    BY DEF Init
  <1>2. PICK m \in 1..MaxLines :
            /\ file \in [0..(m - 1) -> Word]
            /\ num_of_threads \in {argv3 % m : argv3 \in 1..MaxThreads}
    BY <1>1 DEF S!Init
  <1>3. /\ words_ptr = file /\ written = file /\ calls = <<>> /\ created = 0
        /\ s_i = 1 /\ s_main = "params"
    BY <1>1 DEF S!Init
  <1>4. m \in Nat \ {0} /\ MaxThreads \in Nat
    BY ThreadsAssumption DEF S!MergeSortAssumption
  <1>5. S!lines = m
    <2>1. DOMAIN words_ptr = 0..(m - 1)
      BY <1>2, <1>3
    <2>2. Cardinality(0..(m - 1)) = m
      BY <1>4, FS_Interval
    <2>3. S!Cardinality(DOMAIN words_ptr) = Cardinality(DOMAIN words_ptr)
      BY Zenon DEF S!Cardinality, Cardinality
    <2>. QED BY <2>1, <2>2, <2>3, Zenon DEF S!lines
  <1>6. S!Position = 0..(m - 1)
    BY <1>5, Zenon DEF S!Position
  <1>7. num_of_threads \in 0..(m - 1)
    BY <1>2, <1>4
  <1>8. SortTypes
    <2>1. calls \in Seq(Seq(Nat \X Nat)) /\ created = Len(calls)
      BY <1>3
    <2>2. s_i \in Nat \ {0} /\ s_main \in SortMains
      BY <1>3 DEF SortMains
    <2>3. file \in [S!Position -> Word]
      BY <1>2, <1>6, Zenon
    <2>. QED BY <1>3, <1>4, <1>5, <1>7, <2>1, <2>2, <2>3, Zenon DEF SortTypes
  <1>9. SortPhases
    BY <1>3, <1>7 DEF SortPhases
  <1>10. SortCalls /\ SortPending /\ SortMerged
    BY <1>3 DEF SortCalls, SortPending, SortMerged
  <1>11. SortContents
    <2>1. Rearranged(file, file, S!Position, S!Position)
      BY <1>2, <1>6, RearrangedItself
    <2>. QED BY <1>3, <2>1 DEF SortContents
  <1>. QED BY <1>8, <1>9, <1>10, <1>11 DEF SortInv

\* A step that leaves the variables of the sort alone.
LEMMA SortUnchanged ==
    ASSUME SortInv, UNCHANGED sort
    PROVE  SortInv'
  <1>1. UNCHANGED <<file, words_ptr, written, num_of_threads, calls, created, s_i, s_main>>
    BY DEF sort
  <1>2. UNCHANGED <<S!lines, S!Position>>
    BY <1>1, Zenon DEF S!lines, S!Position
  <1>3. \A t : S!From(t)' = S!From(t) /\ S!To(t)' = S!To(t)
    BY <1>1, <1>2, Zenon DEF S!From, S!To, S!range
  <1>5. SortTypes' /\ SortPhases'
    BY <1>1, <1>2, Zenon DEF SortInv, SortTypes, SortPhases
  <1>6. SortCalls' /\ SortPending'
    <2>1. SortCalls'
      BY <1>1, <1>3, Zenon DEF SortInv, SortCalls, Stacked
    <2>2. ASSUME NEW t, LeftToCalls(words_ptr, calls[t], S!From(t - 1), S!To(t - 1))
          PROVE  LeftToCalls(words_ptr, calls[t], S!From(t - 1), S!To(t - 1))'
      <3>1. \A x, y : InOneCall(calls[t], x, y)' <=> InOneCall(calls[t], x, y)
        BY <1>1, Zenon DEF InOneCall
      <3>. QED BY <1>1, <1>3, <2>2, <3>1, Zenon DEF LeftToCalls
    <2>3. SortPending'
      BY <1>1, <2>2, Zenon DEF SortInv, SortPending
    <2>. QED BY <2>1, <2>3
  <1>7. SortMerged' /\ SortContents'
    BY <1>1, <1>2, <1>3, Zenon DEF SortInv, SortMerged, SortContents
  <1>. QED BY <1>5, <1>6, <1>7, Zenon DEF SortInv

\* Each of the conjuncts that a step can leave alone: what it needs to stay.
LEMMA SortStays ==
    ASSUME SortInv, num_of_threads' = num_of_threads, file' = file, written' = written,
           words_ptr' = words_ptr
    PROVE  /\ UNCHANGED <<S!lines, S!Position>>
           /\ \A t : S!From(t)' = S!From(t) /\ S!To(t)' = S!To(t)
           /\ calls' = calls => SortCalls'
           /\ s_main' # "written" => SortContents'
  <1>1. words_ptr' \in [S!Position -> Word] /\ SortTypes
    BY DEF SortInv, SortTypes
  <1>2. /\ UNCHANGED <<S!lines, S!Position>>
        /\ \A t : S!From(t)' = S!From(t) /\ S!To(t)' = S!To(t)
    BY <1>1, PartsStay, Zenon
  <1>3. ASSUME calls' = calls
        PROVE  SortCalls'
    BY <1>2, <1>3, Zenon DEF SortInv, SortCalls, Stacked
  <1>4. ASSUME s_main' # "written"
        PROVE  SortContents'
    BY <1>2, <1>4, Zenon DEF SortInv, SortContents
  <1>. QED BY <1>2, <1>3, <1>4, Zenon

\* The division among no threads crashes; else no thread is there yet.
LEMMA SortInitParams ==
    ASSUME SortInv, S!InitParamThreads
    PROVE  SortInv'
  <1>1. /\ s_main = "params"
        /\ s_main' = IF num_of_threads = 0 THEN "crashed" ELSE "create"
        /\ UNCHANGED <<file, words_ptr, written, num_of_threads, calls, created, s_i>>
    BY DEF S!InitParamThreads
  <1>2. SortTypes /\ SortPhases
    BY DEF SortInv
  <1>3. /\ UNCHANGED <<S!lines, S!Position>>
        /\ SortCalls' /\ SortContents'
    BY <1>1, SortStays
  <1>4. SortTypes'
    BY <1>1, <1>2, <1>3 DEF SortTypes, SortMains
  <1>5. num_of_threads \in Nat /\ created = 0 /\ Len(calls) = 0
    BY <1>1, <1>2 DEF SortTypes, SortPhases
  <1>6. SortPhases'
    BY <1>1, <1>2, <1>5 DEF SortPhases
  <1>7. SortPending' /\ SortMerged'
    BY <1>1, <1>5 DEF SortPending, SortMerged
  <1>. QED BY <1>3, <1>4, <1>6, <1>7 DEF SortInv

\* When all calls have returned every part is in order.
LEMMA SortJoin ==
    ASSUME SortInv, S!JoinThreads
    PROVE  SortInv'
  <1>1. /\ s_main = "join"
        /\ \A t \in DOMAIN calls : calls[t] = <<>>
        /\ s_main' = "merge"
        /\ UNCHANGED <<file, words_ptr, written, num_of_threads, calls, created, s_i>>
    BY DEF S!JoinThreads
  <1>2. SortTypes /\ SortPhases /\ SortPending
    BY DEF SortInv
  <1>3. /\ UNCHANGED <<S!lines, S!Position>>
        /\ \A t : S!From(t)' = S!From(t) /\ S!To(t)' = S!To(t)
        /\ SortCalls' /\ SortContents'
    BY <1>1, SortStays
  <1>4. SortTypes'
    BY <1>1, <1>2, <1>3 DEF SortTypes, SortMains
  <1>5. num_of_threads \in Nat \ {0} /\ Len(calls) = num_of_threads /\ s_i = 1
    BY <1>1, <1>2 DEF SortTypes, SortPhases
  <1>6. SortPhases'
    BY <1>1, <1>2, <1>5 DEF SortPhases
  <1>7. ASSUME NEW t \in 1..num_of_threads
        PROVE  Sorted(words_ptr, S!From(t - 1), S!To(t - 1))
    <2>1. t \in 1..Len(calls) /\ calls[t] = <<>>
      <3>1. calls \in Seq(Seq(Nat \X Nat))
        BY <1>2 DEF SortTypes
      <3>2. t \in DOMAIN calls
        BY <1>5, <3>1
      <3>. QED BY <1>1, <1>5, <3>2, Zenon
    <2>2. \A x, y : ~InOneCall(calls[t], x, y)
      BY <2>1 DEF InOneCall
    <2>. QED BY <1>1, <1>2, <2>1, <2>2, Zenon DEF SortPending, LeftToCalls, Sorted
  <1>8. Sorted(words_ptr, 0, S!To(0))
    <2>1. S!From(0) = 0 /\ 1 \in 1..num_of_threads
      BY <1>2, <1>5, Parts
    <2>2. 1 - 1 = 0
      OBVIOUS
    <2>. QED BY <1>7, <2>1, <2>2, Zenon
  <1>9. ASSUME NEW t \in 1..(num_of_threads - 1)
        PROVE  Sorted(words_ptr, S!From(t), S!To(t))
    <2>1. t + 1 \in 1..num_of_threads /\ (t + 1) - 1 = t
      BY <1>5
    <2>. QED BY <1>7, <2>1, Zenon
  <1>10. SortMerged'
    <2>1. s_i' = 1 /\ 1 - 1 = 0
      BY <1>1, <1>5
    <2>. QED BY <1>1, <1>3, <1>8, <1>9, <2>1, Zenon DEF SortMerged, Sorted
  <1>11. SortPending'
    BY <1>1 DEF SortPending
  <1>. QED BY <1>3, <1>4, <1>6, <1>10, <1>11 DEF SortInv

\* All parts are merged: what is written is in order.
LEMMA SortWrite ==
    ASSUME SortInv, S!WriteArrayToFile
    PROVE  SortInv'
  <1>1. /\ s_main = "merge" /\ s_i >= num_of_threads
        /\ written' = words_ptr
        /\ s_main' = "written"
        /\ UNCHANGED <<file, words_ptr, num_of_threads, calls, created, s_i>>
    BY DEF S!WriteArrayToFile
  <1>2. SortTypes /\ SortPhases /\ SortCalls /\ SortMerged /\ SortContents
    BY DEF SortInv
  <1>3. /\ UNCHANGED <<S!lines, S!Position>>
        /\ \A t : S!From(t)' = S!From(t) /\ S!To(t)' = S!To(t)
    <2>1. words_ptr' \in [S!Position -> Word]
      BY <1>1, <1>2 DEF SortTypes
    <2>. QED BY <1>1, <1>2, <2>1, PartsStay, Zenon
  <1>4. SortTypes'
    BY <1>1, <1>2, <1>3 DEF SortTypes, SortMains
  <1>5. num_of_threads \in Nat \ {0} /\ s_i = num_of_threads
    BY <1>1, <1>2 DEF SortTypes, SortPhases
  <1>6. SortPhases'
    BY <1>1, <1>2, <1>5 DEF SortPhases
  <1>7. SortCalls'
    BY <1>1, <1>2, <1>3, Zenon DEF SortCalls, Stacked
  <1>8. SortPending' /\ SortMerged'
    BY <1>1 DEF SortPending, SortMerged
  <1>9. Sorted(words_ptr, 0, S!lines - 1)
    <2>1. S!To(num_of_threads - 1) = S!lines - 1
      BY <1>2, <1>5, Parts
    <2>. QED BY <1>1, <1>2, <1>5, <2>1, Zenon DEF SortMerged
  <1>10. SortContents'
    BY <1>1, <1>2, <1>3, <1>9, Zenon DEF SortContents, Sorted
  <1>. QED BY <1>4, <1>6, <1>7, <1>8, <1>10 DEF SortInv


\* A thread more: it has its whole part to sort.
LEMMA SortCreate ==
    ASSUME SortInv, S!CreateThread
    PROVE  SortInv'
  <1>1. /\ s_main = "create"
        /\ UNCHANGED <<file, words_ptr, written, num_of_threads, s_i>>
    BY DEF S!CreateThread
  <1>2. SortTypes /\ SortPhases /\ SortCalls /\ SortPending
    BY DEF SortInv
  <1>3. num_of_threads \in Nat \ {0} /\ created \in Nat /\ created < num_of_threads
    BY <1>1, <1>2 DEF SortTypes, SortPhases
  <1>4. CASE /\ S!Fails
             /\ s_main' = "undefined"
             /\ UNCHANGED <<calls, created>>
    <2>1. /\ UNCHANGED <<S!lines, S!Position>>
          /\ SortCalls' /\ SortContents'
      BY <1>1, <1>4, SortStays
    <2>2. SortTypes'
      BY <1>1, <1>2, <1>4, <2>1 DEF SortTypes, SortMains
    <2>3. SortPhases'
      BY <1>1, <1>2, <1>3, <1>4 DEF SortPhases
    <2>4. SortPending' /\ SortMerged'
      BY <1>4 DEF SortPending, SortMerged
    <2>. QED BY <2>1, <2>2, <2>3, <2>4 DEF SortInv
  <1>5. CASE /\ calls' = Append(calls, <<<<S!From(created), S!To(created) - S!From(created) + 1>>>>)
             /\ created' = created + 1
             /\ s_main' = IF created + 1 = num_of_threads THEN "join" ELSE "create"
    <2>. DEFINE base == S!From(created)
                m == S!To(created) - S!From(created) + 1
                stack == <<<<base, m>>>>
                new == created + 1
    <2>1. /\ UNCHANGED <<S!lines, S!Position>>
          /\ \A t : S!From(t)' = S!From(t) /\ S!To(t)' = S!To(t)
          /\ SortContents'
      BY <1>1, <1>5, SortStays
    <2>2. base \in Nat /\ m \in Nat /\ base + m = S!To(created) + 1 /\ S!To(created) \in Nat
      <3>1. created \in 0..(num_of_threads - 1) /\ num_of_threads > 0
        BY <1>3
      <3>2. /\ S!From(created) \in Nat /\ S!To(created) \in Nat
            /\ S!From(created) <= S!To(created)
        BY <1>2, <3>1, Parts
      <3>. QED BY <3>2
    <2>3. /\ Len(calls) = created /\ calls \in Seq(Seq(Nat \X Nat))
          /\ new - 1 = created /\ new \in Nat
      BY <1>2, <1>3 DEF SortTypes
    <2>. HIDE DEF base, m
    <2>4. stack \in Seq(Nat \X Nat) /\ Len(stack) = 1 /\ stack[1] = <<base, m>>
      BY <2>2
    <2>. HIDE DEF stack
    <2>5. /\ calls' = Append(calls, stack)
          /\ calls' \in Seq(Seq(Nat \X Nat)) /\ Len(calls') = new
          /\ calls'[new] = stack
          /\ \A t \in 1..created : calls'[t] = calls[t]
      <3>1. calls' = Append(calls, stack)
        BY <1>5 DEF stack, base, m
      <3>. QED BY <2>3, <2>4, <3>1, AppendProperties
    <2>6. \A t \in 1..new : t = new \/ t \in 1..created
      BY <2>3
    <2>7. SortTypes'
      <3>1. s_main' \in SortMains /\ created' = Len(calls')
        BY <1>5, <2>5 DEF SortMains
      <3>. QED BY <1>1, <1>2, <2>1, <2>5, <3>1, Zenon DEF SortTypes
    <2>8. SortPhases'
      BY <1>1, <1>2, <1>3, <1>5 DEF SortPhases
    <2>9. SortCalls'
      <3>1. ASSUME NEW t \in 1..new
            PROVE  Stacked(calls'[t], S!From(t - 1), S!To(t - 1))
        <4>1. CASE t = new
          <5>1. calls'[t] = stack /\ S!From(t - 1) = base /\ S!To(t - 1) = S!To(created)
            BY <2>3, <2>5, <4>1, Zenon DEF base
          <5>2. stack[1][1] = base /\ stack[1][2] = m /\ \A k \in 1..1 : k = 1
            BY <2>4
          <5>3. base <= base /\ base + m <= S!To(created) + 1 /\ ~(1 < 1)
            BY <2>2
          <5>. QED BY <2>4, <5>1, <5>2, <5>3, Zenon DEF Stacked
        <4>2. CASE t \in 1..created
          BY <1>2, <2>3, <2>5, <4>2, Zenon DEF SortCalls
        <4>. QED BY <2>6, <4>1, <4>2
      <3>. QED BY <2>1, <2>5, <3>1, Zenon DEF SortCalls, Stacked
    <2>10. SortPending'
      <3>1. ASSUME NEW t \in 1..new
            PROVE  LeftToCalls(words_ptr, calls'[t], S!From(t - 1), S!To(t - 1))
        <4>1. CASE t = new
          <5>1. calls'[t] = stack /\ S!From(t - 1) = base /\ S!To(t - 1) = S!To(created)
            BY <2>3, <2>5, <4>1, Zenon DEF base
          <5>2. stack[1][1] = base /\ stack[1][2] = m /\ 1 \in 1..1
            BY <2>4
          <5>3. \A x, y \in base..S!To(created) : base <= x /\ y < base + m
            BY <2>2
          <5>. QED BY <2>4, <5>1, <5>2, <5>3, Zenon DEF LeftToCalls, InOneCall
        <4>2. CASE t \in 1..created
          BY <1>1, <1>2, <2>3, <2>5, <4>2, Zenon DEF SortPending
        <4>. QED BY <2>6, <4>1, <4>2
      <3>2. ASSUME NEW t \in 1..new
            PROVE  LeftToCalls(words_ptr, calls[t], S!From(t - 1), S!To(t - 1))'
        BY <1>1, <2>1, <3>1, Zenon DEF LeftToCalls, InOneCall
      <3>. QED BY <2>5, <3>2, Zenon DEF SortPending
    <2>11. SortMerged'
      BY <1>5 DEF SortMerged
    <2>. QED BY <2>1, <2>7, <2>8, <2>9, <2>10, <2>11 DEF SortInv
  <1>. QED BY <1>4, <1>5 DEF S!CreateThread

\* A merge puts the next part in order with those before it; a failed one
\* ends the program.
LEMMA SortMerge ==
    ASSUME SortInv, S!Merge
    PROVE  SortInv'
  <1>1. /\ s_main = "merge" /\ s_i < num_of_threads
        /\ UNCHANGED <<file, written, num_of_threads, calls, created>>
    BY DEF S!Merge
  <1>2. SortTypes /\ SortPhases /\ SortCalls /\ SortMerged /\ SortContents
    BY DEF SortInv
  <1>3. num_of_threads \in Nat \ {0} /\ s_i \in Nat \ {0}
    BY <1>1, <1>2 DEF SortTypes, SortPhases
  <1>4. CASE /\ S!Fails
             /\ s_main' = "failed"
             /\ UNCHANGED <<words_ptr, s_i>>
    <2>1. /\ UNCHANGED <<S!lines, S!Position>>
          /\ SortCalls' /\ SortContents'
      BY <1>1, <1>4, SortStays
    <2>2. SortTypes'
      BY <1>1, <1>2, <1>4, <2>1 DEF SortTypes, SortMains
    <2>3. SortPhases'
      BY <1>1, <1>2, <1>3, <1>4 DEF SortPhases
    <2>4. SortPending' /\ SortMerged'
      BY <1>4 DEF SortPending, SortMerged
    <2>. QED BY <2>1, <2>2, <2>3, <2>4 DEF SortInv
  <1>5. CASE /\ words_ptr' = S!MergeConv(words_ptr, S!To(s_i - 1) - S!From(0) + 1,
                                         S!From(s_i), S!To(s_i) - S!From(s_i) + 1)
             /\ s_i' = s_i + 1
             /\ UNCHANGED s_main
    <2>. DEFINE lhs == S!From(s_i)
                last == S!To(s_i)
                rhs == last - lhs + 1
    <2>1. /\ S!From(0) = 0 /\ lhs = S!To(s_i - 1) + 1
          /\ lhs \in Nat /\ last \in Nat /\ lhs <= last /\ last <= S!lines - 1
          /\ \A t \in (s_i + 1)..(num_of_threads - 1) : last < S!From(t) /\ S!To(t) <= S!lines - 1
      <3>1. s_i \in 0..(num_of_threads - 1) /\ s_i \in 1..(num_of_threads - 1)
        BY <1>1, <1>3
      <3>2. \A t \in (s_i + 1)..(num_of_threads - 1) : s_i < t /\ t \in 0..(num_of_threads - 1)
        BY <1>3
      <3>. QED BY <1>2, <1>3, <3>1, <3>2, Parts
    <2>2. S!To(s_i - 1) \in Nat
      <3>1. s_i - 1 \in 0..(num_of_threads - 1)
        BY <1>1, <1>3
      <3>. QED BY <1>2, <1>3, <3>1, Parts
    <2>3. S!lines \in Nat /\ words_ptr \in [S!Position -> Word] /\ Word \subseteq Int
      BY <1>2, ThreadsAssumption DEF SortTypes, S!MergeSortAssumption
    <2>4. /\ S!To(s_i - 1) - S!From(0) + 1 = lhs
          /\ S!To(s_i - 1) = lhs - 1
          /\ rhs \in Nat /\ lhs + rhs = last + 1 /\ lhs + rhs <= S!lines
          /\ lhs + rhs - 1 = last
      BY <2>1, <2>2, <2>3
    <2>5. words_ptr' = S!MergeConv(words_ptr, lhs, lhs, rhs)
      BY <1>5, <2>4, Zenon
    <2>6. Sorted(words_ptr, 0, lhs - 1) /\ Sorted(words_ptr, lhs, lhs + rhs - 1)
      <3>1. s_i \in s_i..(num_of_threads - 1)
        BY <1>1, <1>3
      <3>. QED BY <1>1, <1>2, <2>4, <3>1, Zenon DEF SortMerged
    <2>. HIDE DEF lhs, last, rhs
    <2>7. /\ Rearranged(words_ptr', words_ptr, S!Position, 0..(lhs + rhs - 1))
          /\ Sorted(words_ptr', 0, lhs + rhs - 1)
      <3>. DEFINE m == S!lines
                  P == S!Position
                  a == words_ptr
                  b == words_ptr'
      <3>1. /\ m \in Nat /\ P = 0..(m - 1) /\ a \in [P -> Word] /\ lhs \in Nat /\ rhs \in Nat
            /\ lhs + rhs <= m
            /\ b = S!MergeConv(a, lhs, lhs, rhs)
            /\ Sorted(a, 0, lhs - 1) /\ Sorted(a, lhs, lhs + rhs - 1)
        BY <2>1, <2>3, <2>4, <2>5, <2>6 DEF S!Position
      <3>. HIDE DEF m, P, a, b
      <3>2. /\ Rearranged(b, a, P, 0..(lhs + rhs - 1))
            /\ Sorted(b, 0, lhs + rhs - 1)
        BY <2>3, <3>1, MergeConvSorts
      <3>. QED BY <3>2 DEF P, a, b
    <2>8. /\ words_ptr' \in [S!Position -> Word]
          /\ \A x \in S!Position \ (0..(lhs + rhs - 1)) : words_ptr'[x] = words_ptr[x]
      <3>. DEFINE P == S!Position
                  R == 0..(lhs + rhs - 1)
                  a == words_ptr
                  b == words_ptr'
      <3>1. a \in [P -> Word] /\ Rearranged(b, a, P, R)
        BY <2>3, <2>7
      <3>. HIDE DEF P, R, a, b
      <3>2. b \in [P -> Word] /\ MovesWithin(b, a, P, R)
        BY <3>1, RearrangedKeeps
      <3>. QED BY <3>2 DEF MovesWithin, P, R, a, b
    <2>9. /\ UNCHANGED <<S!lines, S!Position>>
          /\ \A t : S!From(t)' = S!From(t) /\ S!To(t)' = S!To(t)
      BY <1>1, <1>2, <2>8, PartsStay, Zenon
    <2>10. SortTypes'
      <3>1. s_i' \in Nat \ {0}
        BY <1>3, <1>5
      <3>. QED BY <1>1, <1>2, <1>5, <2>8, <2>9, <3>1, Zenon DEF SortTypes
    <2>11. SortPhases'
      BY <1>1, <1>2, <1>3, <1>5 DEF SortPhases
    <2>12. SortCalls'
      BY <1>1, <1>2, <2>9, Zenon DEF SortCalls, Stacked
    <2>13. SortPending'
      BY <1>1, <1>5 DEF SortPending
    <2>14. SortMerged'
      <3>1. s_i' - 1 = s_i
        BY <1>3, <1>5
      <3>2. S!To(s_i - 1)' = last
        BY <1>1, <2>9, <3>1, Zenon DEF last, S!To, S!From, S!range
      <3>3. Sorted(words_ptr, 0, S!To(s_i - 1))'
        BY <2>4, <2>7, <3>2, Zenon DEF Sorted
      <3>4. ASSUME NEW t \in (s_i + 1)..(num_of_threads - 1)
            PROVE  Sorted(words_ptr', S!From(t), S!To(t))
        <4>1. last < S!From(t) /\ S!To(t) <= S!lines - 1
          BY <2>1
        <4>2. t \in s_i..(num_of_threads - 1) /\ t \in 0..(num_of_threads - 1)
          BY <1>3
        <4>3. S!From(t) \in Nat /\ S!To(t) \in Nat
          BY <1>2, <1>3, <4>2, Parts
        <4>4. Sorted(words_ptr, S!From(t), S!To(t))
          BY <1>1, <1>2, <4>2, Zenon DEF SortMerged
        <4>5. ASSUME NEW x \in S!From(t)..S!To(t)
              PROVE  words_ptr'[x] = words_ptr[x]
          <5>1. x \in S!Position /\ x \notin 0..last
            BY <2>1, <2>3, <4>1, <4>3 DEF S!Position
          <5>. QED BY <2>4, <2>8, <5>1, Zenon
        <4>. QED BY <4>4, <4>5, Zenon DEF Sorted
      <3>. QED BY <1>1, <1>5, <2>9, <3>3, <3>4, ZenonT(40) DEF SortMerged, Sorted
    <2>15. SortContents'
      <3>1. 0..(lhs + rhs - 1) \subseteq S!Position
        BY <2>1, <2>3, <2>4 DEF S!Position
      <3>2. Rearranged(words_ptr', words_ptr, S!Position, S!Position)
        BY <2>3, <2>7, <3>1, RearrangedWithin
      <3>3. Rearranged(words_ptr', file, S!Position, S!Position)
        BY <1>2, <3>2, RearrangedAgain DEF SortTypes, SortContents
      <3>. QED BY <1>1, <1>2, <1>5, <2>9, <3>3 DEF SortContents
    <2>. QED BY <2>10, <2>11, <2>12, <2>13, <2>14, <2>15 DEF SortInv
  <1>. QED BY <1>4, <1>5 DEF S!Merge


-----------------------------------------------------------------------------
(* A call of QuickSort *)

\* Leaving the call at the head of a stack.
LEMMA StackPop ==
    ASSUME NEW X, NEW stack \in Seq(X), stack # <<>>
    PROVE  /\ Head(stack) = stack[1] /\ 1 \in 1..Len(stack) /\ Len(stack) \in Nat
           /\ Tail(stack) \in Seq(X) /\ Len(Tail(stack)) = Len(stack) - 1
           /\ \A k \in 1..(Len(stack) - 1) : Tail(stack)[k] = stack[k + 1]
  BY HeadTailProperties

\* Replacing the call at the head of a stack by two others.
LEMMA StackSplit ==
    ASSUME NEW X, NEW stack \in Seq(X), stack # <<>>, NEW c \in X, NEW d \in X,
           NEW new, new = <<c, d>> \o Tail(stack)
    PROVE  /\ new \in Seq(X) /\ Len(new) = Len(stack) + 1
           /\ new[1] = c /\ new[2] = d
           /\ \A k \in 2..Len(stack) : new[k + 1] = stack[k]
  <1>. DEFINE tail == Tail(stack)
              two == <<c, d>>
              m == Len(stack)
  <1>1. /\ tail \in Seq(X) /\ Len(tail) = m - 1 /\ m \in Nat \ {0}
        /\ \A k \in 1..(m - 1) : tail[k] = stack[k + 1]
    BY StackPop
  <1>2. two \in Seq(X) /\ Len(two) = 2 /\ two[1] = c /\ two[2] = d
    OBVIOUS
  <1>. HIDE DEF tail, two, m
  <1>3. /\ two \o tail \in Seq(X)
        /\ Len(two \o tail) = Len(two) + Len(tail)
        /\ \A k \in 1..(Len(two) + Len(tail)) :
              (two \o tail)[k] = IF k <= Len(two) THEN two[k] ELSE tail[k - Len(two)]
    BY <1>1, <1>2, ConcatProperties
  <1>4. new = two \o tail
    BY DEF two, tail
  <1>5. Len(new) = m + 1
    BY <1>1, <1>2, <1>3, <1>4
  <1>6. \A k \in 1..(m + 1) : new[k] = IF k <= 2 THEN two[k] ELSE tail[k - 2]
    BY <1>1, <1>2, <1>3, <1>4
  <1>7. new[1] = c /\ new[2] = d
    BY <1>1, <1>2, <1>6
  <1>8. ASSUME NEW k \in 2..m
        PROVE  new[k + 1] = stack[k]
    <2>1. k + 1 \in 1..(m + 1) /\ ~(k + 1 <= 2) /\ (k + 1) - 2 = k - 1
          /\ k - 1 \in 1..(m - 1) /\ (k - 1) + 1 = k
      BY <1>1
    <2>. QED BY <1>1, <1>6, <2>1
  <1>. QED BY <1>3, <1>4, <1>5, <1>7, <1>8 DEF m

\* A call with at most one word has nothing to do: its words are in order.
LEMMA PopKeeps ==
    ASSUME NEW a, NEW from, NEW to, NEW stack \in Seq(Nat \X Nat), stack # <<>>,
           stack[1][2] <= 1, from \in Int, to \in Int, Stacked(stack, from, to),
           NEW new, new = Tail(stack)
    PROVE  /\ new \in Seq(Nat \X Nat)
           /\ Stacked(new, from, to)
           /\ LeftToCalls(a, stack, from, to) => LeftToCalls(a, new, from, to)
  <1>. DEFINE m == Len(stack)
  <1>1. /\ m \in Nat /\ 1 \in 1..m
        /\ new \in Seq(Nat \X Nat) /\ Len(new) = m - 1
        /\ \A k \in 1..(m - 1) : new[k] = stack[k + 1]
    BY StackPop
  <1>2. \A k \in 1..m : stack[k][1] \in Nat /\ stack[k][2] \in Nat
    <2>1. \A k \in 1..m : stack[k] \in Nat \X Nat
      OBVIOUS
    <2>. QED BY <2>1
  <1>. HIDE DEF m
  <1>3. Stacked(new, from, to)
    <2>1. \A k \in 1..(m - 1) : k + 1 \in 1..m
      BY <1>1
    <2>2. \A k, l \in 1..(m - 1) : k < l => k + 1 < l + 1
      BY <1>1
    <2>3. /\ \A k \in 1..m : from <= stack[k][1] /\ stack[k][1] + stack[k][2] <= to + 1
          /\ \A k, l \in 1..m : k < l => stack[k][1] + stack[k][2] <= stack[l][1]
      BY DEF Stacked, m
    <2>4. ASSUME NEW k \in 1..(m - 1)
          PROVE  from <= new[k][1] /\ new[k][1] + new[k][2] <= to + 1
      BY <1>1, <2>1, <2>3, Zenon
    <2>5. ASSUME NEW k \in 1..(m - 1), NEW l \in 1..(m - 1), k < l
          PROVE  new[k][1] + new[k][2] <= new[l][1]
      BY <1>1, <2>1, <2>2, <2>3, <2>5, Zenon
    <2>. QED BY <1>1, <2>4, <2>5, Zenon DEF Stacked
  <1>4. ASSUME LeftToCalls(a, stack, from, to), NEW x \in from..to, NEW y \in from..to, x < y
        PROVE  a[x] <= a[y] \/ InOneCall(new, x, y)
    <2>1. CASE InOneCall(stack, x, y)
      <3>1. PICK k \in 1..m : stack[k][1] <= x /\ y < stack[k][1] + stack[k][2]
        BY <2>1 DEF InOneCall, m
      <3>2. k # 1
        BY <1>1, <1>2, <1>4, <3>1
      <3>3. k - 1 \in 1..(m - 1) /\ (k - 1) + 1 = k
        <4>1. m \in Nat
          BY <1>1
        <4>. QED BY <3>2, <4>1
      <3>4. new[k - 1] = stack[k]
        BY <1>1, <3>3
      <3>. QED BY <1>1, <3>1, <3>3, <3>4, Zenon DEF InOneCall
    <2>. QED BY <1>4, <2>1 DEF LeftToCalls
  <1>. QED BY <1>1, <1>3, <1>4, Zenon DEF LeftToCalls

\* Where the two calls begin and end that a call is split in.
LEMMA SplitEnds ==
    ASSUME NEW base \in Nat, NEW len \in Nat, NEW p \in 0..(len - 1)
    PROVE  /\ p \in Nat /\ base + p + 1 \in Nat /\ len - p - 1 \in Nat
           /\ \A to \in Int : base + len <= to =>
                 base + p <= to /\ (base + p + 1) + (len - p - 1) <= to
           /\ \A from \in Int : from <= base => from <= base + p + 1
  OBVIOUS

\* The call of len words from base at the head of a stack is replaced by one for
\* the words left and one for the words right of the p-th.
Split(stack, new, base, len, p) ==
    /\ stack # <<>> /\ stack[1] = <<base, len>>
    /\ new = <<<<base, p>>, <<base + p + 1, len - p - 1>>>> \o Tail(stack)

\* What is then on the stack.
IsSplit(stack, new, base, len, p) ==
    /\ Len(new) = Len(stack) + 1
    /\ new[1] = <<base, p>> /\ new[2] = <<base + p + 1, len - p - 1>>
    /\ \A k \in 2..Len(stack) : new[k + 1] = stack[k]

\* The two calls that a call is split in lie where it lay, left and right of
\* the pivot.
LEMMA SplitStacked ==
    ASSUME NEW from \in Int, NEW to \in Int, NEW stack \in Seq(Nat \X Nat), NEW new,
           NEW base \in Nat, NEW len \in Nat, NEW p \in 0..(len - 1),
           Split(stack, new, base, len, p), Stacked(stack, from, to)
    PROVE  /\ new \in Seq(Nat \X Nat)
           /\ IsSplit(stack, new, base, len, p)
           /\ Stacked(new, from, to)
  <1>. DEFINE m == Len(stack)
              c == <<base, p>>
              d == <<base + p + 1, len - p - 1>>
  <1>1. c \in Nat \X Nat /\ d \in Nat \X Nat
    <2>1. p \in Nat /\ base + p + 1 \in Nat /\ len - p - 1 \in Nat
      BY SplitEnds
    <2>. QED BY <2>1, Zenon
  <1>2. m \in Nat /\ 1 \in 1..m
    BY StackPop DEF Split
  <1>3. \A k \in 1..m : stack[k][1] \in Nat /\ stack[k][2] \in Nat
    <2>1. \A k \in 1..m : stack[k] \in Nat \X Nat
      OBVIOUS
    <2>. QED BY <2>1
  <1>4. /\ new \in Seq(Nat \X Nat) /\ Len(new) = m + 1
        /\ new[1] = c /\ new[2] = d
        /\ \A k \in 2..m : new[k + 1] = stack[k]
    <2>. HIDE DEF c, d, m
    <2>1. new = <<c, d>> \o Tail(stack) /\ stack # <<>>
      BY DEF Split, c, d
    <2>. QED BY <1>1, <2>1, StackSplit DEF m
  <1>5. /\ \A k \in 1..m : from <= stack[k][1] /\ stack[k][1] + stack[k][2] <= to + 1
        /\ \A k \in 2..m : base + len <= stack[k][1]
        /\ \A k, l \in 2..m : k < l => stack[k][1] + stack[k][2] <= stack[l][1]
        /\ from <= base /\ base + len <= to + 1
    <2>1. \A k \in 2..m : k \in 1..m /\ 1 < k
      BY <1>2
    <2>2. stack[1][1] = base /\ stack[1][2] = len
      BY DEF Split
    <2>. HIDE DEF m
    <2>. QED BY <1>2, <2>1, <2>2, Zenon DEF Stacked, m
  <1>6. /\ new[1][1] = base /\ new[1][2] = p
        /\ new[2][1] = base + p + 1 /\ new[2][2] = len - p - 1
    BY <1>4
  <1>. HIDE DEF m, c, d
  <1>7. /\ \A k \in 1..(m + 1) : k = 1 \/ k = 2 \/ (k - 1 \in 2..m /\ (k - 1) + 1 = k)
        /\ 1 \in 1..(m + 1) /\ 2 \in 1..(m + 1)
    BY <1>2
  <1>8. \A k \in 1..(m + 1) :
            k = 1 \/ k = 2 \/ (k - 1 \in 2..m /\ new[k] = stack[k - 1])
    BY <1>4, <1>7, Zenon
  <1>9. ASSUME NEW k \in 1..(m + 1)
        PROVE  from <= new[k][1] /\ new[k][1] + new[k][2] <= to + 1
    <2>1. CASE k = 1 \/ k = 2
      <3>1. /\ from <= base /\ base + p <= to + 1
            /\ from <= base + p + 1 /\ (base + p + 1) + (len - p - 1) <= to + 1
        <4>1. from <= base /\ base + len <= to + 1 /\ to + 1 \in Int
          BY <1>5
        <4>. QED BY <4>1, SplitEnds
      <3>. QED BY <1>6, <2>1, <3>1, Zenon
    <2>2. CASE k - 1 \in 2..m /\ new[k] = stack[k - 1]
      <3>1. k - 1 \in 1..m
        BY <1>2, <2>2
      <3>. QED BY <1>5, <2>2, <3>1, Zenon
    <2>. QED BY <1>8, <2>1, <2>2
  <1>10. ASSUME NEW k \in 1..(m + 1), NEW l \in 1..(m + 1), k < l
         PROVE  new[k][1] + new[k][2] <= new[l][1]
    <2>1. CASE l = 2
      <3>1. k = 1
        BY <1>2, <1>10, <2>1
      <3>. QED BY <1>6, <2>1, <3>1
    <2>2. CASE l - 1 \in 2..m /\ new[l] = stack[l - 1]
      <3>1. base + len <= stack[l - 1][1] /\ stack[l - 1][1] \in Nat
        <4>1. l - 1 \in 1..m
          BY <1>2, <2>2
        <4>. QED BY <1>3, <1>5, <2>2, <4>1, Zenon
      <3>2. CASE k = 1 \/ k = 2
        <4>. DEFINE z == stack[l - 1][1]
        <4>1. z \in Nat /\ base + len <= z
          BY <3>1
        <4>. HIDE DEF z
        <4>2. base + p <= z /\ (base + p + 1) + (len - p - 1) <= z
          BY <4>1, SplitEnds
        <4>. QED BY <1>6, <2>2, <3>2, <4>2, Zenon DEF z
      <3>3. CASE k - 1 \in 2..m /\ new[k] = stack[k - 1]
        <4>1. k - 1 < l - 1
          BY <1>10
        <4>. QED BY <1>5, <2>2, <3>3, <4>1
      <3>. QED BY <1>8, <3>2, <3>3
    <2>3. l # 1
      BY <1>2, <1>10
    <2>. QED BY <1>8, <2>1, <2>2, <2>3
  <1>11. Stacked(new, from, to)
    BY <1>4, <1>9, <1>10, Zenon DEF Stacked
  <1>. QED BY <1>4, <1>11, Zenon DEF IsSplit, m, c, d


\* What a call rearranges stays left to its two calls, if the pivot lies
\* between the lesser words and the others: a word left of what the call has to
\* sort was in order with all of that, and so was one right of it.
LEMMA SplitKeeps ==
    ASSUME NEW from \in Int, NEW to \in Int, NEW stack \in Seq(Nat \X Nat), NEW new,
           NEW base \in Nat, NEW len \in Nat, NEW p \in 0..(len - 1),
           Split(stack, new, base, len, p), Stacked(stack, from, to),
           NEW P, from..to \subseteq P, NEW T, T \subseteq Int, NEW a \in [P -> T], NEW b,
           Rearranged(b, a, P, base..(base + len - 1)), PivotAt(b, base, len, p),
           LeftToCalls(a, stack, from, to)
    PROVE  LeftToCalls(b, new, from, to)
  <1>. DEFINE m == Len(stack)
              Own == base..(base + len - 1)
  <1>1. /\ Len(new) = m + 1
        /\ new[1] = <<base, p>> /\ new[2] = <<base + p + 1, len - p - 1>>
        /\ \A k \in 2..m : new[k + 1] = stack[k]
    <2>1. IsSplit(stack, new, base, len, p)
      <3>. HIDE DEF m, Own
      <3>. QED BY SplitStacked
    <2>. QED BY <2>1, Zenon DEF IsSplit
  <1>2. m \in Nat /\ 1 \in 1..m
    BY StackPop DEF Split
  <1>3. \A k \in 1..m : stack[k][1] \in Nat /\ stack[k][2] \in Nat
    <2>1. \A k \in 1..m : stack[k] \in Nat \X Nat
      OBVIOUS
    <2>. QED BY <2>1
  <1>4. stack[1][1] = base /\ stack[1][2] = len
    BY DEF Split
  <1>5. /\ from <= base /\ base + len <= to + 1
        /\ \A k \in 2..m : base + len <= stack[k][1]
    <2>1. \A k \in 2..m : k \in 1..m /\ 1 < k
      BY <1>2
    <2>2. /\ \A k \in 1..m : from <= stack[k][1] /\ stack[k][1] + stack[k][2] <= to + 1
          /\ \A k, l \in 1..m : k < l => stack[k][1] + stack[k][2] <= stack[l][1]
      BY DEF Stacked, m
    <2>. QED BY <1>2, <1>4, <2>1, <2>2, Zenon
  <1>6. /\ \A x \in P \ Own : b[x] = a[x]
        /\ \A x \in P \cap Own : \E z \in P \cap Own : b[x] = a[z]
        /\ b \in [P -> T]
    <2>. HIDE DEF Own
    <2>1. Rearranged(b, a, P, Own)
      BY DEF Own
    <2>2. b \in [P -> T] /\ MovesWithin(b, a, P, Own)
      BY <2>1, RearrangedKeeps
    <2>. QED BY <2>2, Zenon DEF MovesWithin
  <1>. HIDE DEF m
  <1>7. ASSUME NEW x \in from..to, NEW y \in from..to, x < y, ~(x \in Own /\ y \in Own)
        PROVE  a[x] <= a[y] \/ InOneCall(new, x, y)
    <2>1. CASE InOneCall(stack, x, y)
      <3>1. PICK k \in 1..m : stack[k][1] <= x /\ y < stack[k][1] + stack[k][2]
        BY <2>1 DEF InOneCall, m
      <3>2. k # 1
        <4>1. ASSUME base <= x, y < base + len
              PROVE  x \in Own /\ y \in Own
          BY <1>7, <4>1
        <4>. QED BY <1>4, <1>7, <3>1, <4>1, Zenon
      <3>3. k \in 2..m /\ k + 1 \in 1..(m + 1)
        BY <1>2, <3>2
      <3>4. new[k + 1] = stack[k]
        BY <1>1, <3>3
      <3>. QED BY <1>1, <3>1, <3>3, <3>4, Zenon DEF InOneCall
    <2>. QED BY <1>7, <2>1 DEF LeftToCalls
  <1>8. ASSUME NEW x \in from..to, NEW y \in from..to, x < y,
               (x < base /\ y \in Own) \/ (x \in Own /\ base + len <= y)
        PROVE  a[x] <= a[y]
    <2>1. ASSUME InOneCall(stack, x, y)
          PROVE  FALSE
      <3>1. PICK k \in 1..m : stack[k][1] <= x /\ y < stack[k][1] + stack[k][2]
        BY <2>1 DEF InOneCall, m
      <3>2. CASE k = 1
        <4>1. base <= x /\ y < base + len
          BY <1>4, <3>1, <3>2, Zenon
        <4>. QED BY <1>8, <4>1
      <3>3. CASE k # 1
        <4>1. k \in 2..m
          BY <1>2, <3>3
        <4>2. base + len <= x
          <5>. DEFINE s == stack[k][1]
          <5>1. s \in Nat /\ base + len <= s /\ s <= x
            BY <1>3, <1>5, <3>1, <4>1, Zenon
          <5>. HIDE DEF s
          <5>. QED BY <5>1
        <4>. QED BY <1>8, <4>2
      <3>. QED BY <3>2, <3>3
    <2>. QED BY <1>8, <2>1, Zenon DEF LeftToCalls
  <1>9. Own \subseteq from..to /\ from..to \subseteq P
    BY <1>5
  <1>10. \A x \in P : a[x] \in Int /\ b[x] \in Int
    BY <1>6
  <1>11. ASSUME NEW x \in from..to, NEW y \in from..to, x < y
         PROVE  b[x] <= b[y] \/ InOneCall(new, x, y)
    <2>0. x \in P /\ y \in P /\ x \in Int /\ y \in Int
      BY <1>9
    <2>1. CASE x \notin Own /\ y \notin Own
      BY <1>6, <1>7, <1>11, <2>0, <2>1, Zenon
    <2>2. CASE x \notin Own /\ y \in Own
      <3>1. x < base
        BY <1>11, <2>0, <2>2
      <3>2. PICK z \in P \cap Own : b[y] = a[z]
        BY <1>6, <2>0, <2>2, Zenon
      <3>3. z \in from..to /\ x < z
        <4>1. z \in Own /\ z \in from..to
          <5>. HIDE DEF Own
          <5>. QED BY <1>9
        <4>2. z \in Int /\ base <= z
          BY <4>1
        <4>. HIDE DEF Own
        <4>. QED BY <2>0, <3>1, <4>1, <4>2
      <3>4. a[x] <= a[z]
        BY <1>8, <3>1, <3>2, <3>3, Zenon
      <3>. QED BY <1>6, <2>0, <2>2, <3>2, <3>4, Zenon
    <2>3. CASE x \in Own /\ y \notin Own
      <3>1. base + len <= y
        BY <1>11, <2>0, <2>3
      <3>2. PICK z \in P \cap Own : b[x] = a[z]
        BY <1>6, <2>0, <2>3, Zenon
      <3>3. z \in from..to /\ z < y
        <4>1. z \in Int /\ z <= base + len - 1
          OBVIOUS
        <4>2. z \in from..to
          BY <1>9
        <4>. QED BY <2>0, <3>1, <4>1, <4>2
      <3>4. a[z] <= a[y]
        BY <1>8, <3>1, <3>2, <3>3, Zenon
      <3>. QED BY <1>6, <2>0, <2>3, <3>2, <3>4, Zenon
    <2>4. CASE x \in Own /\ y \in Own
      <3>1. /\ 1 \in 1..(m + 1) /\ 2 \in 1..(m + 1)
            /\ new[1][1] = base /\ new[1][2] = p
            /\ new[2][1] = base + p + 1 /\ new[2][2] = len - p - 1
        BY <1>1, <1>2
      <3>2. CASE y < base + p
        <4>1. base <= x
          BY <2>4
        <4>. QED BY <1>1, <3>1, <3>2, <4>1, Zenon DEF InOneCall
      <3>3. CASE base + p < x
        <4>1. base + p + 1 <= x /\ y < (base + p + 1) + (len - p - 1)
          BY <2>4, <3>3
        <4>. QED BY <1>1, <3>1, <4>1, Zenon DEF InOneCall
      <3>4. CASE x <= base + p /\ base + p <= y
        <4>1. /\ x = base + p \/ x \in base..(base + p - 1)
              /\ y = base + p \/ y \in (base + p + 1)..(base + len - 1)
          BY <2>4, <3>4
        <4>. DEFINE u == b[x]
                    v == b[y]
                    w == b[base + p]
        <4>2. base + p \in Own
          OBVIOUS
        <4>3. u \in Int /\ v \in Int /\ w \in Int
          BY <1>9, <1>10, <2>0, <4>2, Zenon
        <4>4. (u = w \/ u <= w) /\ (v = w \/ w <= v)
          BY <4>1, Zenon DEF PivotAt
        <4>. HIDE DEF u, v, w
        <4>5. u <= v
          BY <4>3, <4>4
        <4>. QED BY <4>5 DEF u, v
      <3>. QED BY <2>0, <3>2, <3>3, <3>4
    <2>. QED BY <2>1, <2>2, <2>3, <2>4
  <1>. QED BY <1>11, Zenon DEF LeftToCalls

\* A call of a thread: the words of the other threads stay where they are.
LEMMA SortCall ==
    ASSUME SortInv, NEW t \in DOMAIN calls, S!QuickSort(t)
    PROVE  SortInv'
  <1>. DEFINE stack == calls[t]
              base == Head(stack)[1]
              len == Head(stack)[2]
              part == S!Partition(words_ptr, base, len)
              p == part.pivot
              from == S!From(t - 1)
              to == S!To(t - 1)
              new == calls'[t]
  <1>1. /\ s_main \in {"create", "join"}
        /\ stack # <<>>
        /\ UNCHANGED <<file, written, num_of_threads, created, s_i, s_main>>
    BY DEF S!QuickSort
  <1>2. SortTypes /\ SortPhases /\ SortCalls /\ SortPending /\ SortContents
    BY DEF SortInv
  <1>3. /\ calls \in Seq(Seq(Nat \X Nat)) /\ created = Len(calls) /\ Len(calls) \in Nat
        /\ DOMAIN calls = 1..Len(calls)
    <2>1. calls \in Seq(Seq(Nat \X Nat)) /\ created = Len(calls)
      BY <1>2 DEF SortTypes
    <2>. QED BY <2>1
  <1>4. t \in 1..Len(calls) /\ stack \in Seq(Nat \X Nat)
    BY <1>3
  <1>5. /\ len <= 1 =>
              /\ calls' = [calls EXCEPT ![t] = Tail(stack)]
              /\ words_ptr' = words_ptr
        /\ ~(len <= 1) =>
              /\ calls' = [calls EXCEPT ![t] =
                             <<<<base, p>>, <<base + p + 1, len - p - 1>>>> \o Tail(stack)]
              /\ words_ptr' = part.array
    BY Zenon DEF S!QuickSort
  <1>6. /\ base \in Nat /\ len \in Nat /\ stack[1] = <<base, len>>
    <2>1. Head(stack) = stack[1] /\ 1 \in 1..Len(stack)
      BY <1>1, <1>4, StackPop
    <2>2. stack[1] \in Nat \X Nat
      BY <1>4, <2>1
    <2>. QED BY <2>1, <2>2
  <1>7. /\ S!lines \in Nat /\ words_ptr \in [S!Position -> Word] /\ Word \subseteq Int
        /\ num_of_threads > 0 /\ Len(calls) <= num_of_threads /\ num_of_threads \in Nat
    BY <1>1, <1>2, <1>3, ThreadsAssumption DEF SortTypes, SortPhases, S!MergeSortAssumption
  <1>8. /\ \A u \in 1..Len(calls) :
              /\ S!From(u - 1) \in Nat /\ S!To(u - 1) \in Nat
              /\ S!To(u - 1) <= S!lines - 1
        /\ \A u, v \in 1..Len(calls) : u < v => S!To(u - 1) < S!From(v - 1)
    <2>1. \A u \in 1..Len(calls) : u - 1 \in 0..(num_of_threads - 1)
      BY <1>3, <1>7
    <2>2. \A u, v \in 1..Len(calls) : u < v => u - 1 < v - 1
      OBVIOUS
    <2>. QED BY <1>2, <1>7, <2>1, <2>2, Parts, Zenon
  <1>9. Stacked(stack, from, to) /\ LeftToCalls(words_ptr, stack, from, to)
    BY <1>1, <1>2, <1>4, Zenon DEF SortCalls, SortPending
  <1>10. from \in Nat /\ to \in Nat /\ to <= S!lines - 1 /\ from..to \subseteq S!Position
    BY <1>4, <1>7, <1>8 DEF S!Position
  <1>11. /\ from <= base /\ base + len <= to + 1
    <2>1. 1 \in 1..Len(stack)
      BY <1>1, <1>4, StackPop
    <2>. QED BY <1>6, <1>9, <2>1 DEF Stacked
  <1>12. \E R \in SUBSET (from..to) :
            /\ Rearranged(words_ptr', words_ptr, S!Position, R)
            /\ new \in Seq(Nat \X Nat)
            /\ Stacked(new, from, to)
            /\ LeftToCalls(words_ptr', new, from, to)
    <2>1. CASE len <= 1
      <3>1. new = Tail(stack) /\ words_ptr' = words_ptr
        BY <1>5, <2>1
      <3>2. stack[1][2] <= 1
        BY <1>6, <2>1
      <3>3. /\ new \in Seq(Nat \X Nat)
            /\ Stacked(new, from, to)
            /\ LeftToCalls(words_ptr, new, from, to)
        <4>1. from \in Int /\ to \in Int /\ stack # <<>> /\ new = Tail(stack)
          BY <1>1, <1>10, <3>1
        <4>. HIDE DEF stack, from, to, new
        <4>2. /\ new \in Seq(Nat \X Nat)
              /\ Stacked(new, from, to)
              /\ LeftToCalls(words_ptr, stack, from, to) => LeftToCalls(words_ptr, new, from, to)
          BY <1>4, <1>9, <3>2, <4>1, PopKeeps
        <4>. QED BY <1>9, <4>2
      <3>4. Rearranged(words_ptr', words_ptr, S!Position, {})
        BY <1>7, <3>1, RearrangedItself
      <3>5. LeftToCalls(words_ptr', new, from, to)
        BY <3>1, <3>3, Zenon
      <3>. QED BY <3>3, <3>4, <3>5, Zenon
    <2>2. CASE ~(len <= 1)
      <3>. DEFINE Own == base..(base + len - 1)
                  a == words_ptr
                  b == words_ptr'
                  P == S!Position
      <3>1. /\ new = <<<<base, p>>, <<base + p + 1, len - p - 1>>>> \o Tail(stack)
            /\ b = part.array
        BY <1>5, <2>2
      <3>2. len > 0
        BY <1>6, <2>2
      <3>3. Own \subseteq from..to /\ Own \subseteq P
        BY <1>6, <1>10, <1>11
      <3>4. a \in [P -> Word] /\ b = S!Partition(a, base, len).array /\ p = S!Partition(a, base, len).pivot
        BY <1>7, <3>1, Zenon
      <3>. HIDE DEF stack, base, len, part, p, from, to, new, a, b, P
      <3>5. /\ p \in 0..(len - 1)
            /\ Rearranged(b, a, P, base..(base + len - 1))
            /\ PivotAt(b, base, len, p)
        <4>1. base \in Int /\ len \in Nat /\ base..(base + len - 1) \subseteq P /\ Word \subseteq Int
          BY <1>6, <1>7, <3>3
        <4>. QED BY <3>2, <3>4, <4>1, PartitionSplits
      <3>10. Split(stack, new, base, len, p)
        BY <1>1, <1>6, <3>1, Zenon DEF Split
      <3>6. new \in Seq(Nat \X Nat) /\ Stacked(new, from, to)
        <4>1. /\ from \in Int /\ to \in Int /\ stack \in Seq(Nat \X Nat) /\ base \in Nat /\ len \in Nat
              /\ Stacked(stack, from, to)
          BY <1>4, <1>6, <1>9, <1>10
        <4>2. new \in Seq(Nat \X Nat) /\ IsSplit(stack, new, base, len, p) /\ Stacked(new, from, to)
          <5>. HIDE DEF Own
          <5>. QED BY <3>5, <3>10, <4>1, SplitStacked
        <4>. QED BY <4>2
      <3>7. from..to \subseteq P
        BY <1>10 DEF P
      <3>8. LeftToCalls(a, stack, from, to)
        BY <1>9 DEF a
      <3>9. LeftToCalls(b, new, from, to)
        <4>1. /\ from \in Int /\ to \in Int /\ stack \in Seq(Nat \X Nat) /\ base \in Nat /\ len \in Nat
              /\ Word \subseteq Int /\ Stacked(stack, from, to) /\ a \in [P -> Word]
          BY <1>4, <1>6, <1>7, <1>9, <1>10, <3>4
        <4>. HIDE DEF Own
        <4>. QED BY <3>5, <3>7, <3>8, <3>10, <4>1, SplitKeeps
      <3>. QED BY <3>3, <3>5, <3>6, <3>9, Zenon DEF a, b, P
    <2>. QED BY <2>1, <2>2
  <1>13. PICK R \in SUBSET (from..to) :
            /\ Rearranged(words_ptr', words_ptr, S!Position, R)
            /\ new \in Seq(Nat \X Nat)
            /\ Stacked(new, from, to)
            /\ LeftToCalls(words_ptr', new, from, to)
    BY <1>12
  <1>14. /\ words_ptr' \in [S!Position -> Word]
         /\ \A x \in S!Position \ R : words_ptr'[x] = words_ptr[x]
    <2>. DEFINE P == S!Position
                a == words_ptr
                b == words_ptr'
    <2>1. a \in [P -> Word] /\ Rearranged(b, a, P, R)
      BY <1>7, <1>13
    <2>. HIDE DEF P, a, b
    <2>2. b \in [P -> Word] /\ MovesWithin(b, a, P, R)
      BY <2>1, RearrangedKeeps
    <2>. QED BY <2>2, Zenon DEF MovesWithin, P, a, b
  <1>15. /\ UNCHANGED <<S!lines, S!Position>>
         /\ \A u : S!From(u)' = S!From(u) /\ S!To(u)' = S!To(u)
    BY <1>1, <1>2, <1>14, PartsStay, Zenon
  <1>16. /\ calls' \in Seq(Seq(Nat \X Nat)) /\ Len(calls') = Len(calls)
         /\ \A u \in 1..Len(calls) : u # t => calls'[u] = calls[u]
    <2>1. calls' = [calls EXCEPT ![t] = new]
      <3>1. CASE len <= 1
        <4>1. calls' = [calls EXCEPT ![t] = Tail(stack)]
          BY <1>5, <3>1
        <4>. QED BY <1>3, <4>1
      <3>2. CASE ~(len <= 1)
        <4>. DEFINE s == <<<<base, p>>, <<base + p + 1, len - p - 1>>>> \o Tail(stack)
        <4>1. calls' = [calls EXCEPT ![t] = s]
          BY <1>5, <3>2
        <4>. HIDE DEF s
        <4>. QED BY <1>3, <4>1
      <3>. QED BY <3>1, <3>2
    <2>. HIDE DEF new
    <2>. QED BY <1>3, <1>4, <1>13, <2>1
  <1>. HIDE DEF stack, base, len, part, p, new
  <1>17. SortTypes'
    BY <1>1, <1>2, <1>3, <1>14, <1>15, <1>16, Zenon DEF SortTypes
  <1>18. SortPhases'
    BY <1>1, <1>2, Zenon DEF SortPhases
  <1>19. SortCalls'
    <2>1. ASSUME NEW u \in 1..Len(calls)
          PROVE  Stacked(calls'[u], S!From(u - 1), S!To(u - 1))
      <3>1. CASE u = t
        BY <1>13, <3>1 DEF new, from, to
      <3>2. CASE u # t
        BY <1>2, <1>16, <3>2, Zenon DEF SortCalls
      <3>. QED BY <3>1, <3>2
    <2>2. ASSUME NEW u \in 1..Len(calls)
          PROVE  Stacked(calls[u], S!From(u - 1), S!To(u - 1))'
      BY <1>15, <2>1, Zenon DEF Stacked
    <2>. QED BY <1>16, <2>2, Zenon DEF SortCalls
  <1>20. SortPending'
    <2>1. ASSUME NEW u \in 1..Len(calls)
          PROVE  LeftToCalls(words_ptr', calls'[u], S!From(u - 1), S!To(u - 1))
      <3>1. CASE u = t
        BY <1>13, <3>1 DEF new, from, to
      <3>2. CASE u # t
        <4>1. LeftToCalls(words_ptr, calls'[u], S!From(u - 1), S!To(u - 1))
          BY <1>1, <1>2, <1>16, <3>2, Zenon DEF SortPending
        <4>2. ASSUME NEW x \in S!From(u - 1)..S!To(u - 1)
              PROVE  words_ptr'[x] = words_ptr[x]
          <5>1. S!From(u - 1) \in Nat /\ S!To(u - 1) \in Nat /\ S!To(u - 1) <= S!lines - 1
            BY <1>8
          <5>2. u < t \/ t < u
            BY <1>4, <3>2
          <5>3. S!To(u - 1) < from \/ to < S!From(u - 1)
            BY <1>4, <1>8, <5>2, Zenon
          <5>4. x \in S!Position /\ x \notin from..to
            BY <1>7, <1>10, <5>1, <5>3 DEF S!Position
          <5>. QED BY <1>13, <1>14, <5>4, Zenon
        <4>. QED BY <4>1, <4>2, Zenon DEF LeftToCalls
      <3>. QED BY <3>1, <3>2
    <2>2. ASSUME NEW u \in 1..Len(calls)
          PROVE  LeftToCalls(words_ptr, calls[u], S!From(u - 1), S!To(u - 1))'
      BY <1>15, <2>1, Zenon DEF LeftToCalls, InOneCall
    <2>. QED BY <1>16, <2>2, Zenon DEF SortPending
  <1>21. SortMerged'
    BY <1>1 DEF SortMerged
  <1>22. SortContents'
    <2>1. R \subseteq S!Position
      BY <1>10, <1>13
    <2>2. Rearranged(words_ptr', words_ptr, S!Position, S!Position)
      BY <1>7, <1>13, <2>1, RearrangedWithin
    <2>3. Rearranged(words_ptr', file, S!Position, S!Position)
      BY <1>2, <2>2, RearrangedAgain DEF SortTypes, SortContents
    <2>. QED BY <1>1, <1>2, <1>15, <2>3 DEF SortContents
  <1>. QED BY <1>17, <1>18, <1>19, <1>20, <1>21, <1>22 DEF SortInv


-----------------------------------------------------------------------------
(* Theorems *)

\* Each step of the sort keeps its invariant.
LEMMA SortNext ==
    ASSUME SortInv, [Next]_vars
    PROVE  SortInv'
  <1>1. S!Next \/ UNCHANGED sort
    BY StepOfOne
  <1>2. CASE S!Main
    BY <1>2, SortInitParams, SortCreate, SortJoin, SortMerge, SortWrite DEF S!Main
  <1>3. ASSUME NEW t \in DOMAIN calls, S!QuickSort(t)
        PROVE  SortInv'
    BY <1>3, SortCall
  <1>4. CASE UNCHANGED sort
    BY <1>4, SortUnchanged
  <1>5. S!Stopped => UNCHANGED sort
    BY DEF S!Stopped, S!vars, sort
  <1>. QED BY <1>1, <1>2, <1>3, <1>4, <1>5 DEF S!Next

\* The calls of a thread, and all they can still touch, lie in its part.
LEMMA SortTouches ==
    ASSUME SortInv, NEW t \in DOMAIN calls, NEW x \in S!Touches(t)
    PROVE  /\ t \in 1..Len(calls)
           /\ x \in S!From(t - 1)..S!To(t - 1)
           /\ calls # <<>>
  <1>1. SortTypes /\ SortCalls
    BY DEF SortInv
  <1>2. /\ t \in 1..Len(calls) /\ calls[t] \in Seq(Nat \X Nat)
        /\ DOMAIN calls[t] = 1..Len(calls[t]) /\ calls # <<>>
    <2>1. calls \in Seq(Seq(Nat \X Nat))
      BY <1>1 DEF SortTypes
    <2>. QED BY <2>1
  <1>3. PICK k \in 1..Len(calls[t]) : x \in calls[t][k][1]..(calls[t][k][1] + calls[t][k][2] - 1)
    BY <1>2, Zenon DEF S!Touches
  <1>4. calls[t][k][1] \in Nat /\ calls[t][k][2] \in Nat
    <2>1. calls[t][k] \in Nat \X Nat
      BY <1>2
    <2>. QED BY <2>1
  <1>5. /\ S!From(t - 1) <= calls[t][k][1]
        /\ calls[t][k][1] + calls[t][k][2] <= S!To(t - 1) + 1
    BY <1>1, <1>2, Zenon DEF SortCalls, Stacked
  <1>6. S!From(t - 1) \in Nat /\ S!To(t - 1) \in Nat
    <2>1. t - 1 \in 0..(num_of_threads - 1) /\ num_of_threads > 0
      <3>1. num_of_threads \in Nat /\ created <= num_of_threads /\ created = Len(calls)
        BY DEF SortInv, SortTypes, SortPhases
      <3>. QED BY <1>2, <3>1
    <2>. QED BY <1>1, <2>1, Parts
  <1>7. x \in S!From(t - 1)..S!To(t - 1)
    <2>. DEFINE low == S!From(t - 1)
                high == S!To(t - 1)
                base == calls[t][k][1]
                len == calls[t][k][2]
    <2>1. /\ low \in Nat /\ high \in Nat /\ base \in Nat /\ len \in Nat
          /\ low <= base /\ base + len <= high + 1 /\ x \in base..(base + len - 1)
      BY <1>3, <1>4, <1>5, <1>6
    <2>2. x \in low..high
      <3>. HIDE DEF low, high, base, len
      <3>. QED BY <2>1
    <2>. QED BY <2>2
  <1>. QED BY <1>2, <1>7

\* Threads that sort at the same time never touch the same word, nor one that
\* is not there: a call never leaves the part of its thread.
THEOREM ThreadsKeepApart == Spec => []NoOverlap
  <1>1. Init => SortInv
    BY SortInit
  <1>2. SortInv /\ [Next]_vars => SortInv'
    BY SortNext
  <1>3. SortInv => NoOverlap
    <2>. SUFFICES ASSUME SortInv
                  PROVE  NoOverlap
      OBVIOUS
    <2>1. SortTypes /\ SortPhases /\ calls \in Seq(Seq(Nat \X Nat)) /\ S!lines \in Nat
      BY DEF SortInv, SortTypes
    <2>2. ASSUME NEW t \in DOMAIN calls
          PROVE  t \in 1..Len(calls) /\ t - 1 \in 0..(num_of_threads - 1) /\ num_of_threads > 0
      <3>1. num_of_threads \in Nat /\ created <= num_of_threads /\ created = Len(calls)
        BY <2>1 DEF SortTypes, SortPhases
      <3>2. t \in 1..Len(calls)
        BY <2>1
      <3>. QED BY <3>1, <3>2
    <2>3. ASSUME NEW t \in DOMAIN calls
          PROVE  S!Touches(t) \subseteq S!Position
      <3>1. ASSUME NEW x \in S!Touches(t)
            PROVE  x \in S!Position
        <4>1. x \in S!From(t - 1)..S!To(t - 1)
          BY SortTouches
        <4>2. S!From(t - 1) \in Nat /\ S!To(t - 1) \in Nat /\ S!To(t - 1) <= S!lines - 1
          BY <2>1, <2>2, Parts
        <4>. QED BY <2>1, <4>1, <4>2 DEF S!Position
      <3>. QED BY <3>1
    <2>4. ASSUME NEW t \in DOMAIN calls, NEW u \in DOMAIN calls, t < u,
                 NEW x \in S!Touches(t), x \in S!Touches(u)
          PROVE  FALSE
      <3>1. x \in S!From(t - 1)..S!To(t - 1) /\ x \in S!From(u - 1)..S!To(u - 1)
        BY <2>4, SortTouches
      <3>2. t - 1 < u - 1
        BY <2>2, <2>4
      <3>3. S!To(t - 1) < S!From(u - 1)
        BY <2>1, <2>2, <3>2, Parts
      <3>4. S!From(u - 1) \in Nat /\ S!To(t - 1) \in Nat
        BY <2>1, <2>2, Parts
      <3>. QED BY <3>1, <3>3, <3>4
    <2>5. \A t, u \in DOMAIN calls : t # u => t < u \/ u < t
      BY <2>2
    <2>6. \A t, u \in DOMAIN calls : t # u => S!Touches(t) \cap S!Touches(u) = {}
      BY <2>4, <2>5, Zenon
    <2>. QED BY <2>3, <2>6, Zenon DEF NoOverlap, S!NoOverlap
  <1>. QED BY <1>1, <1>2, <1>3, PTL DEF Spec

\* No word is lost or written twice, on either copy of the lines and at no
\* time: each is the input rearranged.
THEOREM NoWordIsLost == Spec => []NothingLost
  <1>1. Init => SortInv
    BY SortInit
  <1>2. SortInv /\ [Next]_vars => SortInv'
    BY SortNext
  <1>3. SortInv => NothingLost
    <2>. SUFFICES ASSUME SortInv, NEW w \in Word
                  PROVE  /\ S!Occurrences(words_ptr, w) = S!Occurrences(file, w)
                         /\ S!Occurrences(written, w) = S!Occurrences(file, w)
      BY DEF NothingLost, S!NothingLost
    <2>1. SortTypes /\ SortContents
      BY DEF SortInv
    <2>2. /\ file \in [S!Position -> Word]
          /\ Rearranged(words_ptr, file, S!Position, S!Position)
          /\ Rearranged(written, file, S!Position, S!Position)
      BY <2>1 DEF SortTypes, SortContents
    <2>3. IsFiniteSet(S!Position)
      <3>1. S!lines \in Nat
        BY <2>1 DEF SortTypes
      <3>. QED BY <3>1, FS_Interval DEF S!Position
    <2>. DEFINE P == S!Position
                a == file
                b == words_ptr
                c == written
    <2>4. /\ a \in [P -> Word] /\ IsFiniteSet(P)
          /\ Rearranged(b, a, P, P) /\ Rearranged(c, a, P, P)
      BY <2>2, <2>3
    <2>. HIDE DEF P, a, b, c
    <2>5. S!Occurrences(b, w) = S!Occurrences(a, w)
      BY <2>4, RearrangedOccurrences
    <2>6. S!Occurrences(c, w) = S!Occurrences(a, w)
      BY <2>4, RearrangedOccurrences
    <2>. QED BY <2>5, <2>6 DEF a, b, c
  <1>. QED BY <1>1, <1>2, <1>3, PTL DEF Spec

\* What is written in the end is in order, whatever the threads did in turn.
THEOREM OutputIsSorted == Spec => []WritesSorted
  <1>1. Init => SortInv
    BY SortInit
  <1>2. SortInv /\ [Next]_vars => SortInv'
    BY SortNext
  <1>3. SortInv => WritesSorted
    <2>. SUFFICES ASSUME SortInv, s_main = "written", NEW k \in S!Position \ {0}
                  PROVE  written[k - 1] <= written[k]
      BY DEF WritesSorted, S!WritesSorted
    <2>1. Sorted(written, 0, S!lines - 1) /\ S!lines \in Nat
      BY DEF SortInv, SortContents, SortTypes
    <2>2. k - 1 \in 0..(S!lines - 1) /\ k \in 0..(S!lines - 1) /\ k - 1 < k
      BY <2>1 DEF S!Position
    <2>. QED BY <2>1, <2>2, Zenon DEF Sorted
  <1>. QED BY <1>1, <1>2, <1>3, PTL DEF Spec
=============================================================================
