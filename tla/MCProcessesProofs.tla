------------------------ MODULE MCProcessesProofs ---------------------------
(***************************************************************************)
(* Proofs about MCProcesses, for any number of starts, runs, connections,  *)
(* slots, requests and lines: the programs that signal each other, write   *)
(* to each other's pipes, share a queue or a segment, serve clients, or    *)
(* run commands.                                                           *)
(*                                                                         *)
(* A step is one of the program that runs and leaves the variables of the  *)
(* others alone, so each program has an inductive invariant of its own.    *)
(***************************************************************************)
EXTENDS MCProcesses, SequenceTheorems, FiniteSetTheorems, WellFoundedInduction, TLAPS

\* What a step of MCProcesses is for each of the programs.
LEMMA StepOfOne ==
    ASSUME [Next]_vars
    PROVE  /\ G!Next \/ UNCHANGED signals
           /\ P!Next \/ UNCHANGED pipes
           /\ Q!Next \/ UNCHANGED queue
           /\ M!Next \/ UNCHANGED memory
           /\ S!Next \/ UNCHANGED select
           /\ T!Next \/ UNCHANGED chain
           /\ H!Next \/ UNCHANGED shell
  BY DEF Next, vars

-----------------------------------------------------------------------------
(* ThreadedServer: the threads of the chain end in the reverse of the order *)
(* they were made in.  FrameOutlivesThreads is not inductive: it says       *)
(* nothing of the first thread before it accepts, of main, and of the       *)
(* thread that an accepting thread is about to make.                        *)

Serving == {"test", "recv", "send", "join"}

\* Whoever is before a running thread in the chain serves its client or waits.
ChainOrder == \A k \in T!Thread : T!Running(k) => \A j \in T!Thread : j < k => t_pc[j] \in Serving

\* The thread that has not made another one yet is the last.
ChainLastMade ==
    \A k \in T!Thread :
        t_pc[k] \in {"start", "accept", "create"} =>
            \A j \in T!Thread : j > k => t_pc[j] = "none"

\* Whoever has accepted a connection has a place for the thread it makes.
ChainHasSuccessor == \A k \in T!Thread : t_pc[k] \in {"create"} \cup Serving => k \in T!Client

\* Before main has made the first thread of the chain there is none.
ChainNoneBeforeMain ==
    main \in {"create consol", "create udp", "create tcp"} =>
        \A k \in T!Thread : t_pc[k] = "none"

ChainInv == T!TypeOK /\ ChainOrder /\ ChainLastMade /\ ChainHasSuccessor /\ ChainNoneBeforeMain

-----------------------------------------------------------------------------

\* Threads are numbered with integers, and the successor of a thread with a
\* client is a thread.
LEMMA ChainNumbers ==
    /\ T!Thread \subseteq Int /\ 0 \in T!Thread
    /\ \A k \in T!Client : k \in T!Thread /\ k + 1 \in T!Thread
    /\ \A k \in T!Thread \ {0} : 0..(k - 1) \subseteq T!Thread
  BY ProcessesAssumption DEF T!Thread, T!Client

\* At the start no thread exists.
LEMMA ChainInit ==
    ASSUME T!Init
    PROVE  ChainInv
  BY ChainNumbers DEF T!Init, ChainInv, T!TypeOK, ChainOrder, ChainLastMade,
                      ChainHasSuccessor, ChainNoneBeforeMain,
                 T!Running, Serving

\* A step that only moves one running thread among the places where it serves,
\* or forward to the creation of the next, keeps the chain.
LEMMA ChainMove ==
    ASSUME ChainInv, NEW k \in T!Thread, NEW label, T!Goto(k, label),
           T!Running(k), main' = main, T!TypeOK',
           \/ t_pc[k] \in Serving /\ label \in Serving
           \/ t_pc[k] \in {"start", "accept"} /\ label \in {"accept", "create"},
           label = "create" => k \in T!Client
    PROVE  ChainInv'
  <1>. USE DEF ChainInv
  <1>1. /\ t_pc'[k] = label
        /\ \A j \in T!Thread \ {k} : t_pc'[j] = t_pc[j]
    BY DEF T!Goto, T!TypeOK
  <1>2. ChainOrder'
    BY <1>1 DEF ChainOrder, T!Running, Serving
  <1>3. ChainLastMade'
    BY <1>1 DEF ChainLastMade, T!Running, Serving
  <1>4. ChainHasSuccessor'
    BY <1>1 DEF ChainHasSuccessor, Serving
  <1>5. ChainNoneBeforeMain'
    BY <1>1 DEF ChainNoneBeforeMain, T!Running
  <1>. QED BY <1>2, <1>3, <1>4, <1>5

\* A thread ends only as the last of those that run: it made no other, or the
\* one it made has ended.
LEMMA ChainEnd ==
    ASSUME ChainInv, NEW k \in T!Thread, T!Goto(k, "done"), T!Running(k),
           main' = main, T!TypeOK',
           \/ t_pc[k] \in {"start", "accept", "create"}
           \/ t_pc[k] \in Serving /\ t_pc[k + 1] = "done"
    PROVE  ChainInv'
  <1>. USE DEF ChainInv
  <1>1. /\ t_pc'[k] = "done"
        /\ \A j \in T!Thread \ {k} : t_pc'[j] = t_pc[j]
    BY DEF T!Goto, T!TypeOK
  <1>2. \A j \in T!Thread : j > k => ~T!Running(j)
    <2>1. CASE t_pc[k] \in {"start", "accept", "create"}
      BY <2>1 DEF ChainLastMade, T!Running
    <2>2. CASE t_pc[k] \in Serving /\ t_pc[k + 1] = "done"
      <3>1. k + 1 \in T!Thread /\ ~T!Running(k + 1)
        BY <2>2, ChainNumbers DEF ChainHasSuccessor, T!Running
      <3>2. \A j \in T!Thread : j > k + 1 => ~T!Running(j)
        BY <2>2, <3>1, ChainNumbers DEF ChainOrder, T!Running, Serving
      <3>. QED BY <3>1, <3>2, ChainNumbers
    <2>. QED BY <2>1, <2>2
  <1>3. ChainOrder'
    <2>. SUFFICES ASSUME NEW n \in T!Thread, T!Running(n)', NEW j \in T!Thread, j < n
                  PROVE  t_pc'[j] \in Serving
      BY DEF ChainOrder
    <2>1. n # k /\ T!Running(n)
      BY <1>1 DEF T!Running
    <2>2. j # k
      BY <2>1, <1>2
    <2>. QED BY <2>1, <2>2, <1>1 DEF ChainOrder
  <1>4. ChainLastMade'
    <2>. SUFFICES ASSUME NEW n \in T!Thread, t_pc'[n] \in {"start", "accept", "create"},
                         NEW j \in T!Thread, j > n
                  PROVE  t_pc'[j] = "none"
      BY DEF ChainLastMade
    <2>1. n # k /\ t_pc[j] = "none"
      BY <1>1 DEF ChainLastMade
    <2>. QED BY <2>1, <1>1 DEF T!Running
  <1>5. ChainHasSuccessor' /\ ChainNoneBeforeMain'
    BY <1>1 DEF ChainHasSuccessor, ChainNoneBeforeMain, T!Running, Serving
  <1>. QED BY <1>3, <1>4, <1>5

\* A new thread is the last of the chain, and its maker goes on to serve.
LEMMA ChainCreate ==
    ASSUME ChainInv, NEW k \in T!Thread, t_pc[k] = "create",
           t_pc' = [t_pc EXCEPT ![k] = "test", ![k + 1] = "accept"],
           main' = main, T!TypeOK'
    PROVE  ChainInv'
  <1>. USE DEF ChainInv
  <1>1. k \in T!Client /\ k \in Int /\ k + 1 \in T!Thread /\ k + 1 # k
    BY ChainNumbers DEF ChainHasSuccessor
  <1>2. /\ t_pc'[k] = "test" /\ t_pc'[k + 1] = "accept"
        /\ \A j \in T!Thread \ {k, k + 1} : t_pc'[j] = t_pc[j]
    BY <1>1 DEF T!TypeOK
  <1>3. \A j \in T!Thread : j > k => t_pc[j] = "none"
    BY DEF ChainLastMade
  <1>4. \A j \in T!Thread : j < k => t_pc[j] \in Serving
    BY DEF ChainOrder, T!Running
  <1>5. ASSUME NEW j \in T!Thread
        PROVE  /\ j \in Int
               /\ j < k => j \notin {k, k + 1}
               /\ j > k + 1 => j \notin {k, k + 1} /\ j > k
               /\ j < k \/ j = k \/ j = k + 1 \/ j > k + 1
    <2>1. j \in Int
      BY ChainNumbers
    <2>. QED BY <2>1, <1>1
  <1>6. /\ \A j \in T!Thread : j < k => t_pc'[j] \in Serving
        /\ \A j \in T!Thread : j > k + 1 => t_pc'[j] = "none"
    BY <1>2, <1>3, <1>4, <1>5, Zenon
  <1>7. ChainOrder' /\ ChainLastMade'
    <2>1. /\ Serving = {"test", "recv", "send", "join"} /\ t_pc'[k] \in Serving
          /\ \A j \in T!Thread : j \in Int
      BY <1>2, <1>5 DEF Serving
    <2>2. ASSUME NEW n \in T!Thread, NEW j \in T!Thread, j < n, t_pc'[n] \notin {"none", "done"}
          PROVE  t_pc'[j] \in Serving
      <3>1. ~(n > k + 1)
        BY <2>2, <1>6
      <3>2. j < k \/ j = k
        BY <2>1, <2>2, <3>1, <1>1, <1>5
      <3>. QED BY <3>2, <2>1, <1>6
    <2>3. ASSUME NEW n \in T!Thread, NEW j \in T!Thread, j > n,
                 t_pc'[n] \in {"start", "accept", "create"}
          PROVE  t_pc'[j] = "none"
      <3>1. n = k + 1
        <4>1. ~(n < k) /\ n # k /\ ~(n > k + 1)
          BY <2>1, <2>3, <1>2, <1>6 DEF Serving
        <4>. QED BY <4>1, <1>5
      <3>. QED BY <2>3, <3>1, <1>6
    <2>. QED BY <2>2, <2>3 DEF ChainOrder, ChainLastMade, T!Running
  <1>8. ChainHasSuccessor'
    BY <1>1, <1>2 DEF ChainHasSuccessor, Serving
  <1>9. ChainNoneBeforeMain'
    BY DEF ChainNoneBeforeMain
  <1>. QED BY <1>7, <1>8, <1>9

\* A step of the process keeps the types.
LEMMA ChainTypes ==
    ASSUME ChainInv, T!Process
    PROVE  T!TypeOK'
  <1>. USE DEF ChainInv, T!TypeOK, T!Goto
  <1>1. CASE T!CreateThreads
    BY <1>1 DEF T!CreateThreads
  <1>2. CASE T!JoinConsol
    BY <1>2 DEF T!JoinConsol
  <1>3. CASE T!InitConsol
    <2>1. g_EXIT_FROM_PROG' \in BOOLEAN
      BY <1>3, Zenon DEF T!InitConsol
    <2>. QED BY <1>3, <2>1 DEF T!InitConsol
  <1>4. CASE T!StartUDPServer \/ T!SendAndRecieveUDP
    BY <1>4 DEF T!StartUDPServer, T!SendAndRecieveUDP
  <1>5. CASE T!CreateTcpServer
    BY <1>5 DEF T!CreateTcpServer
  <1>6. ASSUME NEW k \in T!Thread, T!Step(k)
        PROVE  T!TypeOK'
    <2>1. CASE T!Accept(k) \/ T!Test(k) \/ T!Send(k) \/ T!Join(k)
      BY <2>1 DEF T!Accept, T!Test, T!Send, T!Join
    <2>2. CASE T!CreateNewSocketAndThread(k)
      BY <2>2 DEF T!CreateNewSocketAndThread
    <2>3. CASE T!Recv(k)
      <3>1. client' \in [T!Client -> {"away", "quiet", "asking", "gone"}]
        BY <2>3 DEF T!Recv
      <3>. QED BY <2>3, <3>1 DEF T!Recv
    <2>. QED BY <1>6, <2>1, <2>2, <2>3 DEF T!Step
  <1>7. ASSUME NEW k \in T!Client, T!Act(k)
        PROVE  T!TypeOK'
    <2>1. client' \in [T!Client -> {"away", "quiet", "asking", "gone"}]
      BY <1>7 DEF T!Act
    <2>. QED BY <1>7, <2>1 DEF T!Act
  <1>. QED BY <1>1, <1>2, <1>3, <1>4, <1>5, <1>6, <1>7 DEF T!Process

\* One step of a thread of the chain.
LEMMA ChainStep ==
    ASSUME ChainInv, NEW k \in T!Thread, T!Step(k), T!TypeOK'
    PROVE  ChainInv'
  <1>1. CASE T!Accept(k)
    <2>1. CASE k \in T!Client /\ T!Goto(k, "create")
      BY <2>1, <1>1, ChainMove DEF T!Accept, T!Running
    <2>2. CASE T!Goto(k, "done")
      BY <2>2, <1>1, ChainEnd DEF T!Accept, T!Running
    <2>. QED BY <2>1, <2>2, <1>1 DEF T!Accept
  <1>2. CASE T!CreateNewSocketAndThread(k)
    <2>1. CASE T!Goto(k, "done")
      BY <2>1, <1>2, ChainEnd DEF T!CreateNewSocketAndThread, T!Running
    <2>. QED BY <2>1, <1>2, ChainCreate DEF T!CreateNewSocketAndThread
  <1>3. CASE T!Test(k)
    BY <1>3, ChainMove DEF T!Test, T!Running, Serving
  <1>4. CASE T!Recv(k)
    BY <1>4, ChainMove DEF T!Recv, T!Running, Serving
  <1>5. CASE T!Send(k)
    BY <1>5, ChainMove DEF T!Send, T!Running, Serving
  <1>6. CASE T!Join(k)
    BY <1>6, ChainEnd DEF T!Join, T!Running, Serving
  <1>. QED BY <1>1, <1>2, <1>3, <1>4, <1>5, <1>6 DEF T!Step

\* A step of main, which makes the first thread of the chain.
LEMMA ChainCreateThreads ==
    ASSUME ChainInv, T!CreateThreads, T!TypeOK'
    PROVE  ChainInv'
  <1>. USE DEF ChainInv
  <1>1. CASE main = "create tcp" /\ main' = "join" /\ T!Goto(0, "start")
    <2>1. /\ t_pc'[0] = "start"
          /\ \A j \in T!Thread \ {0} : t_pc'[j] = "none"
      <3>1. 0 \in T!Thread
        BY ChainNumbers
      <3>2. /\ t_pc' = [t_pc EXCEPT ![0] = "start"]
            /\ DOMAIN t_pc = T!Thread
            /\ \A j \in T!Thread : t_pc[j] = "none"
        BY <1>1 DEF T!Goto, T!TypeOK, ChainNoneBeforeMain
      <3>. QED BY <3>1, <3>2, Zenon
    <2>2. ChainOrder' /\ ChainLastMade'
      BY <2>1 DEF ChainOrder, ChainLastMade, T!Running, T!Thread
    <2>3. ChainHasSuccessor' /\ ChainNoneBeforeMain'
      BY <1>1, <2>1 DEF ChainHasSuccessor, ChainNoneBeforeMain, Serving
    <2>. QED BY <2>2, <2>3
  <1>2. CASE UNCHANGED t_pc
    <2>1. main \in {"create consol", "create udp", "create tcp"}
      BY DEF T!CreateThreads
    <2>. QED BY <1>2, <2>1 DEF ChainOrder, ChainLastMade, ChainHasSuccessor, ChainNoneBeforeMain, T!Running
  <1>. QED BY <1>1, <1>2 DEF T!CreateThreads

LEMMA ChainNext ==
    ASSUME ChainInv, T!Next \/ UNCHANGED chain
    PROVE  ChainInv'
  <1>1. CASE T!Process
    <2>. T!TypeOK'
      BY <1>1, ChainTypes
    <2>1. CASE T!CreateThreads
      BY <2>1, ChainCreateThreads
    <2>2. CASE T!CreateTcpServer
      <3>1. 0 \in T!Thread
        BY ChainNumbers
      <3>2. CASE T!Goto(0, "accept")
        BY <2>2, <3>1, <3>2, ChainMove DEF T!CreateTcpServer, T!Running
      <3>3. CASE T!Goto(0, "done")
        BY <2>2, <3>1, <3>3, ChainEnd DEF T!CreateTcpServer, T!Running
      <3>. QED BY <2>2, <3>2, <3>3 DEF T!CreateTcpServer
    <2>3. CASE \E k \in T!Thread : T!Step(k)
      BY <2>3, ChainStep
    <2>4. CASE T!JoinConsol
      BY <2>4 DEF T!JoinConsol, ChainInv, ChainOrder, ChainLastMade, ChainHasSuccessor,
                  ChainNoneBeforeMain, T!Running
    <2>5. CASE T!InitConsol \/ T!StartUDPServer \/ T!SendAndRecieveUDP \/ \E k \in T!Client : T!Act(k)
      <3>1. UNCHANGED <<t_pc, main>>
        BY <2>5 DEF T!InitConsol, T!StartUDPServer, T!SendAndRecieveUDP, T!Act
      <3>. QED BY <3>1 DEF ChainInv, ChainOrder, ChainLastMade, ChainHasSuccessor, ChainNoneBeforeMain, T!Running
    <2>. QED BY <1>1, <2>1, <2>2, <2>3, <2>4, <2>5 DEF T!Process
  <1>2. CASE UNCHANGED chain
    BY <1>2 DEF chain, ChainInv, T!TypeOK, ChainOrder, ChainLastMade, ChainHasSuccessor,
                ChainNoneBeforeMain, T!Running
  <1>. QED BY <1>1, <1>2 DEF T!Next, T!vars, chain

\* For any number of connections: while a thread of the chain runs, so does the
\* first, whose local variable all of them use; and the one that accepts is the
\* last.
THEOREM FirstEndsLast == Spec => []FrameOutlivesThreads
  <1>1. Init => ChainInv
    BY ChainInit DEF Init
  <1>2. ChainInv /\ [Next]_vars => ChainInv'
    BY StepOfOne, ChainNext
  <1>3. ChainInv => FrameOutlivesThreads
    BY ChainNumbers DEF ChainInv, ChainOrder, ChainLastMade, FrameOutlivesThreads,
                        T!FrameOutlivesThreads, Serving
  <1>. QED BY <1>1, <1>2, <1>3, PTL DEF Spec

-----------------------------------------------------------------------------
(* SharedMemory: a set flag means that the segment had the whole text once, *)
(* and no writer takes any of it away again, whatever is killed when.       *)

MemoryLabel == {"shmget", "shmat", "clear", "copy 1", "copy 2", "set", "spin", "print",
                "shmdt", "shmctl", "done", "failed"}

MemoryRanges ==
    /\ made \in Nat /\ m_current \in 0..made
    /\ shmid \in [M!Process -> M!Id \cup {0}]
    /\ complete \in [M!Id -> {0, 1}]
    /\ buf \in [M!Id -> SUBSET {1, 2}]
    /\ attached \subseteq M!Process
    /\ m_pc \in [M!Process -> MemoryLabel]
    /\ m_printed \in [M!Process -> SUBSET {1, 2}]

\* Whoever has called shmget made at most one segment, and knows one.
Started == {p \in M!Process : m_pc[p] # "shmget"}

MemoryFound ==
    /\ made <= Cardinality(Started)
    /\ \A p \in Started : shmid[p] # 0

\* The text only grows, so that a writer leaves it whole, and a flag that is
\* set, or was when a reader looked, means that it is whole.
MemoryTexts ==
    /\ \A s \in M!Id : complete[s] = 1 => buf[s] = {1, 2}
    /\ \A p \in M!Process :
          /\ m_pc[p] = "copy 2" => 1 \in buf[shmid[p]]
          /\ m_pc[p] \in {"set", "print"} => buf[shmid[p]] = {1, 2}
          /\ m_pc[p] \in {"clear", "copy 1", "copy 2", "set"} => p[1] = "writer"
          /\ p[1] # "writer" /\ m_pc[p] \in {"shmdt", "shmctl", "done"} => m_printed[p] = {1, 2}

\* A segment is not destroyed as long as a process has it attached.
MemoryAttached ==
    \A p \in attached : m_pc[p] \notin {"shmget", "shmat"} /\ shmid[p] \notin destroyed

MemoryInv == MemoryRanges /\ MemoryFound /\ MemoryTexts /\ MemoryAttached

\* There is an identifier for every process.
LEMMA MemoryIds ==
    /\ IsFiniteSet(M!Process)
    /\ M!Id = 1..Cardinality(M!Process) /\ Cardinality(M!Process) \in Nat
  <1>1. IsFiniteSet(1..Runs) /\ IsFiniteSet({"writer"}) /\ IsFiniteSet({1})
        /\ IsFiniteSet({"reader", "reader2"})
    <2>1. 1 \in Int /\ Runs \in Int
      BY ProcessesAssumption
    <2>2. {"reader", "reader2"} = {"reader"} \cup {"reader2"}
      OBVIOUS
    <2>3. IsFiniteSet({"reader"} \cup {"reader2"})
      BY FS_Singleton, FS_Union
    <2>4. IsFiniteSet(1..Runs)
      BY <2>1, FS_Interval
    <2>. QED BY <2>2, <2>3, <2>4, FS_Singleton
  <1>2. IsFiniteSet({"writer"} \X (1..Runs)) /\ IsFiniteSet({"reader", "reader2"} \X {1})
    BY <1>1, FS_Product
  <1>3. IsFiniteSet(M!Process)
    BY <1>2, FS_Union DEF M!Process
  <1>4. M!Cardinality(M!Process) = Cardinality(M!Process)
    BY Zenon DEF M!Cardinality, Cardinality
  <1>. QED BY <1>3, <1>4, FS_CardinalityType DEF M!Id

\* Neither changes.
LEMMA MemoryConstants == M!Process' = M!Process /\ M!Id' = M!Id
  BY DEF M!Process, M!Id

LEMMA StartedIds ==
    ASSUME MemoryInv
    PROVE  /\ IsFiniteSet(Started) /\ Cardinality(Started) <= Cardinality(M!Process)
           /\ Cardinality(Started) \in Nat
           /\ \A p \in Started : p \in M!Process /\ shmid[p] \in M!Id
           /\ \A p \in M!Process : p \notin Started <=> m_pc[p] = "shmget"
  <1>1. Started \subseteq M!Process
    BY DEF Started
  <1>2. \A p \in Started : p \in M!Process /\ shmid[p] \in M!Id
    BY <1>1 DEF MemoryInv, MemoryRanges, MemoryFound
  <1>. QED BY <1>1, <1>2, MemoryIds, FS_Subset, FS_CardinalityType DEF Started

\* What moving a process to another label does to pc.
LEMMA MemoryMoves ==
    ASSUME MemoryInv, NEW p \in M!Process, NEW label \in MemoryLabel, M!Goto(p, label)
    PROVE  /\ m_pc' \in [M!Process -> MemoryLabel]
           /\ m_pc'[p] = label
           /\ \A q \in M!Process \ {p} : m_pc'[q] = m_pc[q]
  BY DEF MemoryInv, MemoryRanges, M!Goto

\* A process that has called shmget already makes no other segment.
LEMMA StaysStarted ==
    ASSUME MemoryInv, NEW p \in M!Process, m_pc[p] # "shmget",
           NEW label \in MemoryLabel \ {"shmget"}, M!Goto(p, label), UNCHANGED <<made, shmid>>
    PROVE  Started' = Started /\ MemoryFound'
  <1>1. Started' = Started
    BY MemoryMoves DEF Started, M!Process
  <1>. QED BY <1>1 DEF MemoryInv, MemoryFound

\* What is gone is not attached.
LEMMA GoneIsNotAttached ==
    \A A, key : \A p \in A : shmid[p] \notin M!Gone(A, key)
  BY DEF M!Gone

LEMMA MemoryInit == M!Init => MemoryInv
  <1>. SUFFICES ASSUME M!Init PROVE MemoryInv
    OBVIOUS
  <1>. USE DEF M!Init
  <1>1. MemoryRanges
    BY DEF MemoryRanges, MemoryLabel
  <1>2. Started = {}
    BY DEF Started
  <1>3. MemoryFound
    BY <1>2, FS_EmptySet DEF MemoryFound
  <1>4. MemoryTexts /\ MemoryAttached
    BY DEF MemoryTexts, MemoryAttached
  <1>. QED BY <1>1, <1>3, <1>4 DEF MemoryInv

\* Whoever finds no segment makes one, and there is an identifier left for it.
LEMMA MemoryShmget ==
    ASSUME MemoryInv, NEW p \in M!Process, M!Shmget(p)
    PROVE  MemoryInv'
  <1>. USE DEF M!Shmget, M!memory
  <1>1. /\ m_pc[p] = "shmget" /\ m_pc' \in [M!Process -> MemoryLabel] /\ m_pc'[p] = "shmat"
        /\ \A q \in M!Process \ {p} : m_pc'[q] = m_pc[q]
    BY MemoryMoves DEF MemoryLabel
  <1>2. Started' = Started \cup {p} /\ p \notin Started
    BY <1>1 DEF Started, M!Process
  <1>3. /\ Cardinality(Started') = Cardinality(Started) + 1
        /\ Cardinality(Started') <= Cardinality(M!Process)
    <2>1. IsFiniteSet(Started) /\ Started' \subseteq M!Process
      BY <1>2, StartedIds DEF Started
    <2>. QED BY <1>2, <2>1, MemoryIds, FS_AddElement, FS_Subset
  <1>4. made \in Nat /\ m_current \in 0..made /\ made <= Cardinality(Started)
        /\ Cardinality(Started) \in Nat
    BY StartedIds DEF MemoryInv, MemoryRanges, MemoryFound
  <1>5. /\ made' \in Nat /\ m_current' \in 1..made' /\ made' <= Cardinality(Started')
        /\ m_current' \in M!Id
    BY <1>3, <1>4, MemoryIds
  <1>6. /\ shmid' \in [M!Process -> M!Id \cup {0}] /\ shmid'[p] \in M!Id
        /\ \A q \in M!Process \ {p} : shmid'[q] = shmid[q]
    BY <1>5 DEF MemoryInv, MemoryRanges
  <1>7. 0 \notin M!Id
    BY MemoryIds
  <1>8. MemoryRanges'
    BY <1>1, <1>5, <1>6, MemoryConstants DEF MemoryInv, MemoryRanges
  <1>9. MemoryFound'
    <2>1. \A q \in Started' : shmid'[q] # 0
      BY <1>2, <1>6, <1>7, StartedIds DEF MemoryInv, MemoryFound
    <2>. QED BY <1>5, <2>1 DEF MemoryFound
  <1>10. MemoryTexts'
    BY <1>1, <1>6, MemoryConstants DEF MemoryInv, MemoryTexts
  <1>11. MemoryAttached'
    BY <1>1, <1>6 DEF MemoryInv, MemoryRanges, MemoryAttached
  <1>. QED BY <1>8, <1>9, <1>10, <1>11 DEF MemoryInv

\* Attaching, detaching, removing and being killed leave the segments as they are.
LEMMA MemoryHandles ==
    ASSUME MemoryInv, NEW p \in M!Process, M!Shmat(p) \/ M!Shmdt(p) \/ M!Shmctl(p) \/ M!Kill(p)
    PROVE  MemoryInv'
  <1>. USE DEF M!Shmat, M!Shmdt, M!Shmctl, M!Kill, M!memory
  <1>1. PICK label \in {"failed", "clear", "spin", "done", "shmctl"} : M!Goto(p, label)
    OBVIOUS
  <1>2. /\ m_pc[p] # "shmget" /\ m_pc' \in [M!Process -> MemoryLabel] /\ m_pc'[p] = label
        /\ \A q \in M!Process \ {p} : m_pc'[q] = m_pc[q]
    BY <1>1, MemoryMoves DEF MemoryLabel
  <1>3. Started' = Started /\ MemoryFound'
    BY <1>1, <1>2, StaysStarted DEF MemoryLabel
  <1>4. UNCHANGED <<shmid, made, complete, buf, m_printed>>
    OBVIOUS
  <1>5. label = "clear" => p[1] = "writer"
    BY <1>1, <1>2 DEF M!Goto, MemoryInv, MemoryRanges
  <1>6. label = "spin" => p[1] # "writer"
    BY <1>1, <1>2 DEF M!Goto, MemoryInv, MemoryRanges
  <1>7. p[1] # "writer" /\ label \in {"shmctl", "done"} => m_printed[p] = {1, 2}
    BY <1>1, <1>2 DEF M!Goto, MemoryInv, MemoryRanges, MemoryTexts
  <1>8. MemoryTexts'
    BY <1>2, <1>4, <1>5, <1>6, <1>7, MemoryConstants DEF MemoryInv, MemoryTexts
  <1>9. /\ m_current' \in 0..made' /\ attached' \subseteq M!Process
        /\ \A q \in attached' : m_pc'[q] \notin {"shmget", "shmat"}
    BY <1>2, <1>4 DEF MemoryInv, MemoryRanges, MemoryAttached
  <1>10. \A q \in attached' : shmid[q] \notin destroyed'
    <2>1. CASE M!Shmat(p)
      BY <2>1 DEF MemoryInv, MemoryAttached
    <2>2. CASE M!Shmdt(p) \/ M!Shmctl(p) \/ M!Kill(p)
      BY <2>2, GoneIsNotAttached
    <2>. QED BY <2>1, <2>2
  <1>11. MemoryRanges'
    BY <1>2, <1>4, <1>9, MemoryConstants DEF MemoryInv, MemoryRanges
  <1>12. MemoryAttached'
    BY <1>4, <1>9, <1>10 DEF MemoryAttached
  <1>. QED BY <1>3, <1>8, <1>11, <1>12 DEF MemoryInv

\* A writer clears and sets the flag of its segment, or adds to its text.
LEMMA MemoryWrite ==
    ASSUME MemoryInv, NEW p \in M!Process, M!Write(p)
    PROVE  MemoryInv'
  <1>. USE DEF M!Write
  <1>1. PICK label \in {"copy 1", "copy 2", "set", "shmdt"} : M!Goto(p, label)
    OBVIOUS
  <1>2. /\ m_pc[p] \in {"clear", "copy 1", "copy 2", "set"}
        /\ m_pc' \in [M!Process -> MemoryLabel] /\ m_pc'[p] = label
        /\ \A q \in M!Process \ {p} : m_pc'[q] = m_pc[q]
    BY <1>1, MemoryMoves DEF MemoryLabel
  <1>3. Started' = Started /\ MemoryFound'
    BY <1>1, <1>2, StaysStarted DEF MemoryLabel
  <1>4. UNCHANGED <<shmid, m_current, made, destroyed, attached, m_printed>>
    OBVIOUS
  <1>5. shmid[p] \in M!Id /\ p[1] = "writer"
    BY <1>2, StartedIds DEF MemoryInv, MemoryTexts
  <1>6. /\ complete \in [M!Id -> {0, 1}] /\ buf \in [M!Id -> SUBSET {1, 2}]
    BY DEF MemoryInv, MemoryRanges
  <1>7. /\ complete' \in [M!Id -> {0, 1}] /\ buf' \in [M!Id -> SUBSET {1, 2}]
        /\ \A s \in M!Id : buf[s] \subseteq buf'[s]
    <2>1. CASE m_pc[p] \in {"clear", "set"}
      BY <1>5, <1>6, <2>1
    <2>2. CASE m_pc[p] \in {"copy 1", "copy 2"}
      <3>. DEFINE text == buf[shmid[p]] \cup {IF m_pc[p] = "copy 1" THEN 1 ELSE 2}
      <3>1. text \in SUBSET {1, 2} /\ buf[shmid[p]] \subseteq text
        BY <1>5, <1>6
      <3>2. complete' = complete /\ buf' = [buf EXCEPT ![shmid[p]] = text]
        BY <2>2
      <3>. HIDE DEF text
      <3>. QED BY <1>5, <1>6, <3>1, <3>2
    <2>. QED BY <1>2, <2>1, <2>2
  <1>8. /\ label = "copy 2" => 1 \in buf'[shmid[p]]
        /\ label = "set" => buf'[shmid[p]] = {1, 2}
        /\ \A s \in M!Id : complete'[s] = 1 => complete[s] = 1 \/ buf'[s] = {1, 2}
    <2>1. CASE m_pc[p] \in {"clear", "set"}
      <3>1. /\ complete' = [complete EXCEPT ![shmid[p]] = IF m_pc[p] = "set" THEN 1 ELSE 0]
            /\ buf' = buf /\ label \in {"shmdt", "copy 1"}
        BY <1>2, <2>1 DEF M!Goto, MemoryInv, MemoryRanges
      <3>2. m_pc[p] = "set" => buf[shmid[p]] = {1, 2}
        BY DEF MemoryInv, MemoryTexts
      <3>. QED BY <1>5, <1>6, <3>1, <3>2
    <2>2. CASE m_pc[p] = "copy 1"
      <3>1. buf' = [buf EXCEPT ![shmid[p]] = @ \cup {1}] /\ complete' = complete /\ label = "copy 2"
        BY <1>2, <2>2 DEF M!Goto, MemoryInv, MemoryRanges
      <3>. QED BY <1>5, <1>6, <3>1
    <2>3. CASE m_pc[p] = "copy 2"
      <3>1. buf' = [buf EXCEPT ![shmid[p]] = @ \cup {2}] /\ complete' = complete /\ label = "set"
        BY <1>2, <2>3 DEF M!Goto, MemoryInv, MemoryRanges
      <3>2. 1 \in buf[shmid[p]] /\ buf[shmid[p]] \subseteq {1, 2}
        BY <1>5, <1>6, <2>3 DEF MemoryInv, MemoryTexts
      <3>3. buf'[shmid[p]] = {1, 2}
        BY <1>5, <1>6, <3>1, <3>2
      <3>. QED BY <3>1, <3>3
    <2>. QED BY <1>2, <2>1, <2>2, <2>3
  <1>9. MemoryTexts'
    <2>1. \A s \in M!Id : complete'[s] = 1 => buf'[s] = {1, 2}
      BY <1>7, <1>8 DEF MemoryInv, MemoryTexts
    <2>2. ASSUME NEW q \in M!Process
          PROVE  /\ m_pc'[q] = "copy 2" => 1 \in buf'[shmid[q]]
                 /\ m_pc'[q] \in {"set", "print"} => buf'[shmid[q]] = {1, 2}
      <3>1. CASE q = p
        BY <1>2, <1>8, <3>1
      <3>2. CASE q # p
        <4>1. m_pc'[q] \in {"copy 2", "set", "print"} => shmid[q] \in M!Id
          BY <1>2, <3>2, StartedIds
        <4>. QED BY <1>2, <1>7, <3>2, <4>1 DEF MemoryInv, MemoryTexts
      <3>. QED BY <3>1, <3>2
    <2>3. \A q \in M!Process :
             /\ m_pc'[q] \in {"clear", "copy 1", "copy 2", "set"} => q[1] = "writer"
             /\ q[1] # "writer" /\ m_pc'[q] \in {"shmdt", "shmctl", "done"} =>
                   m_printed'[q] = {1, 2}
      BY <1>2, <1>4, <1>5 DEF MemoryInv, MemoryTexts
    <2>. QED BY <1>4, <2>1, <2>2, <2>3, MemoryConstants DEF MemoryTexts
  <1>10. MemoryRanges' /\ MemoryAttached'
    BY <1>2, <1>4, <1>7, MemoryConstants DEF MemoryInv, MemoryRanges, MemoryAttached
  <1>. QED BY <1>3, <1>9, <1>10 DEF MemoryInv

\* A reader leaves the loop when the flag is set, and prints what is there.
LEMMA MemoryPrint ==
    ASSUME MemoryInv, NEW p \in M!Process, M!Spin(p) \/ M!PrintText(p)
    PROVE  MemoryInv'
  <1>. USE DEF M!Spin, M!PrintText, M!memory
  <1>1. PICK label \in {"print", "shmdt"} :
            M!Goto(p, label) /\ m_pc[p] = IF label = "print" THEN "spin" ELSE "print"
    OBVIOUS
  <1>2. /\ m_pc' \in [M!Process -> MemoryLabel] /\ m_pc'[p] = label
        /\ \A q \in M!Process \ {p} : m_pc'[q] = m_pc[q]
    BY <1>1, MemoryMoves DEF MemoryLabel
  <1>3. Started' = Started /\ MemoryFound'
    BY <1>1, <1>2, StaysStarted DEF MemoryLabel
  <1>4. UNCHANGED <<shmid, m_current, made, destroyed, attached, complete, buf>>
    OBVIOUS
  <1>5. shmid[p] \in M!Id /\ buf[shmid[p]] = {1, 2}
    BY <1>1, StartedIds DEF MemoryInv, MemoryTexts
  <1>6. /\ m_printed' \in [M!Process -> SUBSET {1, 2}]
        /\ \A q \in M!Process \ {p} : m_printed'[q] = m_printed[q]
        /\ label = "shmdt" => m_printed'[p] = {1, 2}
    BY <1>1, <1>5 DEF MemoryInv, MemoryRanges
  <1>7. MemoryTexts'
    BY <1>2, <1>4, <1>5, <1>6, MemoryConstants DEF MemoryInv, MemoryTexts
  <1>8. MemoryRanges' /\ MemoryAttached'
    BY <1>2, <1>4, <1>6, MemoryConstants DEF MemoryInv, MemoryRanges, MemoryAttached
  <1>. QED BY <1>3, <1>7, <1>8 DEF MemoryInv

LEMMA MemoryNext ==
    ASSUME MemoryInv, M!Next \/ UNCHANGED memory
    PROVE  MemoryInv'
  <1>1. CASE \E p \in M!Process : M!Step(p) \/ M!Kill(p)
    BY <1>1, MemoryShmget, MemoryHandles, MemoryWrite, MemoryPrint DEF M!Step
  <1>2. CASE UNCHANGED memory
    <2>1. Started' = Started
      BY <1>2 DEF memory, Started, M!Process
    <2>. QED BY <1>2, <2>1, MemoryConstants DEF memory, MemoryInv, MemoryRanges, MemoryFound, MemoryTexts,
                               MemoryAttached
  <1>. QED BY <1>1, <1>2 DEF M!Next, M!Stopped, M!vars, M!memory, memory

\* However often the writer is started, and whoever is killed when: a reader
\* that finds the flag set prints the whole text, and nobody has a segment
\* attached that is gone.
THEOREM ReadersPrintTheWholeText == Spec => []PrintsWholeText
  <1>1. Init => MemoryInv
    BY MemoryInit DEF Init
  <1>2. MemoryInv /\ [Next]_vars => MemoryInv'
    BY StepOfOne, MemoryNext
  <1>3. MemoryInv => PrintsWholeText
    BY DEF MemoryInv, MemoryTexts, MemoryAttached, PrintsWholeText, M!PrintsWholeText
  <1>. QED BY <1>1, <1>2, <1>3, PTL DEF Spec

-----------------------------------------------------------------------------
(* MessageQueue: a queue is removed by a reader that got a text from it, and *)
(* what was sent is where it was sent to until it is read or that happens.   *)

QueueLabel == {"msgget", "msgsnd", "msgrcv", "msgctl", "done"}

QueueRanges ==
    /\ msgid \in [Q!Process -> Q!Id \cup {0}]
    /\ q_current \in Q!Id \cup {0}
    /\ queues \in [Q!Id -> Seq(Q!Text)]
    /\ removed \subseteq Q!Id
    /\ q_pc \in [Q!Process -> QueueLabel]
    /\ sent \subseteq Q!Text
    /\ q_printed \in [Q!Process -> Q!Text \cup {Q!Nothing}]

\* Behind msgget a process knows its queue, and has printed nothing before msgrcv.
QueueKnown ==
    \A p \in Q!Process :
        /\ q_pc[p] # "msgget" => msgid[p] # 0
        /\ q_pc[p] \in {"msgget", "msgsnd", "msgrcv"} => q_printed[p] = Q!Nothing
        /\ q_pc[p] = "msgctl" => p[1] = "reader2" /\ q_printed[p] # Q!Nothing
        /\ q_pc[p] = "done" /\ p[1] # "writer" /\ q_printed[p] = Q!Nothing => msgid[p] \in removed

\* Writers send and the others receive.
QueueWriters ==
    \A p \in Q!Process :
        /\ q_pc[p] = "msgsnd" => p[1] = "writer"
        /\ q_pc[p] = "msgrcv" => p[1] # "writer"

\* Each removed queue was removed by a reader of its own, so that an
\* identifier is left for whoever finds no queue.
QueueRemover ==
    \A q \in removed : \E p \in Q!Process :
        p[1] = "reader2" /\ q_pc[p] = "done" /\ msgid[p] = q /\ q_printed[p] # Q!Nothing

\* Where a text is that was sent: printed, in its queue, or lost with it.
QueueSent ==
    \A m \in sent :
        /\ q_pc[m[1]] # "msgget"
        /\ \/ \E p \in Q!Process : q_printed[p] = m
           \/ \E k \in 1..Len(queues[msgid[m[1]]]) : queues[msgid[m[1]]][k] = m
           \/ msgid[m[1]] \in removed

QueueInv == QueueRanges /\ QueueKnown /\ QueueWriters /\ QueueRemover /\ QueueSent

LEMMA QueueConstants ==
    /\ Q!Process' = Q!Process /\ Q!Id' = Q!Id /\ Q!Text' = Q!Text /\ Q!Nothing' = Q!Nothing
    /\ 0 \notin Q!Id
    /\ \A m \in Q!Text : m # Q!Nothing /\ m[1] \in Q!Process /\ m[1][1] = "writer"
  <1>1. /\ Q!Process' = Q!Process /\ Q!Id' = Q!Id /\ Q!Text' = Q!Text
        /\ Q!Nothing' = Q!Nothing /\ 0 \notin Q!Id
    BY ProcessesAssumption DEF Q!Process, Q!Program, Q!Id, Q!Text, Q!Nothing
  <1>2. ASSUME NEW m \in Q!Text
        PROVE  m # Q!Nothing /\ m[1] \in Q!Process /\ m[1][1] = "writer"
    <2>1. m[1] \in {"writer"} \X (1..Runs)
      BY DEF Q!Text
    <2>2. m[1][1] = "writer" /\ m[1] \in Q!Process
      BY <2>1 DEF Q!Process, Q!Program
    <2>3. m[1] # <<"nobody", 0>>
      BY <2>2
    <2>. QED BY <2>2, <2>3 DEF Q!Nothing
  <1>. QED BY <1>1, <1>2

\* There is one identifier more than there are processes that remove a queue.
LEMMA QueueIdLeft ==
    ASSUME QueueInv
    PROVE  Q!Id \ removed # {}
  <1>. SUFFICES ASSUME Q!Id \subseteq removed PROVE FALSE
    OBVIOUS
  <1>. DEFINE Run == 1..Runs
              f == [q \in Q!Id |-> CHOOSE n \in Run : msgid[<<"reader2", n>>] = q]
  <1>1. \A q \in Q!Id : \E n \in Run : msgid[<<"reader2", n>>] = q
    <2>. SUFFICES ASSUME NEW q \in Q!Id
                  PROVE  \E n \in Run : msgid[<<"reader2", n>>] = q
      OBVIOUS
    <2>1. PICK p \in Q!Process : p[1] = "reader2" /\ msgid[p] = q
      BY DEF QueueInv, QueueRemover
    <2>2. p = <<p[1], p[2]>> /\ p[2] \in Run
      BY DEF Q!Process
    <2>. QED BY <2>1, <2>2
  <1>2. f \in [Q!Id -> Run] /\ \A q \in Q!Id : msgid[<<"reader2", f[q]>>] = q
    BY <1>1
  <1>3. /\ IsFiniteSet(Run) /\ IsFiniteSet(Q!Id)
        /\ Cardinality(Run) < Cardinality(Q!Id)
    <2>1. 1 \in Int /\ Runs \in Nat /\ Runs + 1 \in Int
      BY ProcessesAssumption
    <2>2. IsFiniteSet(1..Runs) /\ Cardinality(1..Runs) = Runs
      BY <2>1, FS_Interval
    <2>3. IsFiniteSet(1..(Runs + 1)) /\ Cardinality(1..(Runs + 1)) = Runs + 1
      BY <2>1, FS_Interval
    <2>. QED BY <2>1, <2>2, <2>3 DEF Q!Id
  <1>4. \E x, y \in Q!Id : x # y /\ f[x] = f[y]
    <2>. HIDE DEF f, Run
    <2>. QED BY <1>2, <1>3, FS_PigeonHole
  <1>. HIDE DEF f
  <1>. QED BY <1>2, <1>4

\* What moving a process to another label does to pc.
LEMMA QueueMoves ==
    ASSUME QueueInv, NEW p \in Q!Process, NEW label \in QueueLabel, Q!Goto(p, label)
    PROVE  /\ q_pc' \in [Q!Process -> QueueLabel]
           /\ q_pc'[p] = label
           /\ \A q \in Q!Process \ {p} : q_pc'[q] = q_pc[q]
  BY DEF QueueInv, QueueRanges, Q!Goto

\* The author of a text that was sent knows its queue.
LEMMA QueueOfSent ==
    ASSUME QueueInv
    PROVE  /\ \A m \in sent : m \in Q!Text /\ m[1] \in Q!Process /\ msgid[m[1]] \in Q!Id
           /\ \A p \in Q!Process : q_pc[p] # "msgget" => msgid[p] \in Q!Id
  <1>1. \A p \in Q!Process : q_pc[p] # "msgget" => msgid[p] \in Q!Id
    BY DEF QueueInv, QueueRanges, QueueKnown
  <1>2. \A m \in sent : m \in Q!Text /\ m[1] \in Q!Process /\ q_pc[m[1]] # "msgget"
    BY QueueConstants DEF QueueInv, QueueRanges, QueueSent
  <1>. QED BY <1>1, <1>2

LEMMA QueueInit == Q!Init => QueueInv
  <1>. SUFFICES ASSUME Q!Init PROVE QueueInv
    OBVIOUS
  <1>1. QueueRanges
    BY DEF Q!Init, QueueRanges, QueueLabel
  <1>2. QueueKnown /\ QueueWriters /\ QueueRemover /\ QueueSent
    BY DEF Q!Init, QueueKnown, QueueWriters, QueueRemover, QueueSent
  <1>. QED BY <1>1, <1>2 DEF QueueInv

LEMMA QueueMsgget ==
    ASSUME QueueInv, NEW p \in Q!Process, Q!Msgget(p)
    PROVE  QueueInv'
  <1>. DEFINE label == IF p[1] = "writer" THEN "msgsnd" ELSE "msgrcv"
  <1>1. /\ q_pc[p] = "msgget" /\ q_pc' \in [Q!Process -> QueueLabel] /\ q_pc'[p] = label
        /\ \A q \in Q!Process \ {p} : q_pc'[q] = q_pc[q]
    BY QueueMoves DEF Q!Msgget, QueueLabel
  <1>2. q_current' \in Q!Id
    BY QueueIdLeft DEF Q!Msgget, QueueInv, QueueRanges
  <1>3. /\ msgid' \in [Q!Process -> Q!Id \cup {0}] /\ msgid'[p] \in Q!Id
        /\ \A q \in Q!Process \ {p} : msgid'[q] = msgid[q]
    BY <1>2 DEF Q!Msgget, QueueInv, QueueRanges
  <1>4. UNCHANGED <<queues, removed, sent, q_printed>>
    BY DEF Q!Msgget
  <1>5. QueueRanges'
    BY <1>1, <1>2, <1>3, <1>4, QueueConstants DEF QueueInv, QueueRanges
  <1>6. QueueKnown' /\ QueueWriters'
    BY <1>1, <1>3, <1>4, QueueConstants DEF QueueInv, QueueKnown, QueueWriters
  <1>7. QueueRemover'
    BY <1>1, <1>3, <1>4, QueueConstants DEF QueueInv, QueueRemover
  <1>8. QueueSent'
    <2>1. \A m \in sent : m[1] \in Q!Process \ {p}
      BY <1>1, QueueOfSent DEF QueueInv, QueueSent
    <2>. QED BY <1>1, <1>3, <1>4, <2>1, QueueConstants DEF QueueInv, QueueSent
  <1>. QED BY <1>5, <1>6, <1>7, <1>8 DEF QueueInv

\* A text goes to the end of its queue, or is lost with it.
LEMMA QueueMsgsnd ==
    ASSUME QueueInv, NEW p \in Q!Process, Q!Msgsnd(p)
    PROVE  QueueInv'
  <1>1. PICK k \in {1, 2} :
            /\ sent' = sent \cup {<<p, k>>}
            /\ queues' = IF msgid[p] \in removed THEN queues
                         ELSE [queues EXCEPT ![msgid[p]] = Append(@, <<p, k>>)]
            /\ Q!Goto(p, IF k = 2 THEN "done" ELSE "msgsnd")
    BY DEF Q!Msgsnd
  <1>2. /\ q_pc[p] = "msgsnd" /\ UNCHANGED <<msgid, q_current, removed, q_printed>>
    BY DEF Q!Msgsnd
  <1>3. PICK label \in {"msgsnd", "done"} :
            /\ q_pc' \in [Q!Process -> QueueLabel] /\ q_pc'[p] = label
            /\ \A q \in Q!Process \ {p} : q_pc'[q] = q_pc[q]
    BY <1>1, QueueMoves DEF QueueLabel
  <1>4. msgid[p] \in Q!Id /\ p[1] = "writer" /\ <<p, k>> \in Q!Text
    <2>1. p[1] = "writer"
      BY <1>2 DEF QueueInv, QueueWriters
    <2>2. p \in {"writer"} \X (1..Runs)
      BY <2>1 DEF Q!Process
    <2>. QED BY <1>2, <2>1, <2>2, QueueOfSent DEF Q!Text
  <1>5. ASSUME NEW q \in Q!Id
        PROVE  /\ queues[q] \in Seq(Q!Text) /\ queues'[q] \in Seq(Q!Text)
               /\ Len(queues'[q]) >= Len(queues[q])
               /\ \A n \in 1..Len(queues[q]) : queues'[q][n] = queues[q][n]
    <2>1. queues \in [Q!Id -> Seq(Q!Text)]
      BY DEF QueueInv, QueueRanges
    <2>2. queues'[q] = queues[q] \/ queues'[q] = Append(queues[q], <<p, k>>)
      BY <1>1, <1>4, <2>1
    <2>3. queues[q] \in Seq(Q!Text) /\ Len(queues[q]) \in Nat
      BY <2>1
    <2>4. CASE queues'[q] = queues[q]
      BY <2>3, <2>4
    <2>5. CASE queues'[q] = Append(queues[q], <<p, k>>)
      <3>1. /\ Append(queues[q], <<p, k>>) \in Seq(Q!Text)
            /\ Len(Append(queues[q], <<p, k>>)) = Len(queues[q]) + 1
            /\ \A n \in 1..Len(queues[q]) : Append(queues[q], <<p, k>>)[n] = queues[q][n]
        BY <1>4, <2>3, AppendProperties
      <3>2. Len(queues[q]) + 1 >= Len(queues[q])
        BY <2>3
      <3>. QED BY <2>3, <2>5, <3>1, <3>2
    <2>. QED BY <2>2, <2>4, <2>5
  <1>6. msgid[p] \notin removed =>
            \E n \in 1..Len(queues'[msgid[p]]) : queues'[msgid[p]][n] = <<p, k>>
    <2>. SUFFICES ASSUME msgid[p] \notin removed
                  PROVE  \E n \in 1..Len(queues'[msgid[p]]) : queues'[msgid[p]][n] = <<p, k>>
      OBVIOUS
    <2>1. queues'[msgid[p]] = Append(queues[msgid[p]], <<p, k>>)
      BY <1>1, <1>4 DEF QueueInv, QueueRanges
    <2>2. queues[msgid[p]] \in Seq(Q!Text)
      BY <1>4, <1>5
    <2>3. /\ Len(queues'[msgid[p]]) = Len(queues[msgid[p]]) + 1
          /\ Len(queues[msgid[p]]) \in Nat
          /\ queues'[msgid[p]][Len(queues[msgid[p]]) + 1] = <<p, k>>
      BY <1>4, <2>1, <2>2
    <2>. QED BY <2>3
  <1>7. QueueRanges'
    <2>1. queues' \in [Q!Id -> Seq(Q!Text)] /\ sent' \subseteq Q!Text
      BY <1>1, <1>4, <1>5 DEF QueueInv, QueueRanges
    <2>. QED BY <1>2, <1>3, <2>1, QueueConstants DEF QueueInv, QueueRanges
  <1>8. QueueKnown' /\ QueueWriters'
    BY <1>2, <1>3, <1>4, QueueConstants DEF QueueInv, QueueKnown, QueueWriters
  <1>9. QueueRemover'
    BY <1>2, <1>3, QueueConstants DEF QueueInv, QueueRemover
  <1>10. QueueSent'
    <2>. SUFFICES ASSUME NEW m \in sent'
                  PROVE  /\ q_pc'[m[1]] # "msgget"
                         /\ \/ \E q \in Q!Process : q_printed[q] = m
                            \/ \E n \in 1..Len(queues'[msgid[m[1]]]) : queues'[msgid[m[1]]][n] = m
                            \/ msgid[m[1]] \in removed
      BY <1>2, QueueConstants DEF QueueSent
    <2>1. CASE m = <<p, k>>
      BY <1>3, <1>6, <2>1
    <2>2. CASE m \in sent
      <3>1. msgid[m[1]] \in Q!Id /\ m[1] \in Q!Process /\ q_pc[m[1]] # "msgget"
        BY <2>2, QueueOfSent DEF QueueInv, QueueSent
      <3>2. \/ \E q \in Q!Process : q_printed[q] = m
            \/ \E n \in 1..Len(queues[msgid[m[1]]]) : queues[msgid[m[1]]][n] = m
            \/ msgid[m[1]] \in removed
        BY <2>2 DEF QueueInv, QueueSent
      <3>3. (\E n \in 1..Len(queues[msgid[m[1]]]) : queues[msgid[m[1]]][n] = m) =>
                \E n \in 1..Len(queues'[msgid[m[1]]]) : queues'[msgid[m[1]]][n] = m
        BY <1>5, <3>1
      <3>. QED BY <1>3, <3>1, <3>2, <3>3
    <2>. QED BY <1>1, <2>1, <2>2
  <1>. QED BY <1>7, <1>8, <1>9, <1>10 DEF QueueInv

\* The first text of a queue goes to the one that waits for it; the queue of
\* one that comes too late is gone.
LEMMA QueueMsgrcv ==
    ASSUME QueueInv, NEW p \in Q!Process, Q!Msgrcv(p)
    PROVE  QueueInv'
  <1>1. q_pc[p] = "msgrcv" /\ UNCHANGED <<msgid, q_current, removed, sent>>
    BY DEF Q!Msgrcv
  <1>2. msgid[p] \in Q!Id /\ p[1] # "writer" /\ q_printed[p] = Q!Nothing
    BY <1>1, QueueOfSent DEF QueueInv, QueueKnown, QueueWriters
  <1>3. CASE msgid[p] \in removed /\ Q!Goto(p, "done") /\ UNCHANGED <<queues, q_printed>>
    <2>1. /\ q_pc' \in [Q!Process -> QueueLabel] /\ q_pc'[p] = "done"
          /\ \A q \in Q!Process \ {p} : q_pc'[q] = q_pc[q]
      BY <1>3, QueueMoves DEF QueueLabel
    <2>2. QueueRanges' /\ QueueKnown' /\ QueueWriters'
      BY <1>1, <1>2, <1>3, <2>1, QueueConstants
         DEF QueueInv, QueueRanges, QueueKnown, QueueWriters
    <2>3. QueueRemover'
      BY <1>1, <1>3, <2>1, QueueConstants DEF QueueInv, QueueRemover
    <2>4. QueueSent'
      BY <1>1, <1>3, <2>1, QueueOfSent, QueueConstants DEF QueueInv, QueueSent
    <2>. QED BY <2>2, <2>3, <2>4 DEF QueueInv
  <1>4. CASE /\ msgid[p] \notin removed /\ queues[msgid[p]] # <<>>
             /\ q_printed' = [q_printed EXCEPT ![p] = Head(queues[msgid[p]])]
             /\ queues' = [queues EXCEPT ![msgid[p]] = Tail(@)]
             /\ Q!Goto(p, IF p[1] = "reader2" THEN "msgctl" ELSE "done")
    <2>. DEFINE label == IF p[1] = "reader2" THEN "msgctl" ELSE "done"
                text == Head(queues[msgid[p]])
    <2>1. /\ q_pc' \in [Q!Process -> QueueLabel] /\ q_pc'[p] = label
          /\ \A q \in Q!Process \ {p} : q_pc'[q] = q_pc[q]
      BY <1>4, QueueMoves DEF QueueLabel
    <2>2. queues \in [Q!Id -> Seq(Q!Text)] /\ q_printed \in [Q!Process -> Q!Text \cup {Q!Nothing}]
      BY DEF QueueInv, QueueRanges
    <2>3. /\ queues[msgid[p]] \in Seq(Q!Text) /\ Len(queues[msgid[p]]) \in Nat \ {0}
          /\ text \in Q!Text /\ text = queues[msgid[p]][1]
          /\ Tail(queues[msgid[p]]) \in Seq(Q!Text)
      BY <1>2, <1>4, <2>2
    <2>4. /\ q_printed' \in [Q!Process -> Q!Text \cup {Q!Nothing}]
          /\ q_printed'[p] = text
          /\ \A q \in Q!Process \ {p} : q_printed'[q] = q_printed[q]
      BY <1>4, <2>2, <2>3
    <2>5. /\ queues' \in [Q!Id -> Seq(Q!Text)]
          /\ queues'[msgid[p]] = Tail(queues[msgid[p]])
          /\ \A q \in Q!Id \ {msgid[p]} : queues'[q] = queues[q]
      BY <1>2, <1>4, <2>2, <2>3
    <2>6. text # Q!Nothing
      BY <2>3, QueueConstants
    <2>7. QueueRanges'
      BY <1>1, <2>1, <2>4, <2>5, QueueConstants DEF QueueInv, QueueRanges
    <2>8. QueueKnown' /\ QueueWriters'
      BY <1>1, <1>2, <2>1, <2>4, <2>6, QueueConstants DEF QueueInv, QueueKnown, QueueWriters
    <2>9. QueueRemover'
      BY <1>1, <2>1, <2>4, <2>6, QueueConstants DEF QueueInv, QueueRemover
    <2>10. QueueSent'
      <3>. SUFFICES ASSUME NEW m \in sent
                    PROVE  /\ q_pc'[m[1]] # "msgget"
                           /\ \/ \E q \in Q!Process : q_printed'[q] = m
                              \/ \E n \in 1..Len(queues'[msgid[m[1]]]) : queues'[msgid[m[1]]][n] = m
                              \/ msgid[m[1]] \in removed
        BY <1>1, QueueConstants DEF QueueSent
      <3>1. /\ msgid[m[1]] \in Q!Id /\ m[1] \in Q!Process /\ m \in Q!Text
            /\ q_pc'[m[1]] # "msgget"
        BY <2>1, QueueOfSent DEF QueueInv, QueueSent
      <3>2. CASE \E q \in Q!Process : q_printed[q] = m
        <4>1. PICK q \in Q!Process : q_printed[q] = m
          BY <3>2
        <4>2. q # p
          BY <1>2, <3>1, <4>1, QueueConstants
        <4>. QED BY <2>4, <3>1, <4>1, <4>2
      <3>3. CASE \E n \in 1..Len(queues[msgid[m[1]]]) : queues[msgid[m[1]]][n] = m
        <4>1. PICK n \in 1..Len(queues[msgid[m[1]]]) : queues[msgid[m[1]]][n] = m
          BY <3>3
        <4>2. CASE msgid[m[1]] # msgid[p]
          BY <2>5, <3>1, <4>1, <4>2
        <4>3. CASE msgid[m[1]] = msgid[p] /\ n = 1
          BY <2>3, <2>4, <3>1, <4>1, <4>3
        <4>4. CASE msgid[m[1]] = msgid[p] /\ n # 1
          <5>1. /\ n - 1 \in 1..Len(Tail(queues[msgid[p]]))
                /\ Tail(queues[msgid[p]])[n - 1] = queues[msgid[p]][n]
            BY <2>3, <4>1, <4>4
          <5>. QED BY <2>5, <3>1, <4>1, <4>4, <5>1
        <4>. QED BY <4>2, <4>3, <4>4
      <3>. QED BY <3>1, <3>2, <3>3 DEF QueueInv, QueueSent
    <2>. QED BY <2>7, <2>8, <2>9, <2>10 DEF QueueInv
  <1>. QED BY <1>3, <1>4 DEF Q!Msgrcv

\* A reader that has its text removes the queue that it came from.
LEMMA QueueMsgctl ==
    ASSUME QueueInv, NEW p \in Q!Process, Q!Msgctl(p)
    PROVE  QueueInv'
  <1>1. /\ q_pc[p] = "msgctl" /\ q_pc' \in [Q!Process -> QueueLabel] /\ q_pc'[p] = "done"
        /\ \A q \in Q!Process \ {p} : q_pc'[q] = q_pc[q]
    BY QueueMoves DEF Q!Msgctl, QueueLabel
  <1>2. /\ msgid[p] \in Q!Id /\ p[1] = "reader2" /\ q_printed[p] # Q!Nothing
    BY <1>1, QueueOfSent DEF QueueInv, QueueKnown
  <1>3. /\ UNCHANGED <<msgid, sent, q_printed>>
        /\ removed' = removed \cup {msgid[p]}
        /\ q_current' \in Q!Id \cup {0}
    BY DEF Q!Msgctl, QueueInv, QueueRanges
  <1>4. /\ queues' \in [Q!Id -> Seq(Q!Text)]
        /\ \A q \in Q!Id \ {msgid[p]} : queues'[q] = queues[q]
    <2>1. queues \in [Q!Id -> Seq(Q!Text)] /\ <<>> \in Seq(Q!Text)
      BY DEF QueueInv, QueueRanges
    <2>2. queues' = [queues EXCEPT ![msgid[p]] = <<>>]
      BY DEF Q!Msgctl
    <2>. QED BY <1>2, <2>1, <2>2
  <1>5. QueueRanges'
    BY <1>1, <1>2, <1>3, <1>4, QueueConstants DEF QueueInv, QueueRanges
  <1>6. QueueKnown' /\ QueueWriters'
    BY <1>1, <1>2, <1>3, QueueConstants DEF QueueInv, QueueKnown, QueueWriters
  <1>7. QueueRemover'
    BY <1>1, <1>2, <1>3, QueueConstants DEF QueueInv, QueueRemover
  <1>8. QueueSent'
    <2>. SUFFICES ASSUME NEW m \in sent
                  PROVE  /\ q_pc'[m[1]] # "msgget"
                         /\ \/ \E q \in Q!Process : q_printed[q] = m
                            \/ \E n \in 1..Len(queues'[msgid[m[1]]]) : queues'[msgid[m[1]]][n] = m
                            \/ msgid[m[1]] \in removed'
      BY <1>3, QueueConstants DEF QueueSent
    <2>1. msgid[m[1]] \in Q!Id /\ m[1] \in Q!Process /\ q_pc[m[1]] # "msgget"
      BY QueueOfSent DEF QueueInv, QueueSent
    <2>2. CASE msgid[m[1]] = msgid[p]
      BY <1>1, <1>3, <2>1, <2>2
    <2>3. CASE msgid[m[1]] # msgid[p]
      BY <1>1, <1>3, <1>4, <2>1, <2>3 DEF QueueInv, QueueSent
    <2>. QED BY <2>2, <2>3
  <1>. QED BY <1>5, <1>6, <1>7, <1>8 DEF QueueInv

LEMMA QueueNext ==
    ASSUME QueueInv, Q!Next \/ UNCHANGED queue
    PROVE  QueueInv'
  <1>1. CASE \E p \in Q!Process : Q!Step(p)
    BY <1>1, QueueMsgget, QueueMsgsnd, QueueMsgrcv, QueueMsgctl DEF Q!Step
  <1>2. CASE UNCHANGED queue
    <2>1. QueueRanges' /\ QueueKnown' /\ QueueWriters'
      BY <1>2, QueueConstants DEF queue, QueueInv, QueueRanges, QueueKnown, QueueWriters
    <2>2. QueueRemover' /\ QueueSent'
      BY <1>2, QueueConstants DEF queue, QueueInv, QueueRemover, QueueSent
    <2>. QED BY <2>1, <2>2 DEF QueueInv
  <1>. QED BY <1>1, <1>2 DEF Q!Next, Q!Stopped, Q!vars, queue

\* For any number of runs of the three programs: a text that was sent is
\* printed or in its queue unless that was removed; who ends without a text
\* found its queue removed; and no queue is removed of which no text was read.
THEOREM TextsAreLostOnlyByRemoval == Spec => []LostOnlyByRemoval
  <1>1. Init => QueueInv
    BY QueueInit DEF Init
  <1>2. QueueInv /\ [Next]_vars => QueueInv'
    BY StepOfOne, QueueNext
  <1>3. QueueInv => LostOnlyByRemoval
    <2>. SUFFICES ASSUME QueueInv PROVE Q!LostOnlyByRemoval
      BY DEF LostOnlyByRemoval
    <2>1. ASSUME NEW m \in sent
          PROVE  \/ \E p \in Q!Process : q_printed[p] = m
                 \/ \E k \in DOMAIN queues[msgid[m[1]]] : queues[msgid[m[1]]][k] = m
                 \/ msgid[m[1]] \in removed
      <3>1. queues[msgid[m[1]]] \in Seq(Q!Text)
        BY QueueOfSent DEF QueueInv, QueueRanges
      <3>2. DOMAIN queues[msgid[m[1]]] = 1..Len(queues[msgid[m[1]]])
        BY <3>1
      <3>. QED BY <3>2 DEF QueueInv, QueueSent
    <2>2. \A p \in Q!Process :
             q_pc[p] = "done" /\ p[1] # "writer" /\ q_printed[p] = Q!Nothing => msgid[p] \in removed
      BY DEF QueueInv, QueueKnown
    <2>3. \A q \in removed : \E p \in Q!Process : msgid[p] = q /\ q_printed[p] # Q!Nothing
      BY DEF QueueInv, QueueRemover
    <2>. QED BY <2>1, <2>2, <2>3 DEF Q!LostOnlyByRemoval
  <1>. QED BY <1>1, <1>2, <1>3, PTL DEF Spec

-----------------------------------------------------------------------------
(* PingPongPipes: a message that is under way, and a process that is going  *)
(* to write, are turns: there is one of them over pipes and there are two   *)
(* over fifos, less one when two messages were read as one.                 *)

Opening    == {"mkfifo 1", "mkfifo 2", "open", "opening 1", "opening 2"}
PipesLabel == Opening \cup {"close", "write", "read", "ended"}

PipesRanges ==
    /\ p_setting \in {"pipes", "fifos"}
    /\ p_pc \in [P!Process -> PipesLabel]
    /\ channel \in [P!Process -> Nat]
    /\ swallowed \in Nat

\* Those that are going to write before they read again.
MayWrite(p) ==
    IF p_pc[p] = "write" \/ (p_setting = "pipes" /\ p = "ping" /\ p_pc[p] = "close")
    THEN 1 ELSE 0

UnderWay == channel["ping"] + channel["pong"]

PipesLimit == IF p_setting = "pipes" THEN 1 ELSE 2 - swallowed

\* Only ends of pipes are closed, only fifos are opened, and nobody writes
\* before both have opened the fifos.
PipesBefore ==
    /\ (p_setting = "fifos" /\ \A p \in P!Process : p_pc[p] \notin {"write", "read", "ended"}) =>
          UnderWay = 0 /\ swallowed = 0
    /\ \A p \in P!Process :
          /\ p_pc[p] = "close" => p_setting = "pipes"
          /\ p_pc[p] \in Opening => p_setting = "fifos"

\* When one of them has ended the other may read, but what it writes is lost.
PipesTurns ==
    /\ swallowed <= (IF p_setting = "pipes" THEN 0 ELSE 1)
    /\ UnderWay <= PipesLimit
    /\ (\A p \in P!Process : p_pc[p] # "ended") =>
          UnderWay + MayWrite("ping") + MayWrite("pong") <= PipesLimit

PipesInv == PipesRanges /\ PipesBefore /\ PipesTurns

-----------------------------------------------------------------------------

LEMMA PipesMoves ==
    ASSUME PipesInv, NEW p \in P!Process, NEW label \in PipesLabel, P!Goto(p, label)
    PROVE  /\ p_pc' \in [P!Process -> PipesLabel]
           /\ p_pc'[p] = label
           /\ \A q \in P!Process \ {p} : p_pc'[q] = p_pc[q]
  BY DEF PipesInv, PipesRanges, P!Goto

LEMMA PipesPeer ==
    ASSUME NEW p \in P!Process
    PROVE  /\ P!Peer(p) \in P!Process /\ P!Peer(p) # p /\ P!Process = {p, P!Peer(p)}
           /\ (p = "ping" /\ P!Peer(p) = "pong") \/ (p = "pong" /\ P!Peer(p) = "ping")
  <1>1. CASE p = "ping"
    BY <1>1 DEF P!Peer, P!Process
  <1>2. CASE p = "pong"
    BY <1>2 DEF P!Peer, P!Process
  <1>. QED BY <1>1, <1>2 DEF P!Process

\* The turns as numbers.
LEMMA PipesNumbers ==
    ASSUME PipesInv
    PROVE  /\ channel["ping"] \in Nat /\ channel["pong"] \in Nat /\ swallowed \in Nat
           /\ UnderWay \in Nat /\ PipesLimit \in Int
           /\ \A p \in P!Process : MayWrite(p) \in {0, 1}
  BY DEF PipesInv, PipesRanges, UnderWay, PipesLimit, MayWrite, P!Process

LEMMA PipesInit == P!Init => PipesInv
  <1>. SUFFICES ASSUME P!Init PROVE PipesInv
    OBVIOUS
  <1>1. PipesRanges
    BY DEF PipesRanges, PipesLabel, Opening, P!Init, P!Process
  <1>2. UnderWay = 0 /\ swallowed = 0
    <2>1. channel["ping"] = 0 /\ channel["pong"] = 0 /\ swallowed = 0
      BY DEF P!Init, P!Process
    <2>. QED BY <2>1 DEF UnderWay
  <1>3. PipesBefore
    <2>1. /\ p_setting = "pipes" => \A p \in P!Process : p_pc[p] = "close"
          /\ p_setting = "fifos" => \A p \in P!Process : p_pc[p] \in Opening
          /\ p_setting \in {"pipes", "fifos"}
      BY DEF P!Init, P!Process, Opening
    <2>2. "close" \notin Opening
      BY DEF Opening
    <2>. QED BY <1>2, <2>1, <2>2 DEF PipesBefore
  <1>4. MayWrite("ping") = (IF p_setting = "pipes" THEN 1 ELSE 0) /\ MayWrite("pong") = 0
    BY DEF MayWrite, P!Init, P!Process
  <1>5. PipesTurns
    <2>1. CASE p_setting = "pipes"
      BY <1>2, <1>4, <2>1 DEF PipesTurns, PipesLimit
    <2>2. CASE p_setting # "pipes"
      <3>1. MayWrite("ping") = 0 /\ MayWrite("pong") = 0
        BY <1>4, <2>2
      <3>2. PipesLimit = 2
        BY <1>2, <2>2 DEF PipesLimit
      <3>. QED BY <1>2, <2>2, <3>1, <3>2 DEF PipesTurns
    <2>. QED BY <2>1, <2>2
  <1>. QED BY <1>1, <1>3, <1>5 DEF PipesInv

\* A process that ends, or goes on without having the turn, leaves the turns
\* as they are or makes them fewer.
LEMMA PipesNoTurn ==
    ASSUME PipesInv, NEW p \in P!Process, NEW label \in PipesLabel \ {"close"}, P!Goto(p, label),
           p_pc[p] # "ended",
           UNCHANGED <<p_setting, channel, swallowed>>,
           label = "write" => p_pc[p] = "close" /\ p = "ping",
           label = "read" => p_pc[p] = "close",
           label \in Opening => p_pc[p] \in Opening
    PROVE  PipesInv'
  <1>1. /\ p_pc' \in [P!Process -> PipesLabel] /\ p_pc'[p] = label
        /\ \A q \in P!Process \ {p} : p_pc'[q] = p_pc[q]
    BY PipesMoves
  <1>2. PipesRanges'
    BY <1>1 DEF PipesInv, PipesRanges, P!Process
  <1>3. UnderWay' = UnderWay /\ PipesLimit' = PipesLimit
    BY DEF UnderWay, PipesLimit
  <1>4. PipesBefore'
    BY <1>1, <1>3 DEF PipesInv, PipesBefore, P!Process, PipesLabel, Opening
  <1>5. \A q \in P!Process : MayWrite(q)' = MayWrite(q) \/ MayWrite(q)' = 0
    <2>1. MayWrite(p)' = 1 => MayWrite(p) = 1
      BY <1>1 DEF MayWrite, PipesInv, PipesBefore
    <2>2. \A q \in P!Process : MayWrite(q) \in {0, 1} /\ MayWrite(q)' \in {0, 1}
      BY DEF MayWrite
    <2>3. \A q \in P!Process \ {p} : MayWrite(q)' = MayWrite(q)
      BY <1>1 DEF MayWrite
    <2>. QED BY <2>1, <2>2, <2>3
  <1>6. PipesTurns'
    <2>1. ASSUME (\A q \in P!Process : p_pc[q] # "ended")'
          PROVE  (UnderWay + MayWrite("ping") + MayWrite("pong") <= PipesLimit)'
      <3>1. \A q \in P!Process : p_pc[q] # "ended"
        BY <1>1, <2>1
      <3>2. UnderWay + MayWrite("ping") + MayWrite("pong") <= PipesLimit
        BY <3>1 DEF PipesInv, PipesTurns
      <3>3. "ping" \in P!Process /\ "pong" \in P!Process
        BY DEF P!Process
      <3>4. PICK a \in {0, 1}, b \in {0, 1} : MayWrite("ping") = a /\ MayWrite("pong") = b
        BY DEF MayWrite
      <3>5. PICK c \in {0, a}, d \in {0, b} : MayWrite("ping")' = c /\ MayWrite("pong")' = d
        BY <1>5, <3>3, <3>4
      <3>6. UnderWay + a + b <= PipesLimit /\ UnderWay \in Nat /\ PipesLimit \in Int
        BY <3>2, <3>4, PipesNumbers
      <3>7. UnderWay + c + d <= PipesLimit
        <4>1. \A u \in Nat, l \in Int : u + a + b <= l => u + c + d <= l
          OBVIOUS
        <4>. QED BY <3>6, <4>1
      <3>. QED BY <1>3, <3>5, <3>7
    <2>. QED BY <1>3, <2>1 DEF PipesInv, PipesTurns
  <1>. QED BY <1>2, <1>4, <1>6 DEF PipesInv

LEMMA PipesWrite ==
    ASSUME PipesInv, NEW p \in P!Process, P!Write(p)
    PROVE  PipesInv'
  <1>1. CASE p_pc[P!Peer(p)] = "ended"
    BY <1>1, PipesNoTurn DEF P!Write, P!At, PipesLabel, Opening
  <1>2. CASE p_pc[P!Peer(p)] # "ended"
    <2>. DEFINE q == P!Peer(p)
    <2>1. /\ q \in P!Process /\ q # p /\ P!Process = {p, q}
          /\ (p = "ping" /\ q = "pong") \/ (p = "pong" /\ q = "ping")
      BY PipesPeer
    <2>2. /\ p_pc[p] = "write" /\ channel' = [channel EXCEPT ![q] = @ + 1]
          /\ P!Goto(p, "read") /\ UNCHANGED <<p_setting, swallowed>>
      BY <1>2 DEF P!Write, P!At
    <2>. HIDE DEF q
    <2>3. /\ p_pc' \in [P!Process -> PipesLabel] /\ p_pc'[p] = "read" /\ p_pc'[q] = p_pc[q]
      BY <2>1, <2>2, PipesMoves DEF PipesLabel, Opening
    <2>4. /\ channel' \in [P!Process -> Nat] /\ channel'[p] = channel[p]
          /\ channel'[q] = channel[q] + 1
      BY <2>1, <2>2 DEF PipesInv, PipesRanges
    <2>5. UnderWay' = UnderWay + 1 /\ PipesLimit' = PipesLimit
      BY <2>1, <2>2, <2>4, PipesNumbers DEF UnderWay, PipesLimit
    <2>6. MayWrite(p) = 1 /\ MayWrite(p)' = 0 /\ MayWrite(q)' = MayWrite(q)
      BY <2>2, <2>3 DEF MayWrite
    <2>7. PipesRanges' /\ PipesBefore'
      BY <2>1, <2>2, <2>3, <2>4 DEF PipesInv, PipesRanges, PipesBefore, Opening
    <2>8. UnderWay + MayWrite("ping") + MayWrite("pong") <= PipesLimit
      BY <1>2, <2>1, <2>2 DEF PipesInv, PipesTurns, q
    <2>9. UnderWay + 1 + MayWrite(q) <= PipesLimit
      BY <2>1, <2>6, <2>8, PipesNumbers
    <2>10. /\ UnderWay' <= PipesLimit'
           /\ UnderWay' + MayWrite(p)' + MayWrite(q)' <= PipesLimit'
      BY <2>1, <2>5, <2>6, <2>9, PipesNumbers
    <2>11. (UnderWay + MayWrite("ping") + MayWrite("pong") <= PipesLimit)'
      <3>1. CASE p = "ping" /\ q = "pong"
        BY <2>10, <3>1
      <3>2. CASE p = "pong" /\ q = "ping"
        BY <2>1, <2>5, <2>6, <2>10, <3>2, PipesNumbers
      <3>. QED BY <2>1, <3>1, <3>2
    <2>. QED BY <2>2, <2>7, <2>10, <2>11 DEF PipesInv, PipesTurns
  <1>. QED BY <1>1, <1>2

\* What a read takes away leaves room for the turn that it gives.
LEMMA PipesRead ==
    ASSUME PipesInv, NEW p \in P!Process, P!Read(p)
    PROVE  PipesInv'
  <1>. DEFINE q == P!Peer(p)
  <1>1. /\ q \in P!Process /\ q # p /\ P!Process = {p, q}
        /\ (p = "ping" /\ q = "pong") \/ (p = "pong" /\ q = "ping")
    BY PipesPeer
  <1>2. /\ p_pc[p] = "read" /\ P!Goto(p, "write") /\ UNCHANGED p_setting
        /\ channel[p] > 0 \/ p_pc[q] = "ended"
    BY DEF P!Read, P!At
  <1>3. PICK c \in Nat, s \in Nat :
            /\ channel' = [channel EXCEPT ![p] = c] /\ swallowed' = s
            /\ c = IF channel[p] > 0 /\ p_setting = "pipes" THEN channel[p] - 1 ELSE 0
            /\ s = IF channel[p] > 1 /\ p_setting = "fifos"
                   THEN swallowed + channel[p] - 1 ELSE swallowed
    <2>1. channel[p] \in Nat /\ swallowed \in Nat
      BY DEF PipesInv, PipesRanges
    <2>. DEFINE c == IF channel[p] > 0 /\ p_setting = "pipes" THEN channel[p] - 1 ELSE 0
                s == IF channel[p] > 1 /\ p_setting = "fifos"
                     THEN swallowed + channel[p] - 1 ELSE swallowed
    <2>2. c \in Nat
      BY <2>1
    <2>3. s \in Nat
      BY <2>1
    <2>4. channel' = [channel EXCEPT ![p] = c] /\ swallowed' = s
      BY DEF P!Read
    <2>. HIDE DEF c, s
    <2>5. /\ c = IF channel[p] > 0 /\ p_setting = "pipes" THEN channel[p] - 1 ELSE 0
          /\ s = IF channel[p] > 1 /\ p_setting = "fifos"
                 THEN swallowed + channel[p] - 1 ELSE swallowed
      BY DEF c, s
    <2>. QED BY <2>2, <2>3, <2>4, <2>5
  <1>. HIDE DEF q
  <1>4. /\ p_pc' \in [P!Process -> PipesLabel] /\ p_pc'[p] = "write" /\ p_pc'[q] = p_pc[q]
    BY <1>1, <1>2, PipesMoves DEF PipesLabel, Opening
  <1>5. channel' \in [P!Process -> Nat] /\ channel'[p] = c /\ channel'[q] = channel[q]
    BY <1>1, <1>3 DEF PipesInv, PipesRanges
  <1>6. PipesRanges' /\ PipesBefore'
    BY <1>1, <1>2, <1>3, <1>4, <1>5 DEF PipesInv, PipesRanges, PipesBefore, Opening
  <1>7. /\ UnderWay = channel[p] + channel[q] /\ UnderWay' = c + channel[q]
        /\ channel[p] \in Nat /\ channel[q] \in Nat /\ swallowed \in Nat
    BY <1>1, <1>5, PipesNumbers DEF UnderWay
  <1>8. MayWrite(p) = 0 /\ MayWrite(p)' = 1 /\ MayWrite(q)' = MayWrite(q)
        /\ MayWrite(q) \in {0, 1}
    BY <1>2, <1>4 DEF MayWrite
  <1>9. /\ swallowed <= (IF p_setting = "pipes" THEN 0 ELSE 1)
        /\ UnderWay <= PipesLimit
        /\ p_pc[q] # "ended" => UnderWay + MayWrite(q) <= PipesLimit
    <2>1. p_pc[q] # "ended" => UnderWay + MayWrite("ping") + MayWrite("pong") <= PipesLimit
      BY <1>1, <1>2 DEF PipesInv, PipesTurns
    <2>2. p_pc[q] # "ended" => UnderWay + MayWrite(q) <= PipesLimit
      BY <1>1, <1>8, <2>1, PipesNumbers
    <2>. QED BY <2>2 DEF PipesInv, PipesTurns
  <1>10. /\ swallowed' <= (IF p_setting = "pipes" THEN 0 ELSE 1)
         /\ UnderWay' <= PipesLimit'
         /\ p_pc[q] # "ended" => UnderWay' + 1 + MayWrite(q) <= PipesLimit'
    <2>1. CASE p_setting = "pipes"
      BY <1>2, <1>3, <1>7, <1>8, <1>9, <2>1 DEF PipesLimit
    <2>2. CASE p_setting # "pipes" /\ channel[p] > 1
      <3>1. p_setting = "fifos"
        BY <2>2 DEF PipesInv, PipesRanges
      <3>. QED BY <1>2, <1>3, <1>7, <1>8, <1>9, <2>2, <3>1 DEF PipesLimit
    <2>3. CASE p_setting # "pipes" /\ ~(channel[p] > 1)
      BY <1>2, <1>3, <1>7, <1>8, <1>9, <2>3 DEF PipesLimit
    <2>. QED BY <2>1, <2>2, <2>3
  <1>11. p_pc[q] # "ended" => (UnderWay + MayWrite("ping") + MayWrite("pong") <= PipesLimit)'
    <2>1. CASE p = "ping" /\ q = "pong"
      BY <1>8, <1>10, <2>1
    <2>2. UnderWay' \in Nat /\ PipesLimit' \in Int
      BY <1>2, <1>3, <1>7 DEF PipesLimit
    <2>3. CASE p = "pong" /\ q = "ping"
      BY <1>8, <1>10, <2>2, <2>3
    <2>. QED BY <1>1, <2>1, <2>3
  <1>12. PipesTurns'
    BY <1>1, <1>2, <1>4, <1>10, <1>11 DEF PipesTurns
  <1>. QED BY <1>6, <1>12 DEF PipesInv

\* Both have opened the fifos, and each of them writes first.
LEMMA PipesMeet ==
    ASSUME PipesInv, P!Meet
    PROVE  PipesInv'
  <1>. USE DEF P!Process
  <1>1. UNCHANGED <<p_setting, channel, swallowed>>
    BY DEF P!Meet
  <1>2. UnderWay = 0 /\ swallowed = 0 /\ p_setting = "fifos"
    <2>1. \E label \in Opening \ {"write", "read", "ended"} : \A p \in P!Process : p_pc[p] = label
      BY DEF P!Meet, P!At, Opening
    <2>. QED BY <2>1 DEF PipesInv, PipesBefore
  <1>3. PICK label \in PipesLabel :
            p_pc' = [p \in P!Process |-> label] /\ label \in {"opening 2", "write"}
    BY <1>2 DEF P!Meet, P!First, PipesLabel, Opening
  <1>4. /\ p_pc' \in [P!Process -> PipesLabel]
        /\ p_pc'["ping"] = label /\ p_pc'["pong"] = label
    BY <1>3 DEF PipesLabel, Opening
  <1>5. UnderWay' = 0 /\ PipesLimit' = 2
    <2>1. UnderWay' = UnderWay
      BY <1>1 DEF UnderWay
    <2>2. p_setting' = "fifos" /\ swallowed' = 0
      BY <1>1, <1>2
    <2>3. PipesLimit' = IF p_setting' = "pipes" THEN 1 ELSE 2 - swallowed'
      BY DEF PipesLimit
    <2>4. p_setting' # "pipes"
      BY <2>2
    <2>5. PipesLimit' = 2 - 0
      BY <2>2, <2>3, <2>4
    <2>. QED BY <1>2, <2>1, <2>5
  <1>6. PICK a \in {0, 1}, b \in {0, 1} : MayWrite("ping")' = a /\ MayWrite("pong")' = b
    BY DEF MayWrite
  <1>7. PipesRanges' /\ PipesBefore'
    <2>1. /\ p_setting' = "fifos" /\ channel' \in [P!Process -> Nat] /\ swallowed' = 0
          /\ \A p \in P!Process : p_pc'[p] # "close"
      BY <1>1, <1>2, <1>3, <1>4 DEF PipesInv, PipesRanges
    <2>2. PipesRanges'
      BY <1>4, <2>1 DEF PipesRanges
    <2>. QED BY <1>5, <2>1, <2>2 DEF PipesBefore
  <1>8. (UnderWay + MayWrite("ping") + MayWrite("pong") <= PipesLimit)'
    <2>1. 0 + a + b <= 2
      OBVIOUS
    <2>. QED BY <1>5, <1>6, <2>1
  <1>9. PipesTurns'
    <2>1. p_setting' = "fifos" /\ swallowed' = 0
      BY <1>1, <1>2
    <2>2. p_setting' # "pipes" /\ 0 <= 1 /\ 0 <= 2
      BY <2>1
    <2>. QED BY <1>5, <1>8, <2>1, <2>2 DEF PipesTurns
  <1>. QED BY <1>7, <1>9 DEF PipesInv

LEMMA PipesNext ==
    ASSUME PipesInv, P!Next \/ UNCHANGED pipes
    PROVE  PipesInv'
  <1>1. ASSUME NEW p \in P!Process, P!Toclose(p)
        PROVE  PipesInv'
    <2>1. /\ P!Goto(p, P!First(p)) /\ p_pc[p] = "close"
          /\ UNCHANGED <<p_setting, channel, swallowed>>
      BY <1>1 DEF P!Toclose, P!At
    <2>2. p_setting = "pipes"
      BY <2>1 DEF PipesInv, PipesBefore
    <2>3. (P!First(p) = "write" /\ p = "ping") \/ P!First(p) = "read"
      BY <2>2 DEF P!First, P!Process
    <2>. QED BY <2>1, <2>3, PipesNoTurn DEF PipesLabel, Opening
  <1>2. ASSUME NEW n \in {1, 2}, P!Mkfifo(n)
        PROVE  PipesInv'
    <2>1. /\ p_pc["ping"] \in {"mkfifo 1", "mkfifo 2"}
          /\ \E label \in {"ended", "mkfifo 2", "opening 1"} : P!Goto("ping", label)
          /\ UNCHANGED <<p_setting, channel, swallowed>>
      BY <1>2 DEF P!Mkfifo, P!At
    <2>. QED BY <2>1, PipesNoTurn DEF PipesLabel, Opening, P!Process
  <1>3. CASE P!OpenPong
    <2>1. /\ p_pc["pong"] = "open"
          /\ \E label \in {"ended", "opening 1"} : P!Goto("pong", label)
          /\ UNCHANGED <<p_setting, channel, swallowed>>
      BY <1>3 DEF P!OpenPong, P!At
    <2>. QED BY <2>1, PipesNoTurn DEF PipesLabel, Opening, P!Process
  <1>4. ASSUME NEW p \in P!Process, P!Kill(p)
        PROVE  PipesInv'
    BY <1>4, PipesNoTurn DEF P!Kill, PipesLabel, Opening
  <1>5. CASE UNCHANGED pipes
    BY <1>5 DEF pipes, PipesInv, PipesRanges, PipesBefore, PipesTurns, UnderWay, PipesLimit,
                MayWrite, P!Process
  <1>. QED BY <1>1, <1>2, <1>3, <1>4, <1>5, PipesWrite, PipesRead, PipesMeet
           DEF P!Next, P!Step, P!Start, P!Stopped, P!vars, pipes

\* Over pipes no two messages are ever read as one and at most one is under
\* way; over fifos it happens at most once, also when one of them is killed.
THEOREM SwallowedAtMostOnce == Spec => []AtMostOneSwallowed
  <1>1. Init => PipesInv
    BY PipesInit DEF Init
  <1>2. PipesInv /\ [Next]_vars => PipesInv'
    BY StepOfOne, PipesNext
  <1>3. PipesInv => AtMostOneSwallowed
    BY DEF PipesInv, PipesTurns, PipesLimit, UnderWay, AtMostOneSwallowed,
           P!AtMostOneSwallowed
  <1>. QED BY <1>1, <1>2, <1>3, PTL DEF Spec

-----------------------------------------------------------------------------
(* PingPong: neither property is inductive.  While the first process was    *)
(* started once, exactly one of the two has the turn; later what matters is *)
(* that the newest process, its signal or the answer to it goes on.         *)

\* Everybody that has sent a signal or was started is known by a pid so far.
PidsSoFar ==
    /\ one <= starts
    /\ other_pid \in 1..starts
    /\ pending[G!Two] \in {-1} \cup (1..starts)
    /\ \A p \in 1..starts : pending[p] \in {-1, G!Two}
    /\ \A p \in (starts + 1)..MaxStarts : pending[p] = -1 /\ ~flag[p] /\ g_pc[p] = "absent"
    /\ one = 0 => starts < MaxStarts
    /\ g_setting = "fork" => one = 1 /\ starts = 1 /\ other_pid = 1

\* The one process that has the turn, while the first was started once: it was
\* sent a signal and has not answered.
HasTurn(p) ==
    \/ g_pc[p] = "spin" /\ (flag[p] <=> pending[p] = -1)
    \/ g_pc[p] \in {"print", "clear"} /\ flag[p] /\ pending[p] = -1
    \/ g_pc[p] = "kill" /\ ~flag[p] /\ pending[p] = -1

IsIdle(p) == g_pc[p] = "spin" /\ ~flag[p] /\ pending[p] = -1

\* The first is behind by one between the print of the second and its own.
AheadOfTurn ==
    \/ IsIdle(G!Two) /\ HasTurn(1) /\ ahead = (IF g_pc[1] \in {"clear", "kill"} THEN 0 ELSE 1)
    \/ IsIdle(1) /\ HasTurn(G!Two) /\ ahead = (IF g_pc[G!Two] \in {"clear", "kill"} THEN 1 ELSE 0)
    \/ one = 0 /\ IsIdle(G!Two) /\ IsIdle(1) /\ ahead = 1

InTurnOnce == starts = 1 => ~dropped /\ other_pid = 1 /\ AheadOfTurn

\* Unless a signal was dropped, the first process acts, or its signal is on its
\* way, or the second is about to answer it and not one of its predecessors.
SignalsGoOn ==
    one > 0 /\ ~dropped =>
        \/ g_pc[one] # "spin" \/ flag[one] \/ pending[one] = G!Two
        \/ pending[G!Two] = one
        \/ other_pid = one /\ (flag[G!Two] \/ g_pc[G!Two] # "spin")

\* The second knows the new process by a signal of its own, which is younger
\* than those of the predecessors.
NewestLast == one > 0 /\ other_pid = one => pending[G!Two] \in {-1, one}

SignalsInv == G!TypeOK /\ PidsSoFar /\ InTurnOnce /\ SignalsGoOn /\ NewestLast

-----------------------------------------------------------------------------

SignalsLabel == {"absent", "kill", "spin", "print", "clear"}

\* Pids are numbers, and the first two are 0 and 1.
LEMMA SignalsPids ==
    /\ G!Two = 0 /\ 0 \in G!Pids /\ 1 \in G!Pids /\ -1 \notin G!Pids
    /\ \A p \in G!Pids : p \in Nat /\ p <= MaxStarts /\ p # -1
    /\ \A p \in Nat : p <= MaxStarts => p \in G!Pids
    /\ G!Pids' = G!Pids
  BY ProcessesAssumption DEF G!Two, G!Pids

\* The ranges without the operators of PingPong.
LEMMA SignalsRanges ==
    ASSUME SignalsInv
    PROVE  /\ one \in Nat /\ starts \in Nat \ {0} /\ one <= starts /\ starts <= MaxStarts
           /\ other_pid \in Nat \ {0} /\ other_pid <= starts
           /\ one \in G!Pids /\ other_pid \in G!Pids
           /\ \A p \in G!Pids :
                 /\ pending[p] = -1 \/ (p = 0 /\ pending[p] \in 1..starts) \/ (p > 0 /\ pending[p] = 0)
                 /\ p > starts => pending[p] = -1 /\ ~flag[p] /\ g_pc[p] = "absent"
  <1>1. /\ one \in 0..MaxStarts /\ starts \in 1..MaxStarts /\ other_pid \in 1..starts
        /\ one <= starts
    BY DEF SignalsInv, G!TypeOK, G!Pids, PidsSoFar
  <1>2. ASSUME NEW p \in G!Pids, p > starts
        PROVE  pending[p] = -1 /\ ~flag[p] /\ g_pc[p] = "absent"
    <2>1. p \in (starts + 1)..MaxStarts
      BY <1>1, <1>2, SignalsPids, ProcessesAssumption
    <2>. QED BY <2>1 DEF SignalsInv, PidsSoFar
  <1>3. ASSUME NEW p \in G!Pids
        PROVE  pending[p] = -1 \/ (p = 0 /\ pending[p] \in 1..starts) \/ (p > 0 /\ pending[p] = 0)
    <2>1. CASE p = 0
      BY <2>1, SignalsPids DEF SignalsInv, PidsSoFar
    <2>2. CASE p > 0 /\ p <= starts
      <3>1. p \in 1..starts
        BY <1>1, <2>2, SignalsPids
      <3>. QED BY <2>2, <3>1, SignalsPids DEF SignalsInv, PidsSoFar
    <2>3. CASE p > starts
      BY <1>2, <2>3
    <2>. QED BY <1>1, <2>1, <2>2, <2>3, SignalsPids
  <1>4. one \in G!Pids /\ other_pid \in G!Pids
    BY DEF SignalsInv, G!TypeOK
  <1>. QED BY <1>1, <1>2, <1>3, <1>4, SignalsPids, ProcessesAssumption

LEMMA SignalsMoves ==
    ASSUME SignalsInv, NEW p \in G!Pids, NEW label \in SignalsLabel, G!Goto(p, label)
    PROVE  /\ g_pc' \in [G!Pids -> SignalsLabel]
           /\ g_pc'[p] = label
           /\ \A q \in G!Pids : q # p => g_pc'[q] = g_pc[q]
  BY DEF SignalsInv, G!TypeOK, SignalsLabel, G!Goto

\* PidsSoFar in the form that a step of one process shows.
LEMMA SignalsSoFar ==
    ASSUME /\ one' \in Nat /\ starts' \in Nat \ {0} /\ one' <= starts' /\ starts' <= MaxStarts
           /\ other_pid' \in Nat \ {0} /\ other_pid' <= starts',
           one' = 0 => starts' < MaxStarts,
           g_setting' = "fork" => one' = 1 /\ starts' = 1 /\ other_pid' = 1,
           \A p \in G!Pids :
              /\ \/ pending'[p] = -1
                 \/ p = 0 /\ pending'[p] \in 1..starts'
                 \/ p > 0 /\ pending'[p] = 0
              /\ p > starts' => pending'[p] = -1 /\ ~flag'[p] /\ g_pc'[p] = "absent"
    PROVE  PidsSoFar'
  <1>1. pending'[0] \in {-1} \cup (1..starts')
    BY SignalsPids
  <1>2. \A p \in 1..starts' : pending'[p] \in {-1, 0}
    <2>1. \A p \in 1..starts' : p \in G!Pids /\ p > 0
      BY SignalsPids, ProcessesAssumption
    <2>. QED BY <2>1, SignalsPids
  <1>3. \A p \in (starts' + 1)..MaxStarts : pending'[p] = -1 /\ ~flag'[p] /\ g_pc'[p] = "absent"
    <2>1. \A s \in Nat : \A p \in (s + 1)..MaxStarts : p \in Nat /\ p <= MaxStarts /\ p > s
      BY ProcessesAssumption
    <2>2. \A p \in (starts' + 1)..MaxStarts : p \in G!Pids /\ p > starts'
      BY <2>1, SignalsPids
    <2>. QED BY <2>2
  <1>4. other_pid' \in 1..starts'
    OBVIOUS
  <1>. QED BY <1>1, <1>2, <1>3, <1>4 DEF PidsSoFar, G!Two

LEMMA SignalsInit == G!Init => SignalsInv
  <1>. SUFFICES ASSUME G!Init PROVE SignalsInv
    OBVIOUS
  <1>1. /\ g_setting \in {"fork", "terminals"} /\ one = 1 /\ starts = 1 /\ other_pid = 1
        /\ ahead = 0 /\ dropped = FALSE
        /\ flag = [p \in G!Pids |-> FALSE] /\ pending = [p \in G!Pids |-> -1]
        /\ g_pc \in [G!Pids -> SignalsLabel]
        /\ g_pc[0] = "spin" /\ g_pc[1] = "kill"
        /\ \A p \in G!Pids : p > 1 => g_pc[p] = "absent"
    BY SignalsPids DEF G!Init, SignalsLabel
  <1>2. G!TypeOK
    <2>1. 1 \in 1..MaxStarts
      BY ProcessesAssumption
    <2>2. /\ flag \in [G!Pids -> BOOLEAN]
          /\ pending \in [G!Pids -> G!Pids \cup {-1}]
      BY <1>1
    <2>3. g_pc \in [G!Pids -> {"absent", "kill", "spin", "print", "clear"}]
      BY <1>1 DEF SignalsLabel
    <2>4. one \in G!Pids /\ other_pid \in G!Pids
      BY <1>1, SignalsPids
    <2>5. ahead \in Int
      BY <1>1
    <2>6. dropped \in BOOLEAN
      BY <1>1, Zenon
    <2>. QED BY <1>1, <2>1, <2>2, <2>3, <2>4, <2>5, <2>6, Zenon DEF G!TypeOK
  <1>3. PidsSoFar
    <2>1. 1..1 = {1} /\ 1 <= MaxStarts
      BY ProcessesAssumption
    <2>2. \A p \in (1 + 1)..MaxStarts : p \in G!Pids /\ p > 1
      BY SignalsPids, ProcessesAssumption
    <2>3. pending[0] = -1 /\ pending[1] = -1
      BY <1>1, SignalsPids
    <2>4. \A p \in (1 + 1)..MaxStarts : pending[p] = -1 /\ ~flag[p] /\ g_pc[p] = "absent"
      BY <1>1, <2>2
    <2>5. one = 0 => starts < MaxStarts
      BY <1>1
    <2>6. other_pid \in 1..starts /\ one <= starts
      BY <1>1, <2>1
    <2>7. pending[0] \in {-1} \cup (1..starts) /\ \A p \in 1..starts : pending[p] \in {-1, 0}
      BY <1>1, <2>1, <2>3
    <2>8. \A p \in (starts + 1)..MaxStarts : pending[p] = -1 /\ ~flag[p] /\ g_pc[p] = "absent"
      BY <1>1, <2>4
    <2>. QED BY <1>1, <2>5, <2>6, <2>7, <2>8, Zenon DEF PidsSoFar, G!Two
  <1>4. InTurnOnce
    BY <1>1, SignalsPids DEF InTurnOnce, AheadOfTurn, IsIdle, HasTurn
  <1>5. SignalsGoOn /\ NewestLast
    BY <1>1, SignalsPids DEF SignalsGoOn, NewestLast
  <1>. QED BY <1>2, <1>3, <1>4, <1>5 DEF SignalsInv

\* Only the second process and the first that is running act; while the first
\* was started once these are the processes 0 and 1, and the one that acts has
\* the turn.
LEMMA SignalsActor ==
    ASSUME SignalsInv, starts = 1, NEW p \in G!Pids, G!Alive(p), ~IsIdle(p)
    PROVE  \/ p = 1 /\ IsIdle(0) /\ HasTurn(1) /\ ahead = (IF g_pc[1] \in {"clear", "kill"} THEN 0 ELSE 1)
           \/ p = 0 /\ IsIdle(1) /\ HasTurn(0) /\ ahead = (IF g_pc[0] \in {"clear", "kill"} THEN 1 ELSE 0)
  <1>1. p \in {0, 1}
    BY SignalsPids, SignalsRanges DEF G!Alive
  <1>2. AheadOfTurn
    BY DEF SignalsInv, InTurnOnce
  <1>. QED BY <1>1, <1>2, SignalsPids DEF AheadOfTurn

\* The handler takes the turn that the signal gave, and the second process
\* learns from it whom it answers.
LEMMA SignalsHandler ==
    ASSUME SignalsInv, NEW p \in G!Pids, G!sig_hand(p)
    PROVE  SignalsInv'
  <1>1. /\ G!Alive(p) /\ pending[p] >= 0
        /\ pending' = [pending EXCEPT ![p] = -1] /\ flag' = [flag EXCEPT ![p] = TRUE]
        /\ UNCHANGED <<g_setting, one, starts, g_pc, ahead, dropped>>
        /\ other_pid' = IF g_setting = "terminals" /\ p = 0 THEN pending[p] ELSE other_pid
    BY SignalsPids DEF G!sig_hand
  <1>2. /\ pending' \in [G!Pids -> G!Pids \cup {-1}] /\ flag' \in [G!Pids -> BOOLEAN]
        /\ pending'[p] = -1 /\ flag'[p] = TRUE
        /\ \A q \in G!Pids : q # p => pending'[q] = pending[q] /\ flag'[q] = flag[q]
    BY <1>1 DEF SignalsInv, G!TypeOK
  <1>3. pending[p] # -1
    BY <1>1
  <1>4. /\ other_pid' \in Nat \ {0} /\ other_pid' <= starts
        /\ g_setting = "fork" => other_pid' = other_pid
        /\ p # 0 => other_pid' = other_pid
        /\ p = 0 /\ g_setting # "fork" => other_pid' = pending[p]
    <2>1. g_setting \in {"fork", "terminals"}
      BY DEF SignalsInv, G!TypeOK
    <2>. QED BY <1>1, <1>3, <2>1, SignalsRanges
  <1>5. G!TypeOK'
    <2>1. other_pid' \in Nat /\ other_pid' <= MaxStarts
      <3>1. other_pid' \in Nat /\ other_pid' <= starts
        BY <1>4
      <3>2. starts \in Nat /\ starts <= MaxStarts /\ MaxStarts \in Nat
        BY SignalsRanges, ProcessesAssumption
      <3>. HIDE <1>4
      <3>. QED BY <3>1, <3>2
    <2>2. other_pid' \in G!Pids
      BY <2>1, SignalsPids
    <2>. QED BY <1>1, <1>2, <2>2, SignalsPids DEF SignalsInv, G!TypeOK
  <1>6. PidsSoFar'
    <2>1. p <= starts
      BY <1>3, SignalsRanges, SignalsPids
    <2>2. \A q \in G!Pids :
             /\ pending'[q] = -1 \/ (q = 0 /\ pending'[q] \in 1..starts) \/ (q > 0 /\ pending'[q] = 0)
             /\ q > starts => pending'[q] = -1 /\ ~flag'[q] /\ g_pc[q] = "absent"
      BY <1>2, <2>1, SignalsPids, SignalsRanges
    <2>3. one = 0 => starts < MaxStarts
      BY DEF SignalsInv, PidsSoFar
    <2>4. g_setting = "fork" => one = 1 /\ starts = 1 /\ other_pid' = 1
      BY <1>4 DEF SignalsInv, PidsSoFar
    <2>. QED BY <1>1, <1>4, <2>2, <2>3, <2>4, SignalsRanges, SignalsSoFar
  <1>7. InTurnOnce'
    <2>. SUFFICES ASSUME starts = 1
                  PROVE  ~dropped' /\ other_pid' = 1 /\ AheadOfTurn'
      BY <1>1 DEF InTurnOnce
    <2>1. other_pid' = 1 /\ ~dropped'
      BY <1>1, <1>4 DEF SignalsInv, InTurnOnce
    <2>2. ~IsIdle(p)
      BY <1>3 DEF IsIdle
    <2>3. CASE p = 1
      <3>1. IsIdle(0) /\ HasTurn(1) /\ ahead = (IF g_pc[1] \in {"clear", "kill"} THEN 0 ELSE 1)
        BY <1>1, <2>2, <2>3, SignalsActor
      <3>2. IsIdle(0)' /\ HasTurn(1)'
        BY <1>1, <1>2, <1>3, <2>3, <3>1, SignalsPids DEF HasTurn, IsIdle
      <3>. QED BY <1>1, <2>1, <3>1, <3>2 DEF AheadOfTurn, G!Two
    <2>4. CASE p = 0
      <3>1. IsIdle(1) /\ HasTurn(0) /\ ahead = (IF g_pc[0] \in {"clear", "kill"} THEN 1 ELSE 0)
        BY <1>1, <2>2, <2>4, SignalsActor
      <3>2. IsIdle(1)' /\ HasTurn(0)'
        BY <1>1, <1>2, <1>3, <2>4, <3>1, SignalsPids DEF HasTurn, IsIdle
      <3>. QED BY <1>1, <2>1, <3>1, <3>2 DEF AheadOfTurn, G!Two
    <2>. QED BY <1>1, <2>2, <2>3, <2>4, SignalsActor
  <1>8. SignalsGoOn' /\ NewestLast'
    <2>1. CASE p = 0
      <3>1. one > 0 /\ other_pid = one => pending[0] = one
        BY <1>3, <2>1, SignalsPids DEF SignalsInv, NewestLast
      <3>2. g_setting = "fork" => other_pid = one
        BY DEF SignalsInv, PidsSoFar
      <3>3. SignalsGoOn'
        BY <1>1, <1>2, <1>4, <2>1, <3>1, <3>2, SignalsPids, SignalsRanges
        DEF SignalsInv, SignalsGoOn
      <3>. QED BY <1>2, <2>1, <3>3, SignalsPids DEF NewestLast
    <2>2. CASE p # 0
      <3>1. p = one
        BY <1>1, <2>2, SignalsPids DEF G!Alive
      <3>. QED BY <1>1, <1>2, <1>4, <2>2, <3>1, SignalsPids
               DEF SignalsInv, SignalsGoOn, NewestLast
    <2>. QED BY <2>1, <2>2
  <1>. QED BY <1>5, <1>6, <1>7, <1>8 DEF SignalsInv

\* A signal gives the turn to the other process.  In later starts it may find
\* one of a predecessor and be dropped, or its receiver may be gone.
LEMMA SignalsKill ==
    ASSUME SignalsInv, NEW p \in G!Pids, G!Kill(p)
    PROVE  SignalsInv'
  <1>. DEFINE q == G!Peer(p)
  <1>1. /\ G!Alive(p) /\ g_pc[p] = "kill"
        /\ UNCHANGED <<g_setting, one, starts, flag, other_pid, ahead>>
        /\ G!Goto(p, "spin")
        /\ \/ /\ ~G!Alive(q) \/ pending[q] >= 0
              /\ dropped' = (dropped \/ (G!Alive(q) /\ pending[q] # p))
              /\ pending' = pending
           \/ /\ G!Alive(q) /\ ~(pending[q] >= 0)
              /\ pending' = [pending EXCEPT ![q] = p] /\ dropped' = dropped
    BY DEF G!Kill
  <1>2. /\ q \in G!Pids /\ q # p /\ q <= starts /\ p <= starts
        /\ (p = 0 /\ q = other_pid) \/ (p = one /\ p > 0 /\ q = 0)
    BY <1>1, SignalsPids, SignalsRanges DEF G!Peer, G!Alive
  <1>3. G!Alive(q) <=> q = 0 \/ q = one
    BY SignalsPids DEF G!Alive
  <1>. HIDE DEF q
  <1>4. /\ g_pc' \in [G!Pids -> SignalsLabel] /\ g_pc'[p] = "spin"
        /\ \A r \in G!Pids : r # p => g_pc'[r] = g_pc[r]
    BY <1>1, SignalsMoves DEF SignalsLabel
  <1>5. /\ pending' \in [G!Pids -> G!Pids \cup {-1}] /\ dropped' \in BOOLEAN
        /\ \A r \in G!Pids : r # q => pending'[r] = pending[r]
        /\ pending'[q] \in {pending[q], p}
    BY <1>1, <1>2 DEF SignalsInv, G!TypeOK
  <1>6. G!TypeOK'
    BY <1>1, <1>4, <1>5, SignalsPids DEF SignalsInv, G!TypeOK, SignalsLabel
  <1>7. PidsSoFar'
    <2>1. \A r \in G!Pids :
             /\ pending'[r] = -1 \/ (r = 0 /\ pending'[r] \in 1..starts) \/ (r > 0 /\ pending'[r] = 0)
             /\ r > starts => pending'[r] = -1 /\ ~flag[r] /\ g_pc'[r] = "absent"
      BY <1>2, <1>4, <1>5, SignalsPids, SignalsRanges
    <2>2. one = 0 => starts < MaxStarts
      BY DEF SignalsInv, PidsSoFar
    <2>3. g_setting = "fork" => one = 1 /\ starts = 1 /\ other_pid = 1
      BY DEF SignalsInv, PidsSoFar
    <2>. QED BY <1>1, <2>1, <2>2, <2>3, SignalsRanges, SignalsSoFar
  <1>8. InTurnOnce'
    <2>. SUFFICES ASSUME starts = 1
                  PROVE  ~dropped' /\ other_pid' = 1 /\ AheadOfTurn'
      BY <1>1 DEF InTurnOnce
    <2>1. other_pid = 1 /\ ~dropped
      BY DEF SignalsInv, InTurnOnce
    <2>2. ~IsIdle(p)
      BY <1>1 DEF IsIdle
    <2>3. CASE p = 1
      <3>1. q = 0 /\ IsIdle(0) /\ HasTurn(1) /\ ahead = 0
        BY <1>1, <1>2, <2>2, <2>3, SignalsActor
      <3>2. pending' = [pending EXCEPT ![q] = p] /\ dropped' = dropped
        BY <1>1, <1>3, <3>1 DEF IsIdle
      <3>3. pending'[0] = 1 /\ pending'[1] = pending[1]
        BY <1>5, <2>3, <3>1, <3>2, SignalsPids DEF SignalsInv, G!TypeOK
      <3>. QED BY <1>1, <1>4, <2>1, <2>3, <3>1, <3>2, <3>3, SignalsPids
               DEF AheadOfTurn, HasTurn, IsIdle
    <2>4. CASE p = 0
      <3>1. q = 1 /\ IsIdle(1) /\ HasTurn(0) /\ ahead = 1
        BY <1>1, <1>2, <2>1, <2>2, <2>4, SignalsActor
      <3>2. CASE one = 1
        <4>1. pending' = [pending EXCEPT ![q] = p] /\ dropped' = dropped
          BY <1>1, <1>3, <3>1, <3>2 DEF IsIdle
        <4>2. pending'[1] = 0 /\ pending'[0] = pending[0]
          BY <1>5, <2>4, <3>1, <4>1, SignalsPids DEF SignalsInv, G!TypeOK
        <4>. QED BY <1>1, <1>4, <2>1, <2>4, <3>1, <4>1, <4>2, SignalsPids
                 DEF AheadOfTurn, HasTurn, IsIdle
      <3>3. CASE one = 0
        <4>1. pending' = pending /\ dropped' = dropped
          BY <1>1, <1>3, <3>1, <3>3 DEF SignalsInv, G!TypeOK
        <4>. QED BY <1>1, <1>4, <2>1, <2>4, <3>1, <3>3, <4>1, SignalsPids
                 DEF AheadOfTurn, HasTurn, IsIdle
      <3>. QED BY <3>2, <3>3, SignalsRanges
    <2>. QED BY <1>1, <2>2, <2>3, <2>4, SignalsActor
  <1>9. SignalsGoOn'
    <2>. SUFFICES ASSUME one > 0, ~dropped'
                  PROVE  \/ g_pc'[one] # "spin" \/ flag[one] \/ pending'[one] = 0
                         \/ pending'[0] = one
                         \/ other_pid = one /\ (flag[0] \/ g_pc'[0] # "spin")
      BY <1>1, SignalsPids DEF SignalsGoOn
    <2>1. ~dropped
      BY <1>1
    <2>2. CASE p # 0
      <3>1. pending'[0] = one
        BY <1>1, <1>2, <1>3, <2>2, SignalsPids DEF SignalsInv, G!TypeOK
      <3>. QED BY <3>1
    <2>3. CASE p = 0 /\ other_pid = one
      <3>1. pending'[one] = 0
        BY <1>1, <1>2, <1>3, <2>3, SignalsPids DEF SignalsInv, G!TypeOK
      <3>. QED BY <3>1
    <2>4. CASE p = 0 /\ other_pid # one
      BY <1>1, <1>2, <1>3, <1>4, <2>1, <2>4, SignalsPids, SignalsRanges
      DEF SignalsInv, SignalsGoOn
    <2>. QED BY <2>2, <2>3, <2>4
  <1>10. NewestLast'
    BY <1>1, <1>2, <1>5, SignalsPids DEF SignalsInv, NewestLast
  <1>. QED BY <1>6, <1>7, <1>8, <1>9, <1>10 DEF SignalsInv

\* Spin, print and clear go on with a turn that a process has.
LEMMA SignalsAnswer ==
    ASSUME SignalsInv, NEW p \in G!Pids, G!Spin(p) \/ G!PrintAnswer(p) \/ G!Clear(p)
    PROVE  SignalsInv'
  <1>1. /\ G!Alive(p)
        /\ UNCHANGED <<g_setting, one, starts, other_pid, pending, dropped>>
        /\ \/ /\ g_pc[p] = "spin" /\ flag[p] /\ G!Goto(p, "print") /\ UNCHANGED <<flag, ahead>>
           \/ /\ g_pc[p] = "print" /\ G!Goto(p, "clear") /\ UNCHANGED flag
              /\ ahead' = IF starts > 1 THEN 0 ELSE IF p = 0 THEN ahead + 1 ELSE ahead - 1
           \/ /\ g_pc[p] = "clear" /\ G!Goto(p, "kill") /\ UNCHANGED ahead
              /\ flag' = [flag EXCEPT ![p] = FALSE]
    BY SignalsPids DEF G!Spin, G!PrintAnswer, G!Clear
  <1>2. PICK label \in {"print", "clear", "kill"} : label \in SignalsLabel /\ G!Goto(p, label)
    BY <1>1 DEF SignalsLabel
  <1>3. /\ g_pc' \in [G!Pids -> SignalsLabel] /\ g_pc'[p] = label
        /\ \A q \in G!Pids : q # p => g_pc'[q] = g_pc[q]
    BY <1>2, SignalsMoves
  <1>4. /\ flag' \in [G!Pids -> BOOLEAN]
        /\ \A q \in G!Pids : q # p => flag'[q] = flag[q]
    BY <1>1 DEF SignalsInv, G!TypeOK
  <1>5. p = 0 \/ (p = one /\ p > 0)
    BY <1>1, SignalsPids DEF G!Alive
  <1>6. G!TypeOK'
    <2>1. ahead \in Int
      BY DEF SignalsInv, G!TypeOK
    <2>2. ahead' \in Int
      BY <1>1, <2>1
    <2>3. g_pc' \in [G!Pids -> {"absent", "kill", "spin", "print", "clear"}]
      BY <1>3 DEF SignalsLabel
    <2>. QED BY <1>1, <1>4, <2>2, <2>3, SignalsPids DEF SignalsInv, G!TypeOK
  <1>7. PidsSoFar'
    <2>1. p <= starts
      BY <1>5, SignalsRanges
    <2>2. \A q \in G!Pids :
             /\ \/ pending'[q] = -1
                \/ q = 0 /\ pending'[q] \in 1..starts'
                \/ q > 0 /\ pending'[q] = 0
             /\ q > starts' => pending'[q] = -1 /\ ~flag'[q] /\ g_pc'[q] = "absent"
      BY <1>1, <1>3, <1>4, <2>1, SignalsPids, SignalsRanges
    <2>3. one = 0 => starts < MaxStarts
      BY DEF SignalsInv, PidsSoFar
    <2>4. g_setting = "fork" => one = 1 /\ starts = 1 /\ other_pid = 1
      BY DEF SignalsInv, PidsSoFar
    <2>. QED BY <1>1, <2>2, <2>3, <2>4, SignalsRanges, SignalsSoFar
  <1>8. InTurnOnce'
    <2>. SUFFICES ASSUME starts = 1
                  PROVE  ~dropped' /\ other_pid' = 1 /\ AheadOfTurn'
      BY <1>1 DEF InTurnOnce
    <2>1. other_pid' = 1 /\ ~dropped'
      BY <1>1 DEF SignalsInv, InTurnOnce
    <2>2. ~IsIdle(p)
      BY <1>1 DEF IsIdle
    <2>3. p = 0 \/ p = 1
      BY <1>1, <2>2, SignalsActor
    <2>4. \A q \in G!Pids : q # p => IsIdle(q)' = IsIdle(q)
      BY <1>1, <1>3, <1>4 DEF IsIdle
    <2>5. HasTurn(p) => HasTurn(p)'
      <3>1. CASE g_pc[p] = "clear" /\ flag' = [flag EXCEPT ![p] = FALSE] /\ label = "kill"
        <4>1. flag'[p] = FALSE
          BY <3>1 DEF SignalsInv, G!TypeOK
        <4>. QED BY <1>1, <1>3, <3>1, <4>1 DEF HasTurn
      <3>2. CASE g_pc[p] \in {"spin", "print"} /\ flag' = flag /\ label \in {"print", "clear"}
        <4>1. g_pc[p] = "spin" => flag[p]
          BY <1>1, <3>2
        <4>. QED BY <1>1, <1>3, <3>2, <4>1 DEF HasTurn
      <3>3. g_pc'[p] = label
        BY <1>3
      <3>4. \A l \in {"print", "clear", "kill"} : G!Goto(p, l) => label = l
        BY <1>3, SignalsMoves DEF SignalsLabel
      <3>. QED BY <1>1, <3>1, <3>2, <3>4
    <2>6. CASE p = 1
      <3>1. IsIdle(0) /\ HasTurn(1) /\ ahead = (IF g_pc[1] \in {"clear", "kill"} THEN 0 ELSE 1)
        BY <1>1, <2>2, <2>6, SignalsActor
      <3>2. ahead' = (IF g_pc'[1] \in {"clear", "kill"} THEN 0 ELSE 1)
        BY <1>1, <1>3, <2>6, <3>1, SignalsMoves DEF SignalsLabel
      <3>. QED BY <2>1, <2>4, <2>5, <2>6, <3>1, <3>2, SignalsPids DEF AheadOfTurn
    <2>7. CASE p = 0
      <3>1. IsIdle(1) /\ HasTurn(0) /\ ahead = (IF g_pc[0] \in {"clear", "kill"} THEN 1 ELSE 0)
        BY <1>1, <2>2, <2>7, SignalsActor
      <3>2. ahead' = (IF g_pc'[0] \in {"clear", "kill"} THEN 1 ELSE 0)
        BY <1>1, <1>3, <2>7, <3>1, SignalsMoves DEF SignalsLabel
      <3>. QED BY <2>1, <2>4, <2>5, <2>7, <3>1, <3>2, SignalsPids DEF AheadOfTurn
    <2>. QED BY <2>3, <2>6, <2>7
  <1>9. SignalsGoOn'
    <2>. SUFFICES ASSUME one > 0, ~dropped
                  PROVE  \/ g_pc'[one] # "spin" \/ flag'[one] \/ pending[one] = 0
                         \/ pending[0] = one
                         \/ other_pid = one /\ (flag'[0] \/ g_pc'[0] # "spin")
      BY <1>1, SignalsPids DEF SignalsGoOn
    <2>1. g_pc'[p] # "spin"
      BY <1>3
    <2>2. CASE p = one
      BY <2>1, <2>2
    <2>3. CASE p = 0 /\ p # one
      BY <1>3, <1>4, <2>1, <2>3, SignalsPids, SignalsRanges DEF SignalsInv, SignalsGoOn
    <2>. QED BY <1>5, <2>2, <2>3
  <1>10. NewestLast'
    BY <1>1, SignalsPids DEF SignalsInv, NewestLast
  <1>. QED BY <1>6, <1>7, <1>8, <1>9, <1>10 DEF SignalsInv

\* The first process is killed, and one with a new pid is started, which
\* nobody has sent a signal and which sends one.
LEMMA SignalsUser ==
    ASSUME SignalsInv, G!Interrupt \/ G!Restart
    PROVE  SignalsInv'
  <1>1. CASE G!Interrupt
    <2>1. /\ one > 0 /\ starts < MaxStarts /\ one' = 0 /\ g_setting = "terminals"
          /\ UNCHANGED <<g_setting, starts, g_pc, flag, other_pid, pending, ahead, dropped>>
      BY <1>1 DEF G!Interrupt
    <2>2. G!TypeOK'
      BY <2>1, SignalsPids DEF SignalsInv, G!TypeOK
    <2>3. PidsSoFar'
      <3>1. 0 <= starts /\ g_setting # "fork"
        BY <2>1, SignalsRanges
      <3>. QED BY <2>1, <3>1, SignalsPids DEF SignalsInv, PidsSoFar
    <2>4. InTurnOnce'
      <3>1. starts = 1 => ~dropped /\ other_pid = 1 /\ AheadOfTurn
        BY DEF SignalsInv, InTurnOnce
      <3>2. starts = 1 => AheadOfTurn'
        BY <2>1, <3>1, SignalsPids DEF AheadOfTurn, IsIdle, HasTurn
      <3>. QED BY <2>1, <3>1, <3>2 DEF InTurnOnce
    <2>5. SignalsGoOn' /\ NewestLast'
      BY <2>1 DEF SignalsGoOn, NewestLast
    <2>. QED BY <2>2, <2>3, <2>4, <2>5 DEF SignalsInv
  <1>2. CASE G!Restart
    <2>. DEFINE s == starts + 1
    <2>1. /\ one = 0 /\ starts' = s /\ one' = s /\ G!Goto(s, "kill")
          /\ UNCHANGED <<g_setting, flag, other_pid, pending, ahead, dropped>>
      BY <1>2 DEF G!Restart
    <2>2. s \in Nat /\ s > 1 /\ s > starts /\ s <= MaxStarts /\ s \in G!Pids /\ s \in 1..MaxStarts
      <3>1. starts < MaxStarts
        BY <2>1 DEF SignalsInv, PidsSoFar
      <3>2. starts \in Nat \ {0}
        BY SignalsRanges
      <3>3. s \in Nat /\ s > 1 /\ s > starts /\ s <= MaxStarts /\ s \in 1..MaxStarts
        BY <3>1, <3>2, ProcessesAssumption
      <3>. QED BY <3>3, SignalsPids
    <2>. HIDE DEF s
    <2>3. /\ g_pc' \in [G!Pids -> SignalsLabel] /\ g_pc'[s] = "kill"
          /\ \A q \in G!Pids : q # s => g_pc'[q] = g_pc[q]
      BY <2>1, <2>2, SignalsMoves DEF SignalsLabel
    <2>4. G!TypeOK'
      BY <2>1, <2>2, <2>3, SignalsPids DEF SignalsInv, G!TypeOK, SignalsLabel
    <2>5. PidsSoFar'
      <3>1. \A q \in G!Pids :
               /\ \/ pending[q] = -1
                  \/ q = 0 /\ pending[q] \in 1..s
                  \/ q > 0 /\ pending[q] = 0
               /\ q > s => pending[q] = -1 /\ ~flag[q] /\ g_pc'[q] = "absent"
        BY <2>2, <2>3, SignalsPids, SignalsRanges
      <3>2. g_setting # "fork"
        BY <2>1 DEF SignalsInv, PidsSoFar
      <3>3. s \in Nat \ {0} /\ s <= s /\ other_pid \in Nat \ {0} /\ other_pid <= s
        BY <2>2, SignalsRanges
      <3>4. s # 0
        BY <2>2
      <3>. QED BY <2>1, <2>2, <3>1, <3>2, <3>3, <3>4, SignalsSoFar
    <2>6. InTurnOnce'
      BY <2>1, <2>2 DEF InTurnOnce
    <2>7. SignalsGoOn'
      BY <2>1, <2>3 DEF SignalsGoOn
    <2>8. NewestLast'
      <3>1. other_pid # s
        BY <2>2, SignalsRanges
      <3>. QED BY <2>1, <3>1 DEF NewestLast
    <2>. QED BY <2>4, <2>5, <2>6, <2>7, <2>8 DEF SignalsInv
  <1>. QED BY <1>1, <1>2

LEMMA SignalsNext ==
    ASSUME SignalsInv, G!Next \/ UNCHANGED signals
    PROVE  SignalsInv'
  <1>1. CASE \E p \in G!Pids : G!Process(p)
    BY <1>1, SignalsHandler, SignalsKill, SignalsAnswer DEF G!Process
  <1>2. CASE UNCHANGED signals
    <2>1. G!TypeOK' /\ PidsSoFar'
      BY <1>2, SignalsPids DEF signals, SignalsInv, G!TypeOK, PidsSoFar
    <2>2. AheadOfTurn' = AheadOfTurn
      BY <1>2, SignalsPids DEF signals, AheadOfTurn, IsIdle, HasTurn
    <2>3. InTurnOnce' /\ SignalsGoOn' /\ NewestLast'
      BY <1>2, <2>2, SignalsPids DEF signals, SignalsInv, InTurnOnce, SignalsGoOn,
                                     NewestLast
    <2>. QED BY <2>1, <2>3 DEF SignalsInv
  <1>. QED BY <1>1, <1>2, SignalsUser DEF G!Next, G!Hung, G!vars, signals

LEMMA SignalsAlways == Spec => []SignalsInv
  <1>1. Init => SignalsInv
    BY SignalsInit DEF Init
  <1>2. SignalsInv /\ [Next]_vars => SignalsInv'
    BY StepOfOne, SignalsNext
  <1>. QED BY <1>1, <1>2, PTL DEF Spec

\* Until the first process is started again the two print in turn, no signal
\* is dropped, and none comes between the loop on flag and flag = 0.
THEOREM PingPongInTurn == Spec => []InTurn
  <1>1. SignalsInv => InTurn
    <2>. SUFFICES ASSUME SignalsInv, starts = 1
                  PROVE  /\ ahead \in {0, 1} /\ ~dropped
                         /\ \A p \in G!Pids :
                               pending[p] >= 0 => ~flag[p] /\ g_pc[p] \in {"spin", "absent"}
      BY DEF InTurn, G!InTurn
    <2>1. ~dropped /\ AheadOfTurn
      BY DEF SignalsInv, InTurnOnce
    <2>2. ahead \in {0, 1}
      BY <2>1 DEF AheadOfTurn
    <2>3. \A p \in {0, 1} : IsIdle(p) \/ HasTurn(p)
      BY <2>1, SignalsPids DEF AheadOfTurn
    <2>4. ASSUME NEW p \in G!Pids, pending[p] >= 0
          PROVE  ~flag[p] /\ g_pc[p] \in {"spin", "absent"}
      <3>1. pending[p] # -1
        BY <2>4
      <3>2. p \in {0, 1}
        BY <3>1, SignalsPids, SignalsRanges
      <3>. QED BY <2>3, <3>1, <3>2 DEF IsIdle, HasTurn
    <2>. QED BY <2>1, <2>2, <2>4
  <1>. QED BY <1>1, SignalsAlways, PTL

\* However often the first process is killed and started again, the two wait
\* for each other for good only after a signal was dropped.
THEOREM PingPongHangsOnlyByDrop == Spec => []HangsOnlyByDrop
  <1>1. SignalsInv => HangsOnlyByDrop
    <2>. SUFFICES ASSUME SignalsInv, G!Waiting, one > 0, ~dropped
                  PROVE  FALSE
      BY SignalsRanges DEF HangsOnlyByDrop, G!HangsOnlyByDrop
    <2>1. \A p \in {0, one} : g_pc[p] = "spin" /\ ~flag[p] /\ pending[p] = -1
      BY SignalsPids, SignalsRanges DEF G!Waiting, G!Alive
    <2>. QED BY <2>1, SignalsPids, SignalsRanges DEF SignalsInv, SignalsGoOn
  <1>. QED BY <1>1, SignalsAlways, PTL

-----------------------------------------------------------------------------
(* Shell: the property compares what was executed with the lines; the       *)
(* invariant says how many lines that is at every step, and what is left in *)
(* input and argv while an empty line is in front.                          *)

\* The lines are known, and the child is one that the shell waits for.
ShellRanges ==
    /\ h_setting \in {"shell", "restarter"}
    /\ typed_lines \in Seq(H!Line)
    /\ read \in 0..Len(typed_lines)
    /\ fresh \in BOOLEAN
    /\ child # "none" => h_pc = "wait"
    /\ h_setting = "restarter" => ~fresh /\ read = 0 /\ h_pc # "scan"

\* A fresh line is in argv and will be executed before the next is read.
ToExecute == h_pc = "fork" \/ child = "forked"

Arguments == UNION {{line.words, Append(line.words, "")} : line \in H!Line}

ShellCounts ==
    /\ executed \in Seq(Arguments)
    /\ IF fresh /\ (ToExecute \/ h_pc \in {"exited", "crashed"})
       THEN Len(executed) = read - 1
       ELSE Len(executed) = read
    /\ fresh => read > 0
    /\ fresh /\ ToExecute => argv = H!Parse(typed_lines[read])

\* What is left in input is the first word of the line read last; a line that
\* is not fresh is the empty one behind it, and nothing is read any more.
ShellInput ==
    h_setting = "shell" =>
        /\ input = IF read = 0 THEN <<>> ELSE <<H!Rest(typed_lines[read])>>
        /\ (~fresh /\ (ToExecute \/ h_pc = "wait")) \/ again # {} =>
              /\ read > 0 /\ read < Len(typed_lines) /\ H!IsEmpty(typed_lines[read + 1])
              /\ ~fresh
        /\ ~fresh /\ ToExecute => argv = <<Head(typed_lines[read].words)>>
        /\ again # {} => again = {<<Head(typed_lines[read].words)>>}

ShellExecuted ==
    \A k \in 1..Len(executed) :
        executed[k] \in {typed_lines[k].words, Append(typed_lines[k].words, "")}

ShellInv == ShellRanges /\ ShellCounts /\ ShellInput /\ ShellExecuted

-----------------------------------------------------------------------------

\* A blank line has no words.
LEMMA ShellBlank ==
    /\ \A before : H!Blank(before) = [before |-> before, words |-> <<>>, after |-> FALSE]
    /\ \A before : H!Blank(before).words = <<>>
  BY DEF H!Blank

\* Arguments of a line that has no blank behind its words.
LEMMA ShellWords ==
    ASSUME NEW words
    PROVE  H!Parse([before |-> FALSE, words |-> words, after |-> FALSE]) = words
  <1>. DEFINE line == [before |-> FALSE, words |-> words, after |-> FALSE]
  <1>1. ~line.after /\ line.words = words /\ line # H!Blank(TRUE)
    BY ShellBlank
  <1>. QED BY <1>1, Zenon DEF H!Parse

\* What parse makes of a line, of what it left of a line, and of an empty line.
LEMMA ShellParse ==
    ASSUME NEW line \in H!Line
    PROVE  /\ H!Parse(line) \in {line.words, Append(line.words, "")}
           /\ H!Parse(line) \in Arguments
           /\ H!Parse(H!Rest(line)) \in {<<>>, <<Head(line.words)>>}
           /\ H!Rest(H!Rest(line)) = H!Rest(line)
  <1>1. H!Parse(line) \in {line.words, Append(line.words, "")}
    BY Zenon DEF H!Parse
  <1>2. H!Parse(line) \in Arguments
    BY <1>1, Zenon DEF Arguments
  <1>. DEFINE Left(words) == [before |-> FALSE, words |-> words, after |-> FALSE]
  <1>3. H!Rest(line) \in {Left(<<>>), Left(<<Head(line.words)>>)}
    BY ShellBlank DEF H!Rest
  <1>4. H!Rest(Left(<<>>)) = Left(<<>>)
    BY ShellBlank DEF H!Rest
  <1>5. ASSUME NEW word
        PROVE  H!Rest(Left(<<word>>)) = Left(<<word>>)
    <2>1. Left(<<word>>).words = <<word>> /\ ~Left(<<word>>).before
      OBVIOUS
    <2>2. Head(<<word>>) = word /\ <<word>> # <<>>
      OBVIOUS
    <2>. HIDE DEF Left
    <2>3. H!Rest(Left(<<word>>)) = [before |-> FALSE, words |-> <<word>>, after |-> FALSE]
      BY <2>1, <2>2, Zenon DEF H!Rest
    <2>. QED BY <2>3 DEF Left
  <1>6. H!Parse(H!Rest(line)) \in {<<>>, <<Head(line.words)>>}
    BY <1>3, ShellWords, Zenon
  <1>7. H!Rest(H!Rest(line)) = H!Rest(line)
    BY <1>3, <1>4, <1>5, Zenon
  <1>. QED BY <1>1, <1>2, <1>6, <1>7

LEMMA ShellInit == H!Init => ShellInv
  <1>. SUFFICES ASSUME H!Init PROVE ShellInv
    OBVIOUS
  <1>1. /\ h_setting \in {"shell", "restarter"} /\ read = 0 /\ input = <<>>
        /\ child = "none" /\ fresh = FALSE /\ executed = <<>> /\ again = {}
        /\ h_setting = "restarter" => h_pc = "fork"
        /\ h_setting = "shell" => h_pc = "scan"
    BY DEF H!Init
  <1>2. typed_lines \in Seq(H!Line)
    <2>1. CASE h_setting = "shell"
      <3>1. PICK n \in 0..MaxTyped : typed_lines \in [1..n -> H!Line]
        BY <2>1 DEF H!Init
      <3>2. n \in Nat
        BY ProcessesAssumption
      <3>. QED BY <3>1, <3>2
    <2>2. CASE h_setting # "shell"
      BY <2>2 DEF H!Init
    <2>. QED BY <2>1, <2>2
  <1>3. ShellRanges
    <2>1. read \in 0..Len(typed_lines)
      BY <1>1, <1>2
    <2>2. h_setting = "restarter" => h_pc # "scan"
      BY <1>1
    <2>. QED BY <1>1, <1>2, <2>1, <2>2, Zenon DEF ShellRanges
  <1>4. ShellCounts
    BY <1>1 DEF ShellCounts
  <1>5. ShellInput /\ ShellExecuted
    BY <1>1 DEF ShellInput, ShellExecuted, ToExecute
  <1>. QED BY <1>3, <1>4, <1>5 DEF ShellInv

\* The line in front is read, or, when it is empty, what is left of the one
\* before it is parsed again.
LEMMA ShellScan ==
    ASSUME ShellInv, H!Scan
    PROVE  ShellInv'
  <1>1. /\ h_pc = "scan" /\ h_setting = "shell" /\ child = "none" /\ ~ToExecute
        /\ UNCHANGED <<h_setting, typed_lines, child, executed, again>>
    BY DEF H!Scan, ShellInv, ShellRanges, ToExecute
  <1>2. /\ typed_lines \in Seq(H!Line) /\ Len(typed_lines) \in Nat
        /\ read \in Nat /\ read <= Len(typed_lines)
        /\ executed \in Seq(Arguments) /\ Len(executed) = read
    BY <1>1 DEF ShellInv, ShellRanges, ShellCounts
  <1>3. CASE read = Len(typed_lines)
    <2>1. h_pc' = "returned" /\ UNCHANGED <<read, input, argv, fresh>>
      BY <1>3 DEF H!Scan
    <2>2. ~ToExecute'
      BY <1>1, <2>1 DEF ToExecute
    <2>3. ShellRanges' /\ ShellCounts'
      BY <1>1, <1>2, <2>1, <2>2 DEF ShellInv, ShellRanges, ShellCounts
    <2>4. ShellInput' /\ ShellExecuted'
      BY <1>1, <2>1, <2>2 DEF ShellInv, ShellInput, ShellExecuted
    <2>. QED BY <2>3, <2>4 DEF ShellInv
  <1>4. CASE read < Len(typed_lines) /\ ~H!IsEmpty(typed_lines[read + 1])
    <2>. DEFINE line == typed_lines[read + 1]
    <2>1. line \in H!Line
      BY <1>2, <1>4
    <2>2. /\ fresh' = TRUE /\ read' = read + 1 /\ argv' = H!Parse(line)
          /\ input' = <<H!Rest(line)>> /\ h_pc' \in {"crashed", "exited", "fork"}
      <3>1. <<line>> # <<>> /\ <<line>>[1] = line /\ read # Len(typed_lines)
        BY <1>2, <1>4
      <3>. QED BY <1>4, <3>1 DEF H!Scan
    <2>. HIDE DEF line
    <2>3. typed_lines[read'] = line /\ read' \in 0..Len(typed_lines) /\ read' > 0
          /\ read' # 0 /\ read' - 1 = read
      BY <1>2, <1>4, <2>2 DEF line
    <2>4. again = {}
      BY <1>1, <1>4, <1>2 DEF ShellInv, ShellInput
    <2>5. ShellRanges'
      BY <1>1, <2>2, <2>3 DEF ShellInv, ShellRanges
    <2>6. ShellCounts'
      BY <1>1, <1>2, <2>2, <2>3 DEF ShellCounts, ToExecute
    <2>7. ShellInput'
      BY <1>1, <2>2, <2>3, <2>4 DEF ShellInput
    <2>8. ShellExecuted'
      BY <1>1 DEF ShellInv, ShellExecuted
    <2>. QED BY <2>5, <2>6, <2>7, <2>8 DEF ShellInv
  <1>5. CASE read < Len(typed_lines) /\ H!IsEmpty(typed_lines[read + 1])
    <2>1. input = IF read = 0 THEN <<>> ELSE <<H!Rest(typed_lines[read])>>
      BY <1>1 DEF ShellInv, ShellInput
    <2>2. /\ fresh' = FALSE /\ read' = read /\ read # Len(typed_lines)
          /\ IF input = <<>> THEN h_pc' = "undefined" /\ UNCHANGED <<input, argv>>
             ELSE /\ argv' = H!Parse(input[1]) /\ input' = <<H!Rest(input[1])>>
                  /\ h_pc' = IF argv' = <<>> THEN "crashed"
                             ELSE IF Head(argv') = "exit" THEN "exited" ELSE "fork"
      <3>1. read # Len(typed_lines)
        BY <1>2, <1>5
      <3>. QED BY <1>5, <3>1, Zenon DEF H!Scan
    <2>3. CASE read = 0
      <3>1. h_pc' = "undefined" /\ UNCHANGED <<input, argv>>
        BY <2>1, <2>2, <2>3
      <3>2. again = {}
        BY <1>1, <2>3 DEF ShellInv, ShellInput
      <3>3. ShellRanges' /\ ShellCounts'
        BY <1>1, <1>2, <2>2, <3>1 DEF ShellInv, ShellRanges, ShellCounts, ToExecute
      <3>4. ShellInput' /\ ShellExecuted'
        BY <1>1, <2>1, <2>2, <2>3, <3>1, <3>2 DEF ShellInv, ShellInput, ShellExecuted,
           ToExecute
      <3>. QED BY <3>3, <3>4 DEF ShellInv
    <2>4. CASE read # 0
      <3>. DEFINE line == typed_lines[read]
      <3>1. line \in H!Line /\ read > 0
        BY <1>2, <2>4
      <3>. HIDE DEF line
      <3>2. input = <<H!Rest(line)>> /\ input # <<>> /\ input[1] = H!Rest(line)
        BY <2>1, <2>4 DEF line
      <3>3. /\ argv' = H!Parse(H!Rest(line)) /\ input' = input
            /\ h_pc' = IF argv' = <<>> THEN "crashed"
                       ELSE IF Head(argv') = "exit" THEN "exited" ELSE "fork"
        BY <2>2, <3>1, <3>2, ShellParse
      <3>4. ToExecute' => argv' = <<Head(line.words)>>
        BY <1>1, <3>1, <3>3, ShellParse DEF ToExecute
      <3>5. h_pc' \in {"crashed", "exited", "fork"}
        BY <3>3
      <3>6. ShellRanges' /\ ShellCounts'
        BY <1>1, <1>2, <2>2, <3>5 DEF ShellInv, ShellRanges, ShellCounts
      <3>7. ShellInput'
        BY <1>1, <1>5, <2>1, <2>2, <3>1, <3>3, <3>4 DEF ShellInv, ShellInput, line
      <3>8. ShellExecuted'
        BY <1>1 DEF ShellInv, ShellExecuted
      <3>. QED BY <3>6, <3>7, <3>8 DEF ShellInv
    <2>. QED BY <2>3, <2>4
  <1>. QED BY <1>2, <1>3, <1>4, <1>5

\* A fork leaves argv to the child; if it fails the shell ends.
LEMMA ShellFork ==
    ASSUME ShellInv, H!Fork
    PROVE  ShellInv'
  <1>1. /\ h_pc = "fork" /\ ToExecute
        /\ UNCHANGED <<h_setting, typed_lines, read, input, argv, fresh, executed, again>>
        /\ \/ h_pc' = "wait" /\ child' = "forked"
           \/ h_pc' \in {"exited", "fork"} /\ child' = child
    BY DEF H!Fork, H!AfterFailedFork, ToExecute
  <1>2. child = "none"
    BY <1>1 DEF ShellInv, ShellRanges
  <1>3. ToExecute' \/ h_pc' = "exited"
    BY <1>1 DEF ToExecute
  <1>4. ShellRanges'
    BY <1>1, <1>2 DEF ShellInv, ShellRanges
  <1>5. ShellCounts'
    BY <1>1, <1>3 DEF ShellInv, ShellCounts
  <1>6. ShellInput' /\ ShellExecuted'
    BY <1>1 DEF ShellInv, ShellInput, ShellExecuted
  <1>. QED BY <1>4, <1>5, <1>6 DEF ShellInv

LEMMA ShellExecvp ==
    ASSUME ShellInv, H!Execvp
    PROVE  ShellInv'
  <1>1. /\ child = "forked" /\ ToExecute /\ h_pc = "wait" /\ child' \in {"running", "ended"}
        /\ UNCHANGED <<h_setting, typed_lines, read, input, argv, h_pc, fresh>>
        /\ executed' = IF fresh THEN Append(executed, argv) ELSE executed
        /\ again' = IF fresh THEN again ELSE again \cup {argv}
    BY DEF H!Execvp, ToExecute, ShellInv, ShellRanges
  <1>2. ~ToExecute'
    BY <1>1 DEF ToExecute
  <1>3. ShellRanges'
    BY <1>1 DEF ShellInv, ShellRanges
  <1>4. /\ executed \in Seq(Arguments) /\ Len(executed) \in Nat
        /\ read \in 0..Len(typed_lines) /\ typed_lines \in Seq(H!Line)
    BY DEF ShellInv, ShellRanges, ShellCounts
  <1>5. CASE fresh
    <2>1. /\ Len(executed) = read - 1 /\ argv = H!Parse(typed_lines[read]) /\ read > 0
          /\ typed_lines[read] \in H!Line
      BY <1>1, <1>4, <1>5 DEF ShellInv, ShellCounts
    <2>2. /\ argv \in Arguments
          /\ argv \in {typed_lines[read].words, Append(typed_lines[read].words, "")}
      BY <2>1, ShellParse
    <2>3. executed' = Append(executed, argv) /\ again' = again
      BY <1>1, <1>5
    <2>4. /\ executed' \in Seq(Arguments) /\ Len(executed') = read
          /\ \A k \in 1..(read - 1) : executed'[k] = executed[k]
          /\ executed'[read] = argv
      <3>1. /\ executed' \in Seq(Arguments) /\ Len(executed') = Len(executed) + 1
            /\ \A k \in 1..Len(executed) : executed'[k] = executed[k]
            /\ executed'[Len(executed) + 1] = argv
        <4>1. argv \in Arguments /\ executed \in Seq(Arguments)
          BY <1>4, <2>2
        <4>. QED BY <2>3, <4>1, AppendProperties
      <3>2. Len(executed) + 1 = read
        BY <1>4, <2>1
      <3>. QED BY <2>1, <3>1, <3>2
    <2>5. ShellCounts'
      BY <1>1, <1>2, <2>1, <2>4 DEF ShellCounts
    <2>6. ShellInput'
      BY <1>1, <1>2, <1>5, <2>3 DEF ShellInv, ShellInput
    <2>7. ShellExecuted'
      <3>. SUFFICES ASSUME NEW k \in 1..read
                    PROVE  executed'[k] \in {typed_lines[k].words, Append(typed_lines[k].words, "")}
        BY <1>1, <2>4 DEF ShellExecuted
      <3>1. k = read \/ k \in 1..(read - 1)
        BY <1>4
      <3>. QED BY <2>1, <2>2, <2>4, <3>1 DEF ShellInv, ShellExecuted
    <2>. QED BY <1>3, <2>5, <2>6, <2>7 DEF ShellInv
  <1>6. CASE ~fresh
    <2>1. executed' = executed /\ again' = again \cup {argv}
      BY <1>1, <1>6
    <2>2. ShellCounts' /\ ShellExecuted'
      BY <1>1, <1>2, <1>6, <2>1 DEF ShellInv, ShellCounts, ShellExecuted
    <2>3. ShellInput'
      BY <1>1, <1>2, <1>6, <2>1 DEF ShellInv, ShellInput
    <2>. QED BY <1>3, <2>2, <2>3 DEF ShellInv
  <1>. QED BY <1>5, <1>6

LEMMA ShellNext ==
    ASSUME ShellInv, H!Next \/ UNCHANGED shell
    PROVE  ShellInv'
  <1>1. ASSUME UNCHANGED <<h_setting, typed_lines, read, input, argv, fresh, executed, again>>,
               \/ h_pc = "wait" /\ child = "running" /\ h_pc' = h_pc /\ child' = "ended"
               \/ /\ h_pc = "wait" /\ child = "ended" /\ child' = "none"
                  /\ h_pc' = IF h_setting = "shell" THEN "scan" ELSE "fork"
        PROVE  ShellInv'
    <2>1. ~ToExecute
      BY <1>1 DEF ToExecute
    <2>2. ShellRanges'
      BY <1>1 DEF ShellInv, ShellRanges
    <2>3. h_setting = "shell" => ~ToExecute' /\ h_pc' \in {"wait", "scan"}
      BY <1>1 DEF ToExecute
    <2>4. h_setting # "shell" => ~fresh
      BY DEF ShellInv, ShellRanges
    <2>5. ShellCounts'
      BY <1>1, <2>1, <2>3, <2>4 DEF ShellInv, ShellCounts
    <2>6. ShellInput' /\ ShellExecuted'
      BY <1>1, <2>3 DEF ShellInv, ShellInput, ShellExecuted
    <2>. QED BY <2>2, <2>5, <2>6 DEF ShellInv
  <1>2. CASE H!ChildEnds
    BY <1>1, <1>2 DEF H!ChildEnds, ShellInv, ShellRanges
  <1>3. CASE H!Wait
    BY <1>1, <1>3 DEF H!Wait
  <1>4. CASE UNCHANGED shell
    BY <1>4 DEF shell, ShellInv, ShellRanges, ShellCounts, ShellInput, ShellExecuted,
                ToExecute
  <1>. QED BY <1>2, <1>3, <1>4, ShellScan, ShellFork, ShellExecvp
           DEF H!Next, H!Step, H!Stopped, H!vars, shell

\* For any number of lines: the shell runs what was typed and no argument of
\* an earlier line, but for the first word of the line before an empty one.
THEOREM ShellRunsWhatWasTyped == Spec => []RunsWhatWasTyped
  <1>1. Init => ShellInv
    BY ShellInit DEF Init
  <1>2. ShellInv /\ [Next]_vars => ShellInv'
    BY StepOfOne, ShellNext
  <1>3. ShellInv => RunsWhatWasTyped
    BY DEF ShellInv, ShellExecuted, ShellInput, RunsWhatWasTyped, H!RunsWhatWasTyped
  <1>. QED BY <1>1, <1>2, <1>3, PTL DEF Spec

-----------------------------------------------------------------------------
(* SelectServer: what only the user at the console can do, and how the      *)
(* slots, the descriptors and the connections that wait belong together.    *)

SelectLabel == {"udp socket", "tcp socket", "select", "console", "udp", "tcp", "clients", "ended"}

\* Behind select, and before the new connection is handled.
Selected == s_pc \in {"console", "udp", "tcp"}

ReadyFor == [stdin : BOOLEAN, udp : BOOLEAN, tcp : BOOLEAN, clients : SUBSET S!Client]

SelectRanges ==
    /\ s_pc \in SelectLabel
    /\ i \in S!Slot
    /\ readfds \in ReadyFor
    /\ client_socket \in [S!Slot -> S!Client \cup {S!Stdin}]
    /\ fd \in [S!Client -> {"none", "open", "closed"}]
    /\ peer \in [S!Client -> {"away", "there", "shut", "reset"}]
    /\ backlog \in Seq(S!Client)
    /\ typed \in Nat

\* The console is ready only after something was typed, and only what was
\* typed makes the server end or lose it.
OnlyTyped ==
    \/ typed > 0
    \/ /\ lines = <<>> /\ ~readfds.stdin /\ stdin_open /\ status = "TO_CONTINUE"
       /\ outcome \notin {"select failed", "success"}

\* The connections that wait are those the server has no descriptor of yet,
\* and select was told of one only if there is one.
SelectBacklog ==
    /\ \A k \in 1..Len(backlog) : fd[backlog[k]] = "none" /\ peer[backlog[k]] # "away"
    /\ \A k, l \in 1..Len(backlog) : backlog[k] = backlog[l] => k = l
    /\ \A c \in S!Client : peer[c] = "away" => fd[c] = "none"
    /\ Selected /\ readfds.tcp => backlog # <<>>

\* Slots name open connections, each once, and the others were too many.
SelectSlots ==
    /\ \A s \in S!Slot : client_socket[s] # S!Stdin => fd[client_socket[s]] = "open"
    /\ \A s, r \in S!Slot :
          client_socket[s] # S!Stdin /\ client_socket[s] = client_socket[r] => s = r
    /\ \A c \in S!Client : fd[c] = "open" =>
          c \in crowded \/ \E s \in S!Slot : client_socket[s] = c

SelectInv == SelectRanges /\ OnlyTyped /\ SelectBacklog /\ SelectSlots

-----------------------------------------------------------------------------

\* Slots and clients are numbers; no client has the descriptor of the console.
LEMMA SelectNumbers ==
    /\ S!Slot \subseteq Nat /\ 0 \in S!Slot
    /\ S!Stdin = 0 /\ \A c \in S!Client : c # S!Stdin
    /\ version' = version => S!Slot' = S!Slot
    /\ S!Client' = S!Client
  BY ProcessesAssumption DEF S!Slot, S!Stdin, S!Client

\* Of slots, as of any numbers, one is the first.
LEMMA FirstSlot ==
    ASSUME NEW slots, slots \subseteq S!Slot, slots # {}
    PROVE  (CHOOSE s \in slots : \A r \in slots : s <= r) \in slots
  <1>. DEFINE Below == {p \in Nat \X Nat : p[1] < p[2]}
  <1>1. IsWellFoundedOn(Below, Nat)
    BY NatLessThanWellFounded DEF OpToRel
  <1>2. slots \subseteq Nat
    BY SelectNumbers
  <1>3. PICK s \in slots : \A r \in slots : <<r, s>> \notin Below
    <2>. HIDE DEF Below
    <2>. QED BY <1>1, <1>2, WFMin, Zenon
  <1>4. \A a, b \in Nat : <<a, b>> \notin Below => b <= a
    OBVIOUS
  <1>5. \A r \in slots : s <= r
    <2>. HIDE DEF Below
    <2>. QED BY <1>2, <1>3, <1>4
  <1>. QED BY <1>5

\* Before anything was typed the console is open and says nothing.
LEMMA NothingTyped ==
    ASSUME SelectInv, typed = 0
    PROVE  /\ lines = <<>> /\ ~readfds.stdin /\ stdin_open /\ status = "TO_CONTINUE"
           /\ outcome \notin {"select failed", "success"}
  <1>1. ~(typed > 0)
    OBVIOUS
  <1>. QED BY <1>1, Zenon DEF SelectInv, OnlyTyped

LEMMA SelectInit == S!Init => SelectInv
  <1>. SUFFICES ASSUME S!Init PROVE SelectInv
    OBVIOUS
  <1>1. /\ i = 0 /\ status = "TO_CONTINUE" /\ outcome = "serving" /\ readfds = S!Nothing
        /\ client_socket = [s \in S!Slot |-> S!Stdin] /\ fd = [c \in S!Client |-> "none"]
        /\ backlog = <<>> /\ peer = [c \in S!Client |-> "away"]
        /\ stdin_open = TRUE /\ lines = <<>> /\ typed = 0
    BY Zenon DEF S!Init
  <1>2. s_pc \in SelectLabel /\ ~Selected
    <2>1. s_pc = "udp socket" \/ s_pc = "tcp socket"
      BY Zenon DEF S!Init
    <2>. QED BY <2>1, Zenon DEF SelectLabel, Selected
  <1>3. SelectRanges
    <2>1. readfds \in ReadyFor
      BY <1>1 DEF S!Nothing, ReadyFor
    <2>. QED BY <1>1, <1>2, <2>1, SelectNumbers DEF SelectRanges
  <1>4. OnlyTyped
    <2>1. ~readfds.stdin
      BY <1>1 DEF S!Nothing
    <2>2. outcome \notin {"select failed", "success"}
      BY <1>1, Zenon
    <2>. QED BY <1>1, <2>1, <2>2, Zenon DEF OnlyTyped
  <1>5. SelectBacklog
    BY <1>1, <1>2 DEF SelectBacklog
  <1>6. SelectSlots
    BY <1>1, SelectNumbers DEF SelectSlots
  <1>. QED BY <1>3, <1>4, <1>5, <1>6 DEF SelectInv

\* A step that neither makes nor accepts nor closes a connection.
LEMMA SelectKeeps ==
    ASSUME SelectInv, UNCHANGED <<version, client_socket, fd, backlog, crowded>>,
           peer' \in [S!Client -> {"away", "there", "shut", "reset"}],
           \A c \in S!Client : peer'[c] = "away" <=> peer[c] = "away",
           s_pc' \in SelectLabel, i' \in S!Slot, readfds' \in ReadyFor, typed' \in Nat,
           OnlyTyped', Selected' /\ readfds'.tcp => backlog # <<>>
    PROVE  SelectInv'
  <1>1. SelectRanges'
    BY SelectNumbers DEF SelectInv, SelectRanges
  <1>2. SelectBacklog'
    <2>1. backlog \in Seq(S!Client)
      BY DEF SelectInv, SelectRanges
    <2>2. \A k \in 1..Len(backlog) : backlog[k] \in S!Client
      BY <2>1
    <2>. QED BY <2>2, SelectNumbers DEF SelectInv, SelectBacklog
  <1>3. SelectSlots'
    BY SelectNumbers DEF SelectInv, SelectSlots
  <1>. QED BY <1>1, <1>2, <1>3 DEF SelectInv

\* The same of a step that leaves the server where it is.
LEMMA SelectStays ==
    ASSUME SelectInv,
           UNCHANGED <<version, s_pc, i, status, outcome, readfds, client_socket, fd, backlog,
                       crowded, stdin_open, lines, typed>>,
           peer' \in [S!Client -> {"away", "there", "shut", "reset"}],
           \A c \in S!Client : peer'[c] = "away" <=> peer[c] = "away"
    PROVE  SelectInv'
  <1>1. /\ s_pc' \in SelectLabel /\ i' \in S!Slot /\ readfds' \in ReadyFor /\ typed' \in Nat
        /\ Selected' /\ readfds'.tcp => backlog # <<>>
    BY DEF SelectInv, SelectRanges, SelectBacklog, Selected
  <1>2. OnlyTyped'
    BY Zenon DEF SelectInv, OnlyTyped
  <1>. QED BY <1>1, <1>2, SelectKeeps

\* Connections, requests and datagrams, and what is typed.
LEMMA SelectEnvironment ==
    ASSUME SelectInv, S!Environment
    PROVE  SelectInv'
  <1>1. CASE S!Type
    <2>1. /\ typed' = typed + 1
          /\ UNCHANGED <<version, s_pc, i, readfds, client_socket, fd, backlog, peer, crowded>>
      BY <1>1 DEF S!Type, S!server, S!sockets
    <2>2. typed' > 0 /\ typed' \in Nat
      BY <2>1 DEF SelectInv, SelectRanges
    <2>3. OnlyTyped'
      BY <2>2 DEF OnlyTyped
    <2>4. /\ s_pc' \in SelectLabel /\ i' \in S!Slot /\ readfds' \in ReadyFor
          /\ peer' \in [S!Client -> {"away", "there", "shut", "reset"}]
          /\ Selected' /\ readfds'.tcp => backlog # <<>>
      BY <2>1 DEF SelectInv, SelectRanges, SelectBacklog, Selected
    <2>. QED BY <2>1, <2>2, <2>3, <2>4, SelectKeeps
  <1>2. ASSUME NEW c \in S!Client, S!Connect(c)
        PROVE  SelectInv'
    <2>1. /\ peer[c] = "away" /\ peer' = [peer EXCEPT ![c] = "there"]
          /\ backlog' = Append(backlog, c)
          /\ UNCHANGED <<version, s_pc, i, status, outcome, readfds, client_socket>>
          /\ UNCHANGED <<fd, crowded, stdin_open, lines, typed>>
      BY <1>2 DEF S!Connect, S!server, S!console
    <2>2. /\ peer' \in [S!Client -> {"away", "there", "shut", "reset"}] /\ peer'[c] = "there"
          /\ \A d \in S!Client : d # c => peer'[d] = peer[d]
      BY <2>1 DEF SelectInv, SelectRanges
    <2>3. backlog \in Seq(S!Client) /\ Len(backlog) \in Nat
      BY DEF SelectInv, SelectRanges
    <2>4. /\ backlog' \in Seq(S!Client) /\ backlog' # <<>> /\ Len(backlog') = Len(backlog) + 1
          /\ \A k \in 1..Len(backlog) : backlog'[k] = backlog[k]
          /\ backlog'[Len(backlog) + 1] = c
      BY <2>1, <2>3, AppendProperties
    <2>5. \A k \in 1..Len(backlog') :
             k \in 1..Len(backlog) \/ k = Len(backlog) + 1
      BY <2>3, <2>4
    <2>6. fd[c] = "none" /\ \A k \in 1..Len(backlog) : backlog[k] # c /\ backlog[k] \in S!Client
      BY <2>1, <2>3 DEF SelectInv, SelectBacklog
    <2>7. OnlyTyped'
      BY <2>1, Zenon DEF SelectInv, OnlyTyped
    <2>9. SelectRanges' /\ SelectSlots'
      <3>1. SelectRanges'
        BY <2>1, <2>2, <2>4, SelectNumbers DEF SelectInv, SelectRanges
      <3>2. SelectSlots'
        BY <2>1, SelectNumbers DEF SelectInv, SelectSlots
      <3>. QED BY <3>1, <3>2
    <2>8. SelectBacklog'
      BY <2>1, <2>2, <2>4, <2>5, <2>6, SelectNumbers DEF SelectInv, SelectBacklog, Selected
    <2>. QED BY <2>7, <2>8, <2>9 DEF SelectInv
  <1>3. ASSUME NEW c \in S!Client, S!Request(c)
        PROVE  SelectInv'
    BY <1>3, SelectStays DEF S!Request, S!server, S!console, SelectInv, SelectRanges
  <1>4. ASSUME NEW c \in S!Client, S!Leave(c)
        PROVE  SelectInv'
    <2>1. /\ peer[c] # "away" /\ \E how \in {"shut", "reset"} : peer' = [peer EXCEPT ![c] = how]
          /\ UNCHANGED <<version, s_pc, i, status, outcome, readfds, client_socket>>
          /\ UNCHANGED <<fd, backlog, crowded, stdin_open, lines, typed>>
      BY <1>4 DEF S!Leave, S!server, S!console
    <2>2. /\ peer' \in [S!Client -> {"away", "there", "shut", "reset"}]
          /\ \A d \in S!Client : peer'[d] = "away" <=> peer[d] = "away"
      BY <2>1 DEF SelectInv, SelectRanges
    <2>. QED BY <2>1, <2>2, SelectStays
  <1>5. CASE S!Datagram
    BY <1>5, SelectStays DEF S!Datagram, S!server, S!console, SelectInv, SelectRanges
  <1>. QED BY <1>1, <1>2, <1>3, <1>4, <1>5 DEF S!Environment


\* A socket that cannot be made or bound ends the server before it begins.
LEMMA SelectStart ==
    ASSUME SelectInv, S!CreateUdpServerAndBind \/ S!CreateTcpServerAndBind
    PROVE  SelectInv'
  <1>1. /\ UNCHANGED <<version, i, status, readfds, client_socket, fd, backlog, peer, crowded>>
        /\ UNCHANGED <<stdin_open, lines, typed>>
    BY DEF S!CreateUdpServerAndBind, S!CreateTcpServerAndBind, S!sockets, S!console
  <1>2. s_pc' \in SelectLabel /\ ~Selected'
    BY Zenon DEF S!CreateUdpServerAndBind, S!CreateTcpServerAndBind, SelectLabel, Selected
  <1>3. outcome' = outcome \/ outcome' \notin {"select failed", "success"}
    BY Zenon DEF S!CreateUdpServerAndBind, S!CreateTcpServerAndBind
  <1>4. OnlyTyped'
    BY <1>1, <1>3, Zenon DEF SelectInv, OnlyTyped
  <1>. QED BY <1>1, <1>2, <1>4, SelectKeeps DEF SelectInv, SelectRanges

\* select fails only when the descriptor of the console was closed: those of
\* the slots are open.
LEMMA SelectSelect ==
    ASSUME SelectInv, S!Select
    PROVE  SelectInv'
  <1>1. /\ UNCHANGED <<version, i, status, client_socket, fd, backlog, peer, crowded>>
        /\ UNCHANGED <<stdin_open, lines, typed>>
    BY DEF S!Select, S!sockets, S!console
  <1>2. \A c \in S!SetSocketDescriptorIntoSelect : fd[c] = "open"
    BY DEF SelectInv, SelectSlots, S!SetSocketDescriptorIntoSelect
  <1>3. CASE stdin_open
    <2>1. /\ readfds' = [stdin   |-> lines # <<>>,
                         udp     |-> datagrams > 0,
                         tcp     |-> backlog # <<>>,
                         clients |-> {c \in S!SetSocketDescriptorIntoSelect : S!Readable(c)}]
          /\ s_pc' \in {"console", "tcp"} /\ outcome' = outcome
      BY <1>2, <1>3, Zenon DEF S!Select
    <2>2. S!SetSocketDescriptorIntoSelect \subseteq S!Client
      BY DEF S!SetSocketDescriptorIntoSelect, SelectInv, SelectRanges
    <2>3. readfds' \in ReadyFor /\ readfds'.tcp = (backlog # <<>>) /\ readfds'.stdin = (lines # <<>>)
      BY <2>1, <2>2 DEF ReadyFor
    <2>4. OnlyTyped'
      BY <1>1, <2>1, <2>3, Zenon DEF SelectInv, OnlyTyped
    <2>5. s_pc' \in SelectLabel
      BY <2>1, Zenon DEF SelectLabel
    <2>. QED BY <1>1, <2>3, <2>4, <2>5, SelectKeeps DEF SelectInv, SelectRanges
  <1>4. CASE ~stdin_open
    <2>1. s_pc' = "ended" /\ readfds' = readfds
      BY <1>4, Zenon DEF S!Select
    <2>2. typed > 0
      BY <1>4, Zenon DEF SelectInv, OnlyTyped
    <2>3. OnlyTyped'
      BY <1>1, <2>2, Zenon DEF OnlyTyped
    <2>4. s_pc' \in SelectLabel /\ ~Selected'
      BY <2>1, Zenon DEF SelectLabel, Selected
    <2>. QED BY <1>1, <2>1, <2>3, <2>4, SelectKeeps DEF SelectInv, SelectRanges
  <1>. QED BY <1>3, <1>4

\* The console is read only when something was typed.
LEMMA SelectConsole ==
    ASSUME SelectInv, S!Console \/ S!SendAndRecieveUDP
    PROVE  SelectInv'
  <1>1. /\ UNCHANGED <<version, i, outcome, readfds, client_socket, fd, backlog, peer, crowded>>
        /\ UNCHANGED <<stdin_open, typed>>
        /\ Selected /\ s_pc' \in {"udp", "tcp"}
        /\ ~readfds.stdin => UNCHANGED <<status, lines>>
        /\ s_pc = "udp" => UNCHANGED <<status, lines>>
    <2>1. CASE S!Console
      BY <2>1, Zenon DEF S!Console, S!sockets, Selected
    <2>2. CASE S!SendAndRecieveUDP
      BY <2>2, Zenon DEF S!SendAndRecieveUDP, S!console, Selected
    <2>. QED BY <2>1, <2>2
  <1>2. OnlyTyped'
    BY <1>1, Zenon DEF SelectInv, OnlyTyped
  <1>3. s_pc' \in SelectLabel
    BY <1>1, Zenon DEF SelectLabel
  <1>. QED BY <1>1, <1>2, <1>3, SelectKeeps DEF SelectInv, SelectRanges, SelectBacklog

\* A connection that is accepted has waited and is in no slot; it gets the
\* first empty one.
LEMMA SelectAccept ==
    ASSUME SelectInv, S!HandleNewConnection
    PROVE  SelectInv'
  <1>1. /\ s_pc = "tcp" /\ s_pc' = "clients" /\ i' = 0
        /\ UNCHANGED <<version, status, outcome, readfds, peer, stdin_open, lines, typed>>
    BY DEF S!HandleNewConnection, S!console
  <1>2. s_pc' \in SelectLabel /\ ~Selected' /\ Selected
    BY <1>1, Zenon DEF SelectLabel, Selected
  <1>3. OnlyTyped'
    BY <1>1, Zenon DEF SelectInv, OnlyTyped
  <1>4. CASE UNCHANGED <<client_socket, crowded, fd, backlog>>
    BY <1>1, <1>2, <1>3, <1>4, SelectNumbers, SelectKeeps DEF SelectInv, SelectRanges
  <1>5. CASE ~UNCHANGED <<client_socket, crowded, fd, backlog>>
    <2>. DEFINE c == Head(backlog)
                empty == {s \in S!Slot : client_socket[s] = S!Stdin}
                first == CHOOSE s \in empty : \A r \in empty : s <= r
    <2>1. /\ readfds.tcp /\ fd' = [fd EXCEPT ![c] = "open"] /\ backlog' = Tail(backlog)
          /\ IF empty # {} THEN client_socket' = [client_socket EXCEPT ![first] = c] /\ crowded' = crowded
             ELSE crowded' = crowded \cup {c} /\ client_socket' = client_socket
      BY <1>5, Zenon DEF S!HandleNewConnection, S!AddNewSocketToClientsFdArr
    <2>2. backlog \in Seq(S!Client) /\ backlog # <<>>
      BY <1>2, <2>1 DEF SelectInv, SelectRanges, SelectBacklog
    <2>3. /\ c \in S!Client /\ c = backlog[1] /\ 1 \in 1..Len(backlog)
          /\ Tail(backlog) \in Seq(S!Client) /\ Len(Tail(backlog)) = Len(backlog) - 1
          /\ \A k \in 1..Len(Tail(backlog)) : Tail(backlog)[k] = backlog[k + 1] /\ k + 1 \in 2..Len(backlog)
      BY <2>2
    <2>4. empty # {} => first \in empty
      BY FirstSlot, Zenon
    <2>5. fd[c] = "none" /\ \A k \in 2..Len(backlog) : backlog[k] # c
      BY <2>3 DEF SelectInv, SelectBacklog
    <2>6. \A s \in S!Slot : client_socket[s] # c
      BY <2>3, <2>5, SelectNumbers DEF SelectInv, SelectSlots
    <2>7. /\ fd' \in [S!Client -> {"none", "open", "closed"}] /\ fd'[c] = "open"
          /\ \A d \in S!Client : d # c => fd'[d] = fd[d]
      BY <2>1, <2>3 DEF SelectInv, SelectRanges
    <2>8. \/ /\ \E s \in S!Slot : /\ client_socket[s] = S!Stdin /\ client_socket'[s] = c
                                  /\ \A r \in S!Slot : r # s => client_socket'[r] = client_socket[r]
             /\ crowded' = crowded
          \/ crowded' = crowded \cup {c} /\ client_socket' = client_socket
      <3>. HIDE DEF c, first
      <3>1. CASE empty # {}
        <4>1. first \in S!Slot /\ client_socket[first] = S!Stdin
          BY <2>4, <3>1
        <4>2. client_socket' = [client_socket EXCEPT ![first] = c] /\ crowded' = crowded
          BY <2>1, <3>1
        <4>. HIDE DEF empty
        <4>. QED BY <4>1, <4>2 DEF SelectInv, SelectRanges
      <3>2. CASE empty = {}
        BY <2>1, <3>2
      <3>. QED BY <3>1, <3>2
    <2>9. client_socket' \in [S!Slot -> S!Client \cup {S!Stdin}]
      <3>. HIDE DEF c, first, empty
      <3>. QED BY <2>1, <2>3 DEF SelectInv, SelectRanges
    <2>. HIDE DEF c, first, empty
    <2>10. SelectRanges'
      BY <1>1, <1>2, <2>1, <2>3, <2>7, <2>9, SelectNumbers DEF SelectInv, SelectRanges
    <2>11. SelectBacklog'
      <3>1. \A k \in 1..Len(backlog') : fd'[backlog'[k]] = "none" /\ peer[backlog'[k]] # "away"
        <4>. SUFFICES ASSUME NEW k \in 1..Len(backlog')
                      PROVE  fd'[backlog'[k]] = "none" /\ peer[backlog'[k]] # "away"
          OBVIOUS
        <4>1. k + 1 \in 2..Len(backlog) /\ k + 1 \in 1..Len(backlog) /\ backlog'[k] = backlog[k + 1]
          BY <2>1, <2>2, <2>3
        <4>2. backlog[k + 1] \in S!Client
          BY <2>2, <4>1
        <4>3. fd[backlog[k + 1]] = "none" /\ peer[backlog[k + 1]] # "away"
          BY <4>1 DEF SelectInv, SelectBacklog
        <4>. QED BY <2>5, <2>7, <4>1, <4>2, <4>3
      <3>2. \A k, l \in 1..Len(backlog') : backlog'[k] = backlog'[l] => k = l
        <4>. SUFFICES ASSUME NEW k \in 1..Len(backlog'), NEW l \in 1..Len(backlog'),
                             backlog'[k] = backlog'[l]
                      PROVE  k = l
          OBVIOUS
        <4>1. /\ k + 1 \in 1..Len(backlog) /\ backlog'[k] = backlog[k + 1]
              /\ l + 1 \in 1..Len(backlog) /\ backlog'[l] = backlog[l + 1]
          BY <2>1, <2>2, <2>3
        <4>2. k + 1 = l + 1
          BY <4>1 DEF SelectInv, SelectBacklog
        <4>. QED BY <4>2
      <3>3. \A d \in S!Client : peer[d] = "away" => fd'[d] = "none"
        <4>1. peer[c] # "away"
          BY <2>3 DEF SelectInv, SelectBacklog
        <4>. QED BY <2>7, <4>1 DEF SelectInv, SelectBacklog
      <3>. QED BY <1>1, <1>2, <3>1, <3>2, <3>3, SelectNumbers DEF SelectBacklog
    <2>12. SelectSlots'
      <3>1. \A s \in S!Slot : client_socket'[s] # S!Stdin => fd'[client_socket'[s]] = "open"
        BY <2>6, <2>7, <2>8 DEF SelectInv, SelectRanges, SelectSlots
      <3>2. \A s, r \in S!Slot :
               client_socket'[s] # S!Stdin /\ client_socket'[s] = client_socket'[r] => s = r
        BY <2>6, <2>8 DEF SelectInv, SelectSlots
      <3>3. \A d \in S!Client : fd'[d] = "open" =>
               d \in crowded' \/ \E s \in S!Slot : client_socket'[s] = d
        <4>. SUFFICES ASSUME NEW d \in S!Client, fd'[d] = "open"
                      PROVE  d \in crowded' \/ \E s \in S!Slot : client_socket'[s] = d
          OBVIOUS
        <4>1. CASE d = c
          BY <2>8, <4>1
        <4>2. CASE d # c
          <5>1. d \in crowded \/ \E s \in S!Slot : client_socket[s] = d
            BY <2>7, <4>2 DEF SelectInv, SelectSlots
          <5>2. d # S!Stdin
            BY SelectNumbers
          <5>. QED BY <2>8, <5>1, <5>2
        <4>. QED BY <4>1, <4>2
      <3>. QED BY <1>1, <3>1, <3>2, <3>3, SelectNumbers DEF SelectSlots
    <2>. QED BY <1>3, <2>10, <2>11, <2>12 DEF SelectInv
  <1>. QED BY <1>4, <1>5

\* What ends an iteration, and what goes on to the next slot.
LEMMA SelectContinue ==
    ASSUME SelectInv, s_pc = "clients", S!Return \/ S!Continue, UNCHANGED <<status, typed>>
    PROVE  /\ s_pc' \in SelectLabel /\ ~Selected' /\ i' \in S!Slot /\ readfds' \in ReadyFor
           /\ typed = 0 => ~readfds'.stdin /\ outcome' = outcome
  <1>1. CASE S!Return
    <2>1. i' = 0 /\ readfds' = S!Nothing
      BY <1>1 DEF S!Return
    <2>2. s_pc' \in {"ended", "select"}
      BY <1>1, Zenon DEF S!Return
    <2>3. typed = 0 => status = "TO_CONTINUE"
      BY NothingTyped
    <2>4. typed = 0 => outcome' = outcome
      BY <1>1, <2>3, Zenon DEF S!Return
    <2>5. readfds' \in ReadyFor /\ ~readfds'.stdin
      BY <2>1 DEF ReadyFor, S!Nothing
    <2>6. s_pc' \in SelectLabel /\ ~Selected'
      BY <2>2, Zenon DEF SelectLabel, Selected
    <2>. QED BY <2>1, <2>4, <2>5, <2>6, SelectNumbers
  <1>2. CASE ~S!Return
    <2>1. i' = i + 1 /\ i + 1 \in S!Slot /\ UNCHANGED <<s_pc, outcome, readfds>>
      BY <1>2 DEF S!Continue
    <2>2. s_pc' \in SelectLabel /\ ~Selected'
      BY <2>1, Zenon DEF SelectLabel, Selected
    <2>3. typed = 0 => ~readfds.stdin
      BY NothingTyped
    <2>. QED BY <2>1, <2>2, <2>3 DEF SelectInv, SelectRanges
  <1>. QED BY <1>1, <1>2

\* An answer, or a slot that was not ready: no descriptor is closed.
LEMMA SelectAnswer ==
    ASSUME SelectInv, s_pc = "clients", S!Return \/ S!Continue,
           UNCHANGED <<version, status, client_socket, fd, backlog, crowded, stdin_open, lines, typed>>,
           \/ peer' = peer
           \/ client_socket[i] # S!Stdin /\ peer' = [peer EXCEPT ![client_socket[i]] = "reset"]
    PROVE  SelectInv'
  <1>1. /\ peer' \in [S!Client -> {"away", "there", "shut", "reset"}]
        /\ \A c \in S!Client : peer'[c] = "away" <=> peer[c] = "away"
    <2>1. CASE peer' = peer
      BY <2>1 DEF SelectInv, SelectRanges
    <2>2. CASE /\ client_socket[i] # S!Stdin
               /\ peer' = [peer EXCEPT ![client_socket[i]] = "reset"]
      <3>1. client_socket[i] \in S!Client /\ fd[client_socket[i]] = "open"
        BY <2>2 DEF SelectInv, SelectRanges, SelectSlots
      <3>2. peer[client_socket[i]] # "away"
        BY <3>1 DEF SelectInv, SelectBacklog
      <3>. QED BY <2>2, <3>1, <3>2 DEF SelectInv, SelectRanges
    <2>. QED BY <2>1, <2>2
  <1>2. /\ s_pc' \in SelectLabel /\ ~Selected' /\ i' \in S!Slot /\ readfds' \in ReadyFor
        /\ typed = 0 => ~readfds'.stdin /\ outcome' = outcome
    BY SelectContinue
  <1>3. typed' \in Nat /\ (typed = 0 \/ typed > 0)
    BY DEF SelectInv, SelectRanges
  <1>4. OnlyTyped'
    BY <1>2, <1>3, NothingTyped, Zenon DEF OnlyTyped
  <1>. QED BY <1>1, <1>2, <1>3, <1>4, SelectKeeps

\* The descriptor in a slot is closed and the slot emptied: no other slot has
\* it, and every other connection is where it was.  The console is closed only
\* when it was ready.
LEMMA SelectClose ==
    ASSUME SelectInv, s_pc = "clients", S!Ready(client_socket[i]), S!Close(client_socket[i]),
           UNCHANGED <<version, status, backlog, crowded, lines, typed>>
    PROVE  SelectInv'
  <1>. DEFINE d == client_socket[i]
  <1>1. /\ client_socket' = [client_socket EXCEPT ![i] = S!Stdin] /\ peer' = peer /\ S!Return
        /\ IF d = S!Stdin THEN stdin_open' = FALSE /\ fd' = fd
           ELSE fd' = [fd EXCEPT ![d] = "closed"] /\ stdin_open' = stdin_open
    BY DEF S!Close
  <1>2. i \in S!Slot /\ d \in S!Client \cup {S!Stdin}
    BY DEF SelectInv, SelectRanges
  <1>3. /\ client_socket' \in [S!Slot -> S!Client \cup {S!Stdin}] /\ client_socket'[i] = S!Stdin
        /\ \A s \in S!Slot : s # i => client_socket'[s] = client_socket[s]
    BY <1>1, <1>2 DEF SelectInv, SelectRanges
  <1>4. d = S!Stdin => readfds.stdin
    BY DEF S!Ready
  <1>5. \A s \in S!Slot : client_socket[s] = d /\ d # S!Stdin => s = i
    BY <1>2 DEF SelectInv, SelectSlots
  <1>. HIDE DEF d
  <1>6. /\ fd' \in [S!Client -> {"none", "open", "closed"}]
        /\ \A c \in S!Client : fd'[c] = (IF c = d THEN "closed" ELSE fd[c])
    BY <1>1, <1>2, SelectNumbers DEF SelectInv, SelectRanges
  <1>7. /\ s_pc' \in SelectLabel /\ ~Selected' /\ i' \in S!Slot /\ readfds' \in ReadyFor
        /\ typed = 0 => ~readfds'.stdin /\ outcome' = outcome
    BY <1>1, SelectContinue
  <1>8. SelectRanges'
    BY <1>1, <1>3, <1>6, <1>7, SelectNumbers DEF SelectInv, SelectRanges
  <1>9. OnlyTyped'
    <2>1. typed = 0 \/ typed > 0
      BY DEF SelectInv, SelectRanges
    <2>2. typed = 0 => stdin_open'
      BY <1>1, <1>4, NothingTyped
    <2>. QED BY <1>7, <2>1, <2>2, NothingTyped, Zenon DEF OnlyTyped
  <1>10. d \in S!Client => fd[d] = "open"
    BY <1>2, SelectNumbers DEF SelectInv, SelectSlots, d
  <1>11. SelectBacklog'
    <2>1. backlog \in Seq(S!Client) /\ \A k \in 1..Len(backlog) : backlog[k] \in S!Client
      BY DEF SelectInv, SelectRanges
    <2>2. \A k \in 1..Len(backlog) : fd'[backlog[k]] = "none"
      BY <1>6, <1>10, <2>1 DEF SelectInv, SelectBacklog
    <2>3. \A c \in S!Client : peer[c] = "away" => fd'[c] = "none"
      BY <1>6, <1>10 DEF SelectInv, SelectBacklog
    <2>. QED BY <1>1, <1>7, <2>2, <2>3, SelectNumbers DEF SelectInv, SelectBacklog
  <1>12. SelectSlots'
    <2>1. \A s \in S!Slot : client_socket'[s] # S!Stdin => fd'[client_socket'[s]] = "open"
      <3>. SUFFICES ASSUME NEW s \in S!Slot, client_socket'[s] # S!Stdin
                    PROVE  fd'[client_socket'[s]] = "open"
        OBVIOUS
      <3>1. s # i /\ client_socket'[s] = client_socket[s]
        BY <1>3
      <3>2. client_socket[s] # d
        BY <1>5, <3>1
      <3>3. client_socket[s] \in S!Client /\ fd[client_socket[s]] = "open"
        BY <3>1 DEF SelectInv, SelectRanges, SelectSlots
      <3>. QED BY <1>6, <3>1, <3>2, <3>3
    <2>2. \A s, r \in S!Slot :
             client_socket'[s] # S!Stdin /\ client_socket'[s] = client_socket'[r] => s = r
      BY <1>3 DEF SelectInv, SelectSlots
    <2>3. \A c \in S!Client : fd'[c] = "open" =>
             c \in crowded \/ \E s \in S!Slot : client_socket'[s] = c
      <3>. SUFFICES ASSUME NEW c \in S!Client, fd'[c] = "open"
                    PROVE  c \in crowded \/ \E s \in S!Slot : client_socket'[s] = c
        OBVIOUS
      <3>1. c # d /\ fd[c] = "open"
        BY <1>6
      <3>2. client_socket[i] # c
        BY <3>1 DEF d
      <3>. QED BY <1>3, <3>1, <3>2 DEF SelectInv, SelectSlots
    <2>. QED BY <1>1, <2>1, <2>2, <2>3, SelectNumbers DEF SelectSlots
  <1>. QED BY <1>8, <1>9, <1>11, <1>12 DEF SelectInv

LEMMA SelectServe ==
    ASSUME SelectInv, S!RecieveAndSend
    PROVE  SelectInv'
  <1>1. s_pc = "clients" /\ UNCHANGED <<version, status, backlog, crowded, lines, typed>>
    BY DEF S!RecieveAndSend
  <1>2. CASE S!Ready(client_socket[i]) /\ S!Close(client_socket[i])
    BY <1>1, <1>2, SelectClose
  <1>3. CASE S!Answer(client_socket[i])
    <2>1. client_socket[i] # S!Stdin
      BY <1>3 DEF S!Answer, S!Lost
    <2>. QED BY <1>1, <1>3, <2>1, SelectAnswer DEF S!Answer
  <1>4. CASE S!Continue /\ UNCHANGED <<fd, client_socket, stdin_open, requests, peer>>
    BY <1>1, <1>4, SelectAnswer
  <1>. QED BY <1>2, <1>3, <1>4 DEF S!RecieveAndSend

LEMMA SelectNext ==
    ASSUME SelectInv, S!Next \/ UNCHANGED select
    PROVE  SelectInv'
  <1>1. CASE UNCHANGED select
    BY <1>1, SelectStays DEF select, SelectInv, SelectRanges
  <1>2. CASE S!Stopped
    BY <1>1, <1>2 DEF S!Stopped, S!vars, S!server, S!sockets, S!console, select
  <1>. QED BY <1>1, <1>2, SelectEnvironment, SelectStart, SelectSelect, SelectConsole, SelectAccept,
              SelectServe DEF S!Next, S!Server

\* For any numbers of slots, clients, requests and lines: without anything
\* typed the server does not end and keeps its console; its slots name open
\* connections, each once, and it loses sight of a connection only when every
\* slot was taken.
THEOREM ClientsDoNotEndTheServer == Spec => []ClientsCannotEndIt
  <1>1. Init => SelectInv
    BY SelectInit DEF Init
  <1>2. SelectInv /\ [Next]_vars => SelectInv'
    BY StepOfOne, SelectNext
  <1>3. SelectInv => ClientsCannotEndIt
    <2>. SUFFICES ASSUME SelectInv PROVE S!ClientsCannotEndIt
      BY DEF ClientsCannotEndIt
    <2>1. outcome \in {"select failed", "success"} \/ ~stdin_open => typed > 0
      BY Zenon DEF SelectInv, OnlyTyped
    <2>2. \A s \in S!Slot : client_socket[s] # S!Stdin =>
             /\ fd[client_socket[s]] = "open"
             /\ \A r \in S!Slot \ {s} : client_socket[r] # client_socket[s]
      BY DEF SelectInv, SelectSlots
    <2>3. \A c \in S!Client : fd[c] = "open" => c \in S!SetSocketDescriptorIntoSelect \cup crowded
      BY SelectNumbers DEF SelectInv, SelectSlots, S!SetSocketDescriptorIntoSelect
    <2>. QED BY <2>1, <2>2, <2>3, Zenon DEF S!ClientsCannotEndIt
  <1>. QED BY <1>1, <1>2, <1>3, PTL DEF Spec
=============================================================================
