--------------------------- MODULE ThreadedServer ---------------------------
(***************************************************************************)
(* ipc/udp_tcp_server/hold/: the earlier server, with one thread for the   *)
(* console, one for datagrams and a chain of threads for connections:      *)
(* whoever has accepted a connection makes the thread that accepts the     *)
(* next one, serves its client, and then waits for the thread it made.     *)
(*                                                                         *)
(* All threads of the chain use param_to_pass, which is a local variable   *)
(* of CreateTcpServer, the function of the first of them.  The joins stand *)
(* inside assert; the asserts are compiled (with NDEBUG there would be no  *)
(* joins).                                                                 *)
(***************************************************************************)
EXTENDS Integers

CONSTANT MaxClients    \* connections that are made

\* Thread 0 is made by main, thread k + 1 by thread k; thread k serves client k.
Thread == 0..MaxClients
Client == 0..(MaxClients - 1)

VARIABLES pc, main, consol, udp,
          g_EXIT_FROM_PROG,
          client      \* "away", "quiet", "asking" or "gone"

vars == <<pc, main, consol, udp, g_EXIT_FROM_PROG, client>>

Init ==
    /\ pc = [k \in Thread |-> "none"]
    /\ main = "create consol" /\ consol = "none" /\ udp = "none"
    /\ g_EXIT_FROM_PROG = FALSE
    /\ client = [k \in Client |-> "away"]

Running(k) == pc[k] \notin {"none", "done"}

Goto(k, label) == pc' = [pc EXCEPT ![k] = label]

-----------------------------------------------------------------------------
(* main: the first failure of pthread_create, or the end of the console,   *)
(* ends the process with all its threads.                                  *)

CreateThreads ==
    /\ \/ main = "create consol" /\ main' = "create udp" /\ consol' = "reading" /\ UNCHANGED <<udp, pc>>
       \/ main = "create udp" /\ main' = "create tcp" /\ udp' = "start" /\ UNCHANGED <<consol, pc>>
       \/ main = "create tcp" /\ main' = "join" /\ Goto(0, "start") /\ UNCHANGED <<consol, udp>>
       \/ /\ main \in {"create consol", "create udp", "create tcp"}
          /\ main' = "ended" /\ UNCHANGED <<consol, udp, pc>>
    /\ UNCHANGED <<g_EXIT_FROM_PROG, client>>

JoinConsol ==
    /\ main = "join" /\ consol = "done"
    /\ main' = "ended"
    /\ UNCHANGED <<pc, consol, udp, g_EXIT_FROM_PROG, client>>

\* Lines other than exit change nothing here.
InitConsol ==
    /\ consol = "reading"
    /\ consol' = "done"
    /\ g_EXIT_FROM_PROG' = TRUE
    /\ UNCHANGED <<pc, main, udp, client>>

\* The socket, and then one datagram after the other, until the exit is seen
\* or a call fails.
StartUDPServer ==
    /\ udp = "start"
    /\ udp' \in {"testing", "done"}
    /\ UNCHANGED <<pc, main, consol, g_EXIT_FROM_PROG, client>>

SendAndRecieveUDP ==
    /\ \/ udp = "testing" /\ udp' = IF g_EXIT_FROM_PROG THEN "done" ELSE "receiving"
       \/ udp = "receiving" /\ udp' \in {"testing", "done"}
    /\ UNCHANGED <<pc, main, consol, g_EXIT_FROM_PROG, client>>

-----------------------------------------------------------------------------
(* The chain of threads *)

\* The socket, its options, its address, and param_to_pass.
CreateTcpServer ==
    /\ pc[0] = "start"
    /\ \E label \in {"accept", "done"} : Goto(0, label)
    /\ UNCHANGED <<main, consol, udp, g_EXIT_FROM_PROG, client>>

Accept(k) ==
    /\ pc[k] = "accept"
    /\ \/ k \in Client /\ client[k] # "away" /\ Goto(k, "create")
       \/ Goto(k, "done")
    /\ UNCHANGED <<main, consol, udp, g_EXIT_FROM_PROG, client>>

\* When the thread cannot be made the connection is not served.
CreateNewSocketAndThread(k) ==
    /\ pc[k] = "create"
    /\ \/ pc' = [pc EXCEPT ![k] = "test", ![k + 1] = "accept"]
       \/ Goto(k, "done")
    /\ UNCHANGED <<main, consol, udp, g_EXIT_FROM_PROG, client>>

Test(k) ==
    /\ pc[k] = "test"
    /\ Goto(k, IF g_EXIT_FROM_PROG THEN "join" ELSE "recv")
    /\ UNCHANGED <<main, consol, udp, g_EXIT_FROM_PROG, client>>

\* Mutant of Recv: a failure ends the thread.
RecvReturns(k) ==
    /\ pc[k] = "recv" /\ client[k] \in {"asking", "gone"}
    /\ \/ Goto(k, "send")
       \/ client[k] = "gone" /\ Goto(k, "done")
    /\ client' = [client EXCEPT ![k] = IF @ = "asking" THEN "quiet" ELSE @]
    /\ UNCHANGED <<main, consol, udp, g_EXIT_FROM_PROG>>

\* recv waits for a request.  When the client is gone it returns 0, which is
\* answered like a request, or fails.
Recv(k) ==
    /\ pc[k] = "recv" /\ client[k] \in {"asking", "gone"}
    /\ \/ Goto(k, "send")
       \/ client[k] = "gone" /\ Goto(k, "join")
    /\ client' = [client EXCEPT ![k] = IF @ = "asking" THEN "quiet" ELSE @]
    /\ UNCHANGED <<main, consol, udp, g_EXIT_FROM_PROG>>

Send(k) ==
    /\ pc[k] = "send"
    /\ \/ Goto(k, "test")
       \/ client[k] = "gone" /\ Goto(k, "join")
    /\ UNCHANGED <<main, consol, udp, g_EXIT_FROM_PROG, client>>

Join(k) ==
    /\ pc[k] = "join" /\ pc[k + 1] = "done"
    /\ Goto(k, "done")
    /\ UNCHANGED <<main, consol, udp, g_EXIT_FROM_PROG, client>>

Step(k) == Accept(k) \/ CreateNewSocketAndThread(k) \/ Test(k) \/ Recv(k) \/ Send(k) \/ Join(k)

\* Clients connect in turn, ask, and go.
Act(k) ==
    /\ \/ client[k] = "away" /\ (\A j \in 0..(k - 1) : client[j] # "away") /\ client' = [client EXCEPT ![k] = "quiet"]
       \/ client[k] = "quiet" /\ client' = [client EXCEPT ![k] = "asking"]
       \/ client[k] \in {"quiet", "asking"} /\ client' = [client EXCEPT ![k] = "gone"]
    /\ UNCHANGED <<pc, main, consol, udp, g_EXIT_FROM_PROG>>

Process ==
    \/ CreateThreads \/ JoinConsol \/ InitConsol \/ StartUDPServer \/ SendAndRecieveUDP
    \/ CreateTcpServer \/ (\E k \in Thread : Step(k)) \/ (\E k \in Client : Act(k))

Next ==
    \/ main # "ended" /\ Process
    \/ main = "ended" /\ UNCHANGED vars

Spec == Init /\ [][Next]_vars

-----------------------------------------------------------------------------
(* Properties *)

\* Every variable has its type.
TypeOK ==
    /\ pc \in [Thread -> {"none", "start", "accept", "create", "test", "recv", "send", "join", "done"}]
    /\ main \in {"create consol", "create udp", "create tcp", "join", "ended"}
    /\ consol \in {"none", "reading", "done"}
    /\ udp \in {"none", "start", "testing", "receiving", "done"}
    /\ g_EXIT_FROM_PROG \in BOOLEAN
    /\ client \in [Client -> {"away", "quiet", "asking", "gone"}]

\* Whoever serves or waits has made a thread that it has not joined yet, and
\* threads end in the reverse of the order they were made in: while any of
\* them runs, so does the first, whose local variable they all use.  At most
\* one of them accepts connections, and it is the last of the chain.
FrameOutlivesThreads ==
    \A k \in Thread \ {0} : Running(k) =>
        /\ \A j \in 0..(k - 1) : pc[j] \in {"test", "recv", "send", "join"}
        /\ pc[k] \in {"accept", "create"} => \A j \in Thread : j > k => pc[j] = "none"
=============================================================================
