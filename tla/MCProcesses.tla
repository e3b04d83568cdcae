----------------------------- MODULE MCProcesses ----------------------------
(***************************************************************************)
(* The programs that talk through signals, pipes, message queues, shared   *)
(* memory and sockets or fork children: one of them, named by program,     *)
(* takes its steps, and the variables of the others keep their initial     *)
(* values.                                                                 *)
(***************************************************************************)
EXTENDS Integers, Sequences, FiniteSets

CONSTANTS MaxStarts, Runs, MaxKills,
          SIZE_ARR_CLIENTS, MaxClients, MaxRequests, MaxLines,
          MaxTyped, MaxFailures

VARIABLES program,
          \* of PingPong
          g_setting, one, starts, g_pc, flag, other_pid, pending, ahead, dropped,
          \* of PingPongPipes
          p_setting, files, p_pc, channel, spare, connected, killed, swallowed,
          \* of MessageQueue
          msgid, q_current, queues, removed, q_pc, sent, q_printed,
          \* of SharedMemory
          shmid, m_current, made, complete, buf, destroyed, attached, m_pc, kills, m_printed,
          \* of SelectServer
          version, s_pc, i, status, outcome, readfds, client_socket,
          fd, backlog, peer, requests, crowded, datagrams,
          stdin_open, lines, left_over, typed,
          \* of ThreadedServer
          t_pc, main, consol, udp, g_EXIT_FROM_PROG, client,
          \* of Shell
          h_setting, typed_lines, read, input, argv, h_pc, child, fresh, executed, again,
          failures

G == INSTANCE PingPong WITH setting <- g_setting, pc <- g_pc
P == INSTANCE PingPongPipes WITH setting <- p_setting, pc <- p_pc
Q == INSTANCE MessageQueue WITH current <- q_current, pc <- q_pc, printed <- q_printed
M == INSTANCE SharedMemory WITH current <- m_current, pc <- m_pc, printed <- m_printed
S == INSTANCE SelectServer WITH pc <- s_pc
T == INSTANCE ThreadedServer WITH pc <- t_pc
H == INSTANCE Shell WITH setting <- h_setting, pc <- h_pc, lines <- typed_lines,
                         Commands <- {<<"ls">>, <<"ls", "-l">>, <<"exit">>}

ASSUME ProcessesAssumption ==
    /\ MaxStarts \in Nat \ {0}
    /\ Runs \in Nat /\ MaxKills \in Nat
    /\ SIZE_ARR_CLIENTS \in Nat \ {0} /\ MaxClients \in Nat
    /\ MaxTyped \in Nat

signals == <<g_setting, one, starts, g_pc, flag, other_pid, pending, ahead, dropped>>
pipes   == <<p_setting, files, p_pc, channel, spare, connected, killed, swallowed>>
queue   == <<msgid, q_current, queues, removed, q_pc, sent, q_printed>>
memory  == <<shmid, m_current, made, complete, buf, destroyed, attached, m_pc, kills, m_printed>>
select  == <<version, s_pc, i, status, outcome, readfds, client_socket,
             fd, backlog, peer, requests, crowded, datagrams,
             stdin_open, lines, left_over, typed>>
chain   == <<t_pc, main, consol, udp, g_EXIT_FROM_PROG, client>>
shell   == <<h_setting, typed_lines, read, input, argv, h_pc, child, fresh, executed, again,
             failures>>

\* What a program can start with is varied only when it is the one that runs.
Init ==
    /\ program \in {"signals", "pipes", "queue", "memory", "select", "chain", "shell"}
    /\ G!Init /\ P!Init /\ Q!Init /\ M!Init /\ S!Init /\ T!Init /\ H!Init
    /\ program # "signals" => g_setting = "fork"
    /\ program # "pipes" => p_setting = "pipes"
    /\ program # "select" => version = "tcp"
    /\ program # "shell" => h_setting = "restarter"

Next ==
    \/ /\ program = "signals" /\ G!Next
       /\ UNCHANGED <<program, pipes, queue, memory, select, chain, shell>>
    \/ /\ program = "pipes" /\ P!Next
       /\ UNCHANGED <<program, signals, queue, memory, select, chain, shell>>
    \/ /\ program = "queue" /\ Q!Next
       /\ UNCHANGED <<program, signals, pipes, memory, select, chain, shell>>
    \/ /\ program = "memory" /\ M!Next
       /\ UNCHANGED <<program, signals, pipes, queue, select, chain, shell>>
    \/ /\ program = "select" /\ S!Next
       /\ UNCHANGED <<program, signals, pipes, queue, memory, chain, shell>>
    \/ /\ program = "chain" /\ T!Next
       /\ UNCHANGED <<program, signals, pipes, queue, memory, select, shell>>
    \/ /\ program = "shell" /\ H!Next
       /\ UNCHANGED <<program, signals, pipes, queue, memory, select, chain>>

vars == <<program, signals, pipes, queue, memory, select, chain, shell>>

\* A process that is neither killed nor blocked goes on.
Fairness ==
    /\ \A p \in P!Process : WF_pipes(program = "pipes" /\ P!Step(p))
    /\ WF_select(program = "select" /\ S!Server)

Spec == Init /\ [][Next]_vars /\ Fairness

-----------------------------------------------------------------------------
(* The properties, which the modules state and explain.  Those that hold of *)
(* an initial state hold of the programs that do not run.                   *)

\* Ping and pong are printed in turn.
InTurn == G!InTurn

\* Both spin for good only after a signal was dropped.
HangsOnlyByDrop == G!HangsOnlyByDrop

\* At most one message is read together with another one.
AtMostOneSwallowed == P!AtMostOneSwallowed

\* When one of two connected processes is killed, the other ends.
EndsTogether == program = "pipes" => P!EndsTogether

\* A text is lost only with a queue that was removed.
LostOnlyByRemoval == Q!LostOnlyByRemoval

\* A reader prints the whole text, whichever run of a writer set the flag.
PrintsWholeText == M!PrintsWholeText

\* Clients cannot end the server, and its slots name open connections.
ClientsCannotEndIt == S!ClientsCannotEndIt

\* A request is received unless a client in an earlier slot has gone.
AnsweredUnlessBlocked == program = "select" => S!AnsweredUnlessBlocked

\* The variable that all threads of the chain use outlives them.
FrameOutlivesThreads == T!FrameOutlivesThreads

\* The shell runs what was typed; only an empty line makes it run a word again.
RunsWhatWasTyped == H!RunsWhatWasTyped
=============================================================================
