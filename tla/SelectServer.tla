---------------------------- MODULE SelectServer ----------------------------
(***************************************************************************)
(* ipc/udp_tcp_server/: one process that waits in select for the console,  *)
(* for datagrams, for new connections and for the connections it has       *)
(* accepted, and serves whatever was ready, in this order ("console").     *)
(* ipc/tcp_server.c, with a copy in hold/, is the version before it:       *)
(* connections only, and 30 slots for them instead of one ("tcp").         *)
(*                                                                         *)
(* An accepted connection is kept in a slot of an array; an empty slot is  *)
(* 0, which is also the descriptor of the console.  The clients, the user  *)
(* at the console and the network are the environment: they may act        *)
(* between any two steps of the server.                                    *)
(***************************************************************************)
EXTENDS Integers, Sequences

CONSTANTS SIZE_ARR_CLIENTS, \* slots of the version "tcp"
          MaxClients,      \* connections that are made
          MaxRequests,     \* what one client, or all datagrams, ask for
          MaxLines         \* lines typed at the console

Client == 1..MaxClients

\* An empty slot, and the console: descriptor 0.
Stdin == 0

Nothing == [stdin |-> FALSE, udp |-> FALSE, tcp |-> FALSE, clients |-> {}]

VARIABLES version,
          pc, i, status,
          outcome,         \* "serving", or how the server ended
          readfds,         \* what select found ready
          client_socket,   \* Slot -> a client, or Stdin
          fd,              \* of each client, the server's descriptor: "none", "open", "closed"
          backlog,         \* connections that are not accepted yet
          peer,            \* of each client: "away", "there", "shut", "reset"
          requests,        \* of each client: sent and not received
          crowded,         \* accepted when every slot was taken
          datagrams,
          stdin_open, lines, left_over, typed

server  == <<version, pc, i, status, outcome, readfds, client_socket>>
sockets == <<fd, backlog, peer, requests, crowded, datagrams>>
console == <<stdin_open, lines, left_over, typed>>
vars    == <<server, sockets, console>>

Slot == IF version = "console" THEN {0} ELSE 0..(SIZE_ARR_CLIENTS - 1)

Init ==
    /\ version \in {"console", "tcp"}
    /\ pc = (IF version = "console" THEN "udp socket" ELSE "tcp socket")
    /\ i = 0 /\ status = "TO_CONTINUE" /\ outcome = "serving"
    /\ readfds = Nothing
    /\ client_socket = [s \in Slot |-> Stdin]
    /\ fd = [c \in Client |-> "none"]
    /\ backlog = <<>>
    /\ peer = [c \in Client |-> "away"]
    /\ requests = [c \in Client |-> 0]
    /\ crowded = {}
    /\ datagrams = 0
    /\ stdin_open = TRUE /\ lines = <<>> /\ left_over = FALSE /\ typed = 0

-----------------------------------------------------------------------------
(* The environment, while the server runs *)

\* A user types exit, or something else, or ends the input.
Type ==
    /\ version = "console" /\ typed < MaxLines
    /\ \E line \in {"exit", "other"} : lines' = Append(lines, line)
    /\ typed' = typed + 1
    /\ UNCHANGED <<server, sockets, stdin_open, left_over>>

Connect(c) ==
    /\ peer[c] = "away" /\ pc \notin {"udp socket", "tcp socket"}
    /\ peer' = [peer EXCEPT ![c] = "there"]
    /\ backlog' = Append(backlog, c)
    /\ UNCHANGED <<server, console, fd, requests, crowded, datagrams>>

Request(c) ==
    /\ peer[c] = "there" /\ requests[c] < MaxRequests
    /\ requests' = [requests EXCEPT ![c] = @ + 1]
    /\ UNCHANGED <<server, console, fd, backlog, peer, crowded, datagrams>>

\* A client closes its end, or its connection is reset.
Leave(c) ==
    /\ peer[c] \in {"there", "shut"} /\ fd[c] # "closed"
    /\ \E how \in {"shut", "reset"} \ {peer[c]} : peer' = [peer EXCEPT ![c] = how]
    /\ UNCHANGED <<server, console, fd, backlog, requests, crowded, datagrams>>

Datagram ==
    /\ version = "console" /\ pc # "udp socket" /\ datagrams < MaxRequests
    /\ datagrams' = datagrams + 1
    /\ UNCHANGED <<server, console, fd, backlog, peer, requests, crowded>>

Environment ==
    /\ outcome = "serving"
    /\ Type \/ Datagram \/ \E c \in Client : Connect(c) \/ Request(c) \/ Leave(c)

-----------------------------------------------------------------------------
(* The start: a socket, its options, its address *)

CreateUdpServerAndBind ==
    /\ pc = "udp socket"
    /\ \/ pc' = "tcp socket" /\ UNCHANGED outcome
       \/ pc' = "ended" /\ outcome' = "not started"
    /\ UNCHANGED <<version, i, status, readfds, client_socket, sockets, console>>

CreateTcpServerAndBind ==
    /\ pc = "tcp socket"
    /\ \/ pc' = "select" /\ UNCHANGED outcome
       \/ pc' = "ended" /\ outcome' = "not started"
    /\ UNCHANGED <<version, i, status, readfds, client_socket, sockets, console>>

-----------------------------------------------------------------------------
(* The loop of main *)

Readable(c) == requests[c] > 0 \/ peer[c] \in {"shut", "reset"}

\* The connections in slots are added to the three fixed descriptors.
SetSocketDescriptorIntoSelect == {client_socket[s] : s \in Slot} \ {Stdin}

\* select fails when one of the descriptors is closed, which ends the server.
Select ==
    /\ pc = "select"
    /\ IF stdin_open /\ \A c \in SetSocketDescriptorIntoSelect : fd[c] = "open"
       THEN /\ readfds' = [stdin   |-> lines # <<>>,
                           udp     |-> datagrams > 0,
                           tcp     |-> backlog # <<>>,
                           clients |-> {c \in SetSocketDescriptorIntoSelect : Readable(c)}]
            /\ readfds' # Nothing
            /\ pc' = (IF version = "console" THEN "console" ELSE "tcp") /\ UNCHANGED outcome
       ELSE pc' = "ended" /\ outcome' = "select failed" /\ UNCHANGED readfds
    /\ UNCHANGED <<version, i, status, client_socket, sockets, console>>

\* fgets takes four characters: of the line exit the end of the line is left
\* and is the next thing it takes.  strncmp is compared with 0 the wrong way
\* round: everything but exit ends the loop.
Console ==
    /\ pc = "console"
    /\ IF readfds.stdin
       THEN LET exit == ~left_over /\ Head(lines) = "exit"
            IN /\ status' = IF exit THEN "TO_CONTINUE" ELSE "TO_EXIT"
               /\ lines' = IF left_over THEN lines ELSE Tail(lines)
               /\ left_over' = exit
       ELSE UNCHANGED <<version, status, lines, left_over>>
    /\ pc' = "udp"
    /\ UNCHANGED <<version, i, outcome, readfds, client_socket, sockets, stdin_open, typed>>

\* One datagram is received and answered.
SendAndRecieveUDP ==
    /\ pc = "udp"
    /\ datagrams' = IF readfds.udp THEN datagrams - 1 ELSE datagrams
    /\ pc' = "tcp"
    /\ UNCHANGED <<version, i, status, outcome, readfds, client_socket, fd, backlog, peer, requests,
                   crowded, console>>

\* Mutant of AddNewSocketToClientsFdArr: the slot is not tested.
AddNewSocketToFirst(new_socket) ==
    /\ client_socket' = [client_socket EXCEPT ![0] = new_socket]
    /\ UNCHANGED crowded

\* The first empty slot takes a new connection; if there is none it is
\* accepted all the same.
AddNewSocketToClientsFdArr(new_socket) ==
    LET empty == {s \in Slot : client_socket[s] = Stdin}
    IN IF empty # {}
       THEN /\ client_socket' = [client_socket EXCEPT
                                    ![CHOOSE s \in empty : \A r \in empty : s <= r] = new_socket]
            /\ UNCHANGED crowded
       ELSE crowded' = crowded \cup {new_socket} /\ UNCHANGED client_socket

\* accept may fail, and leaves the connection then.
HandleNewConnection ==
    /\ pc = "tcp"
    /\ IF readfds.tcp
       THEN \/ /\ AddNewSocketToClientsFdArr(Head(backlog))
               /\ fd' = [fd EXCEPT ![Head(backlog)] = "open"]
               /\ backlog' = Tail(backlog)
            \/ UNCHANGED <<client_socket, crowded, fd, backlog>>
       ELSE UNCHANGED <<client_socket, crowded, fd, backlog>>
    /\ pc' = "clients" /\ i' = 0
    /\ UNCHANGED <<version, status, outcome, readfds, peer, requests, datagrams, console>>

\* The end of an iteration; the next one begins with FD_ZERO.
Return ==
    /\ IF status = "TO_EXIT" THEN pc' = "ended" /\ outcome' = "success"
                             ELSE pc' = "select" /\ UNCHANGED outcome
    /\ i' = 0 /\ readfds' = Nothing

Continue ==
    IF i + 1 \in Slot THEN i' = i + 1 /\ UNCHANGED <<pc, outcome, readfds>> ELSE Return

Ready(descriptor) ==
    IF descriptor = Stdin THEN readfds.stdin ELSE descriptor \in readfds.clients

\* recv fails for the console, which is no socket, and for a connection that
\* was reset; the version "console" also sees the end of a connection.
Lost(descriptor) ==
    IF descriptor = Stdin THEN TRUE
    ELSE peer[descriptor] = "reset" \/ (version = "console" /\ requests[descriptor] = 0)

\* Mutant of Close: the slot keeps the descriptor.
CloseKeepsSlot(descriptor) ==
    /\ Lost(descriptor)
    /\ IF descriptor = Stdin
       THEN stdin_open' = FALSE /\ UNCHANGED fd
       ELSE fd' = [fd EXCEPT ![descriptor] = "closed"] /\ UNCHANGED stdin_open
    /\ UNCHANGED <<client_socket, requests, peer>>
    /\ Return

\* close, of the console if the slot is empty; the slot is emptied, and the
\* slots after it have to wait.
Close(descriptor) ==
    /\ Lost(descriptor)
    /\ IF descriptor = Stdin
       THEN stdin_open' = FALSE /\ UNCHANGED fd
       ELSE fd' = [fd EXCEPT ![descriptor] = "closed"] /\ UNCHANGED stdin_open
    /\ client_socket' = [client_socket EXCEPT ![i] = Stdin]
    /\ UNCHANGED <<requests, peer>>
    /\ Return

\* All that a client has sent is received at once.  The client may have gone
\* by the time it is answered; the slots after it have to wait then, and its
\* own slot is not emptied.  The version "tcp" answers the end of a
\* connection like a request, in every iteration; once it has sent to a
\* connection that was reset, recv returns 0 for it as well.
Answer(descriptor) ==
    /\ IF version = "tcp" THEN descriptor # Stdin ELSE ~Lost(descriptor)
    /\ requests' = [requests EXCEPT ![descriptor] = 0]
    /\ \/ Continue /\ UNCHANGED peer
       \/ Return /\ peer' = [peer EXCEPT ![descriptor] = "reset"]
    /\ UNCHANGED <<fd, client_socket, stdin_open>>

\* One turn of the loop of RecieveAndSend.
RecieveAndSend ==
    /\ pc = "clients"
    /\ IF Ready(client_socket[i])
       THEN Close(client_socket[i]) \/ Answer(client_socket[i])
       ELSE Continue /\ UNCHANGED <<fd, client_socket, stdin_open, requests, peer>>
    /\ UNCHANGED <<version, status, backlog, crowded, datagrams, lines, left_over, typed>>

Server ==
    \/ CreateUdpServerAndBind \/ CreateTcpServerAndBind
    \/ Select \/ Console \/ SendAndRecieveUDP \/ HandleNewConnection \/ RecieveAndSend

\* The server has ended, or waits in select for an environment that has used
\* up its bounds.
Stopped ==
    /\ \/ pc = "ended"
       \/ /\ pc = "select" /\ stdin_open
          /\ lines = <<>> /\ datagrams = 0 /\ backlog = <<>>
          /\ \A c \in SetSocketDescriptorIntoSelect : fd[c] = "open" /\ ~Readable(c)
    /\ UNCHANGED vars

Next == Environment \/ Server \/ Stopped

Spec == Init /\ [][Next]_vars

-----------------------------------------------------------------------------
(* Properties *)

\* Every variable has its type.
TypeOK ==
    /\ version \in {"console", "tcp"}
    /\ pc \in {"udp socket", "tcp socket", "select", "console", "udp", "tcp", "clients", "ended"}
    /\ i \in Slot /\ status \in {"TO_CONTINUE", "TO_EXIT"}
    /\ outcome \in {"serving", "not started", "select failed", "success"}
    /\ readfds \in [stdin : BOOLEAN, udp : BOOLEAN, tcp : BOOLEAN, clients : SUBSET Client]
    /\ client_socket \in [Slot -> Client \cup {Stdin}]
    /\ fd \in [Client -> {"none", "open", "closed"}]
    /\ backlog \in Seq(Client) /\ crowded \subseteq Client
    /\ peer \in [Client -> {"away", "there", "shut", "reset"}]
    /\ requests \in [Client -> 0..MaxRequests] /\ datagrams \in 0..MaxRequests
    /\ stdin_open \in BOOLEAN /\ left_over \in BOOLEAN
    /\ lines \in Seq({"exit", "other"}) /\ typed \in 0..MaxLines

\* Whatever the clients do, and in whatever order they come, ask and vanish,
\* they cannot end the server: it ends, and loses the descriptor of its
\* console, only when something was typed.  Its slots name open connections,
\* none of them twice, and a connection that is open but in no slot was
\* accepted when every slot was taken.
ClientsCannotEndIt ==
    /\ outcome \in {"select failed", "success"} \/ ~stdin_open => typed > 0
    /\ \A s \in Slot : client_socket[s] # Stdin =>
          /\ fd[client_socket[s]] = "open"
          /\ \A r \in Slot \ {s} : client_socket[r] # client_socket[s]
    /\ \A c \in Client : fd[c] = "open" =>
          c \in SetSocketDescriptorIntoSelect \cup crowded

\* What a client in a slot asks is received, unless its connection is lost,
\* the server ends, or a client in an earlier slot has gone: the version "tcp"
\* may then serve that slot and no other for good.
AnsweredUnlessBlocked ==
    \A c \in Client :
        (requests[c] > 0 /\ c \in SetSocketDescriptorIntoSelect) ~>
            \/ requests[c] = 0 \/ fd[c] = "closed" \/ outcome # "serving"
            \/ \E s, r \in Slot :
                  /\ r < s /\ client_socket[s] = c
                  /\ client_socket[r] # Stdin /\ peer[client_socket[r]] \in {"shut", "reset"}
=============================================================================
