---------------------------- MODULE PingPongPipes ---------------------------
(***************************************************************************)
(* ipc/ping_pong2/: ping and pong write messages to each other.            *)
(*                                                                         *)
(*   "pipes"  ping_pong_pipelines.c: parent and child of a fork, with two  *)
(*            pipes of which each inherits all four ends; ping writes      *)
(*            first, pong reads first, one message at a time;              *)
(*   "fifos"  ping_pong_named_pipe1.c and 2: two programs that meet in     *)
(*            open; both write first, and a read takes up to 100 bytes,    *)
(*            that is every message there is.                              *)
(*                                                                         *)
(* Neither looks whether read returned 0.  Either can be killed; one that  *)
(* writes to a pipe without a reader is killed by SIGPIPE.  The results    *)
(* of write are inside assert; the asserts are compiled (with NDEBUG they  *)
(* would take the writes with them).                                       *)
(***************************************************************************)
EXTENDS Integers, FiniteSets

Process == {"ping", "pong"}
Peer(p) == IF p = "ping" THEN "pong" ELSE "ping"

VARIABLES setting,
          files,        \* the fifos that exist: my_file is 1, my_file2 is 2
          pc,
          channel,      \* the messages in the pipe that a process reads
          spare,        \* who still holds a write end of the pipe it reads
          connected,    \* both were in their loops
          killed,
          swallowed     \* messages read together with an earlier one

vars == <<setting, files, pc, channel, spare, connected, killed, swallowed>>

\* A fifo stays in the file system when the programs that made it are gone.
Init ==
    /\ setting \in {"pipes", "fifos"}
    /\ files \in (IF setting = "fifos" THEN {{}, {1}, {1, 2}} ELSE {{}})
    /\ pc = [p \in Process |-> IF setting = "pipes" THEN "close"
                               ELSE IF p = "ping" THEN "mkfifo 1" ELSE "open"]
    /\ channel = [p \in Process |-> 0]
    /\ spare = IF setting = "pipes" THEN Process ELSE {}
    /\ connected = FALSE
    /\ killed = FALSE
    /\ swallowed = 0

At(p, label)   == pc[p] = label
Goto(p, label) == pc' = [pc EXCEPT ![p] = label]

InLoop(p) == pc[p] \in {"write", "read"}

\* Mutant of First: pong writes first over pipes as well.
FirstWrites(p) == "write"

\* Where the loop of a process begins.
First(p) == IF setting = "pipes" /\ p = "pong" THEN "read" ELSE "write"

-----------------------------------------------------------------------------
(* Before the loops *)

\* Mutant of Toclose: the write end is not closed.
TocloseReadEnd(p) ==
    /\ At(p, "close")
    /\ Goto(p, First(p))
    /\ connected' = (connected \/ InLoop(Peer(p)))
    /\ UNCHANGED <<setting, files, channel, spare, killed, swallowed>>

\* The ends that a process does not use.
Toclose(p) ==
    /\ At(p, "close")
    /\ spare' = spare \ {p}
    /\ Goto(p, First(p))
    /\ connected' = (connected \/ InLoop(Peer(p)))
    /\ UNCHANGED <<setting, files, channel, killed, swallowed>>

\* mkfifo fails when the file exists.
Mkfifo(n) ==
    /\ At("ping", IF n = 1 THEN "mkfifo 1" ELSE "mkfifo 2")
    /\ IF n \in files
       THEN Goto("ping", "ended") /\ UNCHANGED files
       ELSE Goto("ping", IF n = 1 THEN "mkfifo 2" ELSE "opening 1") /\ files' = files \cup {n}
    /\ UNCHANGED <<setting, channel, spare, connected, killed, swallowed>>

\* The first open of pong: the file may not be there yet.
OpenPong ==
    /\ At("pong", "open")
    /\ Goto("pong", IF 1 \in files THEN "opening 1" ELSE "ended")
    /\ UNCHANGED <<setting, files, channel, spare, connected, killed, swallowed>>

\* open waits for the other end, and lets both go on.
Meet ==
    /\ \/ /\ \A p \in Process : At(p, "opening 1")
          /\ pc' = [p \in Process |-> "opening 2"]
          /\ UNCHANGED connected
       \/ /\ \A p \in Process : At(p, "opening 2")
          /\ pc' = [p \in Process |-> First(p)]
          /\ connected' = TRUE
    /\ UNCHANGED <<setting, files, channel, spare, killed, swallowed>>

-----------------------------------------------------------------------------
(* The loops *)

Write(p) ==
    /\ At(p, "write")
    /\ IF pc[Peer(p)] = "ended"
       THEN Goto(p, "ended") /\ UNCHANGED channel
       ELSE Goto(p, "read") /\ channel' = [channel EXCEPT ![Peer(p)] = @ + 1]
    /\ UNCHANGED <<setting, files, spare, connected, killed, swallowed>>

\* One message, or all of them, or the end of the pipe, which is taken for a
\* message.
Read(p) ==
    /\ At(p, "read")
    /\ channel[p] > 0 \/ (pc[Peer(p)] = "ended" /\ p \notin spare)
    /\ channel' = [channel EXCEPT ![p] = IF @ > 0 /\ setting = "pipes" THEN @ - 1 ELSE 0]
    /\ swallowed' = IF channel[p] > 1 /\ setting = "fifos"
                    THEN swallowed + channel[p] - 1 ELSE swallowed
    /\ Goto(p, "write")
    /\ UNCHANGED <<setting, files, spare, connected, killed>>

-----------------------------------------------------------------------------

\* One of them is killed.
Kill(p) ==
    /\ ~killed /\ pc[p] # "ended"
    /\ killed' = TRUE
    /\ Goto(p, "ended")
    /\ UNCHANGED <<setting, files, channel, spare, connected, swallowed>>

Step(p) == Toclose(p) \/ Write(p) \/ Read(p)
Start   == (\E n \in {1, 2} : Mkfifo(n)) \/ OpenPong \/ Meet

\* Both are gone, or one waits in open for a program that is gone.
Stopped ==
    /\ \E p \in Process : pc[p] = "ended"
    /\ \A p \in Process : pc[p] \in {"ended", "opening 1", "opening 2"}
    /\ UNCHANGED vars

Next == (\E p \in Process : Step(p) \/ Kill(p)) \/ Start \/ Stopped

Spec == Init /\ [][Next]_vars

-----------------------------------------------------------------------------
(* Properties *)

\* Every variable has its type.
TypeOK ==
    /\ setting \in {"pipes", "fifos"}
    /\ files \subseteq {1, 2}
    /\ pc \in [Process -> {"close", "mkfifo 1", "mkfifo 2", "open", "opening 1", "opening 2",
                           "write", "read", "ended"}]
    /\ channel \in [Process -> Nat]
    /\ spare \subseteq Process
    /\ connected \in BOOLEAN /\ killed \in BOOLEAN
    /\ swallowed \in Nat

\* Over pipes at most one message is under way.  Over fifos both write first,
\* and whoever is ahead can have two messages read as one, but only once:
\* from then on the two are in turn.
AtMostOneSwallowed ==
    /\ swallowed <= (IF setting = "pipes" THEN 0 ELSE 1)
    /\ channel["ping"] + channel["pong"] <= (IF setting = "pipes" THEN 1 ELSE 2 - swallowed)

\* When one of two connected processes is killed the other ends as well,
\* although it does not notice the end of the pipe: its next write is fatal.
EndsTogether ==
    (connected /\ \E p \in Process : pc[p] = "ended") ~> (\A p \in Process : pc[p] = "ended")
=============================================================================
