------------------------------ MODULE PingPong ------------------------------
(***************************************************************************)
(* ping_pong/: two processes that answer each other with SIGUSR1.  The     *)
(* first signals and waits, the second waits and signals; the handler sets *)
(* a flag on which they spin.                                              *)
(*                                                                         *)
(*   "fork"       ping_pong.c, ping_pong3.c: a parent and its child, which *)
(*                know each other's pid;                                   *)
(*   "terminals"  ping_pong2.c: the second answers the pid that came with  *)
(*                the last signal, and the first can be killed and started *)
(*                again, with a new pid, by hand.                          *)
(*                                                                         *)
(* A signal is a bit of the process it was sent to, with the pid of its    *)
(* first sender: one that is sent while it is still pending is dropped.    *)
(* The programs are compiled without optimisation, so the loops load flag. *)
(***************************************************************************)
EXTENDS Integers

CONSTANT MaxStarts     \* bound: how often the first program is started

Two  == 0              \* the pid of the second process
Pids == 0..MaxStarts   \* the others are the pids of the first

VARIABLES setting,
          one,         \* the pid of the first process, 0 while there is none
          starts,
          pc, flag, other_pid,
          pending,     \* of each process: the sender of its signal, or -1
          ahead,       \* Pings minus Pongs, while the first was started once
          dropped      \* a signal found one of an earlier process pending

vars == <<setting, one, starts, pc, flag, other_pid, pending, ahead, dropped>>

Init ==
    /\ setting \in {"fork", "terminals"}
    /\ one = 1
    /\ starts = 1
    /\ pc = [p \in Pids |-> IF p = Two THEN "spin" ELSE IF p = 1 THEN "kill" ELSE "absent"]
    /\ flag = [p \in Pids |-> FALSE]
    /\ other_pid = 1
    /\ pending = [p \in Pids |-> -1]
    /\ ahead = 0
    /\ dropped = FALSE

Alive(p) == p = Two \/ p = one
Goto(p, label) == pc' = [pc EXCEPT ![p] = label]

\* Whom a process answers.
Peer(p) == IF p = Two THEN other_pid ELSE Two

-----------------------------------------------------------------------------
(* The handler *)

\* Mutant of sig_hand: the pid of the first signal is kept.
SigHandFirstPid(p) ==
    /\ Alive(p) /\ pending[p] >= 0
    /\ pending' = [pending EXCEPT ![p] = -1]
    /\ flag' = [flag EXCEPT ![p] = TRUE]
    /\ UNCHANGED <<setting, one, starts, pc, other_pid, ahead, dropped>>

sig_hand(p) ==
    /\ Alive(p) /\ pending[p] >= 0
    /\ pending' = [pending EXCEPT ![p] = -1]
    /\ other_pid' = IF setting = "terminals" /\ p = Two THEN pending[p] ELSE other_pid
    /\ flag' = [flag EXCEPT ![p] = TRUE]
    /\ UNCHANGED <<setting, one, starts, pc, ahead, dropped>>

-----------------------------------------------------------------------------
(* ProcessOne and ProcessTwo *)

\* kill, which does nothing when the process is gone.
Kill(p) ==
    /\ Alive(p) /\ pc[p] = "kill"
    /\ LET q == Peer(p)
       IN IF ~Alive(q) \/ pending[q] >= 0
          THEN /\ dropped' = (dropped \/ (Alive(q) /\ pending[q] # p))
               /\ UNCHANGED pending
          ELSE pending' = [pending EXCEPT ![q] = p] /\ UNCHANGED dropped
    /\ Goto(p, "spin")
    /\ UNCHANGED <<setting, one, starts, flag, other_pid, ahead>>

\* Mutant of Spin: the process does not wait.
SpinWithoutFlag(p) ==
    /\ Alive(p) /\ pc[p] = "spin"
    /\ Goto(p, "print")
    /\ UNCHANGED <<setting, one, starts, flag, other_pid, pending, ahead, dropped>>

\* The end of the loop on the flag.
Spin(p) ==
    /\ Alive(p) /\ pc[p] = "spin"
    /\ flag[p]
    /\ Goto(p, "print")
    /\ UNCHANGED <<setting, one, starts, flag, other_pid, pending, ahead, dropped>>

PrintAnswer(p) ==
    /\ Alive(p) /\ pc[p] = "print"
    /\ ahead' = IF starts > 1 THEN 0 ELSE IF p = Two THEN ahead + 1 ELSE ahead - 1
    /\ Goto(p, "clear")
    /\ UNCHANGED <<setting, one, starts, flag, other_pid, pending, dropped>>

\* flag = 0
Clear(p) ==
    /\ Alive(p) /\ pc[p] = "clear"
    /\ flag' = [flag EXCEPT ![p] = FALSE]
    /\ Goto(p, "kill")
    /\ UNCHANGED <<setting, one, starts, other_pid, pending, ahead, dropped>>

-----------------------------------------------------------------------------
(* The user at the first terminal *)

Interrupt ==
    /\ setting = "terminals"
    /\ one > 0 /\ starts < MaxStarts
    /\ one' = 0
    /\ UNCHANGED <<setting, starts, pc, flag, other_pid, pending, ahead, dropped>>

Restart ==
    /\ one = 0
    /\ starts' = starts + 1
    /\ one' = starts'
    /\ Goto(starts', "kill")
    /\ UNCHANGED <<setting, flag, other_pid, pending, ahead, dropped>>

-----------------------------------------------------------------------------

Process(p) == sig_hand(p) \/ Kill(p) \/ Spin(p) \/ PrintAnswer(p) \/ Clear(p)

\* Whoever is there spins, and no signal is on its way.
Waiting == \A p \in Pids : Alive(p) => pc[p] = "spin" /\ ~flag[p] /\ pending[p] = -1
Hung == Waiting /\ UNCHANGED vars

Next == (\E p \in Pids : Process(p)) \/ Interrupt \/ Restart \/ Hung

Spec == Init /\ [][Next]_vars

-----------------------------------------------------------------------------
(* Properties *)

\* Every variable has its type.
TypeOK ==
    /\ setting \in {"fork", "terminals"}
    /\ one \in Pids /\ starts \in 1..MaxStarts
    /\ pc \in [Pids -> {"absent", "kill", "spin", "print", "clear"}]
    /\ flag \in [Pids -> BOOLEAN]
    /\ other_pid \in Pids
    /\ pending \in [Pids -> Pids \cup {-1}]
    /\ ahead \in Int
    /\ dropped \in BOOLEAN

\* Two processes that are left alone answer in turn, although a signal that
\* came between the loop and flag = 0 would be lost: the other process sends
\* its next signal only after it was sent one, which comes after flag = 0.
InTurn ==
    starts = 1 =>
        /\ ahead \in {0, 1}
        /\ ~dropped
        /\ \A p \in Pids : pending[p] >= 0 => ~flag[p] /\ pc[p] \in {"spin", "absent"}

\* If the first process is killed and started again the two still never wait
\* for each other for good, unless the new one's first signal met one of its
\* predecessor that was not yet delivered.
HangsOnlyByDrop == Waiting => one = 0 \/ dropped
=============================================================================
