---------------------------- MODULE SharedMemory ----------------------------
(***************************************************************************)
(* ipc/shared_memory/: a writer that clears a flag, copies its text,       *)
(* sleeps, sets the flag and removes the segment; a reader that spins on   *)
(* the flag and prints the text; a second reader that then removes the     *)
(* segment as well.  The writer is started several times; the programs run *)
(* in any order and can be killed at any moment.  Whoever finds no segment *)
(* makes one, which is full of zeros.                                      *)
(*                                                                         *)
(* A removed segment is no longer found by its key, but stays as long as a *)
(* process has it attached.  The text is copied in two parts.              *)
(***************************************************************************)
EXTENDS Integers, FiniteSets

CONSTANTS Runs,       \* how often the writer is started
          MaxKills    \* bound

Process == ({"writer"} \X (1..Runs)) \cup ({"reader", "reader2"} \X {1})

\* A segment for every process that may have to make one.
Id == 1..Cardinality(Process)

VARIABLES shmid,       \* of each process, 0 before shmget
          current,     \* the segment that shmget finds, 0 if there is none
          made,        \* how many segments were made
          complete, buf,
          destroyed,   \* removed and detached by all
          attached,    \* the processes that have their segment attached
          pc, kills,
          printed      \* how much of the text each process printed

vars == <<shmid, current, made, complete, buf, destroyed, attached, pc, kills, printed>>
memory == <<complete, buf>>

Init ==
    /\ shmid = [p \in Process |-> 0]
    /\ current = 0
    /\ made = 0
    /\ complete = [s \in Id |-> 0]
    /\ buf = [s \in Id |-> {}]
    /\ destroyed = {}
    /\ attached = {}
    /\ pc = [p \in Process |-> "shmget"]
    /\ kills = 0
    /\ printed = [p \in Process |-> {}]

Goto(p, label) == pc' = [pc EXCEPT ![p] = label]

\* The segments that are gone when only S have theirs attached.
Gone(S, key) == {s \in 1..made : s # key /\ \A p \in S : shmid[p] # s}

-----------------------------------------------------------------------------

\* shmget with IPC_CREAT
Shmget(p) ==
    /\ pc[p] = "shmget"
    /\ made' = IF current = 0 THEN made + 1 ELSE made
    /\ current' = IF current = 0 THEN made' ELSE current
    /\ shmid' = [shmid EXCEPT ![p] = current']
    /\ Goto(p, "shmat")
    /\ UNCHANGED <<destroyed, attached, kills, printed, memory>>

\* shmat fails when the segment is gone by now.
Shmat(p) ==
    /\ pc[p] = "shmat"
    /\ IF shmid[p] \in destroyed
       THEN Goto(p, "failed") /\ UNCHANGED attached
       ELSE /\ attached' = attached \cup {p}
            /\ Goto(p, IF p[1] = "writer" THEN "clear" ELSE "spin")
    /\ UNCHANGED <<shmid, current, made, destroyed, kills, printed, memory>>

Shmdt(p) ==
    /\ pc[p] = "shmdt"
    /\ attached' = attached \ {p}
    /\ destroyed' = Gone(attached', current)
    /\ Goto(p, IF p[1] = "reader" THEN "done" ELSE "shmctl")
    /\ UNCHANGED <<shmid, current, made, kills, printed, memory>>

\* IPC_RMID; the writer fails when the segment is gone already, the second
\* reader does not look.
Shmctl(p) ==
    /\ pc[p] = "shmctl"
    /\ current' = IF current = shmid[p] THEN 0 ELSE current
    /\ destroyed' = Gone(attached, current')
    /\ Goto(p, IF shmid[p] \in destroyed /\ p[1] = "writer" THEN "failed" ELSE "done")
    /\ UNCHANGED <<shmid, made, attached, kills, printed, memory>>

-----------------------------------------------------------------------------

\* Mutant of Write: the flag is set before the text is copied.
WriteFlagFirst(p) ==
    /\ \/ /\ pc[p] = "clear"
          /\ complete' = [complete EXCEPT ![shmid[p]] = 1]
          /\ Goto(p, "copy 1")
          /\ UNCHANGED buf
       \/ /\ pc[p] \in {"copy 1", "copy 2"}
          /\ buf' = [buf EXCEPT ![shmid[p]] = @ \cup {IF pc[p] = "copy 1" THEN 1 ELSE 2}]
          /\ Goto(p, IF pc[p] = "copy 1" THEN "copy 2" ELSE "shmdt")
          /\ UNCHANGED complete
    /\ UNCHANGED <<shmid, current, made, destroyed, attached, kills, printed>>

\* The writer between shmat and shmdt; strcpy stores the same text over
\* whatever a writer before has stored.
Write(p) ==
    /\ \/ /\ pc[p] \in {"clear", "set"}
          /\ complete' = [complete EXCEPT ![shmid[p]] = IF pc[p] = "set" THEN 1 ELSE 0]
          /\ Goto(p, IF pc[p] = "set" THEN "shmdt" ELSE "copy 1")
          /\ UNCHANGED buf
       \/ /\ pc[p] \in {"copy 1", "copy 2"}
          /\ buf' = [buf EXCEPT ![shmid[p]] = @ \cup {IF pc[p] = "copy 1" THEN 1 ELSE 2}]
          /\ Goto(p, IF pc[p] = "copy 1" THEN "copy 2" ELSE "set")
          /\ UNCHANGED complete
    /\ UNCHANGED <<shmid, current, made, destroyed, attached, kills, printed>>

\* The end of the loop on the flag.
Spin(p) ==
    /\ pc[p] = "spin"
    /\ complete[shmid[p]] = 1
    /\ Goto(p, "print")
    /\ UNCHANGED <<shmid, current, made, destroyed, attached, kills, printed, memory>>

PrintText(p) ==
    /\ pc[p] = "print"
    /\ printed' = [printed EXCEPT ![p] = buf[shmid[p]]]
    /\ Goto(p, "shmdt")
    /\ UNCHANGED <<shmid, current, made, destroyed, attached, kills, memory>>

\* A process is killed, which detaches its segment and removes none.
Kill(p) ==
    /\ kills < MaxKills
    /\ pc[p] \notin {"shmget", "done", "failed"}
    /\ kills' = kills + 1
    /\ attached' = attached \ {p}
    /\ destroyed' = Gone(attached', current)
    /\ Goto(p, "failed")
    /\ UNCHANGED <<shmid, current, made, printed, memory>>

-----------------------------------------------------------------------------

Step(p) == Shmget(p) \/ Shmat(p) \/ Write(p) \/ Spin(p) \/ PrintText(p) \/ Shmdt(p) \/ Shmctl(p)

\* All are done, or spin on a flag that nobody sets any more.
Stopped ==
    /\ \A p \in Process :
          pc[p] \in {"done", "failed"} \/ (pc[p] = "spin" /\ complete[shmid[p]] = 0)
    /\ UNCHANGED vars

Next == (\E p \in Process : Step(p) \/ Kill(p)) \/ Stopped

Spec == Init /\ [][Next]_vars

-----------------------------------------------------------------------------
(* Properties *)

\* Every variable has its type.
TypeOK ==
    /\ shmid \in [Process -> Id \cup {0}]
    /\ current \in Id \cup {0} /\ made \in 0..Cardinality(Process)
    /\ complete \in [Id -> {0, 1}]
    /\ buf \in [Id -> SUBSET {1, 2}]
    /\ destroyed \subseteq Id
    /\ attached \subseteq Process
    /\ pc \in [Process -> {"shmget", "shmat", "clear", "copy 1", "copy 2", "set", "spin",
                           "print", "shmdt", "shmctl", "done", "failed"}]
    /\ kills \in 0..MaxKills
    /\ printed \in [Process -> SUBSET {1, 2}]

\* A reader prints the whole text, even when the flag was set in an earlier
\* run and a new writer is just copying: a set flag means that the segment
\* had the text once, and every writer copies the same.
PrintsWholeText ==
    \A p \in Process :
        /\ p[1] # "writer" /\ pc[p] \in {"shmdt", "shmctl", "done"} => printed[p] = {1, 2}
        /\ p \in attached => shmid[p] \notin destroyed
=============================================================================
