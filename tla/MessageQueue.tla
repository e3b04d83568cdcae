---------------------------- MODULE MessageQueue ----------------------------
(***************************************************************************)
(* ipc/message_queue/: a writer that sends two texts, a reader that prints *)
(* one and does not look at the result of msgrcv, and a second reader that *)
(* prints one and then removes the queue.  Each program can be started     *)
(* several times, in any order; whoever finds no queue makes one.          *)
(*                                                                         *)
(* A queue that is removed is gone with its messages: a receiver that      *)
(* waits for it, or comes too late, gets an error, and so does a sender,   *)
(* which does not look.                                                    *)
(***************************************************************************)
EXTENDS Integers, Sequences

CONSTANT Runs     \* how often each program is started

Program == {"writer", "reader", "reader2"}
Process == Program \X (1..Runs)
Text    == ({"writer"} \X (1..Runs)) \X {1, 2}
Nothing == <<<<"nobody", 0>>, 0>>

\* The identifiers that msgget can give: a new one needs a removal.
Id == 1..(Runs + 1)

VARIABLES msgid,      \* of each process, 0 before msgget
          current,    \* the queue that msgget finds, 0 if there is none
          queues,     \* Id -> the messages
          removed,    \* the queues that are gone
          pc,
          sent,       \* the texts that were given to msgsnd
          printed     \* of each process: the text it received, or Nothing

vars == <<msgid, current, queues, removed, pc, sent, printed>>

Init ==
    /\ msgid = [p \in Process |-> 0]
    /\ current = 0
    /\ queues = [q \in Id |-> <<>>]
    /\ removed = {}
    /\ pc = [p \in Process |-> "msgget"]
    /\ sent = {}
    /\ printed = [p \in Process |-> Nothing]

Goto(p, label) == pc' = [pc EXCEPT ![p] = label]

\* msgget with IPC_CREAT
Msgget(p) ==
    /\ pc[p] = "msgget"
    /\ current' = IF current = 0 THEN CHOOSE q \in Id \ removed : TRUE ELSE current
    /\ msgid' = [msgid EXCEPT ![p] = current']
    /\ Goto(p, IF p[1] = "writer" THEN "msgsnd" ELSE "msgrcv")
    /\ UNCHANGED <<queues, removed, sent, printed>>

\* MassageQueueWriter sends its two texts, whether or not the queue exists.
Msgsnd(p) ==
    /\ pc[p] = "msgsnd"
    /\ LET k == IF <<p, 1>> \in sent THEN 2 ELSE 1
       IN /\ sent' = sent \cup {<<p, k>>}
          /\ queues' = IF msgid[p] \in removed THEN queues
                       ELSE [queues EXCEPT ![msgid[p]] = Append(@, <<p, k>>)]
          /\ Goto(p, IF k = 2 THEN "done" ELSE "msgsnd")
    /\ UNCHANGED <<msgid, current, removed, printed>>

\* msgrcv waits for a message, and fails when the queue is gone: the first
\* reader then prints the empty text, the second returns.
Msgrcv(p) ==
    /\ pc[p] = "msgrcv"
    /\ IF msgid[p] \in removed
       THEN Goto(p, "done") /\ UNCHANGED <<queues, printed>>
       ELSE /\ queues[msgid[p]] # <<>>
            /\ printed' = [printed EXCEPT ![p] = Head(queues[msgid[p]])]
            /\ queues' = [queues EXCEPT ![msgid[p]] = Tail(@)]
            /\ Goto(p, IF p[1] = "reader2" THEN "msgctl" ELSE "done")
    /\ UNCHANGED <<msgid, current, removed, sent>>

\* Mutant of Msgctl: IPC_RMID of whatever queue is there now.
MsgctlCurrent(p) ==
    /\ pc[p] = "msgctl"
    /\ removed' = IF current = 0 THEN removed ELSE removed \cup {current}
    /\ queues' = IF current = 0 THEN queues ELSE [queues EXCEPT ![current] = <<>>]
    /\ current' = 0
    /\ Goto(p, "done")
    /\ UNCHANGED <<msgid, sent, printed>>

\* IPC_RMID, whose result is ignored when another process was faster.
Msgctl(p) ==
    /\ pc[p] = "msgctl"
    /\ removed' = removed \cup {msgid[p]}
    /\ queues' = [queues EXCEPT ![msgid[p]] = <<>>]
    /\ current' = IF current = msgid[p] THEN 0 ELSE current
    /\ Goto(p, "done")
    /\ UNCHANGED <<msgid, sent, printed>>

Step(p) == Msgget(p) \/ Msgsnd(p) \/ Msgrcv(p) \/ Msgctl(p)

\* All are done, or wait for a message.
Stopped ==
    /\ \A p \in Process :
          \/ pc[p] = "done"
          \/ pc[p] = "msgrcv" /\ msgid[p] \notin removed /\ queues[msgid[p]] = <<>>
    /\ UNCHANGED vars

Next == (\E p \in Process : Step(p)) \/ Stopped

Spec == Init /\ [][Next]_vars

-----------------------------------------------------------------------------
(* Properties *)

\* Every variable has its type.
TypeOK ==
    /\ msgid \in [Process -> Id \cup {0}]
    /\ current \in Id \cup {0}
    /\ queues \in [Id -> Seq(Text)]
    /\ removed \subseteq Id
    /\ pc \in [Process -> {"msgget", "msgsnd", "msgrcv", "msgctl", "done"}]
    /\ sent \subseteq Text
    /\ printed \in [Process -> Text \cup {Nothing}]

\* A text that was sent is printed, or in its queue, or was lost because its
\* queue was removed; whoever ends without a text found its queue removed; and
\* nobody removes a queue of which no text was read: the first text of every
\* queue is never lost.
LostOnlyByRemoval ==
    /\ \A m \in sent :
          \/ \E p \in Process : printed[p] = m
          \/ \E k \in DOMAIN queues[msgid[m[1]]] : queues[msgid[m[1]]][k] = m
          \/ msgid[m[1]] \in removed
    /\ \A p \in Process :
          pc[p] = "done" /\ p[1] # "writer" /\ printed[p] = Nothing => msgid[p] \in removed
    /\ \A q \in removed : \E p \in Process : msgid[p] = q /\ printed[p] # Nothing
=============================================================================
