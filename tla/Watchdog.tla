------------------------------ MODULE Watchdog -----------------------------
(***************************************************************************)
(* wd/wd.c: a program and its watchdog, two processes that send each other *)
(* SIGUSR1 and restart the other one when a period passes without a        *)
(* signal.                                                                 *)
(*                                                                         *)
(* A process is a record: what its main thread does (main), what the       *)
(* thread in SendAndReciveSignal does (loop), its process_params           *)
(* (process_name, pid_to_signal), its environment, its handlers, and which *)
(* of the two flags are RECEIVE: SIGUSR1 \in received is flag_send_signal, *)
(* SIGUSR2 \in received is flag_stop.  A clone made by fork inherits them  *)
(* all, a program started by execvp only its environment.                  *)
(*                                                                         *)
(* A pid is not used again.  A signal acts when it is sent.                *)
(* malloc, setenv and sigaction succeed; fork also fails when no pid is    *)
(* left.                                                                   *)
(***************************************************************************)
EXTENDS Integers, FiniteSets

CONSTANTS MaxPid,          \* bound: processes there can be
          Faults           \* bound: what <<crashes, disturbances>> can become

ASSUME WatchdogAssumption ==
    /\ MaxPid \in Nat \ {0}
    /\ Faults \subseteq Nat \X Nat

Pid == 1..MaxPid
SystemInit == 0            \* the process that adopts orphans

VARIABLES proc,
          crashes,         \* processes that died by themselves
          disturbances,    \* failures of fork, execvp and pthread_create, and
                           \* how often a process was late by a whole period
          told             \* history: SIGUSR2 was sent to the group

vars == <<proc, crashes, disturbances, told>>

Unborn ==
    [state |-> "unborn", parent |-> SystemInit, env |-> {}, main |-> "none",
     loop |-> "none", process_name |-> "none", pid_to_signal |-> SystemInit,
     received |-> {}, handlers |-> {}, stop |-> "nobody"]

\* A program that begins in main, with the parent and environment it is given.
Program(parent, env) ==
    [Unborn EXCEPT !.state = "alive", !.parent = parent, !.env = env,
                   !.main = "start"]

Init ==
    /\ proc = [p \in Pid |-> IF p = 1 THEN Program(SystemInit, {}) ELSE Unborn]
    /\ crashes = 0
    /\ disturbances = 0
    /\ told = FALSE

Alive(p) == p \in Pid /\ proc[p].state = "alive"

-----------------------------------------------------------------------------
(* The kernel *)

\* The table ps after the processes D have ended: a parent can still wait
\* for its dead child, and the children of the dead are adopted.
Bury(ps, D, how) ==
    [p \in Pid |->
        LET parent == IF ps[p].parent \in D THEN SystemInit ELSE ps[p].parent
        IN  IF p \in D THEN [Unborn EXCEPT !.state = how, !.parent = parent]
                       ELSE [ps[p] EXCEPT !.parent = parent]]

\* kill: a process without a handler for the signal ends.
Kill(ps, targets, signal) ==
    LET living == {p \in targets \cap Pid : ps[p].state = "alive"}
        caught == {p \in living : signal \in ps[p].handlers}
    IN  Bury([p \in Pid |-> IF p \in caught
                            THEN [ps[p] EXCEPT !.received = @ \cup {signal}]
                            ELSE ps[p]],
             living \ caught, "dead")

FreePid == {p \in Pid : proc[p].state = "unborn"}
NextPid == CHOOSE p \in FreePid : TRUE

\* fork by p; the child's copy of the forking thread becomes the record child.
Fork(p, parent, child) ==
    /\ FreePid # {}
    /\ proc' = [proc EXCEPT ![p] = parent, ![NextPid] = [child EXCEPT !.parent = p]]
    /\ UNCHANGED disturbances

Disturb ==
    /\ <<crashes, disturbances + 1>> \in Faults
    /\ disturbances' = disturbances + 1

ForkFails == Disturb \/ (FreePid = {} /\ UNCHANGED disturbances)

\* A process that crashes: the malfunction the watchdog is there for.
Crash(p) ==
    /\ Alive(p)
    /\ <<crashes + 1, disturbances>> \in Faults
    /\ crashes' = crashes + 1
    /\ proc' = Bury(proc, {p}, "dead")
    /\ UNCHANGED <<disturbances, told>>

-----------------------------------------------------------------------------
(* StartWd *)

InitSigAction(p) ==
    /\ Alive(p)
    /\ proc[p].main = "start"
    /\ proc' = [proc EXCEPT ![p].handlers = @ \cup {"SIGUSR1"},
                            ![p].main = "entered"]
    /\ UNCHANGED <<crashes, disturbances, told>>

\* The program as the user started it: it forks the first watchdog, which
\* runs SendAndReciveSignal inside its own call of StartWd.
FirstStart(p) ==
    /\ Alive(p)
    /\ proc[p].main = "entered"
    /\ "wd" \notin proc[p].env
    /\ LET app == [proc[p] EXCEPT !.env = {"wd", "app"}]
       IN  \/ Fork(p, [app EXCEPT !.process_name = "APP", !.main = "thread",
                                  !.pid_to_signal = NextPid],
                      [app EXCEPT !.main = "watch", !.loop = "child"])
           \/ ForkFails /\ proc' = [proc EXCEPT ![p] = [app EXCEPT !.main = "run"]]
    /\ UNCHANGED <<crashes, told>>

\* The program as a watchdog started it again.
NextStart(p) ==
    /\ Alive(p)
    /\ proc[p].main = "entered"
    /\ "wd" \in proc[p].env
    /\ proc' = [proc EXCEPT ![p] =
                  IF "app" \in @.env
                  THEN [@ EXCEPT !.main = "run"]
                  ELSE [@ EXCEPT !.env = {"wd", "app"}, !.process_name = "APP",
                                 !.pid_to_signal = proc[p].parent, !.main = "thread"]]
    /\ UNCHANGED <<crashes, disturbances, told>>

\* StartWd returns WD_SUCCESS whether or not the thread was created.
AppCreateThread(p) ==
    /\ Alive(p)
    /\ proc[p].main = "thread"
    /\ \/ /\ proc' = [proc EXCEPT ![p].main = "run", ![p].loop = "run"]
          /\ UNCHANGED disturbances
       \/ /\ Disturb
          /\ proc' = [proc EXCEPT ![p].main = "run"]
    /\ UNCHANGED <<crashes, told>>

-----------------------------------------------------------------------------
(* SendAndReciveSignal: the two tasks, and what follows TSRun *)

\* A step that happens only when some process is late by a whole period, if
\* lateness holds.
IsLate(lateness) == IF lateness THEN Disturb ELSE UNCHANGED disturbances

\* A signal that comes before its receiver has a handler finds it late.
SendSignal(p) ==
    /\ Alive(p)
    /\ proc[p].loop = "run"
    /\ LET q == proc[p].pid_to_signal
       IN  /\ IsLate(Alive(q) /\ "SIGUSR1" \notin proc[q].handlers)
           /\ proc' = Kill(proc, {q}, "SIGUSR1")
    /\ UNCHANGED <<crashes, told>>

\* q will signal p before p's period ends, unless it is late.
WillSignal(q, p) ==
    /\ Alive(q)
    /\ \/ proc[q].loop = "run" /\ proc[q].pid_to_signal = p
       \/ proc[q].loop \in {"exec", "child"} /\ proc[q].parent = p
       \/ proc[q].main \in {"start", "entered", "thread"}

\* Mutant of CheckSignal: the flag is not put back to NOT_RECEIVE.
CheckSignalWithoutReset(p) ==
    /\ Alive(p)
    /\ proc[p].loop = "run"
    /\ IsLate(proc[p].received = {} /\ WillSignal(proc[p].pid_to_signal, p))
    /\ proc' = [proc EXCEPT ![p].loop =
                  IF "SIGUSR2" \notin proc[p].received /\ "SIGUSR1" \in proc[p].received
                  THEN "run" ELSE "stopped"]
    /\ UNCHANGED <<crashes, told>>

\* The end of a period: TSStop after a stop or a silence, else another one.
CheckSignal(p) ==
    /\ Alive(p)
    /\ proc[p].loop = "run"
    /\ IsLate(proc[p].received = {} /\ WillSignal(proc[p].pid_to_signal, p))
    /\ proc' = [proc EXCEPT ![p] =
                  IF "SIGUSR2" \notin @.received /\ "SIGUSR1" \in @.received
                  THEN [@ EXCEPT !.received = {}]
                  ELSE [@ EXCEPT !.loop = "stopped"]]
    /\ UNCHANGED <<crashes, told>>

\* SendAndReciveSignal returns, through every call it is nested in: the first
\* watchdog goes on in the user's main, a process that is nothing but a clone
\* of a thread ends, in the program only the thread ends.
Returned(p) ==
    IF proc[p].main = "none"
    THEN Bury(proc, {p}, "dead")
    ELSE [proc EXCEPT ![p].loop = "none",
                      ![p].main = IF @ = "watch" THEN "run" ELSE @]

\* Mutant of Stop: a loop that was told to stop begins another period.
StopGoesOn(p) ==
    /\ Alive(p)
    /\ proc[p].loop = "stopped"
    /\ "SIGUSR2" \in proc[p].received
    /\ proc' = [proc EXCEPT ![p].loop = "run"]
    /\ UNCHANGED <<crashes, disturbances, told>>

\* The thread of the program joins itself, which fails, under an assert.
Stop(p) ==
    /\ Alive(p)
    /\ proc[p].loop = "stopped"
    /\ "SIGUSR2" \in proc[p].received
    /\ proc' = IF proc[p].process_name = "APP" THEN Bury(proc, {p}, "aborted")
                                               ELSE Returned(p)
    /\ UNCHANGED <<crashes, disturbances, told>>

\* Mutant of UnsetEnv: the watchdog unsets its own variable.
UnsetEnvWd(p) ==
    /\ Alive(p)
    /\ proc[p].loop = "stopped"
    /\ "SIGUSR2" \notin proc[p].received
    /\ proc' = [proc EXCEPT ![p].loop = "restart",
                            ![p].env = IF proc[p].process_name = "WD" THEN @ \ {"wd"} ELSE @]
    /\ UNCHANGED <<crashes, disturbances, told>>

\* Mutant of UnsetEnv: nothing is unset.
UnsetEnvNothing(p) ==
    /\ Alive(p)
    /\ proc[p].loop = "stopped"
    /\ "SIGUSR2" \notin proc[p].received
    /\ proc' = [proc EXCEPT ![p].loop = "restart"]
    /\ UNCHANGED <<crashes, disturbances, told>>

UnsetEnv(p) ==
    /\ Alive(p)
    /\ proc[p].loop = "stopped"
    /\ "SIGUSR2" \notin proc[p].received
    /\ proc' = [proc EXCEPT ![p].loop = "restart",
                            ![p].env = IF proc[p].process_name = "WD" THEN @ \ {"app"} ELSE @]
    /\ UNCHANGED <<crashes, disturbances, told>>

\* What fork makes of p when it restarts the other process: p watches its
\* child, in a nested SendAndReciveSignal, and the child is about to become it.
RestartWatcher(p) == [proc[p] EXCEPT !.loop = "run", !.pid_to_signal = NextPid]

\* Mutant of RestartChild: the child begins with both flags at NOT_RECEIVE.
RestartChildFresh(p) ==
    [proc[p] EXCEPT !.loop = IF proc[p].process_name = "WD" THEN "exec" ELSE "child",
                    !.main = IF @ = "watch" THEN @ ELSE "none",
                    !.received = {}]

RestartChild(p) ==
    [proc[p] EXCEPT !.loop = IF proc[p].process_name = "WD" THEN "exec" ELSE "child",
                    !.main = IF @ = "watch" THEN @ ELSE "none"]

RestartProc(p) ==
    /\ Alive(p)
    /\ proc[p].loop = "restart"
    /\ \/ Fork(p, RestartWatcher(p), RestartChild(p))
       \/ ForkFails /\ proc' = Returned(p)
    /\ UNCHANGED <<crashes, told>>

\* A failed execvp is not noticed: the clone of the watchdog goes on as if
\* its own watch had ended.
ExecProc(p) ==
    /\ Alive(p)
    /\ proc[p].loop = "exec"
    /\ \/ /\ proc' = [proc EXCEPT ![p] = Program(@.parent, @.env)]
          /\ UNCHANGED disturbances
       \/ /\ Disturb
          /\ proc' = Returned(p)
    /\ UNCHANGED <<crashes, told>>

RunWDProc(p) ==
    /\ Alive(p)
    /\ proc[p].loop = "child"
    /\ proc' = [proc EXCEPT ![p].process_name = "WD", ![p].loop = "run",
                            ![p].pid_to_signal = proc[p].parent]
    /\ UNCHANGED <<crashes, disturbances, told>>

-----------------------------------------------------------------------------
(* The user's program and StopWd *)

InitSigActionStop(p) ==
    /\ Alive(p)
    /\ proc[p].main = "run"
    /\ proc' = [proc EXCEPT ![p].handlers = @ \cup {"SIGUSR2"},
                            ![p].main = "stop peer"]
    /\ UNCHANGED <<crashes, disturbances, told>>

\* Mutant of SendStop: only the program itself is told to stop.
SendStopSelfOnly(p) ==
    /\ Alive(p)
    /\ proc[p].main \in {"stop peer", "stop self"}
    /\ LET next == [proc EXCEPT ![p].main = IF @ = "stop peer" THEN "stop self" ELSE "wait",
                                ![p].stop = "group"]
       IN  proc' = Kill(next, {p}, "SIGUSR2")
    /\ told' = TRUE
    /\ UNCHANGED <<crashes, disturbances>>

\* StopWd copies more bytes than StartWd stored: both pids are whatever the
\* heap holds.  A 0 names the process group, any other value nobody.
SendStop(p) ==
    /\ Alive(p)
    /\ proc[p].main \in {"stop peer", "stop self"}
    /\ \E target \in {"group", "nobody"} :
         LET next == IF proc[p].main = "stop peer"
                     THEN [proc EXCEPT ![p].main = "stop self", ![p].stop = target]
                     ELSE [proc EXCEPT ![p].main = "wait"]
         IN  /\ proc' = Kill(next, IF target = "group" THEN Pid ELSE {}, "SIGUSR2")
             /\ told' = (told \/ target = "group")
    /\ UNCHANGED <<crashes, disturbances>>

\* waitpid for any child of the group, or for a pid that is no child.
WaitPid(p) ==
    /\ Alive(p)
    /\ proc[p].main = "wait"
    /\ LET children == {q \in Pid : proc[q].parent = p}
       IN  \/ proc[p].stop = "nobody"
           \/ children = {}
           \/ \E q \in children : ~Alive(q)
    /\ proc' = [proc EXCEPT ![p].main = "done"]
    /\ UNCHANGED <<crashes, disturbances, told>>

\* The program returns from main, which ends its other thread too.
Exit(p) ==
    /\ Alive(p)
    /\ proc[p].main = "done"
    /\ proc' = Bury(proc, {p}, "dead")
    /\ UNCHANGED <<crashes, disturbances, told>>

-----------------------------------------------------------------------------

Begin(p) == InitSigAction(p) \/ FirstStart(p) \/ NextStart(p) \/ AppCreateThread(p)

AfterRun(p) ==
    Stop(p) \/ UnsetEnv(p) \/ RestartProc(p) \/ ExecProc(p) \/ RunWDProc(p)

End(p) == SendStop(p) \/ WaitPid(p) \/ Exit(p)

Finished == (\A p \in Pid : ~Alive(p)) /\ UNCHANGED vars

Next ==
    \/ \E p \in Pid : \/ Begin(p)
                      \/ SendSignal(p)
                      \/ CheckSignal(p)
                      \/ AfterRun(p)
                      \/ InitSigActionStop(p)
                      \/ End(p)
                      \/ Crash(p)
    \/ Finished

\* Threads run and both tasks of a scheduler come up again and again.  Nobody
\* has to crash, and a program need not ever call StopWd.
Fairness ==
    \A p \in Pid : /\ WF_vars(Begin(p))
                   /\ WF_vars(SendSignal(p))
                   /\ WF_vars(CheckSignal(p))
                   /\ WF_vars(AfterRun(p))
                   /\ WF_vars(End(p))

Spec == Init /\ [][Next]_vars /\ Fairness

-----------------------------------------------------------------------------
(* Properties *)

Process ==
    [state : {"unborn", "alive", "dead", "aborted"},
     parent : Pid \cup {SystemInit},
     env : SUBSET {"wd", "app"},
     main : {"none", "start", "entered", "thread", "run", "watch", "stop peer",
             "stop self", "wait", "done"},
     loop : {"none", "child", "run", "stopped", "restart", "exec"},
     process_name : {"none", "WD", "APP"},
     pid_to_signal : Pid \cup {SystemInit},
     received : SUBSET {"SIGUSR1", "SIGUSR2"},
     handlers : SUBSET {"SIGUSR1", "SIGUSR2"},
     stop : {"group", "nobody"}]

\* Every variable has its type.
TypeOK ==
    /\ proc \in [Pid -> Process]
    /\ crashes \in Nat
    /\ disturbances \in Nat
    /\ told \in BOOLEAN

\* So far no call has failed and no process was late by a whole period.
Undisturbed == disturbances = 0

\* p runs the user's program, or is about to.
IsProgram(p) ==
    Alive(p) /\ (proc[p].main \notin {"none", "watch"} \/ proc[p].loop = "exec")

IsWatchdog(p) == Alive(p) /\ ~IsProgram(p)

\* As long as no call fails and nobody is late by a period, no crash leaves
\* two programs or two watchdogs running side by side.
NoDuplicates ==
    Undisturbed =>
        /\ Cardinality({p \in Pid : IsProgram(p)}) <= 1
        /\ Cardinality({p \in Pid : IsWatchdog(p)}) <= 1

\* A program and a watchdog that watch each other.
Pair ==
    \E app, wd \in Pid :
        /\ Alive(app) /\ Alive(wd)
        /\ proc[app].loop = "run" /\ proc[app].process_name = "APP"
        /\ proc[wd].loop = "run" /\ proc[wd].process_name = "WD"
        /\ proc[app].pid_to_signal = wd
        /\ proc[wd].pid_to_signal = app

SomebodyWatches == \E p \in Pid : Alive(p) /\ proc[p].loop # "none"

\* As long as one of the two is left, the other comes back and they watch
\* each other again, until StopWd has told the group.  A call that fails, or a
\* late signal, can end that.
Recovers == SomebodyWatches ~> (Pair \/ ~SomebodyWatches \/ told \/ ~Undisturbed)

\* StopWd returns: the child it waits for, whichever it is, ends.
StopReturns ==
    \A p \in Pid : (Alive(p) /\ proc[p].main = "wait") ~> (~Alive(p) \/ proc[p].main = "done")

\* Whoever is waited for knows of the stop: a child made while StopWd runs has
\* the handler and gets the signal, or is a copy of a process that got it.
WaitsOnlyForTheTold ==
    \A p, q \in Pid :
        /\ Alive(p) /\ proc[p].main = "wait" /\ proc[p].stop = "group"
        /\ Alive(q) /\ proc[q].parent = p
        => "SIGUSR2" \in proc[q].received

\* After a signal of StopWd to the group no program is started again, as long
\* as nothing failed and nobody was late.  When the pids that StopWd reads
\* name nobody it is: see StopIsHeard.
NoRestartAfterStop ==
    [][told /\ Undisturbed' =>
         \A p \in Pid : Alive(p)' /\ proc'[p].main = "start"
                          => Alive(p) /\ proc[p].main = "start"]_vars

\* What wd.h:24 says of StopWd, "Stop the Watch Dog action": a program that
\* has returned from it is not started again.
StopIsHeard ==
    \A p \in Pid : [](proc[p].main = "done" =>
                         [](\A q \in Pid : proc[q].main # "start"))

\* The environment tells a program that a watchdog started it: only the
\* program the user started forks a watchdog of its own, and every other one
\* is watched from StartWd on.
ReplacementIsWatched ==
    \A p \in Pid \ {1} : Alive(p) /\ proc[p].main = "entered" => proc[p].env = {"wd"}

\* The assertion that ends the program's thread: joining it succeeds.
JoinSucceeds == \A p \in Pid : proc[p].state # "aborted"
=============================================================================
