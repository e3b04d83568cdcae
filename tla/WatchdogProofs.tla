--------------------------- MODULE WatchdogProofs ---------------------------
(***************************************************************************)
(* For any number of pids, crashes and disturbances: a replacement starts  *)
(* with the environment that makes it watched, and StopWd waits only for   *)
(* children that got the signal to stop.  As long as no call failed and    *)
(* nobody was late: there are never two programs or two watchdogs, and     *)
(* after a signal of StopWd to the group no program is started.            *)
(*                                                                         *)
(* None is inductive.  The first needs to know which environment the       *)
(* watchdog's clone carries before execvp; the second that a clone which   *)
(* is about to become a program, and would forget the signal, is never the *)
(* child of a process that waits; the others that two that live take each  *)
(* other for what they are.                                                *)
(***************************************************************************)
EXTENDS Watchdog, FiniteSetTheorems, TLAPS

\* The process p with the record r.  Whoever watches has the variable of the
\* watchdog in its environment; a watchdog that restarts, or its clone, no
\* longer has the other one.  The main thread of a program runs next to a loop
\* only in what is not a watchdog; the signal to stop has its handler only
\* after main has begun to stop.
Sound(p, r) ==
    /\ r.main # "none" => r.state = "alive"
    /\ r.loop # "none" \/ r.main = "thread" => "wd" \in r.env
    /\ r.loop = "exec" \/ (r.loop = "restart" /\ r.process_name = "WD") => "app" \notin r.env
    /\ p # 1 /\ r.main \in {"start", "entered"} => r.env = {"wd"}
    /\ r.main \in {"start", "entered", "thread"} => r.loop = "none"
    /\ r.main \in {"start", "entered", "thread", "watch"} => "SIGUSR2" \notin r.handlers
    /\ r.main = "thread" => r.process_name = "APP"
    /\ r.loop \in {"child", "exec"} \/ (r.loop # "none" /\ r.process_name = "WD")
          => r.main \in {"none", "watch"}

\* A child with the record c and its parent with the record r.
Related(c, r) ==
    /\ r.state = "alive"
    /\ c.loop = "exec" /\ "SIGUSR2" \in c.handlers => r.main = "none" /\ r.loop # "exec"

Base(ps) ==
    /\ ps \in [Pid -> Process]
    /\ \A p \in Pid : Sound(p, ps[p])
    /\ \A q \in Pid : ps[q].parent # SystemInit =>
            ps[q].parent # q /\ Related(ps[q], ps[ps[q].parent])

Waiting(r) == r.main \in {"stop self", "wait"} /\ r.stop = "group"

\* Whoever waits in StopWd, or is a child of one that waits, was told.
Told(ps) ==
    /\ \A p \in Pid : Waiting(ps[p]) => "SIGUSR2" \in ps[p].received
    /\ \A q \in Pid : /\ ps[q].parent # SystemInit
                      /\ ps[q].state = "alive"
                      /\ Waiting(ps[ps[q].parent])
                      => "SIGUSR2" \in ps[q].received /\ ps[q].loop # "exec"

IInv == TypeOK /\ Base(proc) /\ Told(proc)

-----------------------------------------------------------------------------
(* One process changes *)

\* The process p goes from the record r to the record s, and nobody who waits
\* for it or for whom it waits need mind.
Change(p, r, s) ==
    /\ s \in Process
    /\ s.state = "alive" /\ s.parent = r.parent
    /\ Sound(p, s)
    /\ s.loop # "exec"
    /\ r.main = "none" /\ r.loop # "exec" => s.main = "none"

Calm(r, s) ==
    /\ "SIGUSR2" \in r.received => "SIGUSR2" \in s.received \/ r.loop = "exec"
    /\ Waiting(s) => Waiting(r) /\ "SIGUSR2" \in s.received

\* A parent is a process, and not init.
LEMMA ParentIsPid ==
    ASSUME NEW ps \in [Pid -> Process], NEW q \in Pid, ps[q].parent # SystemInit
    PROVE  ps[q].parent \in Pid
BY DEF Process

\* A change keeps what the processes know of each other.
LEMMA ChangeKeepsBase ==
    ASSUME NEW ps, Base(ps), NEW p \in Pid, ps[p].state = "alive",
           NEW s, Change(p, ps[p], s)
    PROVE  Base([ps EXCEPT ![p] = s])
<1> DEFINE ns == [ps EXCEPT ![p] = s]
<1>1. ps \in [Pid -> Process] /\ s \in Process
    BY DEF Base, Change
<1>2. ns \in [Pid -> Process]
    BY <1>1
<1>3. \A q \in Pid : ns[q] = IF q = p THEN s ELSE ps[q]
    BY <1>1
<1>4. \A q \in Pid : Sound(q, ns[q])
    BY <1>3 DEF Base, Change
<1>5. ASSUME NEW q \in Pid, ns[q].parent # SystemInit
      PROVE  ns[q].parent # q /\ Related(ns[q], ns[ns[q].parent])
    <2>1. ns[q].parent = ps[q].parent
        BY <1>3 DEF Change
    <2> DEFINE par == ps[q].parent
    <2>2. par # SystemInit /\ par # q /\ Related(ps[q], ps[par])
        BY <1>5, <2>1 DEF Base
    <2>3. par \in Pid
        BY <1>1, <2>2, ParentIsPid
    <2>4. CASE q = p
        <3>1. ns[q] = s /\ ns[par] = ps[par]
            BY <1>3, <2>2, <2>3, <2>4
        <3> QED BY <2>1, <2>2, <3>1 DEF Related, Change
    <2>5. CASE q # p /\ par = p
        <3>1. ns[q] = ps[q] /\ ns[par] = s
            BY <1>3, <2>5
        <3> QED BY <2>1, <2>2, <2>5, <3>1 DEF Related, Change
    <2>6. CASE q # p /\ par # p
        <3>1. ns[q] = ps[q] /\ ns[par] = ps[par]
            BY <1>3, <2>3, <2>6
        <3> QED BY <2>1, <2>2, <3>1
    <2> QED BY <2>4, <2>5, <2>6
<1> QED BY <1>2, <1>4, <1>5 DEF Base

\* A calm change keeps what was told to whom.
LEMMA ChangeKeepsTold ==
    ASSUME NEW ps, Base(ps), Told(ps), NEW p \in Pid, ps[p].state = "alive",
           NEW s, Change(p, ps[p], s), Calm(ps[p], s)
    PROVE  Told([ps EXCEPT ![p] = s])
<1> DEFINE ns == [ps EXCEPT ![p] = s]
<1>1. ps \in [Pid -> Process] /\ s \in Process
    BY DEF Base, Change
<1>2. \A q \in Pid : ns[q] = IF q = p THEN s ELSE ps[q]
    BY <1>1
<1>3. \A q \in Pid : Waiting(ns[q]) => "SIGUSR2" \in ns[q].received
    BY <1>2 DEF Told, Calm
<1>4. ASSUME NEW q \in Pid, ns[q].parent # SystemInit, ns[q].state = "alive",
             Waiting(ns[ns[q].parent])
      PROVE  "SIGUSR2" \in ns[q].received /\ ns[q].loop # "exec"
    <2>1. ns[q].parent = ps[q].parent
        BY <1>2 DEF Change
    <2> DEFINE par == ps[q].parent
    <2>2. par \in Pid
        BY <1>1, <1>4, <2>1, ParentIsPid
    <2>3. Waiting(ps[par])
        BY <1>2, <1>4, <2>1, <2>2 DEF Calm
    <2>4. ps[q].state = "alive"
        BY <1>2, <1>4
    <2>5. "SIGUSR2" \in ps[q].received /\ ps[q].loop # "exec"
        BY <1>4, <2>1, <2>3, <2>4 DEF Told
    <2> QED BY <1>2, <2>5 DEF Calm, Change
<1> QED BY <1>3, <1>4 DEF Told

\* A process that was not there before has no children.
LEMMA BirthKeepsBase ==
    ASSUME NEW ps, Base(ps), NEW n \in Pid, ps[n].state = "unborn",
           NEW c \in Process, Sound(n, c), NEW p \in Pid, p # n, c.parent = p,
           Related(c, ps[p])
    PROVE  Base([ps EXCEPT ![n] = c])
<1> DEFINE ns == [ps EXCEPT ![n] = c]
<1>1. ps \in [Pid -> Process]
    BY DEF Base
<1>2. ns \in [Pid -> Process]
    BY <1>1
<1>3. \A q \in Pid : ns[q] = IF q = n THEN c ELSE ps[q]
    BY <1>1
<1>4. \A q \in Pid : Sound(q, ns[q])
    BY <1>3 DEF Base
<1>5. ASSUME NEW q \in Pid, ns[q].parent # SystemInit
      PROVE  ns[q].parent # q /\ Related(ns[q], ns[ns[q].parent])
    <2>1. CASE q = n
        <3>1. ns[q] = c /\ ns[p] = ps[p]
            BY <1>3, <2>1
        <3> QED BY <2>1, <3>1
    <2>2. CASE q # n
        <3>1. ns[q] = ps[q]
            BY <1>3, <2>2
        <3> DEFINE par == ps[q].parent
        <3>2. par \in Pid /\ par # q /\ Related(ps[q], ps[par])
            BY <1>1, <1>5, <3>1, ParentIsPid DEF Base
        <3>3. ns[par] = ps[par]
            BY <1>3, <3>2 DEF Related
        <3> QED BY <3>1, <3>2, <3>3
    <2> QED BY <2>1, <2>2
<1> QED BY <1>2, <1>4, <1>5 DEF Base

\* A newborn does not wait, and was told if its parent waits.
LEMMA BirthKeepsTold ==
    ASSUME NEW ps, Base(ps), Told(ps), NEW n \in Pid, ps[n].state = "unborn",
           NEW c \in Process, NEW p \in Pid, p # n, c.parent = p,
           Waiting(c) => "SIGUSR2" \in c.received,
           Waiting(ps[p]) => "SIGUSR2" \in c.received /\ c.loop # "exec"
    PROVE  Told([ps EXCEPT ![n] = c])
<1> DEFINE ns == [ps EXCEPT ![n] = c]
<1>1. ps \in [Pid -> Process]
    BY DEF Base
<1>2. \A q \in Pid : ns[q] = IF q = n THEN c ELSE ps[q]
    BY <1>1
<1>3. \A q \in Pid : Waiting(ns[q]) => "SIGUSR2" \in ns[q].received
    BY <1>2 DEF Told
<1>4. ASSUME NEW q \in Pid, ns[q].parent # SystemInit, ns[q].state = "alive",
             Waiting(ns[ns[q].parent])
      PROVE  "SIGUSR2" \in ns[q].received /\ ns[q].loop # "exec"
    <2>1. CASE q = n
        <3>1. ns[q] = c /\ ns[p] = ps[p]
            BY <1>2, <2>1
        <3> QED BY <1>4, <3>1
    <2>2. CASE q # n
        <3>1. ns[q] = ps[q]
            BY <1>2, <2>2
        <3> DEFINE par == ps[q].parent
        <3>2. par \in Pid /\ Related(ps[q], ps[par])
            BY <1>1, <1>4, <3>1, ParentIsPid DEF Base
        <3>3. ns[par] = ps[par]
            BY <1>2, <3>2 DEF Related
        <3> QED BY <1>4, <3>1, <3>3 DEF Told
    <2> QED BY <2>1, <2>2
<1> QED BY <1>3, <1>4 DEF Told
-----------------------------------------------------------------------------
(* Processes end, and signals are received *)

\* What is left of a process that ended.
Ended(s) ==
    /\ s.state # "alive" /\ s.main = "none" /\ s.loop = "none"
    /\ s.handlers = {}

\* A process that went on, perhaps with another signal and adopted.
WentOn(r, s) ==
    /\ s.state = r.state /\ s.main = r.main /\ s.loop = r.loop
    /\ s.env = r.env /\ s.process_name = r.process_name
    /\ s.handlers = r.handlers /\ s.stop = r.stop
    /\ r.received \subseteq s.received

\* The table ns, after some processes of ps have ended.
After(ps, ns) ==
    /\ ns \in [Pid -> Process]
    /\ \A p \in Pid :
        /\ Ended(ns[p]) \/ WentOn(ps[p], ns[p])
        /\ ns[p].parent # SystemInit =>
              ns[p].parent = ps[p].parent /\ ~Ended(ns[ps[p].parent])

\* The survivors still know of each other what they knew.
LEMMA AfterKeepsBase ==
    ASSUME NEW ps, Base(ps), NEW ns, After(ps, ns)
    PROVE  Base(ns)
<1>1. ps \in [Pid -> Process] /\ ns \in [Pid -> Process]
    BY DEF Base, After
<1>2. ASSUME NEW p \in Pid
      PROVE  Sound(p, ns[p])
    <2>1. CASE Ended(ns[p])
        BY <2>1 DEF Ended, Sound
    <2>2. CASE WentOn(ps[p], ns[p])
        <3>1. Sound(p, ps[p])
            BY DEF Base
        <3> QED BY <2>2, <3>1 DEF WentOn, Sound
    <2> QED BY <2>1, <2>2 DEF After
<1>3. ASSUME NEW q \in Pid, ns[q].parent # SystemInit
      PROVE  ns[q].parent # q /\ Related(ns[q], ns[ns[q].parent])
    <2> DEFINE par == ps[q].parent
    <2>1. ns[q].parent = par /\ ~Ended(ns[par])
        BY <1>3 DEF After
    <2>2. par \in Pid /\ par # q /\ Related(ps[q], ps[par])
        BY <1>1, <1>3, <2>1, ParentIsPid DEF Base
    <2>3. WentOn(ps[par], ns[par])
        BY <2>1, <2>2 DEF After
    <2>4. Related(ns[q], ns[par])
        <3>1. CASE Ended(ns[q])
            BY <2>2, <2>3, <3>1 DEF Ended, WentOn, Related
        <3>2. CASE WentOn(ps[q], ns[q])
            BY <2>2, <2>3, <3>2 DEF WentOn, Related
        <3> QED BY <3>1, <3>2 DEF After
    <2> QED BY <2>1, <2>2, <2>4
<1> QED BY <1>1, <1>2, <1>3 DEF Base

\* Nobody forgets what it was told.
LEMMA AfterKeepsTold ==
    ASSUME NEW ps, Base(ps), Told(ps), NEW ns, After(ps, ns)
    PROVE  Told(ns)
<1>1. ps \in [Pid -> Process] /\ ns \in [Pid -> Process]
    BY DEF Base, After
<1>2. ASSUME NEW p \in Pid, Waiting(ns[p])
      PROVE  WentOn(ps[p], ns[p]) /\ Waiting(ps[p])
    BY <1>2 DEF After, Ended, WentOn, Waiting
<1>3. ASSUME NEW p \in Pid, Waiting(ns[p])
      PROVE  "SIGUSR2" \in ns[p].received
    BY <1>2, <1>3 DEF Told, WentOn
<1>4. ASSUME NEW q \in Pid, ns[q].parent # SystemInit, ns[q].state = "alive",
             Waiting(ns[ns[q].parent])
      PROVE  "SIGUSR2" \in ns[q].received /\ ns[q].loop # "exec"
    <2> DEFINE par == ps[q].parent
    <2>1. ns[q].parent = par /\ WentOn(ps[q], ns[q])
        BY <1>4 DEF After, Ended
    <2>2. par \in Pid
        BY <1>1, <1>4, <2>1, ParentIsPid
    <2>3. Waiting(ps[par]) /\ ps[q].state = "alive"
        BY <1>2, <1>4, <2>1, <2>2 DEF WentOn
    <2>4. "SIGUSR2" \in ps[q].received /\ ps[q].loop # "exec"
        BY <1>4, <2>1, <2>3 DEF Told
    <2> QED BY <2>1, <2>4 DEF WentOn
<1> QED BY <1>3, <1>4 DEF Told

\* Bury leaves what is left, and adopts the children.
LEMMA BuryIsAfter ==
    ASSUME NEW ps, Base(ps), NEW D, NEW how \in {"dead", "aborted"}
    PROVE  After(ps, Bury(ps, D, how))
<1> DEFINE ns == Bury(ps, D, how)
<1>1. ps \in [Pid -> Process]
    BY DEF Base
<1>2. ASSUME NEW p \in Pid
      PROVE  /\ ns[p] \in Process
             /\ p \in D => Ended(ns[p])
             /\ p \notin D => WentOn(ps[p], ns[p])
             /\ ns[p].parent # SystemInit =>
                   ns[p].parent = ps[p].parent /\ ps[p].parent \notin D
    <2> DEFINE parent == IF ps[p].parent \in D THEN SystemInit ELSE ps[p].parent
    <2>1. ps[p] \in Process /\ parent \in Pid \cup {SystemInit}
        BY <1>1 DEF Process
    <2>2. CASE p \in D
        <3>1. ns[p] = [Unborn EXCEPT !.state = how, !.parent = parent]
            BY <2>2 DEF Bury
        <3> HIDE DEF parent, ns
        <3>2. ns[p] \in Process /\ Ended(ns[p]) /\ ns[p].parent = parent
            BY <2>1, <3>1 DEF Unborn, Process, Ended
        <3> QED BY <2>2, <3>2 DEF parent
    <2>3. CASE p \notin D
        <3>1. ns[p] = [ps[p] EXCEPT !.parent = parent]
            BY <2>3 DEF Bury
        <3> HIDE DEF parent, ns
        <3>2. ns[p] \in Process /\ WentOn(ps[p], ns[p]) /\ ns[p].parent = parent
            BY <2>1, <3>1 DEF Process, WentOn
        <3> QED BY <2>3, <3>2 DEF parent
    <2> QED BY <2>2, <2>3
<1>3. ns \in [Pid -> Process]
    BY <1>2 DEF Bury
<1>4. ASSUME NEW p \in Pid, ns[p].parent # SystemInit
      PROVE  ns[p].parent = ps[p].parent /\ ~Ended(ns[ps[p].parent])
    <2>1. ns[p].parent = ps[p].parent /\ ps[p].parent \notin D
        BY <1>2, <1>4
    <2>2. ps[p].parent \in Pid /\ ps[ps[p].parent].state = "alive"
        BY <1>1, <1>4, <2>1, ParentIsPid DEF Base, Related
    <2>3. WentOn(ps[ps[p].parent], ns[ps[p].parent])
        BY <1>2, <2>1, <2>2
    <2> QED BY <2>1, <2>2, <2>3 DEF WentOn, Ended
<1> HIDE DEF ns
<1>5. After(ps, ns)
    BY <1>2, <1>3, <1>4 DEF After
<1> QED BY <1>5 DEF ns

\* So does kill, for whoever has no handler.
LEMMA KillKeeps ==
    ASSUME NEW ps, Base(ps), NEW targets, NEW signal \in {"SIGUSR1", "SIGUSR2"}
    PROVE  /\ Base(Kill(ps, targets, signal))
           /\ Told(ps) => Told(Kill(ps, targets, signal))
<1> DEFINE living == {p \in targets \cap Pid : ps[p].state = "alive"}
           caught == {p \in living : signal \in ps[p].handlers}
           mid == [p \in Pid |-> IF p \in caught
                                 THEN [ps[p] EXCEPT !.received = @ \cup {signal}]
                                 ELSE ps[p]]
<1>1. ps \in [Pid -> Process]
    BY DEF Base
<1> HIDE DEF living, caught
<1>2. ASSUME NEW p \in Pid
      PROVE  mid[p] \in Process /\ WentOn(ps[p], mid[p]) /\ mid[p].parent = ps[p].parent
    <2>1. ps[p] \in Process
        BY <1>1
    <2>2. CASE p \in caught
        <3>1. mid[p] = [ps[p] EXCEPT !.received = @ \cup {signal}]
            BY <2>2
        <3> HIDE DEF mid
        <3>2. ps[p].received \cup {signal} \in SUBSET {"SIGUSR1", "SIGUSR2"}
            BY <2>1 DEF Process
        <3>3. mid[p] \in Process
            BY <2>1, <3>1, <3>2 DEF Process
        <3>4. WentOn(ps[p], mid[p]) /\ mid[p].parent = ps[p].parent
            BY <2>1, <3>1 DEF Process, WentOn
        <3> QED BY <3>3, <3>4
    <2>3. CASE p \notin caught
        BY <2>1, <2>3 DEF WentOn
    <2> QED BY <2>2, <2>3
<1>3. mid \in [Pid -> Process]
    BY <1>2
<1> HIDE DEF mid
<1>4. ASSUME NEW p \in Pid, mid[p].parent # SystemInit
      PROVE  mid[p].parent = ps[p].parent /\ ~Ended(mid[ps[p].parent])
    <2>1. mid[p].parent = ps[p].parent
        BY <1>2
    <2>2. ps[p].parent \in Pid /\ ps[ps[p].parent].state = "alive"
        BY <1>1, <1>4, <2>1, ParentIsPid DEF Base, Related
    <2> QED BY <1>2, <2>1, <2>2 DEF WentOn, Ended
<1>5. After(ps, mid)
    BY <1>2, <1>3, <1>4 DEF After
<1>6. Base(mid)
    BY <1>5, AfterKeepsBase
<1>7. After(mid, Bury(mid, living \ caught, "dead"))
    BY <1>6, BuryIsAfter
<1>8. Kill(ps, targets, signal) = Bury(mid, living \ caught, "dead")
    BY DEF Kill, mid, caught, living
<1>9. Base(Kill(ps, targets, signal))
    BY <1>6, <1>7, <1>8, AfterKeepsBase
<1>10. ASSUME Told(ps)
       PROVE  Told(Kill(ps, targets, signal))
    <2>1. Told(mid)
        BY <1>5, <1>10, AfterKeepsTold
    <2> QED BY <1>6, <1>7, <1>8, <2>1, AfterKeepsTold
<1> QED BY <1>9, <1>10

\* Whoever survives a signal to the group was told.
LEMMA KillTells ==
    ASSUME NEW ps \in [Pid -> Process], NEW p \in Pid,
           Kill(ps, Pid, "SIGUSR2")[p].state = "alive"
    PROVE  /\ "SIGUSR2" \in Kill(ps, Pid, "SIGUSR2")[p].received
           /\ "SIGUSR2" \in Kill(ps, Pid, "SIGUSR2")[p].handlers
<1> DEFINE living == {q \in Pid \cap Pid : ps[q].state = "alive"}
           caught == {q \in living : "SIGUSR2" \in ps[q].handlers}
           mid == [q \in Pid |-> IF q \in caught
                                 THEN [ps[q] EXCEPT !.received = @ \cup {"SIGUSR2"}]
                                 ELSE ps[q]]
           ns == Bury(mid, living \ caught, "dead")
           parent == IF mid[p].parent \in living \ caught THEN SystemInit ELSE mid[p].parent
<1>1. Kill(ps, Pid, "SIGUSR2") = ns
    BY DEF Kill
<1>2. ns[p] = IF p \in living \ caught
              THEN [Unborn EXCEPT !.state = "dead", !.parent = parent]
              ELSE [mid[p] EXCEPT !.parent = parent]
    BY DEF Bury
<1> HIDE DEF ns, parent
<1>3. ns[p].state = "alive"
    BY <1>1
<1>4. p \notin living \ caught
    <2> HIDE DEF living, caught, mid
    <2> QED BY <1>2, <1>3 DEF Unborn
<1>5. ps[p] \in Process /\ mid[p] \in Process
    <2>1. ps[p] \in Process
        OBVIOUS
    <2>2. ps[p].received \cup {"SIGUSR2"} \in SUBSET {"SIGUSR1", "SIGUSR2"}
        BY <2>1 DEF Process
    <2>3. mid[p] = ps[p] \/ mid[p] = [ps[p] EXCEPT !.received = @ \cup {"SIGUSR2"}]
        OBVIOUS
    <2> HIDE DEF mid
    <2> QED BY <2>1, <2>2, <2>3 DEF Process
<1>6. ns[p] = [mid[p] EXCEPT !.parent = parent]
    BY <1>2, <1>4
<1> HIDE DEF mid
<1>7. mid[p].state = "alive" /\ ns[p].received = mid[p].received
          /\ ns[p].handlers = mid[p].handlers
    BY <1>3, <1>5, <1>6 DEF Process
<1>8. p \in caught
    <2>1. CASE p \notin caught
        <3>1. mid[p] = ps[p]
            BY <2>1 DEF mid
        <3> QED BY <1>4, <1>7, <3>1
    <2> QED BY <2>1
<1>9. mid[p] = [ps[p] EXCEPT !.received = @ \cup {"SIGUSR2"}] /\ "SIGUSR2" \in ps[p].handlers
    BY <1>8 DEF mid
<1> HIDE DEF caught, living
<1>10. "SIGUSR2" \in mid[p].received /\ "SIGUSR2" \in mid[p].handlers
    <2>1. mid[p].handlers = ps[p].handlers
        BY <1>5, <1>9 DEF Process
    <2>2. mid[p].received = ps[p].received \cup {"SIGUSR2"}
        BY <1>5, <1>9 DEF Process
    <2> QED BY <1>9, <2>1, <2>2
<1>11. "SIGUSR2" \in ns[p].received /\ "SIGUSR2" \in ns[p].handlers
    BY <1>7, <1>10
<1> QED BY <1>1, <1>11

-----------------------------------------------------------------------------
(* The steps of a process *)

\* A step that changes one process.
LEMMA OneChanges ==
    ASSUME Base(proc), Told(proc), NEW p, Alive(p), NEW s,
           Change(p, proc[p], s), Calm(proc[p], s),
           proc' = [proc EXCEPT ![p] = s]
    PROVE  Base(proc') /\ Told(proc')
BY ChangeKeepsBase, ChangeKeepsTold DEF Alive

\* A pid that fork takes was nobody's.
LEMMA NextPidIsFree ==
    ASSUME FreePid # {}
    PROVE  NextPid \in Pid /\ proc[NextPid].state = "unborn"
<1>1. NextPid \in FreePid
    BY DEF NextPid
<1> QED BY <1>1 DEF FreePid

\* A step that forks.
LEMMA ForkKeeps ==
    ASSUME Base(proc), Told(proc), NEW p, Alive(p), NEW s,
           Change(p, proc[p], s), Calm(proc[p], s),
           NEW c \in Process, c.parent = p, Sound(NextPid, c), Related(c, s),
           Waiting(c) => "SIGUSR2" \in c.received,
           Waiting(s) => "SIGUSR2" \in c.received /\ c.loop # "exec",
           FreePid # {},
           proc' = [proc EXCEPT ![p] = s, ![NextPid] = c]
    PROVE  Base(proc') /\ Told(proc')
<1> DEFINE ps == [proc EXCEPT ![p] = s]
           n == NextPid
<1>1. n \in Pid /\ proc[n].state = "unborn" /\ p \in Pid /\ n # p
    BY NextPidIsFree DEF Alive
<1>2. proc \in [Pid -> Process]
    BY DEF Base
<1> HIDE DEF n
<1>3. Base(ps) /\ Told(ps)
    BY ChangeKeepsBase, ChangeKeepsTold DEF Alive
<1>4. ps[p] = s /\ ps[n].state = "unborn"
    BY <1>1, <1>2
<1>5. proc' = [ps EXCEPT ![n] = c]
    BY DEF n
<1>6. Sound(n, c)
    BY DEF n
<1> HIDE DEF ps
<1>7. Base([ps EXCEPT ![n] = c])
    BY <1>1, <1>3, <1>4, <1>6, BirthKeepsBase
<1>8. Told([ps EXCEPT ![n] = c])
    BY <1>1, <1>3, <1>4, BirthKeepsTold
<1> QED BY <1>5, <1>7, <1>8

\* The return of SendAndReciveSignal.
LEMMA ReturnedKeeps ==
    ASSUME Base(proc), Told(proc), NEW p, Alive(p), proc[p].loop # "none",
           proc' = Returned(p)
    PROVE  Base(proc') /\ Told(proc')
<1>1. CASE proc[p].main = "none"
    <2>1. proc' = Bury(proc, {p}, "dead")
        BY <1>1 DEF Returned
    <2> QED BY <2>1, BuryIsAfter, AfterKeepsBase, AfterKeepsTold
<1>2. CASE proc[p].main # "none"
    <2> DEFINE s == [proc[p] EXCEPT !.loop = "none",
                                    !.main = IF @ = "watch" THEN "run" ELSE @]
    <2>1. p \in Pid /\ proc[p] \in Process /\ Sound(p, proc[p]) /\ proc[p].state = "alive"
        BY DEF Base, Alive
    <2>2. proc' = [proc EXCEPT ![p] = s]
        BY <1>2 DEF Returned
    <2>3. /\ s \in Process /\ s.state = "alive" /\ s.parent = proc[p].parent
          /\ s.main = IF proc[p].main = "watch" THEN "run" ELSE proc[p].main
          /\ s.loop = "none"
          /\ s.env = proc[p].env /\ s.process_name = proc[p].process_name
          /\ s.handlers = proc[p].handlers /\ s.received = proc[p].received
          /\ s.stop = proc[p].stop
        BY <2>1 DEF Process
    <2> HIDE DEF s
    <2>4. Change(p, proc[p], s)
        BY <1>2, <2>1, <2>3 DEF Change, Sound
    <2>5. Calm(proc[p], s)
        BY <2>1, <2>3 DEF Calm, Waiting, Told
    <2> QED BY <2>2, <2>4, <2>5, OneChanges
<1> QED BY <1>1, <1>2

\* StartWd installs the handler of the heartbeat.
LEMMA InitSigActionKeeps ==
    ASSUME Base(proc), Told(proc), NEW p, InitSigAction(p)
    PROVE  Base(proc') /\ Told(proc')
<1> DEFINE s == [proc[p] EXCEPT !.handlers = @ \cup {"SIGUSR1"}, !.main = "entered"]
<1>1. Alive(p) /\ p \in Pid /\ proc[p] \in Process /\ Sound(p, proc[p])
          /\ proc[p].state = "alive"
          /\ proc[p].main = "start"
    BY DEF InitSigAction, Alive, Base
<1>2. proc' = [proc EXCEPT ![p] = s]
    BY DEF InitSigAction
<1>3. /\ s \in Process /\ s.state = "alive" /\ s.parent = proc[p].parent
      /\ s.main = "entered"
      /\ s.handlers = proc[p].handlers \cup {"SIGUSR1"}
      /\ s.loop = proc[p].loop /\ s.env = proc[p].env
      /\ s.process_name = proc[p].process_name
      /\ s.received = proc[p].received /\ s.stop = proc[p].stop
    BY <1>1 DEF Process
<1> HIDE DEF s
<1>4. Change(p, proc[p], s)
    BY <1>1, <1>3 DEF Change, Sound
<1>5. Calm(proc[p], s)
    BY <1>1, <1>3 DEF Calm, Waiting, Told
<1> QED BY <1>1, <1>2, <1>4, <1>5, OneChanges

\* A program that was started again is watched by its parent.
LEMMA NextStartKeeps ==
    ASSUME Base(proc), Told(proc), NEW p, NextStart(p)
    PROVE  Base(proc') /\ Told(proc')
<1> DEFINE s == IF "app" \in proc[p].env
               THEN [proc[p] EXCEPT !.main = "run"]
               ELSE [proc[p] EXCEPT !.env = {"wd", "app"}, !.process_name = "APP",
                                    !.pid_to_signal = proc[p].parent, !.main = "thread"]
<1>1. Alive(p) /\ p \in Pid /\ proc[p] \in Process /\ Sound(p, proc[p])
          /\ proc[p].state = "alive"
          /\ proc[p].main = "entered" /\ "wd" \in proc[p].env
    BY DEF NextStart, Alive, Base
<1>2. proc' = [proc EXCEPT ![p] = s]
    BY DEF NextStart
<1>3. /\ s \in Process /\ s.state = "alive" /\ s.parent = proc[p].parent
      /\ s.main = IF "app" \in proc[p].env THEN "run" ELSE "thread"
      /\ s.env = IF "app" \in proc[p].env THEN proc[p].env ELSE {"wd", "app"}
      /\ s.process_name = IF "app" \in proc[p].env THEN proc[p].process_name ELSE "APP"
      /\ s.loop = proc[p].loop /\ s.handlers = proc[p].handlers
      /\ s.received = proc[p].received /\ s.stop = proc[p].stop
    BY <1>1 DEF Process
<1> HIDE DEF s
<1>4. Change(p, proc[p], s)
    BY <1>1, <1>3 DEF Change, Sound
<1>5. Calm(proc[p], s)
    BY <1>1, <1>3 DEF Calm, Waiting, Told
<1> QED BY <1>1, <1>2, <1>4, <1>5, OneChanges

\* The end of a period keeps the signal to stop.
LEMMA CheckSignalKeeps ==
    ASSUME Base(proc), Told(proc), NEW p, CheckSignal(p)
    PROVE  Base(proc') /\ Told(proc')
<1> DEFINE s == IF "SIGUSR2" \notin proc[p].received /\ "SIGUSR1" \in proc[p].received
               THEN [proc[p] EXCEPT !.received = {}]
               ELSE [proc[p] EXCEPT !.loop = "stopped"]
<1>1. Alive(p) /\ p \in Pid /\ proc[p] \in Process /\ Sound(p, proc[p])
          /\ proc[p].state = "alive"
          /\ proc[p].loop = "run"
    BY DEF CheckSignal, Alive, Base
<1>2. proc' = [proc EXCEPT ![p] = s]
    BY DEF CheckSignal
<1>3. /\ s \in Process /\ s.state = "alive" /\ s.parent = proc[p].parent
      /\ s.loop = IF "SIGUSR2" \notin proc[p].received /\ "SIGUSR1" \in proc[p].received
                  THEN "run" ELSE "stopped"
      /\ s.received = IF "SIGUSR2" \notin proc[p].received /\ "SIGUSR1" \in proc[p].received
                      THEN {} ELSE proc[p].received
      /\ s.main = proc[p].main /\ s.env = proc[p].env
      /\ s.process_name = proc[p].process_name
      /\ s.handlers = proc[p].handlers /\ s.stop = proc[p].stop
    BY <1>1 DEF Process
<1> HIDE DEF s
<1>4. Change(p, proc[p], s)
    BY <1>1, <1>3 DEF Change, Sound
<1>5. Calm(proc[p], s)
    BY <1>1, <1>3 DEF Calm, Waiting, Told
<1> QED BY <1>1, <1>2, <1>4, <1>5, OneChanges

\* A watchdog that restarts unsets the variable of the program.
LEMMA UnsetEnvKeeps ==
    ASSUME Base(proc), Told(proc), NEW p, UnsetEnv(p)
    PROVE  Base(proc') /\ Told(proc')
<1> DEFINE s == [proc[p] EXCEPT !.loop = "restart",
                               !.env = IF proc[p].process_name = "WD" THEN @ \ {"app"} ELSE @]
<1>1. Alive(p) /\ p \in Pid /\ proc[p] \in Process /\ Sound(p, proc[p])
          /\ proc[p].state = "alive"
          /\ proc[p].loop = "stopped"
    BY DEF UnsetEnv, Alive, Base
<1>2. proc' = [proc EXCEPT ![p] = s]
    BY DEF UnsetEnv
<1>3. /\ s \in Process /\ s.state = "alive" /\ s.parent = proc[p].parent
      /\ s.loop = "restart"
      /\ s.env = IF proc[p].process_name = "WD" THEN proc[p].env \ {"app"} ELSE proc[p].env
      /\ s.main = proc[p].main /\ s.process_name = proc[p].process_name
      /\ s.handlers = proc[p].handlers /\ s.received = proc[p].received
      /\ s.stop = proc[p].stop
    BY <1>1 DEF Process
<1> HIDE DEF s
<1>4. Change(p, proc[p], s)
    BY <1>1, <1>3 DEF Change, Sound
<1>5. Calm(proc[p], s)
    BY <1>1, <1>3 DEF Calm, Waiting, Told
<1> QED BY <1>1, <1>2, <1>4, <1>5, OneChanges

\* The clone of the program becomes a watchdog.
LEMMA RunWDProcKeeps ==
    ASSUME Base(proc), Told(proc), NEW p, RunWDProc(p)
    PROVE  Base(proc') /\ Told(proc')
<1> DEFINE s == [proc[p] EXCEPT !.process_name = "WD", !.loop = "run",
                               !.pid_to_signal = proc[p].parent]
<1>1. Alive(p) /\ p \in Pid /\ proc[p] \in Process /\ Sound(p, proc[p])
          /\ proc[p].state = "alive"
          /\ proc[p].loop = "child"
    BY DEF RunWDProc, Alive, Base
<1>2. proc' = [proc EXCEPT ![p] = s]
    BY DEF RunWDProc
<1>3. /\ s \in Process /\ s.state = "alive" /\ s.parent = proc[p].parent
      /\ s.loop = "run"
      /\ s.process_name = "WD"
      /\ s.main = proc[p].main /\ s.env = proc[p].env
      /\ s.handlers = proc[p].handlers /\ s.received = proc[p].received
      /\ s.stop = proc[p].stop
    BY <1>1 DEF Process
<1> HIDE DEF s
<1>4. Change(p, proc[p], s)
    BY <1>1, <1>3 DEF Change, Sound
<1>5. Calm(proc[p], s)
    BY <1>1, <1>3 DEF Calm, Waiting, Told
<1> QED BY <1>1, <1>2, <1>4, <1>5, OneChanges

\* The handler of the signal to stop is there when main stops.
LEMMA InitSigActionStopKeeps ==
    ASSUME Base(proc), Told(proc), NEW p, InitSigActionStop(p)
    PROVE  Base(proc') /\ Told(proc')
<1> DEFINE s == [proc[p] EXCEPT !.handlers = @ \cup {"SIGUSR2"}, !.main = "stop peer"]
<1>1. Alive(p) /\ p \in Pid /\ proc[p] \in Process /\ Sound(p, proc[p])
          /\ proc[p].state = "alive"
          /\ proc[p].main = "run"
    BY DEF InitSigActionStop, Alive, Base
<1>2. proc' = [proc EXCEPT ![p] = s]
    BY DEF InitSigActionStop
<1>3. /\ s \in Process /\ s.state = "alive" /\ s.parent = proc[p].parent
      /\ s.main = "stop peer"
      /\ s.handlers = proc[p].handlers \cup {"SIGUSR2"}
      /\ s.loop = proc[p].loop /\ s.env = proc[p].env
      /\ s.process_name = proc[p].process_name
      /\ s.received = proc[p].received /\ s.stop = proc[p].stop
    BY <1>1 DEF Process
<1> HIDE DEF s
<1>4. Change(p, proc[p], s)
    BY <1>1, <1>3 DEF Change, Sound
<1>5. Calm(proc[p], s)
    BY <1>1, <1>3 DEF Calm, Waiting, Told
<1> QED BY <1>1, <1>2, <1>4, <1>5, OneChanges

\* After the wait StopWd returns.
LEMMA WaitPidKeeps ==
    ASSUME Base(proc), Told(proc), NEW p, WaitPid(p)
    PROVE  Base(proc') /\ Told(proc')
<1> DEFINE s == [proc[p] EXCEPT !.main = "done"]
<1>1. Alive(p) /\ p \in Pid /\ proc[p] \in Process /\ Sound(p, proc[p])
          /\ proc[p].state = "alive"
          /\ proc[p].main = "wait"
    BY DEF WaitPid, Alive, Base
<1>2. proc' = [proc EXCEPT ![p] = s]
    BY DEF WaitPid
<1>3. /\ s \in Process /\ s.state = "alive" /\ s.parent = proc[p].parent
      /\ s.main = "done"
      /\ s.loop = proc[p].loop /\ s.env = proc[p].env
      /\ s.process_name = proc[p].process_name
      /\ s.handlers = proc[p].handlers /\ s.received = proc[p].received
      /\ s.stop = proc[p].stop
    BY <1>1 DEF Process
<1> HIDE DEF s
<1>4. Change(p, proc[p], s)
    BY <1>1, <1>3 DEF Change, Sound
<1>5. Calm(proc[p], s)
    BY <1>1, <1>3 DEF Calm, Waiting, Told
<1> QED BY <1>1, <1>2, <1>4, <1>5, OneChanges

\* The thread of the program is created, or StartWd returns without it.
LEMMA AppCreateThreadKeeps ==
    ASSUME Base(proc), Told(proc), NEW p, AppCreateThread(p)
    PROVE  Base(proc') /\ Told(proc')
<1> DEFINE s == [proc[p] EXCEPT !.main = "run", !.loop = "run"]
           t == [proc[p] EXCEPT !.main = "run"]
<1>1. Alive(p) /\ p \in Pid /\ proc[p] \in Process /\ Sound(p, proc[p])
          /\ proc[p].main = "thread" /\ proc[p].loop = "none"
          /\ proc[p].process_name = "APP" /\ proc[p].state = "alive"
    BY DEF AppCreateThread, Alive, Base, Sound
<1>2. \/ proc' = [proc EXCEPT ![p] = s]
      \/ proc' = [proc EXCEPT ![p] = t]
    BY DEF AppCreateThread
<1>3. /\ s \in Process /\ s.state = "alive" /\ s.parent = proc[p].parent
      /\ s.main = "run"
      /\ s.loop = "run"
      /\ s.env = proc[p].env /\ s.process_name = proc[p].process_name
      /\ s.handlers = proc[p].handlers /\ s.received = proc[p].received
      /\ s.stop = proc[p].stop
    BY <1>1 DEF Process
<1>4. /\ t \in Process /\ t.state = "alive" /\ t.parent = proc[p].parent
      /\ t.main = "run"
      /\ t.loop = proc[p].loop /\ t.env = proc[p].env
      /\ t.process_name = proc[p].process_name
      /\ t.handlers = proc[p].handlers /\ t.received = proc[p].received
      /\ t.stop = proc[p].stop
    BY <1>1 DEF Process
<1> HIDE DEF s, t
<1>5. Change(p, proc[p], s) /\ Calm(proc[p], s)
    BY <1>1, <1>3 DEF Change, Sound, Calm, Waiting, Told
<1>6. Change(p, proc[p], t) /\ Calm(proc[p], t)
    BY <1>1, <1>4 DEF Change, Sound, Calm, Waiting, Told
<1> QED BY <1>1, <1>2, <1>5, <1>6, OneChanges

\* The first watchdog is a copy of the program that forks it.
LEMMA FirstStartKeeps ==
    ASSUME Base(proc), Told(proc), NEW p, FirstStart(p)
    PROVE  Base(proc') /\ Told(proc')
<1> DEFINE app == [proc[p] EXCEPT !.env = {"wd", "app"}]
           s == [app EXCEPT !.process_name = "APP", !.main = "thread",
                            !.pid_to_signal = NextPid]
           c == [app EXCEPT !.main = "watch", !.loop = "child"]
           d == [c EXCEPT !.parent = p]
           t == [app EXCEPT !.main = "run"]
<1>1. Alive(p) /\ p \in Pid /\ proc[p] \in Process /\ Sound(p, proc[p])
          /\ proc[p].main = "entered" /\ proc[p].state = "alive"
    BY DEF FirstStart, Alive, Base
<1>2. CASE FreePid # {} /\ proc' = [proc EXCEPT ![p] = s, ![NextPid] = d]
    <2>1. NextPid \in Pid
        BY <1>2, NextPidIsFree
    <2>2. /\ s \in Process /\ s.state = "alive" /\ s.parent = proc[p].parent
          /\ s.main = "thread"
          /\ s.env = {"wd", "app"}
          /\ s.process_name = "APP"
          /\ s.loop = proc[p].loop /\ s.handlers = proc[p].handlers
          /\ s.received = proc[p].received /\ s.stop = proc[p].stop
        BY <1>1, <2>1 DEF Process
    <2>3. /\ d \in Process /\ d.state = "alive" /\ d.parent = p
          /\ d.main = "watch" /\ d.loop = "child" /\ d.env = {"wd", "app"}
          /\ d.handlers = proc[p].handlers
        BY <1>1 DEF Process
    <2> HIDE DEF s, d
    <2>4. Change(p, proc[p], s) /\ Calm(proc[p], s)
        BY <1>1, <2>2 DEF Change, Sound, Calm, Waiting, Told
    <2>5. Sound(NextPid, d) /\ Related(d, s)
        BY <1>1, <2>2, <2>3 DEF Sound, Related
    <2>6. ~Waiting(d) /\ ~Waiting(s)
        BY <2>2, <2>3 DEF Waiting
    <2> QED BY <1>1, <1>2, <2>3, <2>4, <2>5, <2>6, ForkKeeps
<1>3. CASE proc' = [proc EXCEPT ![p] = t]
    <2>1. /\ t \in Process /\ t.state = "alive" /\ t.parent = proc[p].parent
          /\ t.main = "run"
          /\ t.env = {"wd", "app"}
          /\ t.loop = proc[p].loop /\ t.process_name = proc[p].process_name
          /\ t.handlers = proc[p].handlers /\ t.received = proc[p].received
          /\ t.stop = proc[p].stop
        BY <1>1 DEF Process
    <2> HIDE DEF t
    <2>2. Change(p, proc[p], t) /\ Calm(proc[p], t)
        BY <1>1, <2>1 DEF Change, Sound, Calm, Waiting, Told
    <2> QED BY <1>1, <1>3, <2>2, OneChanges
<1>4. \/ FreePid # {} /\ proc' = [proc EXCEPT ![p] = s, ![NextPid] = d]
      \/ proc' = [proc EXCEPT ![p] = t]
    BY DEF FirstStart, Fork
<1> QED BY <1>2, <1>3, <1>4

\* A process that was told to stop does not get here, and its clone keeps
\* what it was told.
LEMMA RestartProcKeeps ==
    ASSUME Base(proc), Told(proc), NEW p, RestartProc(p)
    PROVE  Base(proc') /\ Told(proc')
<1> DEFINE s == RestartWatcher(p)
           c == RestartChild(p)
           d == [c EXCEPT !.parent = p]
<1>1. Alive(p) /\ p \in Pid /\ proc[p] \in Process /\ Sound(p, proc[p])
          /\ proc[p].loop = "restart" /\ proc[p].state = "alive"
    BY DEF RestartProc, Alive, Base
<1>2. CASE FreePid # {} /\ proc' = [proc EXCEPT ![p] = s, ![NextPid] = d]
    <2>1. NextPid \in Pid
        BY <1>2, NextPidIsFree
    <2>2. /\ s \in Process
          /\ s.main = proc[p].main /\ s.loop = "run" /\ s.state = "alive"
          /\ s.parent = proc[p].parent /\ s.env = proc[p].env /\ s.stop = proc[p].stop
          /\ s.process_name = proc[p].process_name
          /\ s.handlers = proc[p].handlers /\ s.received = proc[p].received
        BY <1>1, <2>1 DEF RestartWatcher, Process
    <2>3. d \in Process /\ d.parent = p
        BY <1>1 DEF RestartChild, Process
    <2>4. /\ d.main = IF proc[p].main = "watch" THEN "watch" ELSE "none"
          /\ d.loop = IF proc[p].process_name = "WD" THEN "exec" ELSE "child"
          /\ d.env = proc[p].env /\ d.process_name = proc[p].process_name
          /\ d.handlers = proc[p].handlers /\ d.received = proc[p].received
          /\ d.state = "alive"
        BY <1>1 DEF RestartChild, Process
    <2> HIDE DEF s, d
    <2>5. Change(p, proc[p], s)
        BY <1>1, <2>2 DEF Change, Sound
    <2>6. Calm(proc[p], s)
        BY <1>1, <2>2 DEF Calm, Waiting, Told
    <2>7. Sound(NextPid, d)
        BY <1>1, <2>4 DEF Sound
    <2>8. Related(d, s)
        BY <1>1, <2>2, <2>4 DEF Sound, Related
    <2>9. ~Waiting(d)
        BY <2>4 DEF Waiting
    <2>10. Waiting(s) => "SIGUSR2" \in d.received /\ d.loop # "exec"
        BY <1>1, <2>2, <2>4 DEF Sound, Waiting, Told
    <2> QED BY <1>1, <1>2, <2>3, <2>5, <2>6, <2>7, <2>8, <2>9, <2>10, ForkKeeps
<1>3. CASE proc' = Returned(p)
    BY <1>1, <1>3, ReturnedKeeps
<1>4. \/ FreePid # {} /\ proc' = [proc EXCEPT ![p] = s, ![NextPid] = d]
      \/ proc' = Returned(p)
    BY DEF RestartProc, Fork
<1> QED BY <1>2, <1>3, <1>4

\* A program that begins forgets what it was told; its parent is not one that
\* waits for it.
LEMMA ExecProcKeeps ==
    ASSUME Base(proc), Told(proc), NEW p, ExecProc(p)
    PROVE  Base(proc') /\ Told(proc')
<1> DEFINE s == Program(proc[p].parent, proc[p].env)
<1>1. Alive(p) /\ p \in Pid /\ proc[p] \in Process /\ Sound(p, proc[p])
          /\ proc[p].loop = "exec"
    BY DEF ExecProc, Alive, Base
<1>2. CASE proc' = [proc EXCEPT ![p] = s]
    <2>1. /\ s \in Process
          /\ s.state = "alive" /\ s.parent = proc[p].parent /\ s.env = proc[p].env
          /\ s.main = "start" /\ s.loop = "none" /\ s.handlers = {}
          /\ s.process_name = "none"
        BY <1>1 DEF Program, Unborn, Process
    <2> HIDE DEF s
    <2>2. proc[p].env = {"wd"}
        <3>1. proc[p].env \subseteq {"wd", "app"}
            BY <1>1 DEF Process
        <3> QED BY <1>1, <3>1 DEF Sound
    <2>3. Change(p, proc[p], s)
        BY <1>1, <2>1, <2>2 DEF Change, Sound
    <2>4. Calm(proc[p], s)
        BY <1>1, <2>1 DEF Calm, Waiting
    <2> QED BY <1>1, <1>2, <2>3, <2>4, OneChanges
<1>3. CASE proc' = Returned(p)
    BY <1>1, <1>3, ReturnedKeeps
<1> QED BY <1>2, <1>3 DEF ExecProc

\* A loop that was told to stop returns, or aborts in the program.
LEMMA StopKeeps ==
    ASSUME Base(proc), Told(proc), NEW p, Stop(p)
    PROVE  Base(proc') /\ Told(proc')
<1>1. CASE proc' = Bury(proc, {p}, "aborted")
    BY <1>1, BuryIsAfter, AfterKeepsBase, AfterKeepsTold
<1>2. CASE proc' = Returned(p)
    BY <1>2, ReturnedKeeps DEF Stop
<1> QED BY <1>1, <1>2 DEF Stop

\* A process ends.
LEMMA EndKeeps ==
    ASSUME Base(proc), Told(proc), NEW p, Exit(p) \/ Crash(p)
    PROVE  Base(proc') /\ Told(proc')
<1>1. proc' = Bury(proc, {p}, "dead")
    BY DEF Exit, Crash
<1> QED BY <1>1, BuryIsAfter, AfterKeepsBase, AfterKeepsTold

\* A heartbeat.
LEMMA SendSignalKeeps ==
    ASSUME Base(proc), Told(proc), NEW p, SendSignal(p)
    PROVE  Base(proc') /\ Told(proc')
<1>1. proc' = Kill(proc, {proc[p].pid_to_signal}, "SIGUSR1")
    BY DEF SendSignal
<1> QED BY <1>1, KillKeeps

\* The signals of StopWd: whoever survives the first was told, so that main
\* may wait.
LEMMA SendStopKeeps ==
    ASSUME Base(proc), Told(proc), NEW p, SendStop(p)
    PROVE  Base(proc') /\ Told(proc')
<1> DEFINE s(target) == IF proc[p].main = "stop peer"
                        THEN [proc[p] EXCEPT !.main = "stop self", !.stop = target]
                        ELSE [proc[p] EXCEPT !.main = "wait"]
           ps(target) == [proc EXCEPT ![p] = s(target)]
<1>1. Alive(p) /\ p \in Pid /\ proc[p] \in Process /\ Sound(p, proc[p])
          /\ proc[p].state = "alive" /\ proc[p].main \in {"stop peer", "stop self"}
          /\ proc \in [Pid -> Process]
    BY DEF SendStop, Alive, Base
<1>2. PICK target \in {"group", "nobody"} :
          proc' = Kill(ps(target), IF target = "group" THEN Pid ELSE {}, "SIGUSR2")
    <2>1. PICK target \in {"group", "nobody"} :
              proc' = Kill(IF proc[p].main = "stop peer"
                           THEN [proc EXCEPT ![p].main = "stop self", ![p].stop = target]
                           ELSE [proc EXCEPT ![p].main = "wait"],
                           IF target = "group" THEN Pid ELSE {}, "SIGUSR2")
        BY DEF SendStop
    <2>2. ps(target) = IF proc[p].main = "stop peer"
                       THEN [proc EXCEPT ![p].main = "stop self", ![p].stop = target]
                       ELSE [proc EXCEPT ![p].main = "wait"]
        BY <1>1
    <2> QED BY <2>1, <2>2
<1>3. target \in {"group", "nobody"}
    OBVIOUS
<1>4. /\ s(target) \in Process /\ s(target).state = "alive" /\ s(target).parent = proc[p].parent
      /\ s(target).main = IF proc[p].main = "stop peer" THEN "stop self" ELSE "wait"
      /\ s(target).stop = IF proc[p].main = "stop peer" THEN target ELSE proc[p].stop
      /\ s(target).loop = proc[p].loop /\ s(target).env = proc[p].env
      /\ s(target).process_name = proc[p].process_name
      /\ s(target).handlers = proc[p].handlers
      /\ s(target).received = proc[p].received
    BY <1>1, <1>3 DEF Process
<1> HIDE DEF s
<1>5. Change(p, proc[p], s(target))
    BY <1>1, <1>4 DEF Change, Sound
<1>6. Base(ps(target))
    BY <1>1, <1>5, ChangeKeepsBase
<1>7. CASE target = "nobody" \/ proc[p].main = "stop self"
    <2>1. Calm(proc[p], s(target))
        BY <1>1, <1>4, <1>7 DEF Calm, Waiting, Told
    <2>2. Told(ps(target))
        BY <1>1, <1>5, <2>1, ChangeKeepsTold
    <2> HIDE DEF ps
    <2> QED BY <1>2, <1>6, <2>2, KillKeeps
<1>8. CASE target = "group"
    <2> HIDE DEF ps
    <2>1. proc' = Kill(ps(target), Pid, "SIGUSR2")
        BY <1>2, <1>8
    <2>2. Base(proc')
        BY <1>6, <2>1, KillKeeps
    <2>3. ps(target) \in [Pid -> Process] /\ proc' \in [Pid -> Process]
        BY <1>6, <2>2 DEF Base
    <2>4. \A q \in Pid : proc'[q].state = "alive" =>
              "SIGUSR2" \in proc'[q].received /\ "SIGUSR2" \in proc'[q].handlers
        BY <2>1, <2>3, KillTells
    <2>5. ASSUME NEW q \in Pid, Waiting(proc'[q])
          PROVE  "SIGUSR2" \in proc'[q].received
        <3>1. Sound(q, proc'[q])
            BY <2>2 DEF Base
        <3> QED BY <2>4, <2>5, <3>1 DEF Sound, Waiting
    <2>6. ASSUME NEW q \in Pid, proc'[q].parent # SystemInit, proc'[q].state = "alive",
                 Waiting(proc'[proc'[q].parent])
          PROVE  "SIGUSR2" \in proc'[q].received /\ proc'[q].loop # "exec"
        <3>1. Related(proc'[q], proc'[proc'[q].parent])
            BY <2>2, <2>6 DEF Base
        <3> QED BY <2>4, <2>6, <3>1 DEF Related, Waiting
    <2>7. Told(proc')
        BY <2>5, <2>6 DEF Told
    <2> QED BY <2>2, <2>7
<1> QED BY <1>3, <1>7, <1>8

-----------------------------------------------------------------------------
(* The theorems *)

\* The counters and the history variable have their types.
Counted == crashes \in Nat /\ disturbances \in Nat /\ told \in BOOLEAN

\* What disturbs is not forgotten.
Remembered == disturbances' = disturbances \/ disturbances' = disturbances + 1

LEMMA CountedInductive ==
    ASSUME Counted, [Next]_vars
    PROVE  Counted' /\ Remembered
<1>1. CASE UNCHANGED vars
    BY <1>1 DEF vars, Counted, Remembered
<1>2. CASE Finished
    BY <1>2 DEF Finished, vars, Counted, Remembered
<1>3. ASSUME NEW p \in Pid, Crash(p)
      PROVE  Counted' /\ Remembered
    BY <1>3 DEF Crash, Counted, Remembered
<1>4. ASSUME NEW p \in Pid, SendStop(p)
      PROVE  Counted' /\ Remembered
    BY <1>4 DEF SendStop, Counted, Remembered
<1>5. ASSUME NEW p \in Pid,
             \/ FirstStart(p) \/ AppCreateThread(p) \/ RestartProc(p) \/ ExecProc(p)
             \/ SendSignal(p) \/ CheckSignal(p)
      PROVE  Counted' /\ Remembered
    <2>1. UNCHANGED <<crashes, told>>
        BY <1>5 DEF FirstStart, AppCreateThread, RestartProc, ExecProc, SendSignal, CheckSignal
    <2>2. UNCHANGED disturbances \/ Disturb
        <3>1. CASE FirstStart(p) \/ AppCreateThread(p) \/ RestartProc(p) \/ ExecProc(p)
            BY <3>1 DEF FirstStart, AppCreateThread, RestartProc, ExecProc, Fork, ForkFails
        <3>2. CASE SendSignal(p) \/ CheckSignal(p)
            BY <3>2 DEF SendSignal, CheckSignal, IsLate
        <3> QED BY <1>5, <3>1, <3>2
    <2>3. disturbances' \in Nat /\ Remembered
        BY <2>2 DEF Disturb, Counted, Remembered
    <2> QED BY <2>1, <2>3 DEF Counted
<1>6. ASSUME NEW p \in Pid,
             \/ InitSigAction(p) \/ NextStart(p) \/ Stop(p) \/ UnsetEnv(p) \/ RunWDProc(p)
             \/ InitSigActionStop(p) \/ WaitPid(p) \/ Exit(p)
      PROVE  Counted' /\ Remembered
    <2>1. UNCHANGED <<crashes, disturbances, told>>
        BY <1>6 DEF InitSigAction, NextStart, Stop, UnsetEnv,
                    RunWDProc, InitSigActionStop, WaitPid, Exit
    <2> QED BY <2>1 DEF Counted, Remembered
<1> QED BY <1>1, <1>2, <1>3, <1>4, <1>5, <1>6 DEF Next, Begin, AfterRun, End

LEMMA InitIInv == Init => IInv
<1> SUFFICES ASSUME Init
             PROVE  IInv
    OBVIOUS
<1>1. Unborn \in Process /\ Unborn.main = "none" /\ Unborn.loop = "none"
          /\ Unborn.parent = SystemInit
    BY DEF Unborn, Process
<1> DEFINE first == Program(SystemInit, {})
<1>2. /\ first \in Process /\ first.main = "start" /\ first.loop = "none"
      /\ first.parent = SystemInit /\ first.handlers = {} /\ first.state = "alive"
    BY DEF Unborn, Program, Process
<1> HIDE DEF first
<1>3. \A p \in Pid : proc[p] = IF p = 1 THEN first ELSE Unborn
    BY DEF Init, first
<1>4. proc \in [Pid -> Process]
    BY <1>1, <1>2 DEF Init, first
<1>5. \A p \in Pid : Sound(p, proc[p])
    BY <1>1, <1>2, <1>3 DEF Sound
<1>6. \A p \in Pid : proc[p].parent = SystemInit /\ ~Waiting(proc[p])
    BY <1>1, <1>2, <1>3 DEF Waiting
<1>7. Base(proc) /\ Told(proc)
    BY <1>4, <1>5, <1>6 DEF Base, Told
<1>8. Counted
    BY DEF Init, Counted
<1> QED BY <1>4, <1>7, <1>8 DEF IInv, TypeOK, Counted

LEMMA NextIInv == IInv /\ [Next]_vars => IInv'
<1> SUFFICES ASSUME IInv, [Next]_vars
             PROVE  IInv'
    OBVIOUS
<1>1. Base(proc) /\ Told(proc) /\ Counted
    BY DEF IInv, TypeOK, Counted
<1>2. Base(proc') /\ Told(proc')
    <2>1. CASE UNCHANGED vars
        BY <1>1, <2>1 DEF vars
    <2>2. CASE Finished
        BY <1>1, <2>2 DEF Finished, vars
    <2>3. ASSUME NEW p \in Pid, Begin(p)
          PROVE  Base(proc') /\ Told(proc')
        BY <1>1, <2>3, InitSigActionKeeps, FirstStartKeeps, NextStartKeeps,
           AppCreateThreadKeeps DEF Begin
    <2>4. ASSUME NEW p \in Pid, SendSignal(p)
          PROVE  Base(proc') /\ Told(proc')
        BY <1>1, <2>4, SendSignalKeeps
    <2>5. ASSUME NEW p \in Pid, CheckSignal(p)
          PROVE  Base(proc') /\ Told(proc')
        BY <1>1, <2>5, CheckSignalKeeps
    <2>6. ASSUME NEW p \in Pid, AfterRun(p)
          PROVE  Base(proc') /\ Told(proc')
        BY <1>1, <2>6, StopKeeps, UnsetEnvKeeps, RestartProcKeeps, ExecProcKeeps,
           RunWDProcKeeps DEF AfterRun
    <2>7. ASSUME NEW p \in Pid, InitSigActionStop(p)
          PROVE  Base(proc') /\ Told(proc')
        BY <1>1, <2>7, InitSigActionStopKeeps
    <2>8. ASSUME NEW p \in Pid, End(p)
          PROVE  Base(proc') /\ Told(proc')
        BY <1>1, <2>8, SendStopKeeps, WaitPidKeeps, EndKeeps DEF End
    <2>9. ASSUME NEW p \in Pid, Crash(p)
          PROVE  Base(proc') /\ Told(proc')
        BY <1>1, <2>9, EndKeeps
    <2> QED BY <2>1, <2>2, <2>3, <2>4, <2>5, <2>6, <2>7, <2>8, <2>9 DEF Next
<1>3. Counted'
    BY <1>1, CountedInductive
<1>4. proc' \in [Pid -> Process]
    BY <1>2 DEF Base
<1>5. TypeOK'
    BY <1>3, <1>4 DEF TypeOK, Counted
<1>6. Base(proc)' /\ Told(proc)'
    BY <1>2 DEF Base, Told
<1> QED BY <1>5, <1>6 DEF IInv

\* Every variable has its type; watchdogs, clones and programs carry the
\* environment they need; and no child of a process that waits in StopWd is
\* about to forget the signal.
THEOREM Invariance == Spec => []IInv
<1>1. Init => IInv
    BY InitIInv
<1>2. IInv /\ [Next]_vars => IInv'
    BY NextIInv
<1> QED BY <1>1, <1>2, PTL DEF Spec

\* UnsetEnv in the watchdog and the environment that execvp hands over: a
\* program that was started again does not fork a watchdog of its own.
THEOREM AlwaysReplacementIsWatched == Spec => []ReplacementIsWatched
<1>1. IInv => ReplacementIsWatched
    <2> SUFFICES ASSUME IInv, NEW p \in Pid \ {1}, Alive(p), proc[p].main = "entered"
                 PROVE  proc[p].env = {"wd"}
        BY DEF ReplacementIsWatched
    <2>1. Sound(p, proc[p])
        BY DEF IInv, Base
    <2> QED BY <2>1 DEF Sound
<1> QED BY <1>1, Invariance, PTL

\* StopWd's waitpid never waits for a process that does not know of the stop.
THEOREM AlwaysWaitsOnlyForTheTold == Spec => []WaitsOnlyForTheTold
<1>1. IInv => WaitsOnlyForTheTold
    <2> SUFFICES ASSUME IInv, NEW p \in Pid, NEW q \in Pid,
                        proc[p].main = "wait", proc[p].stop = "group",
                        Alive(q), proc[q].parent = p
                 PROVE  "SIGUSR2" \in proc[q].received
        BY DEF WaitsOnlyForTheTold
    <2>1. p # SystemInit
        BY DEF Pid, SystemInit
    <2>2. Waiting(proc[proc[q].parent]) /\ proc[q].state = "alive"
        BY DEF Waiting, Alive
    <2> QED BY <2>1, <2>2 DEF IInv, Told
<1> QED BY <1>1, Invariance, PTL

-----------------------------------------------------------------------------
(* As long as nobody was late and no call failed, at most two live, and      *)
(* each of the two is what the other one takes it for: one is the program or *)
(* becomes it, the other one watches it or is about to.  A process leaves a  *)
(* period unsignalled only when it is alone.                                 *)

\* A step by which no call fails and nobody is late.
Smooth == disturbances' = disturbances

WasTold(r) == "SIGUSR2" \in r.received

\* The main thread is in the user's program, behind StartWd.
InMain(r) == r.main \in {"run", "stop peer", "stop self", "wait", "done"}

\* What a process can be: who begins was not told to stop, nor was who restarts
\* the program; the loop next to the user's program is that of the program.
Role(r) ==
    /\ r.main \in {"start", "entered", "thread"} => r.loop = "none"
    /\ r.main \in {"start", "entered", "thread", "watch"} => ~WasTold(r)
    /\ r.main = "thread" => r.process_name = "APP"
    /\ r.main \in {"none", "watch"} => r.loop # "none"
    /\ r.loop \in {"child", "exec"} => ~InMain(r)
    /\ r.loop = "exec" => r.process_name = "WD" /\ ~WasTold(r)
    /\ r.loop \in {"run", "stopped", "restart"} =>
          \/ r.process_name = "APP" /\ InMain(r)
          \/ r.process_name = "WD" /\ ~InMain(r)
    /\ r.loop = "restart" /\ r.process_name = "WD" => ~WasTold(r)

\* The process with the record r is the program that q watches, or becomes it.
ProgramOf(r, q) ==
    \/ r.main \in {"start", "entered"} /\ r.env = {"wd"} /\ r.parent = q
    \/ r.loop = "exec" /\ r.parent = q
    \/ r.main = "thread" /\ r.pid_to_signal = q
    \/ InMain(r) /\ r.loop = "run" /\ r.pid_to_signal = q
    \/ InMain(r) /\ r.loop = "stopped" /\ WasTold(r)

\* The process with the record r watches the program p, or is about to.
WatchdogOf(r, p) ==
    \/ r.loop = "child" /\ r.parent = p
    \/ ~InMain(r) /\ r.loop = "run" /\ r.pid_to_signal = p
    \/ ~InMain(r) /\ r.loop = "stopped" /\ WasTold(r)

Couple(ps, p, q) == ProgramOf(ps[p], q) /\ WatchdogOf(ps[q], p)

Living(ps) == {p \in Pid : ps[p].state = "alive"}

\* Two that live are a couple, and either both were told to stop or none.
Twosome(ps) ==
    /\ \A p \in Living(ps) : Role(ps[p])
    /\ \A p, q \in Living(ps) : p # q =>
          /\ Couple(ps, p, q) \/ Couple(ps, q, p)
          /\ WasTold(ps[p]) <=> WasTold(ps[q])

AllTold(ps) == \A p \in Living(ps) : WasTold(ps[p])

\* From ps to ns they stay so, and when all were told no program begins.
Kept(ps, ns) ==
    /\ Twosome(ns)
    /\ AllTold(ps) =>
          /\ AllTold(ns)
          /\ \A p \in Living(ns) : ns[p].main = "start" => p \in Living(ps) /\ ps[p].main = "start"

\* Nobody is the program of one and the watchdog of another.
LEMMA SidesDiffer ==
    ASSUME NEW r, Role(r), NEW p, NEW q
    PROVE  ~(ProgramOf(r, p) /\ WatchdogOf(r, q))
BY DEF Role, ProgramOf, WatchdogOf

LEMMA AtMostTwo ==
    ASSUME NEW ps, Twosome(ps), NEW p \in Living(ps), NEW q \in Living(ps), p # q
    PROVE  \A r \in Living(ps) : r = p \/ r = q
<1> SUFFICES ASSUME NEW r \in Living(ps), r # p, r # q
             PROVE  FALSE
    OBVIOUS
<1>1. /\ Couple(ps, p, q) \/ Couple(ps, q, p)
      /\ Couple(ps, p, r) \/ Couple(ps, r, p)
      /\ Couple(ps, q, r) \/ Couple(ps, r, q)
      /\ Role(ps[p]) /\ Role(ps[q]) /\ Role(ps[r])
    BY DEF Twosome
<1>2. \A x, y : /\ ~(ProgramOf(ps[p], x) /\ WatchdogOf(ps[p], y))
                /\ ~(ProgramOf(ps[q], x) /\ WatchdogOf(ps[q], y))
                /\ ~(ProgramOf(ps[r], x) /\ WatchdogOf(ps[r], y))
    BY <1>1, SidesDiffer
<1> QED BY <1>1, <1>2 DEF Couple

\* One process changes and stays what it is to the other one.
LEMMA PairChanges ==
    ASSUME NEW ps \in [Pid -> Process], Twosome(ps), NEW p \in Living(ps),
           NEW s, s.state = "alive", Role(s), WasTold(s) <=> WasTold(ps[p]),
           s.main = "start" => ps[p].main = "start" \/ ~WasTold(ps[p]),
           \A q \in Living(ps) : q # p =>
               /\ Couple(ps, p, q) => ProgramOf(s, q)
               /\ Couple(ps, q, p) => WatchdogOf(s, q)
    PROVE  Kept(ps, [ps EXCEPT ![p] = s])
<1> DEFINE ns == [ps EXCEPT ![p] = s]
<1>1. \A q \in Pid : ns[q] = IF q = p THEN s ELSE ps[q]
    OBVIOUS
<1>2. p \in Pid /\ Living(ps) \subseteq Pid
    BY DEF Living
<1> HIDE DEF ns
<1>3. Living(ns) = Living(ps)
    BY <1>1, <1>2 DEF Living
<1>4. \A q \in Living(ns) : Role(ns[q])
    BY <1>1, <1>2, <1>3 DEF Twosome
<1>5. ASSUME NEW q \in Living(ns), q # p
      PROVE  /\ Couple(ns, p, q) \/ Couple(ns, q, p)
             /\ WasTold(ns[p]) <=> WasTold(ns[q])
    <2>1. Couple(ps, p, q) \/ Couple(ps, q, p)
        BY <1>3, <1>5 DEF Twosome
    <2>2. WasTold(ps[p]) <=> WasTold(ps[q])
        BY <1>3, <1>5 DEF Twosome
    <2>3. ns[p] = s /\ ns[q] = ps[q]
        BY <1>1, <1>2, <1>3, <1>5
    <2> QED BY <1>3, <1>5, <2>1, <2>2, <2>3 DEF Couple
<1>6. ASSUME NEW q \in Living(ns), NEW r \in Living(ns), q # r, q # p, r # p
      PROVE  FALSE
    BY <1>3, <1>6, AtMostTwo
<1>7. Twosome(ns)
    BY <1>3, <1>4, <1>5, <1>6 DEF Twosome
<1>8. ASSUME AllTold(ps)
      PROVE  /\ AllTold(ns)
             /\ \A q \in Living(ns) :
                    ns[q].main = "start" => q \in Living(ps) /\ ps[q].main = "start"
    BY <1>1, <1>2, <1>3, <1>8 DEF AllTold
<1>9. Kept(ps, ns)
    BY <1>7, <1>8 DEF Kept
<1> QED BY <1>9 DEF ns

\* A process that is alone forks: it and its child are a couple.
LEMMA PairForks ==
    ASSUME NEW ps \in [Pid -> Process], Twosome(ps), NEW p \in Living(ps), Living(ps) = {p},
           NEW n \in Pid, ps[n].state = "unborn",
           NEW s, s.state = "alive", Role(s), WasTold(s) <=> WasTold(ps[p]), s.main # "start",
           NEW c, c.state = "alive", Role(c), WasTold(c) <=> WasTold(ps[p]), c.main # "start",
           (ProgramOf(s, n) /\ WatchdogOf(c, p)) \/ (ProgramOf(c, p) /\ WatchdogOf(s, n))
    PROVE  Kept(ps, [ps EXCEPT ![p] = s, ![n] = c])
<1> DEFINE ns == [ps EXCEPT ![p] = s, ![n] = c]
<1>1. p \in Pid /\ p # n
    BY DEF Living
<1>2. \A q \in Pid : ns[q] = IF q = n THEN c ELSE IF q = p THEN s ELSE ps[q]
    BY <1>1
<1> HIDE DEF ns
<1>3. Living(ns) = {p, n}
    BY <1>1, <1>2 DEF Living
<1>4. ns[p] = s /\ ns[n] = c
    BY <1>1, <1>2
<1>5. Twosome(ns)
    BY <1>1, <1>3, <1>4 DEF Twosome, Couple
<1>6. AllTold(ps) => AllTold(ns)
    BY <1>3, <1>4 DEF AllTold
<1>7. Kept(ps, ns)
    BY <1>3, <1>4, <1>5, <1>6 DEF Kept
<1> QED BY <1>7 DEF ns

\* The record s is that of r after a signal or the death of others.
Same(r, s) ==
    /\ s.main = r.main /\ s.loop = r.loop /\ s.env = r.env
    /\ s.process_name = r.process_name /\ s.pid_to_signal = r.pid_to_signal
    /\ WasTold(r) => WasTold(s)

\* Some processes have ended; when two go on, they know each other.
LEMMA PairGoesOn ==
    ASSUME NEW ps, Twosome(ps), NEW ns, Living(ns) \subseteq Living(ps),
           \A p \in Living(ns) : Same(ps[p], ns[p]) /\ Role(ns[p]),
           \A p, q \in Living(ns) : p # q =>
               /\ ns[p].parent = ps[p].parent
               /\ WasTold(ns[p]) <=> WasTold(ns[q])
    PROVE  Kept(ps, ns)
<1>1. ASSUME NEW p \in Living(ns), NEW q \in Living(ns), p # q, Couple(ps, p, q)
      PROVE  Couple(ns, p, q)
    <2>1. Same(ps[p], ns[p]) /\ ns[p].parent = ps[p].parent
        BY <1>1
    <2>2. Same(ps[q], ns[q]) /\ ns[q].parent = ps[q].parent
        BY <1>1
    <2>3. (InMain(ns[p]) <=> InMain(ps[p])) /\ (InMain(ns[q]) <=> InMain(ps[q]))
        BY <2>1, <2>2, Zenon DEF Same, InMain
    <2>4. ProgramOf(ns[p], q)
        BY <1>1, <2>1, <2>3 DEF Couple, ProgramOf, Same
    <2>5. WatchdogOf(ns[q], p)
        BY <1>1, <2>2, <2>3 DEF Couple, WatchdogOf, Same
    <2> QED BY <2>4, <2>5 DEF Couple
<1>2. Twosome(ns)
    <2>1. ASSUME NEW p \in Living(ns), NEW q \in Living(ns), p # q
          PROVE  Couple(ns, p, q) \/ Couple(ns, q, p)
        <3>1. Couple(ps, p, q) \/ Couple(ps, q, p)
            BY <2>1 DEF Twosome
        <3> QED BY <1>1, <2>1, <3>1
    <2> QED BY <2>1 DEF Twosome
<1>3. AllTold(ps) => AllTold(ns)
    BY DEF AllTold, Same
<1> QED BY <1>2, <1>3 DEF Kept, Same

\* A role does not depend on the parent.
LEMMA RoleKept ==
    ASSUME NEW r, Role(r), NEW s, Same(r, s), WasTold(s) <=> WasTold(r)
    PROVE  Role(s)
<1>1. InMain(s) <=> InMain(r)
    BY Zenon DEF Same, InMain
<1> QED BY <1>1 DEF Role, Same

\* What Bury does to those that go on.
LEMMA BuryLeaves ==
    ASSUME NEW ps \in [Pid -> Process], NEW D, NEW how \in {"dead", "aborted"},
           NEW p \in Living(Bury(ps, D, how))
    PROVE  /\ p \in Living(ps) \ D
           /\ Same(ps[p], Bury(ps, D, how)[p])
           /\ Bury(ps, D, how)[p].received = ps[p].received
           /\ ps[p].parent \notin D => Bury(ps, D, how)[p].parent = ps[p].parent
<1> DEFINE ns == Bury(ps, D, how)
           parent == IF ps[p].parent \in D THEN SystemInit ELSE ps[p].parent
<1>1. p \in Pid /\ ns[p].state = "alive" /\ ps[p] \in Process
    BY DEF Living
<1>2. ns[p] = IF p \in D THEN [Unborn EXCEPT !.state = how, !.parent = parent]
                        ELSE [ps[p] EXCEPT !.parent = parent]
    BY <1>1 DEF Bury
<1> HIDE DEF ns, parent
<1>3. p \notin D
    BY <1>1, <1>2 DEF Unborn
<1>4. ns[p] = [ps[p] EXCEPT !.parent = parent]
    BY <1>2, <1>3
<1>5. /\ ns[p].state = ps[p].state /\ ns[p].parent = parent
      /\ ns[p].received = ps[p].received
      /\ Same(ps[p], ns[p])
    BY <1>1, <1>4 DEF Process, Same, WasTold
<1>6. p \in Living(ps)
    BY <1>1, <1>5 DEF Living
<1> QED BY <1>3, <1>5, <1>6 DEF ns, parent

\* Processes end.
LEMMA PairBuried ==
    ASSUME NEW ps \in [Pid -> Process], Twosome(ps), NEW p \in Living(ps),
           NEW how \in {"dead", "aborted"}
    PROVE  Kept(ps, Bury(ps, {p}, how))
<1> DEFINE ns == Bury(ps, {p}, how)
<1>1. ASSUME NEW q \in Living(ns)
      PROVE  /\ q \in Living(ps) /\ q # p
             /\ Same(ps[q], ns[q]) /\ ns[q].received = ps[q].received
    BY BuryLeaves
<1> HIDE DEF ns
<1>2. ASSUME NEW q \in Living(ns)
      PROVE  Role(ns[q])
    <2>1. Role(ps[q]) /\ Same(ps[q], ns[q]) /\ (WasTold(ns[q]) <=> WasTold(ps[q]))
        BY <1>1 DEF Twosome, WasTold
    <2> QED BY <2>1, RoleKept
<1>3. ASSUME NEW q \in Living(ns), NEW r \in Living(ns), q # r
      PROVE  FALSE
    BY <1>1, <1>3, AtMostTwo
<1>4. Kept(ps, ns)
    <2>1. Living(ns) \subseteq Living(ps)
        BY <1>1
    <2>2. \A q \in Living(ns) : Same(ps[q], ns[q]) /\ Role(ns[q])
        BY <1>1, <1>2
    <2> QED BY <1>3, <2>1, <2>2, PairGoesOn
<1> QED BY <1>4 DEF ns

\* What a signal does to p, which survives it.
Survives(ps, ns, targets, signal, p) ==
    /\ p \in Living(ps)
    /\ Same(ps[p], ns[p])
    /\ ns[p].received = IF p \in targets THEN ps[p].received \cup {signal} ELSE ps[p].received
    /\ p \in targets => signal \in ps[p].handlers
    /\ ps[p].parent \notin Living(ps) \ Living(ns) => ns[p].parent = ps[p].parent

LEMMA KillLeaves ==
    ASSUME NEW ps \in [Pid -> Process], NEW targets, NEW signal \in {"SIGUSR1", "SIGUSR2"},
           NEW ns, ns = Kill(ps, targets, signal), NEW p \in Living(ns)
    PROVE  Survives(ps, ns, targets, signal, p)
<1> DEFINE living == {q \in targets \cap Pid : ps[q].state = "alive"}
           caught == {q \in living : signal \in ps[q].handlers}
           mid == [q \in Pid |-> IF q \in caught
                                 THEN [ps[q] EXCEPT !.received = @ \cup {signal}]
                                 ELSE ps[q]]
<1>1. ns = Bury(mid, living \ caught, "dead")
    BY DEF Kill
<1>2. caught \subseteq living /\ living \subseteq Living(ps) /\ Living(ps) \subseteq Pid
    BY DEF Living
<1>3. \A q \in Living(ps) : q \in targets => q \in living
    BY DEF Living
<1>4. \A q \in living : q \in caught <=> signal \in ps[q].handlers
    OBVIOUS
<1>5. caught \subseteq targets
    OBVIOUS
<1> HIDE DEF living, caught
<1>6. ASSUME NEW q \in Pid
      PROVE  /\ mid[q] \in Process
             /\ mid[q].state = ps[q].state /\ mid[q].parent = ps[q].parent
             /\ mid[q].received = IF q \in caught THEN ps[q].received \cup {signal}
                                                  ELSE ps[q].received
             /\ Same(ps[q], mid[q])
    <2>1. ps[q] \in Process
        OBVIOUS
    <2>2. CASE q \in caught
        <3>1. mid[q] = [ps[q] EXCEPT !.received = @ \cup {signal}]
            BY <2>2
        <3> HIDE DEF mid
        <3>2. ps[q].received \cup {signal} \in SUBSET {"SIGUSR1", "SIGUSR2"}
            BY <2>1 DEF Process
        <3>3. mid[q] \in Process
            BY <2>1, <3>1, <3>2 DEF Process
        <3>4. /\ mid[q].state = ps[q].state /\ mid[q].parent = ps[q].parent
              /\ mid[q].received = ps[q].received \cup {signal}
              /\ mid[q].main = ps[q].main /\ mid[q].loop = ps[q].loop
              /\ mid[q].env = ps[q].env /\ mid[q].process_name = ps[q].process_name
              /\ mid[q].pid_to_signal = ps[q].pid_to_signal
            BY <2>1, <3>1 DEF Process
        <3>5. Same(ps[q], mid[q])
            BY <3>4 DEF Same, WasTold
        <3> QED BY <2>2, <3>3, <3>4, <3>5
    <2>3. CASE q \notin caught
        <3>1. mid[q] = ps[q]
            BY <2>3
        <3> QED BY <2>1, <2>3, <3>1 DEF Same
    <2> QED BY <2>2, <2>3
<1>7. mid \in [Pid -> Process]
    BY <1>6
<1> HIDE DEF mid
<1>8. Living(mid) = Living(ps)
    BY <1>6 DEF Living
<1>9. \A q \in Living(ns) :
          /\ q \in Living(mid) \ (living \ caught)
          /\ Same(mid[q], ns[q])
          /\ ns[q].received = mid[q].received
          /\ mid[q].parent \notin living \ caught => ns[q].parent = mid[q].parent
    BY <1>1, <1>7, BuryLeaves
<1>11. p \in Living(ps) /\ p \in Pid /\ p \notin living \ caught
    BY <1>2, <1>8, <1>9
<1>12. Same(ps[p], ns[p])
    BY <1>6, <1>9, <1>11 DEF Same
<1>13. p \in targets <=> p \in caught
    BY <1>3, <1>5, <1>11
<1>14. ns[p].received = IF p \in targets THEN ps[p].received \cup {signal} ELSE ps[p].received
    BY <1>6, <1>9, <1>11, <1>13
<1>15. p \in targets => signal \in ps[p].handlers
    BY <1>2, <1>4, <1>13
<1>16. living \ caught \subseteq Living(ps) \ Living(ns)
    BY <1>2, <1>9
<1>17. ps[p].parent \notin Living(ps) \ Living(ns) => ns[p].parent = ps[p].parent
    BY <1>6, <1>9, <1>11, <1>16
<1> QED BY <1>11, <1>12, <1>14, <1>15, <1>17 DEF Survives

\* When two survive a signal, nobody has died and they keep their parents.
LEMMA KillKeepsParents ==
    ASSUME NEW ps \in [Pid -> Process], Twosome(ps), NEW targets,
           NEW signal \in {"SIGUSR1", "SIGUSR2"},
           NEW ns, ns = Kill(ps, targets, signal),
           NEW p \in Living(ns), NEW q \in Living(ns), p # q
    PROVE  ns[p].parent = ps[p].parent
<1>1. Survives(ps, ns, targets, signal, p) /\ Survives(ps, ns, targets, signal, q)
    BY KillLeaves
<1>2. p \in Living(ps) /\ q \in Living(ps)
    BY <1>1 DEF Survives
<1>3. ps[p].parent \notin Living(ps) \ Living(ns) => ns[p].parent = ps[p].parent
    BY <1>1 DEF Survives
<1>4. \A r \in Living(ps) : r = p \/ r = q
    BY <1>2, AtMostTwo
<1> QED BY <1>3, <1>4

\* A heartbeat does not tell anybody to stop.
LEMMA PairSignalled ==
    ASSUME NEW ps \in [Pid -> Process], Twosome(ps), NEW targets, NEW signal,
           \/ signal = "SIGUSR1"
           \/ signal = "SIGUSR2" /\ targets = {}
    PROVE  Kept(ps, Kill(ps, targets, signal))
<1>0. PICK ns : ns = Kill(ps, targets, signal)
    OBVIOUS
<1>1. signal \in {"SIGUSR1", "SIGUSR2"}
    OBVIOUS
<1>2. ASSUME NEW p \in Living(ns)
      PROVE  /\ p \in Living(ps) /\ Same(ps[p], ns[p])
             /\ WasTold(ns[p]) <=> WasTold(ps[p])
    <2>1. Survives(ps, ns, targets, signal, p)
        BY <1>0, <1>1, KillLeaves
    <2> QED BY <2>1 DEF Survives, WasTold
<1>3. \A p, q \in Living(ns) : p # q => ns[p].parent = ps[p].parent
    BY <1>0, <1>1, KillKeepsParents
<1>4. \A p \in Living(ns) : Role(ns[p])
    <2>1. \A p \in Living(ns) : Role(ps[p])
        BY <1>2 DEF Twosome
    <2> QED BY <1>2, <2>1, RoleKept
<1>5. \A p, q \in Living(ns) : p # q => (WasTold(ns[p]) <=> WasTold(ns[q]))
    BY <1>2 DEF Twosome
<1>6. Living(ns) \subseteq Living(ps) /\ \A p \in Living(ns) : Same(ps[p], ns[p])
    BY <1>2
<1>7. Kept(ps, ns)
    BY <1>3, <1>4, <1>5, <1>6, PairGoesOn
<1> QED BY <1>0, <1>7

\* The signal to stop tells everybody that has a handler for it, and nobody
\* else lives on.
LEMMA PairTold ==
    ASSUME NEW ps, Base(ps), Twosome(ps), NEW p \in Living(ps), InMain(ps[p])
    PROVE  /\ Kept(ps, Kill(ps, Pid, "SIGUSR2"))
           /\ AllTold(Kill(ps, Pid, "SIGUSR2"))
<1>0. PICK ns : ns = Kill(ps, Pid, "SIGUSR2")
    OBVIOUS
<1>1. ps \in [Pid -> Process]
    BY DEF Base
<1>2. ASSUME NEW q \in Living(ns)
      PROVE  /\ q \in Living(ps) /\ Same(ps[q], ns[q])
             /\ WasTold(ns[q]) /\ "SIGUSR2" \in ps[q].handlers
    <2>1. Survives(ps, ns, Pid, "SIGUSR2", q)
        BY <1>0, <1>1, KillLeaves
    <2>2. q \in Pid
        BY <2>1 DEF Survives, Living
    <2> QED BY <2>1, <2>2 DEF Survives, WasTold
<1>3. \A q, r \in Living(ns) : q # r => ns[q].parent = ps[q].parent
    BY <1>0, <1>1, KillKeepsParents
<1>4. ASSUME NEW q \in Living(ps), "SIGUSR2" \in ps[q].handlers
      PROVE  /\ ps[q].main \notin {"start", "entered", "thread", "watch"}
             /\ ps[q].loop # "exec"
             /\ ~(ps[q].loop = "restart" /\ ps[q].process_name = "WD")
    <2>1. Sound(q, ps[q]) /\ Role(ps[q]) /\ Role(ps[p])
        BY DEF Base, Twosome, Living
    <2>2. ps[q].main \notin {"start", "entered", "thread", "watch"}
        BY <1>4, <2>1 DEF Sound
    <2>3. CASE q = p
        BY <2>1, <2>2, <2>3 DEF Role
    <2>4. CASE q # p
        <3>1. Couple(ps, p, q) \/ Couple(ps, q, p)
            BY <2>4 DEF Twosome
        <3>2. ~WatchdogOf(ps[p], q)
            BY <2>1 DEF WatchdogOf, Role
        <3>3. WatchdogOf(ps[q], p)
            BY <3>1, <3>2 DEF Couple
        <3>4. ps[q].loop \in {"child", "run", "stopped"}
            BY <3>3 DEF WatchdogOf
        <3> QED BY <2>2, <3>4
    <2> QED BY <2>3, <2>4
<1>5. ASSUME NEW q \in Living(ns)
      PROVE  Role(ns[q])
    <2>1. Same(ps[q], ns[q]) /\ q \in Living(ps) /\ "SIGUSR2" \in ps[q].handlers
        BY <1>2
    <2>2. Role(ps[q])
        BY <2>1 DEF Twosome
    <2>3. InMain(ns[q]) <=> InMain(ps[q])
        BY <2>1, Zenon DEF Same, InMain
    <2> QED BY <1>4, <2>1, <2>2, <2>3 DEF Role, Same
<1>6. Living(ns) \subseteq Living(ps) /\ \A q \in Living(ns) : Same(ps[q], ns[q])
    BY <1>2
<1>7. \A q, r \in Living(ns) : q # r => (WasTold(ns[q]) <=> WasTold(ns[r]))
    BY <1>2
<1>8. Kept(ps, ns)
    BY <1>3, <1>5, <1>6, <1>7, PairGoesOn
<1>9. AllTold(ns)
    BY <1>2 DEF AllTold
<1> QED BY <1>0, <1>8, <1>9

\* Main goes on in the user's program.
LEMMA PairInMain ==
    ASSUME Base(proc), Twosome(proc), NEW p, Alive(p), NEW s,
           InMain(proc[p]), InMain(s), s.state = "alive",
           s.parent = proc[p].parent, s.loop = proc[p].loop, s.env = proc[p].env,
           s.process_name = proc[p].process_name,
           s.pid_to_signal = proc[p].pid_to_signal, s.received = proc[p].received
    PROVE  Kept(proc, [proc EXCEPT ![p] = s])
<1>1. p \in Living(proc) /\ proc \in [Pid -> Process] /\ Role(proc[p])
    BY DEF Alive, Base, Living, Twosome
<1>2. \A r : InMain(r) => r.main \notin {"none", "start", "entered", "thread", "watch"}
    BY Zenon DEF InMain
<1>3. Role(s)
    <2>1. s.main \notin {"none", "start", "entered", "thread", "watch"}
        BY <1>2
    <2> QED BY <1>1, <2>1 DEF Role, WasTold
<1>4. WasTold(s) <=> WasTold(proc[p])
    BY DEF WasTold
<1>5. ASSUME NEW q \in Living(proc), q # p
      PROVE  /\ Couple(proc, p, q) => ProgramOf(s, q)
             /\ Couple(proc, q, p) => WatchdogOf(s, q)
    <2>1. proc[p].main \notin {"none", "start", "entered", "thread", "watch"}
        BY <1>2
    <2> QED BY <1>4, <2>1 DEF Couple, ProgramOf, WatchdogOf
<1>6. s.main # "start"
    BY <1>2
<1> QED BY <1>1, <1>3, <1>4, <1>5, <1>6, PairChanges

LEMMA InitSigActionStopPair ==
    ASSUME Base(proc), Twosome(proc), NEW p, InitSigActionStop(p)
    PROVE  Kept(proc, proc')
<1> DEFINE s == [proc[p] EXCEPT !.handlers = @ \cup {"SIGUSR2"}, !.main = "stop peer"]
<1>1. Alive(p) /\ proc[p] \in Process /\ proc[p].state = "alive" /\ proc[p].main = "run"
    BY DEF InitSigActionStop, Alive, Base
<1>2. proc' = [proc EXCEPT ![p] = s]
    BY DEF InitSigActionStop
<1>3. /\ s.state = "alive" /\ s.parent = proc[p].parent /\ s.main = "stop peer"
      /\ s.loop = proc[p].loop /\ s.env = proc[p].env
      /\ s.process_name = proc[p].process_name
      /\ s.pid_to_signal = proc[p].pid_to_signal /\ s.received = proc[p].received
    BY <1>1 DEF Process
<1> HIDE DEF s
<1>4. InMain(proc[p]) /\ InMain(s)
    BY <1>1, <1>3, Zenon DEF InMain
<1> QED BY <1>1, <1>2, <1>3, <1>4, PairInMain

LEMMA WaitPidPair ==
    ASSUME Base(proc), Twosome(proc), NEW p, WaitPid(p)
    PROVE  Kept(proc, proc')
<1> DEFINE s == [proc[p] EXCEPT !.main = "done"]
<1>1. Alive(p) /\ proc[p] \in Process /\ proc[p].state = "alive" /\ proc[p].main = "wait"
    BY DEF WaitPid, Alive, Base
<1>2. proc' = [proc EXCEPT ![p] = s]
    BY DEF WaitPid
<1>3. /\ s.state = "alive" /\ s.parent = proc[p].parent /\ s.main = "done"
      /\ s.loop = proc[p].loop /\ s.env = proc[p].env
      /\ s.process_name = proc[p].process_name
      /\ s.pid_to_signal = proc[p].pid_to_signal /\ s.received = proc[p].received
    BY <1>1 DEF Process
<1> HIDE DEF s
<1>4. InMain(proc[p]) /\ InMain(s)
    BY <1>1, <1>3, Zenon DEF InMain
<1> QED BY <1>1, <1>2, <1>3, <1>4, PairInMain

LEMMA InitSigActionPair ==
    ASSUME Base(proc), Twosome(proc), NEW p, InitSigAction(p)
    PROVE  Kept(proc, proc')
<1> DEFINE s == [proc[p] EXCEPT !.handlers = @ \cup {"SIGUSR1"}, !.main = "entered"]
<1>1. /\ p \in Living(proc) /\ proc \in [Pid -> Process]
      /\ proc[p] \in Process /\ Role(proc[p])
      /\ proc[p].state = "alive" /\ proc[p].main = "start"
    BY DEF InitSigAction, Alive, Base, Living, Twosome
<1>2. proc' = [proc EXCEPT ![p] = s]
    BY DEF InitSigAction
<1>3. /\ s.state = "alive" /\ s.parent = proc[p].parent /\ s.main = "entered"
      /\ s.loop = proc[p].loop /\ s.env = proc[p].env
      /\ s.process_name = proc[p].process_name /\ s.received = proc[p].received
    BY <1>1 DEF Process
<1> HIDE DEF s
<1>4. ~InMain(s) /\ ~InMain(proc[p])
    BY <1>1, <1>3, Zenon DEF InMain
<1>5. Role(s) /\ (WasTold(s) <=> WasTold(proc[p]))
    BY <1>1, <1>3, <1>4 DEF Role, WasTold
<1>6. ASSUME NEW q \in Living(proc), q # p
      PROVE  /\ Couple(proc, p, q) => ProgramOf(s, q)
             /\ Couple(proc, q, p) => WatchdogOf(s, q)
    BY <1>1, <1>3, <1>4 DEF Couple, ProgramOf, WatchdogOf, Role
<1> QED BY <1>1, <1>2, <1>3, <1>5, <1>6, PairChanges

\* A program that was started again watches its parent; with another
\* environment it would be alone.
LEMMA NextStartPair ==
    ASSUME Base(proc), Twosome(proc), NEW p, NextStart(p)
    PROVE  Kept(proc, proc')
<1> DEFINE s == IF "app" \in proc[p].env
               THEN [proc[p] EXCEPT !.main = "run"]
               ELSE [proc[p] EXCEPT !.env = {"wd", "app"}, !.process_name = "APP",
                                    !.pid_to_signal = proc[p].parent, !.main = "thread"]
<1>1. /\ p \in Living(proc) /\ proc \in [Pid -> Process]
      /\ proc[p] \in Process /\ Role(proc[p])
      /\ proc[p].state = "alive" /\ proc[p].main = "entered" /\ proc[p].loop = "none"
    BY DEF NextStart, Alive, Base, Living, Twosome, Role
<1>2. proc' = [proc EXCEPT ![p] = s]
    BY DEF NextStart
<1>3. /\ s.state = "alive" /\ s.parent = proc[p].parent
      /\ s.main = IF "app" \in proc[p].env THEN "run" ELSE "thread"
      /\ "app" \notin proc[p].env => s.process_name = "APP" /\ s.pid_to_signal = proc[p].parent
      /\ s.loop = "none" /\ s.received = proc[p].received
    BY <1>1 DEF Process
<1> HIDE DEF s
<1>4. ~InMain(proc[p])
    BY <1>1, Zenon DEF InMain
<1>5. Role(s) /\ (WasTold(s) <=> WasTold(proc[p]))
    BY <1>1, <1>3 DEF Role, WasTold
<1>6. ASSUME NEW q \in Living(proc), q # p
      PROVE  /\ Couple(proc, p, q) => ProgramOf(s, q)
             /\ Couple(proc, q, p) => WatchdogOf(s, q)
    BY <1>1, <1>3, <1>4 DEF Couple, ProgramOf, WatchdogOf
<1> QED BY <1>1, <1>2, <1>3, <1>5, <1>6, PairChanges

\* No call fails, so that the thread is created.
LEMMA AppCreateThreadPair ==
    ASSUME Smooth, Counted, Base(proc), Twosome(proc), NEW p, AppCreateThread(p)
    PROVE  Kept(proc, proc')
<1> DEFINE s == [proc[p] EXCEPT !.main = "run", !.loop = "run"]
<1>1. /\ p \in Living(proc) /\ proc \in [Pid -> Process]
      /\ proc[p] \in Process /\ Role(proc[p])
      /\ proc[p].state = "alive" /\ proc[p].main = "thread"
    BY DEF AppCreateThread, Alive, Base, Living, Twosome
<1>2. ~Disturb
    BY DEF Disturb, Smooth, Counted
<1>3. proc' = [proc EXCEPT ![p] = s]
    BY <1>2 DEF AppCreateThread
<1>4. /\ s.state = "alive" /\ s.parent = proc[p].parent
      /\ s.main = "run" /\ s.loop = "run"
      /\ s.process_name = proc[p].process_name
      /\ s.pid_to_signal = proc[p].pid_to_signal /\ s.received = proc[p].received
    BY <1>1 DEF Process
<1> HIDE DEF s
<1>5. InMain(s) /\ ~InMain(proc[p])
    BY <1>1, <1>4, Zenon DEF InMain
<1>6. Role(s) /\ (WasTold(s) <=> WasTold(proc[p]))
    BY <1>1, <1>4, <1>5 DEF Role, WasTold
<1>7. ASSUME NEW q \in Living(proc), q # p
      PROVE  /\ Couple(proc, p, q) => ProgramOf(s, q)
             /\ Couple(proc, q, p) => WatchdogOf(s, q)
    BY <1>1, <1>4, <1>5 DEF Couple, ProgramOf, WatchdogOf, Role
<1> QED BY <1>1, <1>3, <1>4, <1>6, <1>7, PairChanges

\* The clone of the program becomes its watchdog.
LEMMA RunWDProcPair ==
    ASSUME Base(proc), Twosome(proc), NEW p, RunWDProc(p)
    PROVE  Kept(proc, proc')
<1> DEFINE s == [proc[p] EXCEPT !.process_name = "WD", !.loop = "run",
                               !.pid_to_signal = proc[p].parent]
<1>1. /\ p \in Living(proc) /\ proc \in [Pid -> Process]
      /\ proc[p] \in Process /\ Role(proc[p])
      /\ proc[p].state = "alive" /\ proc[p].loop = "child"
    BY DEF RunWDProc, Alive, Base, Living, Twosome
<1>2. proc' = [proc EXCEPT ![p] = s]
    BY DEF RunWDProc
<1>3. /\ s.state = "alive" /\ s.main = proc[p].main /\ s.loop = "run"
      /\ s.process_name = "WD" /\ s.pid_to_signal = proc[p].parent
      /\ s.received = proc[p].received
    BY <1>1 DEF Process
<1> HIDE DEF s
<1>4. ~InMain(s) /\ ~InMain(proc[p])
    <2>1. ~InMain(proc[p])
        BY <1>1 DEF Role
    <2> QED BY <1>3, <2>1, Zenon DEF InMain
<1>5. Role(s) /\ (WasTold(s) <=> WasTold(proc[p]))
    BY <1>1, <1>3, <1>4 DEF Role, WasTold
<1>6. ASSUME NEW q \in Living(proc), q # p
      PROVE  /\ Couple(proc, p, q) => ProgramOf(s, q)
             /\ Couple(proc, q, p) => WatchdogOf(s, q)
    BY <1>1, <1>3, <1>4 DEF Couple, ProgramOf, WatchdogOf, Role
<1> QED BY <1>1, <1>2, <1>3, <1>5, <1>6, PairChanges

\* In a loop that goes on the other one is the one that is signalled, and has
\* a signal to come or was told to stop as well.
LEMMA OtherSignals ==
    ASSUME Twosome(proc), NEW p \in Living(proc), proc[p].loop = "run", ~WasTold(proc[p]),
           NEW q \in Living(proc), q # p
    PROVE  proc[p].pid_to_signal = q /\ WillSignal(q, p)
<1>1. /\ Couple(proc, p, q) \/ Couple(proc, q, p)
      /\ ~WasTold(proc[q])
      /\ Role(proc[p]) /\ Alive(q)
    BY DEF Twosome, Living, Alive
<1>2. CASE Couple(proc, p, q)
    <2>1. proc[p].pid_to_signal = q
        BY <1>1, <1>2 DEF Couple, ProgramOf, Role
    <2>2. WillSignal(q, p)
        BY <1>1, <1>2 DEF Couple, WatchdogOf, WillSignal
    <2> QED BY <2>1, <2>2
<1>3. CASE Couple(proc, q, p)
    <2>1. proc[p].pid_to_signal = q
        BY <1>1, <1>3 DEF Couple, WatchdogOf
    <2>2. WillSignal(q, p)
        BY <1>1, <1>3 DEF Couple, ProgramOf, WillSignal
    <2> QED BY <2>1, <2>2
<1> QED BY <1>1, <1>2, <1>3

\* A period without a signal ends only in a process that is alone.
LEMMA CheckSignalPair ==
    ASSUME Smooth, Counted, Base(proc), Twosome(proc), NEW p, CheckSignal(p)
    PROVE  Kept(proc, proc')
<1> DEFINE s == IF "SIGUSR2" \notin proc[p].received /\ "SIGUSR1" \in proc[p].received
               THEN [proc[p] EXCEPT !.received = {}]
               ELSE [proc[p] EXCEPT !.loop = "stopped"]
<1>1. /\ p \in Living(proc) /\ proc \in [Pid -> Process]
      /\ proc[p] \in Process /\ Role(proc[p])
      /\ proc[p].state = "alive" /\ proc[p].loop = "run"
    BY DEF CheckSignal, Alive, Base, Living, Twosome
<1>2. proc' = [proc EXCEPT ![p] = s]
    BY DEF CheckSignal
<1>3. proc[p].received # {} \/ ~WillSignal(proc[p].pid_to_signal, p)
    BY DEF CheckSignal, IsLate, Disturb, Smooth, Counted
<1>4. /\ s.state = "alive" /\ s.parent = proc[p].parent /\ s.main = proc[p].main
      /\ s.process_name = proc[p].process_name
      /\ s.pid_to_signal = proc[p].pid_to_signal
      /\ s.loop = IF "SIGUSR2" \notin proc[p].received /\ "SIGUSR1" \in proc[p].received
                  THEN "run" ELSE "stopped"
      /\ s.received = IF "SIGUSR2" \notin proc[p].received /\ "SIGUSR1" \in proc[p].received
                      THEN {} ELSE proc[p].received
    BY <1>1 DEF Process
<1> HIDE DEF s
<1>5. InMain(s) <=> InMain(proc[p])
    BY <1>4, Zenon DEF InMain
<1>6. WasTold(s) <=> WasTold(proc[p])
    BY <1>4 DEF WasTold
<1>7. Role(s)
    BY <1>1, <1>4, <1>5, <1>6 DEF Role
<1>8. ASSUME NEW q \in Living(proc), q # p
      PROVE  s.loop = "run" \/ WasTold(s)
    <2>1. CASE WasTold(proc[p])
        BY <1>6, <2>1
    <2>2. CASE ~WasTold(proc[p])
        <3>1. WillSignal(proc[p].pid_to_signal, p)
            BY <1>1, <1>8, <2>2, OtherSignals
        <3>2. proc[p].received \subseteq {"SIGUSR1", "SIGUSR2"}
            BY <1>1 DEF Process
        <3>3. "SIGUSR1" \in proc[p].received
            BY <1>3, <2>2, <3>1, <3>2 DEF WasTold
        <3> QED BY <1>4, <2>2, <3>3 DEF WasTold
    <2> QED BY <2>1, <2>2
<1>9. ASSUME NEW q \in Living(proc), q # p
      PROVE  /\ Couple(proc, p, q) => ProgramOf(s, q)
             /\ Couple(proc, q, p) => WatchdogOf(s, q)
    <2>1. s.loop = "run" \/ (s.loop = "stopped" /\ WasTold(s))
        BY <1>4, <1>8, <1>9
    <2> QED BY <1>1, <1>4, <1>5, <2>1 DEF Couple, ProgramOf, WatchdogOf, Role
<1>10. s.main = "start" => proc[p].main = "start"
    BY <1>4
<1> QED BY <1>1, <1>2, <1>4, <1>6, <1>7, <1>9, <1>10, PairChanges

\* Who restarts the other one, or begins without one, is alone.
LEMMA AloneIf ==
    ASSUME Twosome(proc), NEW p \in Living(proc),
           \A q \in Living(proc) : ~ProgramOf(proc[p], q) /\ ~WatchdogOf(proc[p], q)
    PROVE  Living(proc) = {p}
BY DEF Twosome, Couple

LEMMA UnsetEnvPair ==
    ASSUME Base(proc), Twosome(proc), NEW p, UnsetEnv(p)
    PROVE  Kept(proc, proc')
<1> DEFINE s == [proc[p] EXCEPT !.loop = "restart",
                               !.env = IF proc[p].process_name = "WD" THEN @ \ {"app"} ELSE @]
<1>1. /\ p \in Living(proc) /\ proc \in [Pid -> Process]
      /\ proc[p] \in Process /\ Role(proc[p])
      /\ proc[p].state = "alive" /\ proc[p].loop = "stopped" /\ ~WasTold(proc[p])
    BY DEF UnsetEnv, Alive, Base, Living, Twosome, WasTold
<1>2. proc' = [proc EXCEPT ![p] = s]
    BY DEF UnsetEnv
<1>3. /\ s.state = "alive" /\ s.main = proc[p].main /\ s.loop = "restart"
      /\ s.process_name = proc[p].process_name /\ s.received = proc[p].received
    BY <1>1 DEF Process
<1> HIDE DEF s
<1>4. InMain(s) <=> InMain(proc[p])
    BY <1>3, Zenon DEF InMain
<1>5. Role(s) /\ (WasTold(s) <=> WasTold(proc[p]))
    BY <1>1, <1>3, <1>4 DEF Role, WasTold
<1>6. \A q \in Living(proc) : ~ProgramOf(proc[p], q) /\ ~WatchdogOf(proc[p], q)
    BY <1>1 DEF ProgramOf, WatchdogOf, Role
<1>7. \A q \in Living(proc) : q = p
    BY <1>1, <1>6, AloneIf
<1> QED BY <1>1, <1>2, <1>3, <1>5, <1>7, PairChanges

\* Who is alone returns from SendAndReciveSignal.
LEMMA ReturnedPair ==
    ASSUME Base(proc), Twosome(proc), NEW p \in Living(proc), Living(proc) = {p},
           proc[p].loop = "restart", proc' = Returned(p)
    PROVE  Kept(proc, proc')
<1>1. proc \in [Pid -> Process] /\ proc[p] \in Process /\ Role(proc[p]) /\ p \in Pid
          /\ proc[p].state = "alive"
    BY DEF Base, Living, Twosome
<1>2. CASE proc[p].main = "none"
    <2>1. proc' = Bury(proc, {p}, "dead")
        BY <1>2 DEF Returned
    <2> QED BY <1>1, <2>1, PairBuried
<1>3. CASE proc[p].main # "none"
    <2> DEFINE s == [proc[p] EXCEPT !.loop = "none",
                                    !.main = IF @ = "watch" THEN "run" ELSE @]
    <2>1. proc' = [proc EXCEPT ![p] = s]
        BY <1>3 DEF Returned
    <2>2. /\ s.state = "alive" /\ s.loop = "none"
          /\ s.main = IF proc[p].main = "watch" THEN "run" ELSE proc[p].main
          /\ s.process_name = proc[p].process_name /\ s.received = proc[p].received
        BY <1>1 DEF Process
    <2> HIDE DEF s
    <2>3. s.main \notin {"none", "start", "entered", "thread", "watch"}
        BY <1>1, <1>3, <2>2 DEF Role
    <2>4. Role(s) /\ (WasTold(s) <=> WasTold(proc[p]))
        BY <2>2, <2>3 DEF Role, WasTold
    <2>5. s.state = "alive" /\ s.main # "start"
        BY <2>2, <2>3
    <2>6. \A q \in Living(proc) : q # p =>
              /\ Couple(proc, p, q) => ProgramOf(s, q)
              /\ Couple(proc, q, p) => WatchdogOf(s, q)
        OBVIOUS
    <2>7. Kept(proc, [proc EXCEPT ![p] = s])
        BY <1>1, <2>4, <2>5, <2>6, PairChanges
    <2> QED BY <2>1, <2>7
<1> QED BY <1>2, <1>3

LEMMA RestartProcPair ==
    ASSUME Smooth, Counted, Base(proc), Twosome(proc), NEW p, RestartProc(p)
    PROVE  Kept(proc, proc')
<1> DEFINE s == RestartWatcher(p)
           c == [RestartChild(p) EXCEPT !.parent = p]
<1>1. /\ p \in Living(proc) /\ p \in Pid /\ proc \in [Pid -> Process]
      /\ proc[p] \in Process /\ Role(proc[p])
      /\ proc[p].state = "alive" /\ proc[p].loop = "restart"
    BY DEF RestartProc, Alive, Base, Living, Twosome
<1>2. \A q \in Living(proc) : ~ProgramOf(proc[p], q) /\ ~WatchdogOf(proc[p], q)
    BY <1>1 DEF ProgramOf, WatchdogOf, Role
<1>3. Living(proc) = {p}
    BY <1>1, <1>2, AloneIf
<1>4. CASE FreePid # {} /\ proc' = [proc EXCEPT ![p] = s, ![NextPid] = c]
    <2>1. NextPid \in Pid /\ proc[NextPid].state = "unborn"
        BY <1>4, NextPidIsFree
    <2>2. /\ s.state = "alive" /\ s.main = proc[p].main /\ s.loop = "run"
          /\ s.pid_to_signal = NextPid
          /\ s.process_name = proc[p].process_name /\ s.received = proc[p].received
        BY <1>1 DEF RestartWatcher, Process
    <2>3. /\ c.state = "alive" /\ c.parent = p
          /\ c.main = IF proc[p].main = "watch" THEN "watch" ELSE "none"
          /\ c.loop = IF proc[p].process_name = "WD" THEN "exec" ELSE "child"
          /\ c.process_name = proc[p].process_name /\ c.received = proc[p].received
        BY <1>1 DEF RestartChild, Process
    <2> HIDE DEF s, c
    <2>4. (InMain(s) <=> InMain(proc[p])) /\ ~InMain(c)
        BY <2>2, <2>3, Zenon DEF InMain
    <2>5. WasTold(s) <=> WasTold(proc[p])
        BY <2>2 DEF WasTold
    <2>6. WasTold(c) <=> WasTold(proc[p])
        BY <2>3 DEF WasTold
    <2>7. Role(s)
        BY <1>1, <2>2, <2>4, <2>5 DEF Role
    <2>8. Role(c)
        BY <1>1, <2>3, <2>4, <2>6 DEF Role
    <2>9. \/ ProgramOf(s, NextPid) /\ WatchdogOf(c, p)
          \/ ProgramOf(c, p) /\ WatchdogOf(s, NextPid)
        <3>1. CASE proc[p].process_name = "APP"
            BY <1>1, <2>2, <2>3, <2>4, <3>1 DEF Role, ProgramOf, WatchdogOf
        <3>2. CASE proc[p].process_name = "WD"
            BY <1>1, <2>2, <2>3, <2>4, <3>2 DEF Role, ProgramOf, WatchdogOf
        <3> QED BY <1>1, <3>1, <3>2 DEF Role
    <2>10. s.main # "start" /\ c.main # "start"
        BY <1>1, <2>2, <2>3 DEF Role
    <2> DEFINE n == NextPid
    <2>11. n \in Pid /\ proc[n].state = "unborn" /\ proc' = [proc EXCEPT ![p] = s, ![n] = c]
           /\ ((ProgramOf(s, n) /\ WatchdogOf(c, p)) \/ (ProgramOf(c, p) /\ WatchdogOf(s, n)))
        BY <1>4, <2>1, <2>9
    <2> HIDE DEF n
    <2> QED BY <1>1, <1>3, <2>2, <2>3, <2>5, <2>6, <2>7, <2>8, <2>10, <2>11, PairForks
<1>5. CASE proc' = Returned(p)
    BY <1>1, <1>3, <1>5, ReturnedPair
<1> QED BY <1>4, <1>5 DEF RestartProc, Fork

\* The program as the user started it is alone.
LEMMA FirstStartPair ==
    ASSUME Base(proc), Twosome(proc), NEW p, FirstStart(p)
    PROVE  Kept(proc, proc')
<1> DEFINE app == [proc[p] EXCEPT !.env = {"wd", "app"}]
           s == [app EXCEPT !.process_name = "APP", !.main = "thread",
                            !.pid_to_signal = NextPid]
           c == [[app EXCEPT !.main = "watch", !.loop = "child"] EXCEPT !.parent = p]
           t == [app EXCEPT !.main = "run"]
<1>1. /\ p \in Living(proc) /\ p \in Pid /\ proc \in [Pid -> Process]
      /\ proc[p] \in Process /\ Role(proc[p])
      /\ proc[p].state = "alive" /\ proc[p].main = "entered" /\ proc[p].loop = "none"
      /\ ~WasTold(proc[p]) /\ "wd" \notin proc[p].env
    BY DEF FirstStart, Alive, Base, Living, Twosome, Role
<1>2. ~InMain(proc[p])
    BY <1>1, Zenon DEF InMain
<1>3. \A q \in Living(proc) : ~ProgramOf(proc[p], q) /\ ~WatchdogOf(proc[p], q)
    BY <1>1, <1>2 DEF ProgramOf, WatchdogOf
<1>4. Living(proc) = {p}
    BY <1>1, <1>3, AloneIf
<1>5. CASE FreePid # {} /\ proc' = [proc EXCEPT ![p] = s, ![NextPid] = c]
    <2>1. NextPid \in Pid /\ proc[NextPid].state = "unborn"
        BY <1>5, NextPidIsFree
    <2>2. /\ s.state = "alive" /\ s.main = "thread" /\ s.loop = "none"
          /\ s.pid_to_signal = NextPid /\ s.process_name = "APP"
          /\ s.received = proc[p].received
        BY <1>1 DEF Process
    <2>3. /\ c.state = "alive" /\ c.main = "watch" /\ c.loop = "child" /\ c.parent = p
          /\ c.received = proc[p].received
        BY <1>1 DEF Process
    <2> HIDE DEF s, c
    <2>4. ~InMain(c)
        BY <2>3, Zenon DEF InMain
    <2>5. WasTold(s) <=> WasTold(proc[p])
        BY <2>2 DEF WasTold
    <2>6. WasTold(c) <=> WasTold(proc[p])
        BY <2>3 DEF WasTold
    <2>7. Role(s)
        BY <1>1, <2>2, <2>5 DEF Role
    <2>8. Role(c)
        BY <1>1, <2>3, <2>4, <2>6 DEF Role
    <2>9. s.main # "start" /\ c.main # "start"
        BY <2>2, <2>3
    <2> DEFINE n == NextPid
    <2>10. /\ n \in Pid /\ proc[n].state = "unborn"
           /\ proc' = [proc EXCEPT ![p] = s, ![n] = c]
           /\ ProgramOf(s, n) /\ WatchdogOf(c, p)
        BY <1>5, <2>1, <2>2, <2>3 DEF ProgramOf, WatchdogOf
    <2> HIDE DEF n
    <2> QED BY <1>1, <1>4, <2>2, <2>3, <2>5, <2>6, <2>7, <2>8, <2>9, <2>10, PairForks
<1>6. CASE proc' = [proc EXCEPT ![p] = t]
    <2>1. /\ t.state = "alive" /\ t.main = "run" /\ t.loop = "none"
          /\ t.received = proc[p].received
        BY <1>1 DEF Process
    <2> HIDE DEF t
    <2>2. Role(t) /\ (WasTold(t) <=> WasTold(proc[p]))
        BY <2>1 DEF Role, WasTold
    <2>3. t.state = "alive" /\ t.main # "start"
        BY <2>1
    <2>4. \A q \in Living(proc) : q # p =>
              /\ Couple(proc, p, q) => ProgramOf(t, q)
              /\ Couple(proc, q, p) => WatchdogOf(t, q)
        BY <1>4
    <2>5. Kept(proc, [proc EXCEPT ![p] = t])
        BY <1>1, <2>2, <2>3, <2>4, PairChanges
    <2> QED BY <1>6, <2>5
<1> QED BY <1>5, <1>6 DEF FirstStart, Fork

\* No call fails, so that the program begins, with the environment of one that
\* is watched; nobody was told to stop.
LEMMA ExecProcPair ==
    ASSUME Smooth, Counted, Base(proc), Twosome(proc), NEW p, ExecProc(p)
    PROVE  Kept(proc, proc')
<1> DEFINE s == Program(proc[p].parent, proc[p].env)
<1>1. /\ p \in Living(proc) /\ proc \in [Pid -> Process]
      /\ proc[p] \in Process /\ Role(proc[p]) /\ Sound(p, proc[p])
      /\ proc[p].loop = "exec"
    BY DEF ExecProc, Alive, Base, Living, Twosome
<1>2. ~Disturb
    BY DEF Disturb, Smooth, Counted
<1>3. proc' = [proc EXCEPT ![p] = s]
    BY <1>2 DEF ExecProc
<1>4. /\ s.state = "alive" /\ s.parent = proc[p].parent /\ s.env = proc[p].env
      /\ s.main = "start" /\ s.loop = "none" /\ s.received = {}
    BY <1>1 DEF Program, Unborn
<1> HIDE DEF s
<1>5. proc[p].env = {"wd"}
    <2>1. proc[p].env \subseteq {"wd", "app"}
        BY <1>1 DEF Process
    <2> QED BY <1>1, <2>1 DEF Sound
<1>6. ~WasTold(proc[p]) /\ ~WasTold(s) /\ ~InMain(proc[p])
    BY <1>1, <1>4 DEF Role, WasTold
<1>7. Role(s)
    BY <1>4, <1>6 DEF Role
<1>8. ASSUME NEW q \in Living(proc), q # p
      PROVE  /\ Couple(proc, p, q) => ProgramOf(s, q)
             /\ Couple(proc, q, p) => WatchdogOf(s, q)
    <2>1. CASE Couple(proc, p, q)
        <3>1. proc[p].parent = q
            BY <1>1, <1>6, <2>1 DEF Couple, ProgramOf, Role
        <3>2. ProgramOf(s, q)
            BY <1>4, <1>5, <3>1 DEF ProgramOf
        <3>3. ~Couple(proc, q, p)
            BY <1>1 DEF Couple, WatchdogOf
        <3> QED BY <3>2, <3>3
    <2>2. CASE ~Couple(proc, p, q)
        BY <1>1, <2>2 DEF Couple, WatchdogOf
    <2> QED BY <2>1, <2>2
<1> QED BY <1>1, <1>3, <1>4, <1>6, <1>7, <1>8, PairChanges

\* A loop that was told to stop takes its process with it.
LEMMA StopPair ==
    ASSUME Base(proc), Twosome(proc), NEW p, Stop(p)
    PROVE  Kept(proc, proc')
<1>1. /\ p \in Living(proc) /\ proc \in [Pid -> Process]
      /\ Role(proc[p]) /\ Sound(p, proc[p])
      /\ proc[p].loop = "stopped" /\ WasTold(proc[p])
    BY DEF Stop, Alive, Base, Living, Twosome, WasTold
<1>2. CASE proc[p].process_name = "APP"
    <2>1. proc' = Bury(proc, {p}, "aborted")
        BY <1>2 DEF Stop
    <2> QED BY <1>1, <2>1, PairBuried
<1>3. CASE proc[p].process_name # "APP"
    <2>1. proc[p].main = "none"
        <3>1. proc[p].main \in {"none", "watch"}
            BY <1>1, <1>3 DEF Role, Sound
        <3> QED BY <1>1, <3>1 DEF Role
    <2>2. proc' = Bury(proc, {p}, "dead")
        BY <1>3, <2>1 DEF Stop, Returned
    <2> QED BY <1>1, <2>2, PairBuried
<1> QED BY <1>2, <1>3

LEMMA EndPair ==
    ASSUME Base(proc), Twosome(proc), NEW p, Exit(p) \/ Crash(p)
    PROVE  Kept(proc, proc')
<1>1. proc' = Bury(proc, {p}, "dead") /\ p \in Living(proc) /\ proc \in [Pid -> Process]
    BY DEF Exit, Crash, Alive, Living, Base
<1> QED BY <1>1, PairBuried

LEMMA SendSignalPair ==
    ASSUME Base(proc), Twosome(proc), NEW p, SendSignal(p)
    PROVE  Kept(proc, proc')
<1>1. proc' = Kill(proc, {proc[p].pid_to_signal}, "SIGUSR1") /\ proc \in [Pid -> Process]
    BY DEF SendSignal, Base
<1> QED BY <1>1, PairSignalled

\* StopWd tells the group, or nobody.
LEMMA SendStopPair ==
    ASSUME Counted, Base(proc), Twosome(proc), NEW p, SendStop(p)
    PROVE  /\ Kept(proc, proc')
           /\ told' # told => AllTold(proc')
<1> DEFINE s(target) == IF proc[p].main = "stop peer"
                        THEN [proc[p] EXCEPT !.main = "stop self", !.stop = target]
                        ELSE [proc[p] EXCEPT !.main = "wait"]
           next(target) == [proc EXCEPT ![p] = s(target)]
<1>1. Alive(p) /\ p \in Living(proc) /\ p \in Pid /\ proc[p] \in Process /\ Sound(p, proc[p])
          /\ proc[p].state = "alive" /\ proc[p].main \in {"stop peer", "stop self"}
          /\ proc \in [Pid -> Process]
    BY DEF SendStop, Alive, Base, Living
<1>2. PICK target \in {"group", "nobody"} :
          /\ proc' = Kill(next(target), IF target = "group" THEN Pid ELSE {}, "SIGUSR2")
          /\ told' = (told \/ target = "group")
    <2>1. PICK target \in {"group", "nobody"} :
              /\ proc' = Kill(IF proc[p].main = "stop peer"
                              THEN [proc EXCEPT ![p].main = "stop self", ![p].stop = target]
                              ELSE [proc EXCEPT ![p].main = "wait"],
                              IF target = "group" THEN Pid ELSE {}, "SIGUSR2")
              /\ told' = (told \/ target = "group")
        BY DEF SendStop
    <2>2. next(target) = IF proc[p].main = "stop peer"
                         THEN [proc EXCEPT ![p].main = "stop self", ![p].stop = target]
                         ELSE [proc EXCEPT ![p].main = "wait"]
        BY <1>1
    <2> QED BY <2>1, <2>2
<1>3. target \in {"group", "nobody"}
    OBVIOUS
<1>4. /\ s(target) \in Process /\ s(target).state = "alive" /\ s(target).parent = proc[p].parent
      /\ s(target).main = IF proc[p].main = "stop peer" THEN "stop self" ELSE "wait"
      /\ s(target).loop = proc[p].loop /\ s(target).env = proc[p].env
      /\ s(target).process_name = proc[p].process_name
      /\ s(target).handlers = proc[p].handlers
      /\ s(target).pid_to_signal = proc[p].pid_to_signal
      /\ s(target).received = proc[p].received
    BY <1>1, <1>3 DEF Process
<1> HIDE DEF s
<1>5. Change(p, proc[p], s(target))
    BY <1>1, <1>4 DEF Change, Sound
<1>6. Base(next(target))
    BY <1>1, <1>5, ChangeKeepsBase
<1>7. InMain(proc[p]) /\ InMain(s(target))
    BY <1>1, <1>4, Zenon DEF InMain
<1>8. Kept(proc, next(target))
    BY <1>1, <1>4, <1>7, PairInMain
<1>9. p \in Living(next(target)) /\ InMain(next(target)[p])
    <2>1. next(target)[p] = s(target)
        BY <1>1
    <2> HIDE DEF next
    <2> QED BY <1>1, <1>4, <1>7, <2>1 DEF Living
<1> DEFINE ps == next(target)
<1>10. Base(ps) /\ Twosome(ps) /\ p \in Living(ps) /\ InMain(ps[p]) /\ ps \in [Pid -> Process]
    BY <1>6, <1>8, <1>9 DEF Kept, Base
<1>11. proc' = Kill(ps, IF target = "group" THEN Pid ELSE {}, "SIGUSR2") /\ Kept(proc, ps)
    BY <1>2, <1>8
<1> HIDE DEF ps, next
<1>12. Kept(ps, proc') /\ (target = "group" => AllTold(proc'))
    <2>1. CASE target = "group"
        <3>1. proc' = Kill(ps, Pid, "SIGUSR2")
            BY <1>11, <2>1
        <3> QED BY <1>10, <3>1, PairTold
    <2>2. CASE target # "group"
        <3>1. proc' = Kill(ps, {}, "SIGUSR2")
            BY <1>11, <2>2
        <3>2. Kept(ps, Kill(ps, {}, "SIGUSR2"))
            BY <1>10, PairSignalled
        <3> QED BY <2>2, <3>1, <3>2
    <2> QED BY <2>1, <2>2
<1>13. Kept(proc, proc')
    BY <1>11, <1>12 DEF Kept
<1>14. told' # told => target = "group"
    BY <1>2, Zenon DEF Counted
<1> QED BY <1>12, <1>13, <1>14

-----------------------------------------------------------------------------

LEMMA NextPair ==
    ASSUME Smooth, IInv, Twosome(proc), NEW p \in Pid,
           \/ Begin(p) \/ SendSignal(p) \/ CheckSignal(p) \/ AfterRun(p)
           \/ InitSigActionStop(p) \/ End(p) \/ Crash(p)
    PROVE  /\ Kept(proc, proc')
           /\ told' # told => AllTold(proc')
<1>1. Base(proc) /\ Counted
    BY DEF IInv, TypeOK, Counted
<1>2. ASSUME Begin(p)
      PROVE  Kept(proc, proc') /\ told' = told
    <2>1. Kept(proc, proc')
        BY <1>1, <1>2, InitSigActionPair, FirstStartPair, NextStartPair, AppCreateThreadPair
           DEF Begin
    <2> QED BY <1>2, <2>1
            DEF Begin, InitSigAction, FirstStart, NextStart, AppCreateThread
<1>3. ASSUME SendSignal(p) \/ CheckSignal(p) \/ InitSigActionStop(p) \/ Crash(p)
      PROVE  Kept(proc, proc') /\ told' = told
    <2>1. Kept(proc, proc')
        BY <1>1, <1>3, SendSignalPair, CheckSignalPair, InitSigActionStopPair, EndPair
    <2> QED BY <1>3, <2>1 DEF SendSignal, CheckSignal, InitSigActionStop, Crash
<1>4. ASSUME AfterRun(p)
      PROVE  Kept(proc, proc') /\ told' = told
    <2>1. Kept(proc, proc')
        BY <1>1, <1>4, StopPair, UnsetEnvPair, RestartProcPair, ExecProcPair, RunWDProcPair
           DEF AfterRun
    <2> QED BY <1>4, <2>1 DEF AfterRun, Stop, UnsetEnv, RestartProc, ExecProc, RunWDProc
<1>5. ASSUME WaitPid(p) \/ Exit(p)
      PROVE  Kept(proc, proc') /\ told' = told
    <2>1. Kept(proc, proc')
        BY <1>1, <1>5, WaitPidPair, EndPair
    <2> QED BY <1>5, <2>1 DEF WaitPid, Exit
<1>6. ASSUME SendStop(p)
      PROVE  Kept(proc, proc') /\ (told' # told => AllTold(proc'))
    BY <1>1, <1>6, SendStopPair
<1> QED BY <1>2, <1>3, <1>4, <1>5, <1>6 DEF End

LEMMA InitPair == Init => Twosome(proc)
<1> SUFFICES ASSUME Init
             PROVE  Twosome(proc)
    OBVIOUS
<1> DEFINE first == Program(SystemInit, {})
<1>1. /\ first.main = "start" /\ first.loop = "none" /\ first.received = {}
      /\ Unborn.state = "unborn"
    BY DEF Unborn, Program
<1> HIDE DEF first
<1>2. \A p \in Pid : proc[p] = IF p = 1 THEN first ELSE Unborn
    BY DEF Init, first
<1>3. Living(proc) \subseteq {1} /\ \A p \in Living(proc) : proc[p] = first
    BY <1>1, <1>2 DEF Living
<1>4. Role(first)
    BY <1>1 DEF Role, WasTold
<1> QED BY <1>3, <1>4 DEF Twosome

\* A step of a process, or none.
LEMMA StepPair ==
    ASSUME Smooth, IInv, Twosome(proc), [Next]_vars
    PROVE  /\ Kept(proc, proc')
           /\ told' # told => AllTold(proc')
<1>1. CASE \E p \in Pid : \/ Begin(p) \/ SendSignal(p) \/ CheckSignal(p) \/ AfterRun(p)
                          \/ InitSigActionStop(p) \/ End(p) \/ Crash(p)
    BY <1>1, NextPair
<1>2. CASE UNCHANGED vars
    BY <1>2 DEF vars, Kept
<1> QED BY <1>1, <1>2 DEF Next, Finished

\* As long as no call failed and nobody was late, every step keeps them, and
\* once the group was told all that live know of it.
Faithful == Undisturbed => Twosome(proc) /\ (told => AllTold(proc))

LEMMA StepFaithful ==
    ASSUME IInv, Faithful, [Next]_vars, Undisturbed'
    PROVE  /\ Twosome(proc') /\ (told' => AllTold(proc'))
           /\ Kept(proc, proc') /\ (told => AllTold(proc))
<1>1. Counted /\ Remembered
    BY CountedInductive DEF IInv, TypeOK, Counted
<1>2. disturbances = 0 /\ disturbances' = 0
    BY <1>1 DEF Undisturbed, Counted, Remembered
<1>3. Smooth /\ Twosome(proc) /\ (told => AllTold(proc))
    BY <1>2 DEF Smooth, Faithful, Undisturbed
<1>4. Kept(proc, proc') /\ (told' # told => AllTold(proc'))
    BY <1>3, StepPair
<1>5. told' => AllTold(proc')
    BY <1>3, <1>4 DEF Kept
<1> QED BY <1>3, <1>4, <1>5 DEF Kept

LEMMA NextFaithful == IInv /\ Faithful /\ [Next]_vars => IInv' /\ Faithful'
<1> SUFFICES ASSUME IInv, Faithful, [Next]_vars
             PROVE  IInv' /\ Faithful'
    OBVIOUS
<1>1. ASSUME Undisturbed'
      PROVE  Twosome(proc') /\ (told' => AllTold(proc'))
    BY <1>1, StepFaithful
<1>2. Undisturbed' => Twosome(proc)' /\ (told' => AllTold(proc)')
    BY <1>1 DEF Twosome, AllTold
<1>3. Faithful'
    BY <1>2 DEF Faithful
<1> QED BY <1>3, NextIInv

\* As long as nobody was late by a period and no call failed, whatever crashes
\* and however often: what CheckSignal restarts is dead, so that there are
\* never two programs or two watchdogs.
THEOREM NeverTwoOfAKind == Spec => []NoDuplicates
<1> DEFINE Inv == IInv /\ Faithful
<1>1. Init => Inv
    BY InitIInv, InitPair DEF Init, Faithful
<1>2. Inv /\ [Next]_vars => Inv'
    BY NextFaithful
<1>3. Inv => NoDuplicates
    <2> SUFFICES ASSUME IInv, Twosome(proc), Undisturbed
                 PROVE  NoDuplicates
        BY DEF Faithful, NoDuplicates
    <2>1. ASSUME NEW S, \A p, q \in S : p = q
          PROVE  Cardinality(S) <= 1
        <3>1. CASE S = {}
            BY <3>1, FS_EmptySet
        <3>2. CASE S # {}
            <4>1. PICK p \in S : TRUE
                BY <3>2
            <4>2. S = {p}
                BY <2>1, <4>1
            <4>3. Cardinality({p}) = 1
                BY FS_Singleton
            <4> QED BY <4>2, <4>3
        <3> QED BY <3>1, <3>2
    <2>2. ASSUME NEW p \in Living(proc)
          PROVE  /\ \A q : ProgramOf(proc[p], q) => IsProgram(p)
                 /\ \A q : WatchdogOf(proc[p], q) => IsWatchdog(p)
        <3>1. Alive(p) /\ Role(proc[p])
            BY DEF Living, Alive, Twosome
        <3>2. ASSUME NEW q, ProgramOf(proc[p], q)
              PROVE  IsProgram(p)
            <4>1. InMain(proc[p]) => proc[p].main \notin {"none", "watch"}
                BY Zenon DEF InMain
            <4> QED BY <3>1, <3>2, <4>1 DEF ProgramOf, IsProgram
        <3>3. ASSUME NEW q, WatchdogOf(proc[p], q)
              PROVE  IsWatchdog(p)
            <4>1. proc[p].loop \in {"child", "run", "stopped"}
                BY <3>3 DEF WatchdogOf
            <4>2. ~InMain(proc[p])
                BY <3>1, <3>3 DEF WatchdogOf, Role
            <4>3. proc[p].main \in {"none", "watch"}
                <5>1. proc[p] \in Process
                    BY DEF IInv, Base, Living
                <5>2. InMain(proc[p]) \/ proc[p].main \in {"none", "start", "entered", "thread", "watch"}
                    BY <5>1, Zenon DEF Process, InMain
                <5> QED BY <3>1, <4>1, <4>2, <5>2 DEF Role
            <4> QED BY <3>1, <4>1, <4>3 DEF IsWatchdog, IsProgram
        <3> QED BY <3>2, <3>3
    <2>3. \A p \in Pid : IsProgram(p) \/ IsWatchdog(p) => p \in Living(proc)
        BY DEF IsProgram, IsWatchdog, Alive, Living
    <2>4. ASSUME NEW p \in Living(proc), NEW q \in Living(proc), p # q
          PROVE  \/ IsProgram(p) /\ IsWatchdog(q)
                 \/ IsProgram(q) /\ IsWatchdog(p)
        <3>1. Couple(proc, p, q) \/ Couple(proc, q, p)
            BY <2>4 DEF Twosome
        <3> QED BY <2>2, <3>1 DEF Couple
    <2>5. \A p : ~(IsProgram(p) /\ IsWatchdog(p))
        BY DEF IsWatchdog
    <2>6. \A p, q \in {r \in Pid : IsProgram(r)} : p = q
        BY <2>3, <2>4, <2>5
    <2>7. \A p, q \in {r \in Pid : IsWatchdog(r)} : p = q
        BY <2>3, <2>4, <2>5
    <2> QED BY <2>1, <2>6, <2>7 DEF NoDuplicates
<1> QED BY <1>1, <1>2, <1>3, PTL DEF Spec

\* Under the same condition, once a signal of StopWd went to the group: it
\* reaches everybody that lives on, so that no clone is left which is about to
\* begin a program, nor a watchdog that would make one.
THEOREM StopIsFinal == Spec => NoRestartAfterStop
<1> DEFINE Inv == IInv /\ Faithful
           Final == told /\ Undisturbed' =>
                      \A p \in Pid : Alive(p)' /\ proc'[p].main = "start"
                                       => Alive(p) /\ proc[p].main = "start"
<1>1. Init => Inv
    BY InitIInv, InitPair DEF Init, Faithful
<1>2. Inv /\ [Next]_vars => Inv' /\ Final
    <2> SUFFICES ASSUME Inv, [Next]_vars
                 PROVE  Final
        BY NextFaithful
    <2>1. ASSUME told, Undisturbed', NEW p \in Pid, Alive(p)', proc'[p].main = "start"
          PROVE  Alive(p) /\ proc[p].main = "start"
        <3>1. Kept(proc, proc') /\ AllTold(proc)
            BY <2>1, StepFaithful
        <3>2. p \in Living(proc')
            BY <2>1 DEF Alive, Living
        <3>3. p \in Living(proc) /\ proc[p].main = "start"
            BY <2>1, <3>1, <3>2 DEF Kept
        <3> QED BY <3>3 DEF Alive, Living
    <2> QED BY <2>1
<1>3. Inv /\ [Next]_vars => [Final]_vars
    BY <1>2
<1> QED BY <1>1, <1>2, <1>3, PTL DEF Spec, NoRestartAfterStop
=============================================================================
