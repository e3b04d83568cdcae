--------------------------- MODULE SumOfDivisors ----------------------------
(***************************************************************************)
(* 100k_thread/100k_thread.c and 100k_thread_after_cr.c: the numbers from  *)
(* 1 to to_check are divided among threads, each adds up the divisors in   *)
(* its range, main adds up what they found.  The first program ends when a *)
(* thread cannot be created, the second does not look.                     *)
(*                                                                         *)
(* The first has a pragma that, built with -fopenmp, splits the loop of a  *)
(* thread once more, among workers that share sum without a reduction.     *)
(* The makefile gives -fopenmp only to the linker, so that either build is *)
(* a legal one.  An addition is then a load and a store.                   *)
(***************************************************************************)
EXTENDS Integers, FiniteSetsExt

CONSTANTS Numbers,       \* values of to_check
          MaxThreads     \* argv[1] is at most this

VARIABLES to_check, num_thread,
          checked,         \* the program looks at the result of pthread_create
          openmp,
          param,           \* of each thread: its range
          pc,              \* of each thread
          left,            \* divisors that a worker has still to add
          copy,            \* a worker's copy of sum, or -1
          sum,             \* of each thread
          g_sum_of_div,
          main, i, ans

vars == <<to_check, num_thread, checked, openmp, param, pc, left, copy, sum,
          g_sum_of_div, main, i, ans>>
input == <<to_check, num_thread, checked, openmp>>

Index  == 0..(num_thread - 1)
Worker == {1, 2}

\* The divisors among the numbers of a range, whose start is not in it.
Divisors(range) == {d \in (range.start + 1)..range.end : to_check % d = 0}

Init ==
    /\ to_check \in Numbers
    /\ num_thread \in 0..MaxThreads
    /\ checked \in BOOLEAN
    /\ openmp \in (IF checked THEN BOOLEAN ELSE {FALSE})
    /\ param = [t \in Index |-> [start |-> 0, end |-> 0]]
    /\ pc = [t \in Index |-> "absent"]
    /\ left = [t \in Index |-> [w \in Worker |-> {}]]
    /\ copy = [t \in Index |-> [w \in Worker |-> -1]]
    /\ sum = [t \in Index |-> 0]
    /\ g_sum_of_div = [t \in Index |-> 0]
    /\ main = "start"
    /\ i = 0
    /\ ans = 0

Running == main \in {"create", "join"}

-----------------------------------------------------------------------------
(* main *)

\* The division by num_thread, which 0 makes fatal, and three calls of malloc.
Divide ==
    /\ main = "start"
    /\ main' \in (IF num_thread = 0 THEN {"killed"} ELSE {"create", "failed"})
    /\ UNCHANGED <<input, param, pc, left, copy, sum, g_sum_of_div, i, ans>>

\* Mutant of RangeOf: the range of the last thread ends like the others.
RangeOfWithoutRest(t) ==
    LET range == to_check \div num_thread
    IN [start |-> t * range, end |-> t * range + range]

\* The last thread also has the remainder of the division.
RangeOf(t) ==
    LET range == to_check \div num_thread
    IN [start |-> t * range,
        end   |-> IF t = num_thread - 1 THEN to_check ELSE t * range + range]

\* HandleThreads, up to the joins.
CreateThread ==
    /\ main = "create"
    /\ param' = [param EXCEPT ![i] = RangeOf(i)]
    /\ \/ pc' = [pc EXCEPT ![i] = "start"]
          /\ main' = IF i = num_thread - 1 THEN "join" ELSE "create"
       \/ /\ checked
          /\ main' = "failed"
          /\ UNCHANGED pc
    /\ i' = i + 1
    /\ UNCHANGED <<input, left, copy, sum, g_sum_of_div, ans>>

\* The second program joins a thread that was never created, and adds up what
\* malloc left in its place.
ThreadAction ==
    /\ main = "create"
    /\ ~checked
    /\ main' = "undefined"
    /\ UNCHANGED <<input, param, pc, left, copy, sum, g_sum_of_div, i, ans>>

\* The joins and the sum.
PrintTotal ==
    /\ main = "join"
    /\ \A t \in Index : pc[t] = "done"
    /\ ans' = MapThenSumSet(LAMBDA t : g_sum_of_div[t], Index)
    /\ main' = "printed"
    /\ UNCHANGED <<input, param, pc, left, copy, sum, g_sum_of_div, i>>

-----------------------------------------------------------------------------
(* SumOfDiv *)

\* The head of the loop: one worker has all of it, or each its part.
SumOfDiv(t) ==
    /\ Running /\ pc[t] = "start"
    /\ LET d    == Divisors(param[t])
           half == (param[t].start + param[t].end) \div 2
       IN left' = [left EXCEPT ![t] =
                      [w \in Worker |-> IF ~openmp THEN (IF w = 1 THEN d ELSE {})
                                        ELSE {x \in d : (x <= half) <=> (w = 1)}]]
    /\ pc' = [pc EXCEPT ![t] = "add"]
    /\ UNCHANGED <<input, param, copy, sum, g_sum_of_div, main, i, ans>>

\* sum += i, its load.
Load(t, w) ==
    /\ Running /\ pc[t] = "add"
    /\ left[t][w] # {} /\ copy[t][w] = -1
    /\ copy' = [copy EXCEPT ![t][w] = sum[t]]
    /\ UNCHANGED <<input, param, pc, left, sum, g_sum_of_div, main, i, ans>>

\* sum += i, its store.
Store(t, w) ==
    /\ Running /\ pc[t] = "add"
    /\ copy[t][w] >= 0
    /\ sum' = [sum EXCEPT ![t] = copy[t][w] + Min(left[t][w])]
    /\ left' = [left EXCEPT ![t][w] = @ \ {Min(@)}]
    /\ copy' = [copy EXCEPT ![t][w] = -1]
    /\ UNCHANGED <<input, param, pc, g_sum_of_div, main, i, ans>>

Finish(t) ==
    /\ Running /\ pc[t] = "add"
    /\ \A w \in Worker : left[t][w] = {}
    /\ g_sum_of_div' = [g_sum_of_div EXCEPT ![t] = sum[t]]
    /\ pc' = [pc EXCEPT ![t] = "done"]
    /\ UNCHANGED <<input, param, left, copy, sum, main, i, ans>>

-----------------------------------------------------------------------------

ThreadStep(t) == SumOfDiv(t) \/ Finish(t) \/ \E w \in Worker : Load(t, w) \/ Store(t, w)
Main    == Divide \/ CreateThread \/ ThreadAction \/ PrintTotal
Stopped == ~Running /\ main # "start" /\ UNCHANGED vars

Next == Main \/ (\E t \in Index : ThreadStep(t)) \/ Stopped

Spec == Init /\ [][Next]_vars

-----------------------------------------------------------------------------
(* Properties *)

\* Every variable has its type.
TypeOK ==
    /\ to_check \in Numbers /\ num_thread \in 0..MaxThreads
    /\ checked \in BOOLEAN /\ openmp \in BOOLEAN
    /\ param \in [Index -> [start : Nat, end : Nat]]
    /\ pc \in [Index -> {"absent", "start", "add", "done"}]
    /\ left \in [Index -> [Worker -> SUBSET (1..to_check)]]
    /\ copy \in [Index -> [Worker -> Int]]
    /\ sum \in [Index -> Nat] /\ g_sum_of_div \in [Index -> Nat]
    /\ main \in {"start", "create", "join", "printed", "failed", "killed", "undefined"}
    /\ i \in 0..num_thread /\ ans \in Nat

\* The printed number is the sum of all divisors, with any number of threads,
\* more of them than numbers included; racing workers can lose additions but
\* count none twice.
PrintsSum ==
    main = "printed" =>
        LET all == SumSet(Divisors([start |-> 0, end |-> to_check]))
        IN IF openmp THEN ans \in 1..all ELSE ans = all
=============================================================================
