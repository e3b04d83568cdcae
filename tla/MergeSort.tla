------------------------------ MODULE MergeSort ----------------------------
(***************************************************************************)
(* mergesortmt/mergesortmt.c: the lines of a file are divided among        *)
(* threads, each sorts its part of words_ptr in place with QuickSort, and  *)
(* main then merges the parts one after the other into the first.          *)
(*                                                                         *)
(* A word is a number, compared like strcmp compares.  A thread is its     *)
(* stack of calls of QuickSort, each a range <<base, num_elements>>; the   *)
(* partition of one call is one step, and threads take turns between them. *)
(* Reading the input and the allocations before the threads succeed.       *)
(***************************************************************************)
EXTENDS Integers, Sequences, FiniteSets

CONSTANTS Word,            \* numbers, for the lines of the file
          MaxLines,        \* bound on their number
          MaxThreads,      \* bound on argv[3]
          MaxFailures      \* bound: failures of pthread_create and malloc

MergeSortAssumption ==
    /\ Word \subseteq Int
    /\ MaxLines \in Nat \ {0}
    /\ MaxThreads \in Nat \ {0}
    /\ MaxFailures \in Nat

VARIABLES file,            \* the words of the input, in its order
          words_ptr,
          written,         \* the words of the output
          num_of_threads,
          calls,           \* the stack of each thread
          created,         \* how many threads there are
          i,               \* loop counter of Merge
          main, failures

vars == <<file, words_ptr, written, num_of_threads, calls, created, i, main, failures>>

lines == Cardinality(DOMAIN words_ptr)

-----------------------------------------------------------------------------
(* The parts *)

range == lines \div num_of_threads

From(t) == t * range

\* Mutant of To: the last part gets no more than the others.
ToWithoutRest(t) == From(t) + range - 1

\* Mutant of To: the word after a part belongs to it too.
ToInclusive(t) == IF t = num_of_threads - 1 THEN lines - 1 ELSE From(t) + range

\* The last thread takes what the division leaves over as well.
To(t) == IF t = num_of_threads - 1 THEN lines - 1 ELSE From(t) + range - 1

-----------------------------------------------------------------------------
(* QuickSort and MergeConv on an array a *)

\* Mutant of Swap: there is no tmp.
SwapLost(a, x, y) == [a EXCEPT ![x] = a[y]]

Swap(a, x, y) == [a EXCEPT ![x] = a[y], ![y] = a[x]]

\* The loop of QuickSort: the array and i after the elements before the j-th
\* were compared with the last one.
PartitionLoop(a, base, n) ==
    LET f[j \in 0..n] ==
          IF j = 0 THEN <<a, -1>>
          ELSE LET b == f[j - 1][1]
                   k == f[j - 1][2]
               IN  IF b[base + j - 1] < b[base + n - 1]
                   THEN <<Swap(b, base + j - 1, base + k + 1), k + 1>>
                   ELSE <<b, k>>
    IN  f[n]

\* The call up to its own two calls: the array, and where the pivot went.
Partition(a, base, n) ==
    LET loop == PartitionLoop(a, base, n)
        p    == loop[2] + 1
    IN  [array |-> Swap(loop[1], base + n - 1, base + p), pivot |-> p]

\* Merges the left first words with the right ones at from, and copies the
\* result over the first left + right words.
MergeConv(a, left, from, right) ==
    LET f[k \in 0..(left + right)] ==
          IF k = 0 THEN [l |-> 0, r |-> 0, merged |-> <<>>]
          ELSE LET g == f[k - 1]
               IN  IF g.l < left /\ (g.r >= right \/ a[g.l] < a[from + g.r])
                   THEN [g EXCEPT !.l = @ + 1, !.merged = Append(@, a[g.l])]
                   ELSE [g EXCEPT !.r = @ + 1, !.merged = Append(@, a[from + g.r])]
        merged == f[left + right].merged
    IN  [k \in DOMAIN a |-> IF k < left + right THEN merged[k + 1] ELSE a[k]]

-----------------------------------------------------------------------------

\* WriteFileToArray gives the words; main cuts the number of threads down and
\* writes the words to the output for the first time.
Init ==
    /\ \E n \in 1..MaxLines :
         /\ file \in [0..(n - 1) -> Word]
         /\ num_of_threads \in {argv3 % n : argv3 \in 1..MaxThreads}
    /\ words_ptr = file
    /\ written = file
    /\ calls = <<>>
    /\ created = 0
    /\ i = 1
    /\ main = "params"
    /\ failures = 0

Fails ==
    /\ failures < MaxFailures
    /\ failures' = failures + 1

\* InitParamThreads divides by the number of threads, which may be 0 by now.
InitParamThreads ==
    /\ main = "params"
    /\ main' = IF num_of_threads = 0 THEN "crashed" ELSE "create"
    /\ UNCHANGED <<file, words_ptr, written, num_of_threads, calls, created, i, failures>>

\* The new thread calls QuickSort on its part.  After a failed pthread_create
\* CreateThreads joins threads that were never created.
CreateThread ==
    /\ main = "create"
    /\ \/ /\ calls' = Append(calls, <<<<From(created), To(created) - From(created) + 1>>>>)
          /\ created' = created + 1
          /\ main' = IF created + 1 = num_of_threads THEN "join" ELSE "create"
          /\ UNCHANGED failures
       \/ /\ Fails
          /\ main' = "undefined"
          /\ UNCHANGED <<calls, created>>
    /\ UNCHANGED <<file, words_ptr, written, num_of_threads, i>>

\* Mutant of QuickSort: the right part begins with the pivot.
QuickSortKeepsPivot(t) ==
    /\ main \in {"create", "join"}
    /\ calls[t] # <<>>
    /\ LET base == Head(calls[t])[1]
           n    == Head(calls[t])[2]
           part == Partition(words_ptr, base, n)
           left == <<base, part.pivot>>
           right == <<base + part.pivot, n - part.pivot>>
       IN  IF n <= 1
           THEN /\ calls' = [calls EXCEPT ![t] = Tail(@)]
                /\ UNCHANGED words_ptr
           ELSE /\ calls' = [calls EXCEPT ![t] = <<left, right>> \o Tail(@)]
                /\ words_ptr' = part.array
    /\ UNCHANGED <<file, written, num_of_threads, created, i, main, failures>>

\* One call of QuickSort in the thread t (from 1), up to its own two calls.
QuickSort(t) ==
    /\ main \in {"create", "join"}
    /\ calls[t] # <<>>
    /\ LET base == Head(calls[t])[1]
           n    == Head(calls[t])[2]
           part == Partition(words_ptr, base, n)
           left == <<base, part.pivot>>
           right == <<base + part.pivot + 1, n - part.pivot - 1>>
       IN  IF n <= 1
           THEN /\ calls' = [calls EXCEPT ![t] = Tail(@)]
                /\ UNCHANGED words_ptr
           ELSE /\ calls' = [calls EXCEPT ![t] = <<left, right>> \o Tail(@)]
                /\ words_ptr' = part.array
    /\ UNCHANGED <<file, written, num_of_threads, created, i, main, failures>>

JoinThreads ==
    /\ main = "join"
    /\ \A t \in DOMAIN calls : calls[t] = <<>>
    /\ main' = "merge"
    /\ UNCHANGED <<file, words_ptr, written, num_of_threads, calls, created, i, failures>>

Merge ==
    /\ main = "merge" /\ i < num_of_threads
    /\ \/ /\ words_ptr' = MergeConv(words_ptr, To(i - 1) - From(0) + 1,
                                    From(i), To(i) - From(i) + 1)
          /\ i' = i + 1
          /\ UNCHANGED <<main, failures>>
       \/ /\ Fails
          /\ main' = "failed"
          /\ UNCHANGED <<words_ptr, i>>
    /\ UNCHANGED <<file, written, num_of_threads, calls, created>>

WriteArrayToFile ==
    /\ main = "merge" /\ i >= num_of_threads
    /\ written' = words_ptr
    /\ main' = "written"
    /\ UNCHANGED <<file, words_ptr, num_of_threads, calls, created, i, failures>>

Ended == main \in {"written", "failed", "undefined", "crashed"}

Stopped == Ended /\ UNCHANGED vars

Main == InitParamThreads \/ CreateThread \/ JoinThreads \/ Merge \/ WriteArrayToFile

Next == Main \/ (\E t \in DOMAIN calls : QuickSort(t)) \/ Stopped

Spec ==
    /\ Init /\ [][Next]_vars
    /\ WF_vars(Main)
    /\ \A t \in 1..MaxThreads : WF_vars(t \in DOMAIN calls /\ QuickSort(t))

-----------------------------------------------------------------------------
(* Properties *)

Position == 0..(lines - 1)

\* Every variable has its type.
TypeOK ==
    /\ words_ptr \in [Position -> Word]
    /\ file \in [Position -> Word]
    /\ written \in [Position -> Word]
    /\ num_of_threads \in 0..MaxThreads
    /\ calls \in Seq(Seq((0..lines) \X (0..lines)))
    /\ created \in 0..num_of_threads
    /\ i \in 1..(MaxThreads + 1)
    /\ main \in {"params", "create", "join", "merge", "written", "failed",
                 "undefined", "crashed"}
    /\ failures \in 0..MaxFailures

\* The positions a thread can still touch.
Touches(t) ==
    UNION {c[1]..(c[1] + c[2] - 1) : c \in {calls[t][k] : k \in DOMAIN calls[t]}}

\* Threads that sort at the same time never touch the same word, nor one that
\* is not there.
NoOverlap ==
    /\ \A t \in DOMAIN calls : Touches(t) \subseteq Position
    /\ \A t, u \in DOMAIN calls : t # u => Touches(t) \cap Touches(u) = {}

Occurrences(a, w) == Cardinality({k \in DOMAIN a : a[k] = w})

\* No word is lost or written twice: not while threads sort, not by a merge,
\* and not in the output when a thread or a merge fails.
NothingLost ==
    \A w \in Word : /\ Occurrences(words_ptr, w) = Occurrences(file, w)
                    /\ Occurrences(written, w) = Occurrences(file, w)

\* The program that gets to the end has written the words in order.
WritesSorted ==
    main = "written" => \A k \in Position \ {0} : written[k - 1] <= written[k]

\* Every run comes to an end: each QuickSort works on fewer words.
Ends == <>Ended
=============================================================================
