------------------------------ MODULE MCThreads -----------------------------
(***************************************************************************)
(* The programs with threads that are small enough to be checked in one    *)
(* run: one of them, named by program, takes its steps, and the variables  *)
(* of the others keep their initial values.                                *)
(***************************************************************************)
EXTENDS Integers, Sequences, FiniteSets

CONSTANTS NumOfProducers, FileSizes, PageSize,
          Word, MaxLines, MaxThreads, MaxFailures,
          Numbers, Rounds, Threads, MaxItems, Capacity

VARIABLES program,
          \* of Histogram
          g_i_segment_arr, lock, h_pc, segment, personal_histo, g_bucket_histo,
          g_histo_to_read, consumer, h_i, current, g_total_histo, size_of_file, h_main,
          \* of MergeSort
          file, words_ptr, written, num_of_threads, calls, created, s_i, s_main, failures,
          \* of SumOfDivisors
          to_check, num_thread, checked, openmp, param, d_pc, left, copy, sum,
          g_sum_of_div, d_main, d_i, ans,
          \* of FlagHandoff
          handoff, g_data_to_shared, g_data_lock, data_mutex, a_pc, a_main, handed, printed,
          \* of ProducerConsumerC
          list, size, doubly_ll_mutex, c_pc, c_main, c_i, create_failed, c_frees, c_outcome,
          \* of ProducerConsumerE
          ndebug, write_sem, read_sem, write, read, unread, e_pc, n, count,
          e_main, e_i, e_frees, e_outcome

H == INSTANCE Histogram WITH pc <- h_pc, i <- h_i, main <- h_main
S == INSTANCE MergeSort WITH i <- s_i, main <- s_main
D == INSTANCE SumOfDivisors WITH pc <- d_pc, i <- d_i, main <- d_main
A == INSTANCE FlagHandoff WITH pc <- a_pc, main <- a_main
C == INSTANCE ProducerConsumerC
        WITH pc <- c_pc, main <- c_main, i <- c_i, frees <- c_frees, outcome <- c_outcome
E == INSTANCE ProducerConsumerE
        WITH pc <- e_pc, main <- e_main, i <- e_i, frees <- e_frees, outcome <- e_outcome

ASSUME ThreadsAssumption ==
    /\ H!HistogramAssumption /\ S!MergeSortAssumption
    /\ Threads \in Nat \ {0}
    /\ Capacity \in Nat \ {0}
    /\ Numbers \subseteq Nat \ {0}

histogram == <<g_i_segment_arr, lock, h_pc, segment, personal_histo, g_bucket_histo,
               g_histo_to_read, consumer, h_i, current, g_total_histo, size_of_file, h_main>>
sort      == <<file, words_ptr, written, num_of_threads, calls, created, s_i, s_main, failures>>
divisors  == <<to_check, num_thread, checked, openmp, param, d_pc, left, copy, sum,
               g_sum_of_div, d_main, d_i, ans>>
flag      == <<handoff, g_data_to_shared, g_data_lock, data_mutex, a_pc, a_main, handed, printed>>
polling   == <<list, size, doubly_ll_mutex, c_pc, c_main, c_i, create_failed, c_frees, c_outcome>>
unlocked  == <<ndebug, write_sem, read_sem, write, read, unread, e_pc, n, count,
               e_main, e_i, e_frees, e_outcome>>

\* What a program can start with is varied only when it is the one that runs.
Init ==
    /\ program \in {"histogram", "sort", "divisors", "flag", "polling", "unlocked"}
    /\ H!Init /\ S!Init /\ D!Init /\ A!Init /\ C!Init /\ E!Init
    /\ program # "histogram" => size_of_file = CHOOSE b \in FileSizes : TRUE
    /\ program # "sort" => num_of_threads = 0 /\ file = [k \in {0} |-> CHOOSE w \in Word : TRUE]
    /\ program # "divisors" =>
          /\ to_check = CHOOSE d \in Numbers : TRUE
          /\ num_thread = 1 /\ ~checked
    /\ program # "flag" => handoff = "a"
    /\ program # "unlocked" => ndebug

Next ==
    \/ /\ program = "histogram" /\ H!Next
       /\ UNCHANGED <<program, sort, divisors, flag, polling, unlocked>>
    \/ /\ program = "sort" /\ S!Next
       /\ UNCHANGED <<program, histogram, divisors, flag, polling, unlocked>>
    \/ /\ program = "divisors" /\ D!Next
       /\ UNCHANGED <<program, histogram, sort, flag, polling, unlocked>>
    \/ /\ program = "flag" /\ A!Next
       /\ UNCHANGED <<program, histogram, sort, divisors, polling, unlocked>>
    \/ /\ program = "polling" /\ C!Next
       /\ UNCHANGED <<program, histogram, sort, divisors, flag, unlocked>>
    \/ /\ program = "unlocked" /\ E!Next
       /\ UNCHANGED <<program, histogram, sort, divisors, flag, polling>>

vars == <<program, histogram, sort, divisors, flag, polling, unlocked>>

\* The fairness of Histogram and of MergeSort.  The two threads of FlagHandoff
\* spin without blocking each other, and are scheduled again and again.
Fairness ==
    /\ \A p \in H!Producer : WF_histogram(program = "histogram" /\ H!Produce(p))
    /\ WF_histogram(program = "histogram" /\ H!Consume)
    /\ WF_histogram(program = "histogram" /\ H!JoinAndPrint)
    /\ WF_sort(program = "sort" /\ S!Main)
    /\ \A t \in 1..MaxThreads :
          WF_sort(program = "sort" /\ t \in DOMAIN calls /\ S!QuickSort(t))
    /\ WF_flag(program = "flag" /\ A!Write)
    /\ WF_flag(program = "flag" /\ A!Read)
    /\ WF_flag(program = "flag" /\ A!Main)

Spec == Init /\ [][Next]_vars /\ Fairness

-----------------------------------------------------------------------------
(* The properties, which the modules state and explain.  Those that hold of *)
(* an initial state hold of the programs that do not run.                   *)

\* No page of the file is skipped or counted twice.
CountedOnce == H!CountedOnce

\* The consumer adds finished histograms, and the printed total is complete.
TotalIsComplete == H!TotalIsComplete

\* The histogram is printed, or the page behind the file kills the program.
HistogramEnds == program = "histogram" => H!Ends

\* Two threads never sort the same word.
NoOverlap == S!NoOverlap

\* No word is lost, on either copy.
NothingLost == S!NothingLost

\* What is written in the end is in order.
WritesSorted == S!WritesSorted

\* Every run of the sort ends.
SortEnds == program = "sort" => S!Ends

\* The sum that is printed is that of all divisors, unless inner threads race.
PrintsSum == D!PrintsSum

\* No handover is printed twice or, but perhaps for the last, not at all; what
\* is printed is the number handed over or, already incremented, the next one.
EachPrintedOnce == A!EachPrintedOnce

\* The program with ten rounds ends, with all of them handed over and all but
\* perhaps the last printed, unless a thread could not be created.
TenEnds == program = "flag" => A!TenEnds

\* Only a failed pthread_create leads a thread to a list that is gone.
OnlyCreateFailureEnds == C!OnlyCreateFailureEnds

\* With NDEBUG, where no lock is taken, what goes wrong needs two threads of
\* one side in the list at a time, or a failed pthread_create after which the
\* threads run on without it.
OnlyOwnSideRaces == E!OnlyOwnSideRaces
=============================================================================
