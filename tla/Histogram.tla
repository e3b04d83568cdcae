------------------------------ MODULE Histogram ----------------------------
(***************************************************************************)
(* histogram/mthisto.c: producers take the pages of a file from a shared   *)
(* index and count letters into histograms of their own; each one that     *)
(* finds no page left puts the address of its histogram into a circular    *)
(* buffer, and one consumer adds them all up.                              *)
(*                                                                         *)
(* A page stands for its letters: a histogram says how often each page was *)
(* counted.  The buffer is a queue of producers, by whose histograms its   *)
(* pointers are known; it has room for one pointer of each.  Producers use *)
(* it under g_lock_segments_arr and the consumer under g_lock_buffer, so   *)
(* that nothing keeps a write and a read apart: each call is one step.     *)
(* Allocations, mmap and the calls of pthread succeed.  Alloction runs     *)
(* before the number of segments is known and makes file_segments_arr one  *)
(* pointer long; the files here have at most two whole pages, so that the  *)
(* pointers still fit into the block of 24 bytes glibc gives for it.       *)
(***************************************************************************)
EXTENDS Integers, Sequences

CONSTANTS NumOfProducers,   \* argv[1]
          FileSizes,        \* the sizes, in bytes, a file may have
          PageSize          \* g_size_of_segment

HistogramAssumption ==
    /\ NumOfProducers \in Nat
    /\ PageSize \in Nat \ {0}
    /\ FileSizes \subseteq 0..(3 * PageSize - 1)

Producer == 1..NumOfProducers

VARIABLES g_i_segment_arr,
          lock,             \* of g_lock_segments_arr: its holder, 0 if free
          pc,               \* of each producer
          segment,          \* the segment_ptr of each producer
          personal_histo,   \* of each producer: Segment -> how often counted
          g_bucket_histo,
          g_histo_to_read,  \* value of the semaphore
          consumer, i,      \* the consumer's place and loop counter
          current,          \* the producer whose histogram the consumer read
          g_total_histo,
          size_of_file,
          main              \* joining, done, or killed by SIGBUS

vars == <<g_i_segment_arr, lock, pc, segment, personal_histo, g_bucket_histo,
          g_histo_to_read, consumer, i, current, g_total_histo, size_of_file, main>>

consumerVars == <<consumer, i, current, g_total_histo>>

num_of_segments == size_of_file \div PageSize

\* The segments MapFileSegments maps: one more than there are whole pages.
Segment == 0..num_of_segments

\* The segments that hold a byte of the file.
Page == {s \in Segment : s * PageSize < size_of_file}

Empty == [s \in Segment |-> 0]

Init ==
    /\ size_of_file \in FileSizes
    /\ g_i_segment_arr = -1
    /\ lock = 0
    /\ pc = [p \in Producer |-> "lock"]
    /\ segment = [p \in Producer |-> 0]
    /\ personal_histo = [p \in Producer |-> Empty]
    /\ g_bucket_histo = <<>>
    /\ g_histo_to_read = 0
    /\ consumer = "loop"
    /\ i = 0
    /\ current = 0
    /\ g_total_histo = Empty
    /\ main = "join"

Running == main = "join"

Goto(p, label) == pc' = [pc EXCEPT ![p] = label]

-----------------------------------------------------------------------------
(* CountCharInSegment *)

\* Mutant of LockSegments: the lock is taken without waiting for it.
LockSegmentsUnheld(p) ==
    /\ Running /\ pc[p] = "lock"
    /\ lock' = p
    /\ Goto(p, "take")
    /\ UNCHANGED <<g_i_segment_arr, segment, personal_histo, g_bucket_histo,
                   g_histo_to_read, consumerVars, size_of_file, main>>

LockSegments(p) ==
    /\ Running /\ pc[p] = "lock"
    /\ lock = 0 /\ lock' = p
    /\ Goto(p, "take")
    /\ UNCHANGED <<g_i_segment_arr, segment, personal_histo, g_bucket_histo,
                   g_histo_to_read, consumerVars, size_of_file, main>>

\* ++g_i_segment_arr is a load and a store; the lock keeps them together.
TakeSegment(p) ==
    /\ Running /\ pc[p] = "take"
    /\ g_i_segment_arr' = g_i_segment_arr + 1
    /\ Goto(p, "choose")
    /\ UNCHANGED <<lock, segment, personal_histo, g_bucket_histo,
                   g_histo_to_read, consumerVars, size_of_file, main>>

\* Mutant of Choose: <= in the test for the end, the last segment is left out.
ChooseTooFew(p) ==
    /\ Running /\ pc[p] = "choose"
    /\ IF num_of_segments <= g_i_segment_arr
       THEN Goto(p, "write") /\ UNCHANGED segment
       ELSE /\ segment' = [segment EXCEPT ![p] = g_i_segment_arr]
            /\ Goto(p, "unlock")
    /\ UNCHANGED <<g_i_segment_arr, lock, personal_histo, g_bucket_histo,
                   g_histo_to_read, consumerVars, size_of_file, main>>

Choose(p) ==
    /\ Running /\ pc[p] = "choose"
    /\ IF num_of_segments < g_i_segment_arr
       THEN Goto(p, "write") /\ UNCHANGED segment
       ELSE /\ segment' = [segment EXCEPT ![p] = g_i_segment_arr]
            /\ Goto(p, "unlock")
    /\ UNCHANGED <<g_i_segment_arr, lock, personal_histo, g_bucket_histo,
                   g_histo_to_read, consumerVars, size_of_file, main>>

UnlockAndCount(p) ==
    /\ Running /\ pc[p] = "unlock"
    /\ lock = p /\ lock' = 0
    /\ Goto(p, "count")
    /\ UNCHANGED <<g_i_segment_arr, segment, personal_histo, g_bucket_histo,
                   g_histo_to_read, consumerVars, size_of_file, main>>

\* Reads a whole segment.  A mapped page that begins at or after the end of
\* the file cannot be read: the process gets SIGBUS.
FillLocalHistogram(p) ==
    /\ Running /\ pc[p] = "count"
    /\ IF segment[p] \in Page
       THEN /\ personal_histo' = [personal_histo EXCEPT ![p][segment[p]] = @ + 1]
            /\ Goto(p, "lock")
            /\ UNCHANGED main
       ELSE main' = "killed" /\ UNCHANGED <<personal_histo, pc>>
    /\ UNCHANGED <<g_i_segment_arr, lock, segment, g_bucket_histo,
                   g_histo_to_read, consumerVars, size_of_file>>

\* CBufferWrite and sem_post, in the critical section.
WriteHistogram(p) ==
    /\ Running /\ pc[p] = "write"
    /\ g_bucket_histo' = Append(g_bucket_histo, p)
    /\ Goto(p, "post")
    /\ UNCHANGED <<g_i_segment_arr, lock, segment, personal_histo,
                   g_histo_to_read, consumerVars, size_of_file, main>>

Post(p) ==
    /\ Running /\ pc[p] = "post"
    /\ g_histo_to_read' = g_histo_to_read + 1
    /\ Goto(p, "leave")
    /\ UNCHANGED <<g_i_segment_arr, lock, segment, personal_histo,
                   g_bucket_histo, consumerVars, size_of_file, main>>

\* Mutant of Leave: the producer returns without pthread_mutex_unlock.
LeaveLocked(p) ==
    /\ Running /\ pc[p] = "leave"
    /\ Goto(p, "done")
    /\ UNCHANGED <<g_i_segment_arr, lock, segment, personal_histo, g_bucket_histo,
                   g_histo_to_read, consumerVars, size_of_file, main>>

Leave(p) ==
    /\ Running /\ pc[p] = "leave"
    /\ lock = p /\ lock' = 0
    /\ Goto(p, "done")
    /\ UNCHANGED <<g_i_segment_arr, segment, personal_histo, g_bucket_histo,
                   g_histo_to_read, consumerVars, size_of_file, main>>

-----------------------------------------------------------------------------
(* CalcSumOfHisto *)

WaitForHistogram ==
    /\ Running /\ consumer = "loop"
    /\ IF i < NumOfProducers
       THEN /\ g_histo_to_read > 0
            /\ g_histo_to_read' = g_histo_to_read - 1
            /\ consumer' = "read"
       ELSE consumer' = "done" /\ UNCHANGED g_histo_to_read
    /\ UNCHANGED <<g_i_segment_arr, lock, pc, segment, personal_histo,
                   g_bucket_histo, i, current, g_total_histo, size_of_file, main>>

\* CBufferRead, which the assert expects to give a whole pointer.
ReadHistogram ==
    /\ Running /\ consumer = "read"
    /\ IF g_bucket_histo = <<>>
       THEN consumer' = "assert" /\ UNCHANGED <<current, g_bucket_histo>>
       ELSE /\ current' = Head(g_bucket_histo)
            /\ g_bucket_histo' = Tail(g_bucket_histo)
            /\ consumer' = "add"
    /\ UNCHANGED <<g_i_segment_arr, lock, pc, segment, personal_histo,
                   g_histo_to_read, i, g_total_histo, size_of_file, main>>

AddHistogram ==
    /\ Running /\ consumer = "add"
    /\ g_total_histo' = [s \in Segment |-> g_total_histo[s] + personal_histo[current][s]]
    /\ i' = i + 1
    /\ consumer' = "loop"
    /\ UNCHANGED <<g_i_segment_arr, lock, pc, segment, personal_histo,
                   g_bucket_histo, g_histo_to_read, current, size_of_file, main>>

-----------------------------------------------------------------------------

\* main joins every thread, destroys what they shared, and prints the total.
JoinAndPrint ==
    /\ Running
    /\ \A p \in Producer : pc[p] = "done"
    /\ consumer = "done"
    /\ main' = "printed"
    /\ UNCHANGED <<g_i_segment_arr, lock, pc, segment, personal_histo,
                   g_bucket_histo, g_histo_to_read, consumerVars, size_of_file>>

Stopped == ~Running /\ UNCHANGED vars

Produce(p) ==
    LockSegments(p) \/ TakeSegment(p) \/ Choose(p) \/ UnlockAndCount(p)
    \/ FillLocalHistogram(p) \/ WriteHistogram(p) \/ Post(p) \/ Leave(p)

Consume == WaitForHistogram \/ ReadHistogram \/ AddHistogram

Next == (\E p \in Producer : Produce(p)) \/ Consume \/ JoinAndPrint \/ Stopped

\* Threads run; a producer waiting for the lock may be overtaken, but not for
\* ever, because the others run out of segments.
Spec ==
    /\ Init /\ [][Next]_vars
    /\ \A p \in Producer : WF_vars(Produce(p))
    /\ WF_vars(Consume) /\ WF_vars(JoinAndPrint)

-----------------------------------------------------------------------------
(* Properties *)

\* Every variable has its type.
TypeOK ==
    /\ size_of_file \in FileSizes
    /\ g_i_segment_arr \in -1..(num_of_segments + NumOfProducers)
    /\ lock \in 0..NumOfProducers
    /\ pc \in [Producer -> {"lock", "take", "choose", "unlock", "count", "write",
                            "post", "leave", "done"}]
    /\ segment \in [Producer -> Segment]
    /\ personal_histo \in [Producer -> [Segment -> Nat]]
    /\ g_bucket_histo \in Seq(Producer)
    /\ g_histo_to_read \in Nat
    /\ consumer \in {"loop", "read", "add", "assert", "done"}
    /\ i \in 0..NumOfProducers
    /\ current \in 0..NumOfProducers
    /\ g_total_histo \in [Segment -> Nat]
    /\ main \in {"join", "printed", "killed"}

\* How often a producer has counted a segment, or will: it has counted it, is
\* about to take it, or has taken it.
Share(p, s) ==
    personal_histo[p][s]
        + (IF \/ pc[p] = "choose" /\ g_i_segment_arr = s
              \/ pc[p] \in {"unlock", "count"} /\ segment[p] = s
           THEN 1 ELSE 0)

\* A segment belongs to one producer, from the index on until it is counted,
\* and is counted once: nothing is lost or counted twice on the way.
CountedOnce ==
    \A s \in Page :
        IF s <= g_i_segment_arr
        THEN \E p \in Producer : \A q \in Producer : Share(q, s) = (IF q = p THEN 1 ELSE 0)
        ELSE \A q \in Producer : Share(q, s) = 0

\* The consumer always finds the pointer it was told of, and what it adds is
\* the histogram of a producer that will not change it any more.
ReadsFinishedHistograms ==
    /\ consumer # "assert"
    /\ consumer = "add" => pc[current] \in {"post", "leave", "done"}

\* The consumer adds finished histograms only, and the total that is printed
\* counts every byte of the file, once.
TotalIsComplete ==
    /\ ReadsFinishedHistograms
    /\ main = "printed" => g_total_histo = [s \in Segment |-> IF s \in Page THEN 1 ELSE 0]

\* The program prints the total of every file that ends inside a page; the
\* others kill it.
Ends == <>(IF size_of_file % PageSize # 0 THEN main = "printed" ELSE main = "killed")
=============================================================================
