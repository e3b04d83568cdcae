# A verification project for the C exercises

The repository is a collection of small concurrent and multi-process C
programs: producers and consumers in seven variants, a watchdog, a threaded
letter histogram, a threaded merge sort, ping-pong by signals and pipes, other
inter-process communication, and socket servers. This directory holds TLA+ models of
all programs that keep state or have actors that meet, the TLC runs
that check them, and TLAPS proofs of what matters most about them. All paths
below are relative to `src/` unless they end in `.tla` or `.cfg`.

To repeat a check: `tlc -config MCWatchdog.cfg MCWatchdog` for a run,
`tlapm CircularListProofs.tla` for a proof module. `PROJECT.json` lists every
run, mutant and theorem, and for every definition the lines it models.

## 1. The parts of the system

The programs do not call each other. What they share is code: the circular
list is used by `producer_consumer_e` and `_f`, the doubly linked list by
`_c` and `_d`.

| part | state | operations | how its actors interact | what is hard | what makes it correct |
|---|---|---|---|---|---|
| circular list (`producer_consumer/fixed_size_circular_list.c`) | buffer, two cursors, count of unread bytes | create, write, read, clear, size, destroy | called by threads under semaphores and locks | lazy wrap, cut requests, redundant fields | it is a bounded first-in first-out queue |
| doubly linked list (`doubly_linked_list.c`) | nodes between two dummies | push, pop, insert, erase, splice, find | called under a mutex | results that do not tell a failure; no check for empty | it is a sequence |
| `producer_consumer_a` (two programs), `_b` | a number and a flag | write, read | polling threads; `_b` adds a mutex | order of the two stores of the writer | no handover is printed twice, and none but perhaps the last is missed |
| `producer_consumer_c` | linked list, mutex | push, pop, create, destroy | polling consumers | failure paths free the list under running threads | no pop of an empty list, no use of a freed one |
| `producer_consumer_d` | linked list, mutex, semaphore | push, pop, create, join, destroy | semaphore posted outside the mutex | list and semaphore disagree between push and post; failed malloc; failure paths of main | no pop of an empty list |
| `producer_consumer_e` | circular list, mutex, two semaphores | write, read | 3 writers, 3 readers | locks inside `assert` | no byte is lost |
| `producer_consumer_f` | circular list, two mutexes, two semaphores | write, read | one writer, one reader | locks inside `assert`; the count is shared | the count stays in its bounds, nobody stops |
| `producer_consumer_g` | a number, mutex, condition variable, semaphore, count of readers | publish, read | the producer waits for its readers | posts that outlive a round, lost or spurious wakeups | a value is replaced after it was read by all |
| watchdog (`wd/wd.c`) | two processes: parameters, flags, environment, handlers | StartWd, heartbeat, check, restart, StopWd | signals, fork, execvp, environment | crash at any moment, late heartbeats, stop racing restart | one of each, restored after a crash, none after a stop that was heard |
| letter histogram (`histogram/mthisto.c`) | index of the next page, a histogram per thread, buffer of pointers, semaphore | count, hand over, add up | two mutexes and a semaphore | page boundaries, two locks around one buffer | every byte is counted once |
| merge sort (`mergesortmt/mergesortmt.c`) | array of words, part per thread | divide, sort, merge, write | threads share the array, join | remainder of the division, failing in the middle | parts are disjoint, output sorted, nothing lost |
| sum of divisors (`100k_thread/`) | range and sum per thread | sum | join; OpenMP inside the threads | racing additions, ranges | ranges are a partition |
| ping-pong with signals (`ping_pong/`) | a flag per process | wait, answer | SIGUSR1 | lost signals | strict alternation, nobody stops |
| ping-pong with pipes (`ipc/ping_pong2/`) | two pipes or fifos | write, read | blocking reads | end of the other process | strict alternation |
| message queue (`ipc/message_queue/`) | kernel queue | send, receive, remove | three processes | removal by one reader | no message is lost |
| shared memory (`ipc/shared_memory/`) | text and a flag | write, poll | three processes | flag left by an earlier run | no torn text is read |
| select server (`ipc/udp_tcp_server/`) | array of clients, sockets | accept, answer, console | clients | slot 0, full array | every open socket is in a slot |
| threaded server (`ipc/udp_tcp_server/hold/`) | chain of threads | accept, answer, join | thread per connection | join order, exit flag | it ends after exit |
| shell, restarter (`shell/shell.c`, `simple_watch_dog.c`) | input and arguments, a child | scan, parse, execute, restart | fork, execvp, wait | empty line, failing fork | what is run was typed |
| `TCP_UDP/`, `memory_map2/`, `before_c++/` | none | | | | not modelled: straight-line use of the C library |

The hazards of this code, each at its line and with the properties that watch
it, are listed in `PROJECT.json`.

## 2. The modules

Every component is one module. Those before `Histogram`, but for the two abstract ones, have an `MC` module
of the same name, which instantiates them for TLC, and a `Proofs` module with their theorems;
the programs from `Histogram` on are small and are
checked together in two composites, `MCThreads` and `MCProcesses`, and proved in `MCThreadsProofs` and
`MCProcessesProofs` (see below). Definitions have the names of the
functions they model. Where a function is more than one step (a thread's loop,
`StartWd`), its steps are named after what they do. Definitions that a
comment calls a *mutant* are wrong on purpose: each is a plausible bug, and the
property it is listed with in `PROJECT.json` fails when it takes the place of the right one. They
are in no specification.

### ByteFifo, CircularList
`ByteFifo` is what the header promises: a queue of at most `Capacity` bytes
whose writes and reads are cut to what fits. `CircularList` is the code, with pointers
as offsets. A cursor whose transfer ends at the end of the buffer stays there
(offset `Capacity`) until it has to move, so a place has two offsets. The
refinement mapping is `queue <- Unread`, the unread bytes from the read cursor on;
what the last call was `given`, what it returned (`ret`) and what it copied out
(`dest`) are the same in both, so a write that stores other bytes than it was given is
seen. `malloc` leaves the buffer undefined, so `Init` takes every content.

### IteratorLists, DoublyLinkedList
`IteratorLists` is what a caller sees: lists are sequences of members that
keep their identity. As long as there is memory that is what the header promises. Without
memory the code departs from it: `DLLCreate` returns NULL (`doubly_linked_list.c:37-73`), while
`doubly_linked_list.h:34` says that the result cannot be NULL, and an insertion returns an
iterator that holds NULL, where the header has it "pointing to the position of the new member". These results are an action of their own, `OutOfMemory`;
no other action has them. `DoublyLinkedList` is the code: one `heap` of nodes with `next`
and `pre`, several lists in it, every function one step with its pointer stores,
`malloc` a free address or a failure, `free` an address less. `call` records the last call
with its result in both, so the refinement also compares every result. Walks along
the list are `Path`. The refinement mapping is `members <- Contents`, the walk from the first member to the tail of
each list, and `data <- Stored`, what the members hold. Callers keep to the header, which excludes the pop of an
empty list. It does not say so of `DLLSplice` with an empty range (`from` equal to
`to`) or within one list; the first ties the two lists together, the second loses the range when
`where` is `to`. The model leaves both out, as no program of the repository splices.

### ProducerConsumerD
Each call of a thread on a mutex, a semaphore or the list is a step. The list is a sequence of the
producers' pointers. `PushFront` has three outcomes: done, out of memory (the
result is not `DLLEnd`, so the producer goes on as if it was done), and
undefined when the list was already freed. `CreateThread` and `JoinThreads`
contain the failure paths, each of which destroys the list.

### ProducerConsumerG
`pthread_cond_wait` is `Check` (releases the mutex and waits), `Read`'s wakeup or a
`SpuriousWakeup`, and `Relock`. The number of consumers is a parameter apart
from `MAX_CONSUMER`, because `CreateThreads` starts `MAX_PRODUCERS` of them.
`readings` is a history variable for what was printed.

### ProducerConsumerF
The constant `NDEBUG` says how it was built. Without it the first `Lock` aborts;
with it there are no locks, so that clipping, moving and the load and the store
of the shared count are steps of their own. The memory model is that of the
target: an aligned word is loaded and stored whole. The bytes themselves are left out, and
so are the two stores with which a cursor wraps (the cursor is its thread's own).

### Watchdog
A process is a record (see the head of the module); a pid is never used twice.
The kernel's part is in `Kill`, `Bury`, `Fork` and `Crash`. The actions of a
process follow `wd.c`: `StartWd` is `InitSigAction`, then `FirstStart` or
`NextStart` by the environment, then `AppCreateThread`. The scheduler's tasks are
`SendSignal` and `CheckSignal`; `Stop`, `UnsetEnv`, `RestartProc` and what the two
processes do after the fork (`ExecProc`, `RunWDProc`) follow `TSRun`. `SendStop` is taken
twice, once for each `kill`, with pids that may be anything: `StopWd` reads 32
bytes where `StartWd` stored 8. A zero names the process group, any other value nobody, and
either can happen in every run; `told` remembers that the group was told. A step that happens only
because a process is late by a whole period (`IsLate`: a period of three heartbeats was
not long enough for a heartbeat, a restart or a start of a program) counts as a disturbance, like a failing
`fork`, `execvp` or `pthread_create`. The constant `Faults` bounds crashes and `disturbances` together.

### Histogram
A page stands for its letters. The producer's loop is a step for each access of
shared state, the consumer's likewise. `FillLocalHistogram` kills the process
when the page is behind the end of the file. A buffer of the library `cbuffer`,
which is not in the repository, is a queue with atomic calls, as `mthisto.c` uses it.

### MergeSort
A thread is its stack of `QuickSort` calls; one call up to its own two calls
is a step. `MergeConv` is one step of main, when all threads are joined.

### FlagHandoff
`producer_consumer_a`, the program of the same name with a last number, and `_b` differ in
their loops only, so `handoff` chooses one of them. Each load of the flag and each store is
a step. `handed` and `printed` are history variables.

### ProducerConsumerC
The threads of `producer_consumer_d` without the semaphore. As nobody looks at the elements,
the list is its size and whether it is alive, freed or NULL. `main` destroys the list on
failure while threads run; whoever uses it then ends the behaviour with an
`outcome` that says how.

### ProducerConsumerE
`ndebug` is one of the initial choices. The list is its two cursors and its count,
accessed in the steps of `CListWrite` and `CListRead`. Two threads of one side in the list at once make the
outcome `"undefined"`; what a writer and a reader do to each other is followed. After a failed `pthread_create`, `Destroy` frees the
list and destroys the semaphores under the threads that exist already: whatever such a thread does next,
wherever it is, is undefined (`AfterDestroy`), but for the assert of a build without `NDEBUG`.

### SumOfDivisors
`checked` tells the two programs apart, `openmp` the two builds. Without OpenMP a
thread has one worker, with it two that share `sum`; an addition is a load and a store,
the ranges are those of the code (`Divisors` is the specification of one).

### PingPong, PingPongPipes
In `PingPong` a pending signal is one bit with the pid of its first sender; `dropped` and
`ahead` are history variables. In the setting `"terminals"` the first process can be killed
and started again. `PingPongPipes` has the pipes of one program and the fifos of two: who holds which
end (`spare`), the meeting in `open`, a read of one message or of all, SIGPIPE, a process that is killed.

### MessageQueue, SharedMemory
A step per system call of three programs that are started several times in any order, and the
kernel's part: identifiers, removal while somebody waits or is attached. In `SharedMemory` the
copy of the text is two steps, so that a torn text could be seen.

### SelectServer, ThreadedServer
`SelectServer` is the loop around `select`: one step for each descriptor that was ready, in the order of
the code, with the clients, the console and the network free to act between any two. `version` chooses between
`ipc/udp_tcp_server/` and the earlier `ipc/tcp_server.c`. `ThreadedServer` is the server in
`hold/`: `main`, the console and the datagram thread, and the chain in which each connection thread makes and
joins the next.

### Shell
A line is its words and the blanks around them, because `parse` turns blanks into ends of strings in
`input` itself and `fscanf` leaves `input` alone at an empty line: `Rest` is what remains there.
The restarter is the same fork, exec and wait in a loop without input.

### MCThreads, MCProcesses
Each is a set of programs that do not meet. The variable `program` says which of them runs;
its steps are the module's `Next`, and the other variables keep their initial values. The state space is the sum of
those of the programs, not their product, and one configuration asks one question of
all: is the work divided, handed over and put together correctly (`MCThreads`), and what do processes keep or
lose when others are killed, removed or come late (`MCProcesses`). What a program may
start with (a file, a build, a version) varies only while it is the one that runs. The
invariants of a program that does not run are those of its initial state. The theorems about these programs are
theorems about the composites' `Spec`: they state the very properties the runs check, and `StepOfOne` reduces a step of the
composite to a step of one program or a stutter of it.

## 3. The runs

| run | shows | bounds, and why they are enough |
|---|---|---|
| `circular_list` | the list implements `ByteFifo` | 4 bytes, requests of 0 to 5, two values: every offset of both cursors, both sides of every clipping and wrap, a request larger than the buffer |
| `linked_list` | no node leaked, lost or in two lists; no pointer to a freed node; the nodes implement `IteratorLists`, with and without memory | two lists and three members: a call writes the pointers of at most two neighbours, which are dummies or members, and a range of two can be spliced before a member or the end; symmetry in lists, members and data (safety only) |
| `pc_d` | list and semaphore match, no pop of an empty list unless a malloc failed, no second destroy while threads live | two threads of each kind (two pushes are posted out of order, two consumers race), three items, one failed malloc, every failure of `pthread_create` |
| `pc_d_memory` | violation: a failed malloc leads to a pop of an empty list | same |
| `pc_g` | posts are accounted for, no value is replaced early, every round ends | two consumers, two readings a round (the code's `MAX_CONSUMER`), two values, two spurious wakeups |
| `pc_f` | lost updates never take the count out of its bounds, tokens are kept, both threads go on | a buffer of 3 bytes: full, empty and every place of the cursors |
| `pc_f_assert` | violation: the assert around the first lock fails | same |
| `wd` | undisturbed, at most one program and one watchdog, recovery, and no restart after a stop that was heard; always, StopWd returns, waits only for who was told, and a replacement has the environment that makes it watched | four pids, and two crashes (either process dies at any step, then the replacement or the survivor) or one disturbance (any one call fails, or any one process is late, at any step); pids that name the group or nobody. The safety properties are proved for any number |
| `wd_stop` | violation: a program that returned from StopWd is started again | three pids, nothing else goes wrong |
| `wd_join` | violation: the thread that joins itself | two pids |
| `threads` | see below | see below |
| `processes` | see below | see below |

The properties of `threads`, by program (all invariants among them are also proved for any number, section 4):

| program | properties | bounds |
|---|---|---|
| histogram | `CountedOnce`, `TotalIsComplete` (and only finished histograms are read), `HistogramEnds` | three producers; a file of two and a half pages, and one of exactly two |
| sort | `NoOverlap`, `NothingLost` (even when a step fails), `WritesSorted`, `SortEnds` | every file of up to four lines of three words, up to three threads, one failure: no remainder, a remainder, a part of one word, 0 threads |
| sum of divisors | `PrintsSum` | 2, 4 and 12, up to three threads, two workers: more threads than numbers, ranges of one and several divisors, a remainder, one failure |
| flag | `EachPrintedOnce`, `TenEnds` | three rounds: the first, the last, and one between; every failure of `pthread_create` |
| `producer_consumer_c` | `OnlyCreateFailureEnds` | two threads of each kind, two items |
| `producer_consumer_e` | `OnlyOwnSideRaces` | two threads of each kind, a buffer of 3 bytes, every failure of `pthread_create` |

The properties of `processes`, by program (likewise):

| program | properties | bounds |
|---|---|---|
| ping-pong with signals | `InTurn`, `HangsOnlyByDrop` | the first process is started three times: a signal of the one before last can still be pending |
| ping-pong with pipes | `AtMostOneSwallowed`, `EndsTogether` | two processes, as in the code; either is killed |
| message queue | `LostOnlyByRemoval` | each of three programs started twice: a second removal, a queue made anew |
| shared memory | `PrintsWholeText` | the writer started twice, one kill: a flag of an earlier run meets a new copy |
| select server | `ClientsCannotEndIt`, `AnsweredUnlessBlocked` | two clients and two slots or one, one request each, two lines typed: a slot freed and taken again, a full array, a gone client before a live one |
| threaded server | `FrameOutlivesThreads` | two clients, a chain of three threads |
| shell, restarter | `RunsWhatWasTyped` | three lines of up to two words with and without blanks, two failures: a shorter line after a longer, an empty line after either, and after none |

Every property has a mutant of the code that breaks it. The
deadlock check is on in every run: where a program can end, or where it can wait for good, a disjunct
`Stopped` or `Finished` of its module says so.

### The violations
* `pc_d_memory`: `DLLPushFront` reports a failed malloc with an iterator that
  holds NULL; `producer_consumer_d.c:134` looks for `DLLEnd`. The semaphore is posted and
  a consumer pops the empty list, which `doubly_linked_list.h:203` excludes.
* `pc_f_assert`: `assert (pthread_mutex_lock (...))` asserts that the lock fails.
* `wd_stop`: `wd.h:24` says that `StopWd` stops the watchdog's action. The pids that `wd.c:426` reads lie beyond what
  `StartWd` stored. When both name nobody, neither process is told, `StopWd` returns, the program ends, and
  the watchdog starts it again. `NoRestartAfterStop` and its theorem are about the other case, in which a signal
  went to the group.
* `wd_join`: `wd.c:236` asserts that a thread can join itself.

### Fairness
* `pc_g`: weak fairness of each thread. No fairness of the mutex is needed: the producer
  waits with the mutex free, and the readings of a round are finite. A spurious
  wakeup is never forced.
* `pc_f`: weak fairness of each thread.
* `wd`: weak fairness of each kind of step of each process: its threads run, and both tasks of a
  scheduler are rescheduled until it is stopped. Crashing and calling `StopWd` are not
  fair: nothing makes them happen.
* `threads`, for `HistogramEnds` and `SortEnds`: weak fairness of each thread and of main. A producer
  that waits for the mutex can be overtaken, but only while there are pages left. For
  `TenEnds`: weak fairness of both polling threads and of main; neither thread blocks the other.
  The other properties of the run are invariants.
* `processes`, for `EndsTogether`: weak fairness of each process that is not blocked and not killed; for
  `AnsweredUnlessBlocked`: of the server's loop, never of a client.

## 4. What is proved

TLAPS checks these for every value of the constants that satisfies the named
assumption of the module (`CircularListAssumption`, `ThreadsAssumption`, `ProcessesAssumption` and so on: counts are natural
numbers, sets of threads are finite, sizes of buffers and pages are not 0, words are compared like
numbers). One theorem assumes more and says so: `PrintedTotalIsComplete` needs that there is a counting thread at all.
`NeverTwoOfAKind` and `StopIsFinal` of the watchdog assume nothing more; the properties themselves speak of the behaviour up
to the first disturbance, and `StopIsFinal` of the time after a signal of `StopWd` to the group.

Every safety invariant, action property and refinement that the runs check is proved. Hardly one of them is inductive. Each
program has an invariant of its own (`FlagInv`, `PollingInv`, ...), a conjunction of named parts, and the lemmas before
a theorem show for one action or one label at a time that the whole conjunction is kept.

* **Circular list** (`CircularListProofs`). `Invariance`: the inductive
  invariant is `TypeOK /\ CursorsAgree`; the types alone are not inductive, since the
  count stays below the capacity only by the clipping. `Refinement`: a write
  appends to `Unread` (`StoreAppends`: the stored bytes are read back through
  `Slot`, and no unread byte is overwritten), a read drops a prefix (`DropFirst`,
  `FetchOldest`), a clear empties it.
* **Doubly linked list** (`DoublyLinkedListProofs`). `WellLinked` speaks of walks, which any store could lead astray. The
  invariant `HeapInv` says instead that there are chains (`AreChains`): the nodes of every list are numbered, from the
  head to the tail with NULL behind it, every node has one number in one list, and points to the nodes with the
  number before and after its own (`IsChain`). A walk along a chain is its
  numbering (`PathIs`, by induction over the turns; `ChainFits` for the bound on them). The stores of `InsertToList`, `DLLErase` and
  `DLLSplice` are collected into what they do to each node (`LinkStores`, `UnlinkStores`, `RelinkStores`: none of the six of the
  splice undoes another, because the neighbours are apart). They change one chain or two at a place
  (`LinkChains`, `UnlinkChains`, `RelinkChains`), and leave the others alone (`ChainsChange`); the changed chains are the
  witness for the next state. `WellLinked` and `TypeOK` follow. For the refinement (`ListsAreSequences`) the members of the changed
  chains are what `InsertAt`, `RemoveAt` and the parts of a splice make of the sequences (`RowInserted`, `RowRemoved`,
  `RowSpliced`), and each function has a lemma that maps it to its operation with the same result (`InsertBeforeStep`,
  `SpliceStep`, ...; a failed `malloc` to `OutOfMemory`); `FindStep` and `ForEachStep` compare the place where a loop stops with the first match in the sequence.
* **producer_consumer_d**. The invariant joins the types, mutual exclusion, the
  balance of items and tokens, and what main knows of its threads. `TokensMatchItems` gives
  "no pop of an empty list": a consumer at the pop is itself counted on the
  right-hand side, so the list is not empty. `DestroyedTwiceOnlyAlone` needs
  that `JoinThreads` gets past the first join only when the first producer does not exist,
  and then no thread does. `ListIsLocked` is mutual exclusion.
* **producer_consumer_g**. `PostsAccountedFor` is inductive together with the types,
  mutual exclusion, and the two counts of readings agreeing while a round
  lasts; `NoOverwriteBeforeRead` follows, as the producer leaves a round only
  when all readings were counted.
* **producer_consumer_f**. `UnreadInBounds` is not inductive: with lost updates the
  count is no longer the number of bytes. What is: a thread's stale copy is in
  bounds as well, and is small enough (large enough) for the update that
  follows (`StaleCounts`, `RoomBefore`). The cursors and the semaphores need not
  agree with the count at all.
* **producer_consumer_a, _b** (`FlagInv`). The flag alone does not say whose turn it is: between
  the handover and the increment the consumer may have given it back. The invariant ties the number, the handovers
  and the printed sequence to where both threads are.
* **producer_consumer_c** (`PollingInv`). A failed `pthread_create` stays failed, so the invariant is that or a
  conjunction about the states without one: the list is alive, the mutex is held from the look to the pop, and main
  does not get past the join of the first producer.
* **producer_consumer_e** (`UnlockedInv`). Without locks, as long as one writer and one reader are in the list: a stale
  count errs to the safe side only (`StaleCounts`, `RoomBefore`, as in `producer_consumer_f`), and here the
  semaphores are needed as well: a byte of room or of data for every thread between its wait and its post
  (`TokensInUse`, a cardinality that each wait and post changes by one). A thread that runs on after a failed
  `pthread_create` ends all that, and the property says so.
* **Letter histogram** (`HistogramInv`). A page that was taken belongs to one producer; `Share` says when it is
  counted. From there the invariant follows the histogram: a pointer is in the buffer, in the consumer's hand or in
  the total, each in one of them (`Buffered`, `Added`); the tokens are as many as the pointers but for the one being
  written and the one being read (`Tokens`); and the total counts what the producers in `Added` counted (`Totalled`).
  That the consumer's loop ends with all of them is a count: `i` is the cardinality of `Added`.
  The bound on `FileSizes` is where the model is that of the code (section 5); the proof does not use it.
* **Sum of divisors** (`SumInv`). The model adds up finite sets of numbers with a recursive function over subsets that
  picks one at a time. `NatSetInduction`, from the well-foundedness of `<`, shows that the function exists, that the order does not
  matter (`SumRemoves`) and that disjoint sets add up (`Totals`). With them: what a thread has added and has still to add are
  the divisors of its range, and the ranges (`RangeOf`) are a partition, also when there are more threads than numbers
  and when the last one takes the remainder. With OpenMP the sum is a lower bound, and every divisor of it was counted once.
* **Multi-threaded sort** (`SortInv`). The loops of `QuickSort` and `MergeConv` are recursive functions over
  their turns, and what they compute is proved by induction over the turns: the first leaves a rearrangement with
  nothing greater on the left of the pivot and nothing smaller on its right (`PartitionSplits`), the second an ordered
  rearrangement of two ordered neighbours (`MergeConvSorts`). A rearrangement is a bijection of
  positions (`Rearranged`), from which the number of occurrences of each word follows. The invariant then has: the calls on the stack of
  a thread lie in its part, next to each other and not overlapping (`SortCalls`); two words of a part can be out of order only within one
  call that is still to be made (`SortPending`), so that an empty stack means an ordered part; the parts
  merged so far are in order (`SortMerged`); both arrays are rearrangements of the input (`SortContents`). `NoOverlap`,
  `NothingLost` and `WritesSorted` follow, for any words, lines, threads and failures.
* **Ping-pong with signals** (`SignalsInv`). While the first process was started once, exactly one of the two has the
  turn (`HasTurn`, `AheadOfTurn`). After that what remains true is that the newest process, its signal or the answer to
  it goes on unless a signal was dropped (`SignalsGoOn`), for which the second has to know the newest by a signal younger than those of
  its predecessors (`NewestLast`).
* **Ping-pong with pipes** (`PipesInv`). Messages under way and processes that are going to write are turns. There is
  one over pipes, and there are two over fifos, less one after two messages were read as one; a process that
  has ended takes its turn with it.
* **Message queue** (`QueueInv`). Every removed queue was removed by a reader of its own that got a text from it. With a
  counting argument over these readers there is always an identifier for a new queue, and a text that was
  sent is printed, in its queue, or lost with it.
* **Shared memory** (`MemoryInv`). The text of a segment only grows, a set flag means that it is whole, and no attached
  segment is destroyed, whichever process is killed between any two system calls.
* **Select server** (`SelectInv`). Slots name open descriptors, each once; an open descriptor without a slot was one too many
  for the array; connections in the backlog have no descriptor yet and `select` told the truth about them; only what was typed makes
  the console or the server end.
* **Threaded server** (`ChainInv`). `FrameOutlivesThreads` says nothing of the first thread before it accepts, nor of the
  thread about to be made; with `ChainLastMade`, `ChainHasSuccessor` and `ChainNoneBeforeMain` it is inductive.
* **Shell, restarter** (`ShellInv`). How many lines were executed at every step, and what is in `input` and `argv` while an
  empty line is in front: the first word of the line before, which is run once more.
* **Watchdog** (`WatchdogProofs`). Without any assumption on lateness, each process is `Sound`: it has
  the environment, the handlers and the kind of main thread that its loop needs. Each child is `Related` to its
  parent: a clone that is about to become a program, and would forget the signal to stop, either has no
  handler for it (and is killed by it) or has a parent with no main thread that could wait. And `Told`: who waits and
  whose parent waits has the signal. `ChangeKeepsBase`, `BirthKeepsBase` and `AfterKeepsBase` show it for
  one process that changes, a fork, and processes that end, and each action is one of the three.
  `ReplacementIsWatched` and `WaitsOnlyForTheTold` follow.
  As long as nothing disturbed it (`Faithful`) the system has at most two living processes, and each of two is what the other takes it for (`Twosome`: a `Couple` is the
  program that a watchdog watches, `ProgramOf`, and the watchdog of that program, `WatchdogOf`; `Role` says what a process alone
  can be). Both were told to stop or neither, so a process that looks for a signal and has none is
  alone (`OtherSignals`), and what it starts is the second. Once a signal of `StopWd` went to the group (`told`) no process is left that
  is about to become a program (`AllTold`). `NeverTwoOfAKind` and `StopIsFinal` follow, for any number of crashes and pids.

Only model-checked are that no run deadlocks, and all liveness (`EveryRoundEnds`, `BothGoOn`, `Recovers`, `StopReturns`,
`HistogramEnds`, `SortEnds`, `TenEnds`, `EndsTogether`, `AnsweredUnlessBlocked`): both are about `ENABLED`, which the prover does
not reach.

## 5. What is left out

* Calls that can only fail when they are misused (mutexes, semaphores), and output.
* In `Watchdog`: failing allocations, `setenv`, `sigaction`; reuse of a pid; stopped processes.
* In `Histogram`: allocations and `mmap` succeed. `Alloction` (`mthisto.c:73`) runs before the number of
  segments is known and allocates one pointer; the model is of files whose
  pointers fit into the block that the allocator gives nevertheless.
* In `MergeSort`: file operations and allocations before the threads succeed.
* In `ProducerConsumerG` and `_F`: main, whose failure paths are those of
  `ProducerConsumerD` and `_E`.
* In `ProducerConsumerE`: what two threads of one side do to the buffer at once, and what a thread does that runs on
  after the list was freed. Both are undefined, and the behaviour ends there.
* `PingPongPipes` and `ThreadedServer` are the builds with the asserts in; without them the writes and
  the joins would be gone with their asserts.
* In `SelectServer`: failing `send` and `recv` other than by a client that has gone, interrupted `select`. A client
  behind one that has gone can starve in the version `"tcp"`; the property excepts it.
* In `Shell`: lines that do not fit into `input` and `argv`, commands that read the shell's stdin, and the
  failures of `getpwuid` and `uname` before the loop.
* `100k_thread/thread_to_understand.c`: threads that store their number and are not joined, no result.
* Not modelled: `TCP_UDP/` and the clients in `ipc/udp_tcp_server/hold/` (one request and its answer after the other, with
  no state but the descriptor), `memory_map2/`, `before_c++/` and `shell/test.c` (what a linker and a compiler do with a
  variable).
* The libraries `ds/` (scheduler), `cbuffer` and `logger` are not in the repository.

## 6. Plan

Done: every program of the table above but those of its last line is modelled, and every safety property is
proved. What could follow:

1. Deadlock: for each module a predicate that says which guards can hold, checked by TLC to be what `ENABLED` is of its
   next-state relation, and a proof that it holds always.
2. What the liveness properties rest on: the measures that every step of a fair thread makes smaller.
