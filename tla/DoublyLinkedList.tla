--------------------------- MODULE DoublyLinkedList --------------------------
(***************************************************************************)
(* producer_consumer/doubly_linked_list.c: lists of nodes in one heap.     *)
(*                                                                         *)
(* heap maps the address of every allocated node to the node.  An iterator *)
(* is an address.  The two dummies of a list have addresses of their own,  *)
(* those of the members come from a pool that malloc draws from and free   *)
(* gives back to, so that an address is used again.                        *)
(*                                                                         *)
(* Callers keep to the header: a position they pass is in the list they    *)
(* name, nothing is popped or erased that is not there, a range goes       *)
(* forward, and what is spliced comes from another list and is not empty.  *)
(* call is the last call: the function, its arguments and its result.      *)
(***************************************************************************)
EXTENDS Integers, SequencesExt

CONSTANTS List,    \* the lists a caller uses
          Node,    \* bound: the addresses malloc can give to members
          Data,    \* what members can hold
          Null

\* list->head and list->tail
HeadOf(l) == <<l, "head">>
TailOf(l) == <<l, "tail">>

\* The dummies of a list have addresses that no member gets.
ASSUME DoublyLinkedListAssumption ==
    /\ IsFiniteSet(Node)
    /\ Null \notin Node \cup List \cup Data
    /\ \A l \in List : {HeadOf(l), TailOf(l)} \cap (Node \cup {Null}) = {}

VARIABLES created,   \* the lists that exist
          heap,
          call

vars == <<created, heap, call>>

Init ==
    /\ created = {}
    /\ heap = <<>>
    /\ call = [fn |-> "none"]

\* The heap h with a node more.
CreateNodeDll(h, address, next, pre, data) ==
    [a \in DOMAIN h \cup {address} |->
        IF a = address THEN [next |-> next, pre |-> pre, data |-> data] ELSE h[a]]

FreeNodes(S) == Restrict(heap, DOMAIN heap \ S)

\* The nodes that a loop "while (runner != to) runner = runner->next" visits.
\* In a broken list, where `to` is never met, it is cut off.
Path(from, to) ==
    LET bound == Cardinality(DOMAIN heap)
        runner[k \in 0..bound] ==
            IF k = 0 THEN from
            ELSE IF runner[k - 1] \in DOMAIN heap THEN heap[runner[k - 1]].next ELSE Null
        stops == {k \in 0..bound : runner[k] = to}
    IN  [k \in 1..(IF stops = {} THEN bound ELSE Min(stops)) |-> runner[k - 1]]

DLLBegin(l) == heap[HeadOf(l)].next
DLLEnd(l) == TailOf(l)
DLLIsEmpty(l) == DLLBegin(l) = TailOf(l)

\* The loop stops at the node whose next is NULL, the tail dummy.
DLLGetSize(l) == Len(Path(DLLBegin(l), Null)) - 1

\* Of three allocations any can fail, and those before it are freed.
DLLCreate(l) ==
    /\ l \notin created
    /\ \/ /\ heap' = CreateNodeDll(CreateNodeDll(heap, HeadOf(l), TailOf(l), Null, Null),
                                  TailOf(l), Null, HeadOf(l), Null)
          /\ created' = created \cup {l}
          /\ call' = [fn |-> "DLLCreate", list |-> l]
       \/ /\ call' = [fn |-> "DLLCreate", list |-> Null]
          /\ UNCHANGED <<created, heap>>

DLLDestroy(l) ==
    /\ heap' = FreeNodes(Range(Path(HeadOf(l), Null)))
    /\ created' = created \ {l}
    /\ call' = [fn |-> "DLLDestroy", list |-> l]

\* Mutant of Link: the way back still goes past the new node.
LinkForwardOnly(n, where, data) ==
    CreateNodeDll([heap EXCEPT ![heap[where].pre].next = n],
                  n, where, heap[where].pre, data)

\* A new node n with its two neighbours.
Link(n, where, data) ==
    CreateNodeDll([heap EXCEPT ![heap[where].pre].next = n, ![where].pre = n],
                  n, where, heap[where].pre, data)

\* args is the call of the function that calls InsertToList, as it is when it
\* returns NULL.
InsertToList(l, where, data, args) ==
    /\ \/ /\ where = HeadOf(l)
          /\ call' = [args EXCEPT !.iterator = TailOf(l)]
          /\ UNCHANGED heap
       \/ /\ where # HeadOf(l)
          /\ call' = args
          /\ UNCHANGED heap
       \/ /\ where # HeadOf(l)
          /\ \E n \in Node \ DOMAIN heap : /\ heap' = Link(n, where, data)
                                           /\ call' = [args EXCEPT !.iterator = n]
    /\ UNCHANGED created

DLLInsert(l, where, data) ==
    /\ ~DLLIsEmpty(l)
    /\ InsertToList(l, where, data,
           [fn |-> "DLLInsert", list |-> l, where |-> where, data |-> data, iterator |-> Null])

DLLPushFront(l, data) ==
    InsertToList(l, DLLBegin(l), data,
           [fn |-> "DLLPushFront", list |-> l, data |-> data, iterator |-> Null])

DLLPushBack(l, data) ==
    InsertToList(l, TailOf(l), data,
           [fn |-> "DLLPushBack", list |-> l, data |-> data, iterator |-> Null])

\* The heap without node n, whose neighbours are joined.
Unlink(n) ==
    [a \in DOMAIN heap \ {n} |->
        [heap[a] EXCEPT !.next = IF a = heap[n].pre THEN heap[n].next ELSE @,
                        !.pre = IF a = heap[n].next THEN heap[n].pre ELSE @]]

DLLErase(n) ==
    /\ heap' = Unlink(n)
    /\ call' = [fn |-> "DLLErase", where |-> n, iterator |-> heap[n].next]
    /\ UNCHANGED created

DLLPopFront(l) ==
    /\ heap' = Unlink(DLLBegin(l))
    /\ call' = [fn |-> "DLLPopFront", list |-> l]
    /\ UNCHANGED created

DLLPopBack(l) ==
    /\ heap' = Unlink(heap[TailOf(l)].pre)
    /\ call' = [fn |-> "DLLPopBack", list |-> l]
    /\ UNCHANGED created

\* Mutant of Relink: to->pre is read when it was already changed.
RelinkLate(where, from, to) ==
    [heap EXCEPT ![heap[from].pre].next = to,    ![to].pre = heap[from].pre,
                 ![heap[where].pre].next = from, ![from].pre = heap[where].pre,
                 ![heap[from].pre].next = where, ![where].pre = heap[from].pre]

\* The six stores of DLLSplice, in their order.
Relink(where, from, to) ==
    [heap EXCEPT ![heap[from].pre].next = to,    ![to].pre = heap[from].pre,
                 ![heap[where].pre].next = from, ![from].pre = heap[where].pre,
                 ![heap[to].pre].next = where,   ![where].pre = heap[to].pre]

DLLSplice(where, from, to) ==
    /\ heap' = Relink(where, from, to)
    /\ call' = [fn |-> "DLLSplice", where |-> where, from |-> from, to |-> to]
    /\ UNCHANGED created

\* The functions that look at a list, at an iterator.
Look(l) ==
    /\ call' = [fn |-> "look", list |-> l, empty |-> DLLIsEmpty(l),
                size |-> DLLGetSize(l), begin |-> DLLBegin(l), end |-> DLLEnd(l)]
    /\ UNCHANGED <<created, heap>>

LookAt(n) ==
    /\ call' = [fn |-> "look at", where |-> n, data |-> heap[n].data,
                next |-> heap[n].next, pre |-> heap[n].pre]
    /\ UNCHANGED <<created, heap>>

DLLFind(l, from, to, data) ==
    LET path == Path(from, to)
        hits == {k \in DOMAIN path : heap[path[k]].data = data}
    IN  /\ call' = [fn |-> "DLLFind", from |-> from, to |-> to, data |-> data,
                    iterator |-> IF hits = {} THEN DLLEnd(l) ELSE path[Min(hits)]]
        /\ UNCHANGED <<created, heap>>

\* The action fails for the data in bad, and the loop ends with it.
DLLForEach(from, to, bad) ==
    LET path  == Path(from, to)
        fails == {k \in DOMAIN path : heap[path[k]].data \in bad}
        calls == IF fails = {} THEN Len(path) ELSE Min(fails)
    IN  /\ call' = [fn |-> "DLLForEach", from |-> from, to |-> to, bad |-> bad,
                    visited |-> [k \in 1..calls |-> heap[path[k]].data],
                    failed |-> fails # {}]
        /\ UNCHANGED <<created, heap>>

\* The members of a list, and every position behind the head: where a caller
\* can have an iterator.
Members(l) == Path(DLLBegin(l), TailOf(l))
Positions(l) == Append(Members(l), TailOf(l))

Next ==
    \/ \E l \in List : DLLCreate(l)
    \/ \E l \in created :
         LET at == Positions(l)
         IN  \/ DLLDestroy(l) \/ Look(l)
             \/ \E d \in Data : \/ DLLPushFront(l, d)
                                \/ DLLPushBack(l, d)
                                \/ \E n \in Range(at) \cup {HeadOf(l)} : DLLInsert(l, n, d)
             \/ ~DLLIsEmpty(l) /\ (DLLPopFront(l) \/ DLLPopBack(l))
             \/ \E n \in Range(Members(l)) : DLLErase(n) \/ LookAt(n)
             \/ \E i, j \in DOMAIN at :
                  /\ i <= j
                  /\ \/ \E d \in Data : DLLFind(l, at[i], at[j], d)
                     \/ \E bad \in SUBSET Data : DLLForEach(at[i], at[j], bad)
             \/ \E k \in created \ {l}, i, j \in DOMAIN at :
                  /\ i < j
                  /\ \E where \in Range(Positions(k)) : DLLSplice(where, at[i], at[j])

Spec == Init /\ [][Next]_vars

-----------------------------------------------------------------------------
(* Properties *)

Address == Node \cup {HeadOf(l) : l \in List} \cup {TailOf(l) : l \in List}

\* Every variable has its type: a pointer is NULL or points to a node that is
\* allocated.
TypeOK ==
    /\ created \subseteq List
    /\ DOMAIN heap \subseteq Address
    /\ \A n \in DOMAIN heap :
         heap[n] \in [next : DOMAIN heap \cup {Null}, pre : DOMAIN heap \cup {Null},
                      data : Data \cup {Null}]

\* Every allocated node is in exactly one list, between its dummies, and
\* every list reads backwards as it reads forwards: no call, failed or not,
\* leaks a node, loses one from a list or puts it in two.
WellLinked ==
    /\ \A l \in created :
         LET nodes == Path(HeadOf(l), Null)
         IN  /\ Last(nodes) = TailOf(l)
             /\ heap[HeadOf(l)].pre = Null
             /\ \A i \in 2..Len(nodes) : heap[nodes[i]].pre = nodes[i - 1]
    /\ \A n \in DOMAIN heap :
         Cardinality({l \in created : n \in Range(Path(HeadOf(l), Null))}) = 1

\* The sequences behind the nodes: the members of the lists, and what they hold.
Contents == [l \in created |-> Members(l)]
Stored == [n \in DOMAIN heap \cap Node |-> heap[n].data]

Lists == INSTANCE IteratorLists WITH members <- Contents, data <- Stored

\* The nodes implement sequences of members with identity: an iterator stays
\* valid until its member is erased, and every function returns the position,
\* size or data that doubly_linked_list.h states, unless an allocation fails:
\* then, against the header, it returns NULL, and nothing has changed.
IsIteratorLists == Lists!Spec
=============================================================================
