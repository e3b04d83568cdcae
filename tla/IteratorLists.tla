---------------------------- MODULE IteratorLists ---------------------------
(***************************************************************************)
(* What a caller of the doubly linked list sees, with no pointers behind   *)
(* it: every list is a sequence of members, an iterator is a member or one *)
(* of the two places before and behind them all, and a member keeps its    *)
(* identity and its data until it is erased, whatever is inserted, erased  *)
(* or spliced around it.  DoublyLinkedList implements this module.         *)
(*                                                                         *)
(* That is what doubly_linked_list.h promises as long as there is memory.  *)
(* Without it the code does not keep to the header: see OutOfMemory.       *)
(*                                                                         *)
(* call is the last call of a caller: the function, its arguments and what *)
(* it returned.                                                            *)
(***************************************************************************)
EXTENDS Integers, SequencesExt

CONSTANTS List,    \* the lists a caller uses
          Node,    \* the members there can be at a time
          Data,    \* what members can hold
          Null

VARIABLES members,   \* created list -> the sequence of its members
          data,      \* member -> its data
          call

vars == <<members, data, call>>

Init ==
    /\ members = <<>>
    /\ data = <<>>
    /\ call = [fn |-> "none"]

BeforeBegin(l) == <<l, "head">>
End(l) == <<l, "tail">>

\* The iterator with index i.
At(l, i) == IF i = 0 THEN BeforeBegin(l)
            ELSE IF i > Len(members[l]) THEN End(l) ELSE members[l][i]

\* The members from index i up to, not including, index j.
Between(l, i, j) == SubSeq(members[l], i, j - 1)
FirstMatch(s, Test(_)) == SelectInSeq(s, LAMBDA n : Test(data[n]))

\* f with the value v at x as well.
Extend(f, x, v) == [y \in DOMAIN f \cup {x} |-> IF y = x THEN v ELSE f[y]]

Create(l) ==
    /\ l \notin DOMAIN members
    /\ call' = [fn |-> "DLLCreate", list |-> l]
    /\ members' = Extend(members, l, <<>>)
    /\ UNCHANGED data

Destroy(l) ==
    /\ call' = [fn |-> "DLLDestroy", list |-> l]
    /\ members' = Restrict(members, DOMAIN members \ {l})
    /\ data' = Restrict(data, DOMAIN data \ Range(members[l]))

\* Calls that insert, without the iterator that they return.
DLLInsert(l, i, d) ==
    [fn |-> "DLLInsert", list |-> l, where |-> At(l, i), data |-> d, iterator |-> Null]
DLLPushFront(l, d) == [fn |-> "DLLPushFront", list |-> l, data |-> d, iterator |-> Null]
DLLPushBack(l, d) == [fn |-> "DLLPushBack", list |-> l, data |-> d, iterator |-> Null]

\* A new member before the one with index i, whose iterator is returned.
InsertBefore(l, i, d, args) ==
    \E n \in Node \ DOMAIN data :
        /\ call' = [args EXCEPT !.iterator = n]
        /\ members' = [members EXCEPT ![l] = InsertAt(@, i, n)]
        /\ data' = Extend(data, n, d)

\* Nothing is inserted before the place in front of all members.
Insert(l, i, d) ==
    \/ i > 0 /\ InsertBefore(l, i, d, DLLInsert(l, i, d))
    \/ /\ i = 0
       /\ call' = [DLLInsert(l, i, d) EXCEPT !.iterator = End(l)]
       /\ UNCHANGED <<members, data>>

PushFront(l, d) == InsertBefore(l, 1, d, DLLPushFront(l, d))

PushBack(l, d) == InsertBefore(l, Len(members[l]) + 1, d, DLLPushBack(l, d))

\* Without memory nothing is changed, and the code departs from the header:
\* DLLCreate returns NULL, of which doubly_linked_list.h:34 says "Cannot be
\* NULL", and a call that inserts returns an iterator whose info is NULL, of
\* which the header says "pointing to the position of the new member".
OutOfMemory ==
    /\ \/ \E l \in List \ DOMAIN members : call' = [fn |-> "DLLCreate", list |-> Null]
       \/ \E l \in DOMAIN members, d \in Data :
            \/ call' = DLLPushFront(l, d)
            \/ call' = DLLPushBack(l, d)
            \/ \E i \in 1..(Len(members[l]) + 1) : call' = DLLInsert(l, i, d)
    /\ UNCHANGED <<members, data>>

RemoveMember(l, i) ==
    /\ members' = [members EXCEPT ![l] = RemoveAt(@, i)]
    /\ data' = Restrict(data, DOMAIN data \ {At(l, i)})

\* Erase returns the iterator behind the member that was erased.
Erase(l, i) ==
    /\ call' = [fn |-> "DLLErase", where |-> At(l, i), iterator |-> At(l, i + 1)]
    /\ RemoveMember(l, i)

PopFront(l) ==
    /\ call' = [fn |-> "DLLPopFront", list |-> l]
    /\ RemoveMember(l, 1)

PopBack(l) ==
    /\ call' = [fn |-> "DLLPopBack", list |-> l]
    /\ RemoveMember(l, Len(members[l]))

\* The members i..j-1 of l move before the member with index w of another list.
Splice(k, w, l, i, j) ==
    /\ call' = [fn |-> "DLLSplice", where |-> At(k, w), from |-> At(l, i), to |-> At(l, j)]
    /\ members' = [members EXCEPT ![k] = Between(k, 1, w) \o Between(l, i, j)
                                           \o Between(k, w, Len(@) + 1),
                                  ![l] = Between(l, 1, i) \o Between(l, j, Len(@) + 1)]
    /\ UNCHANGED data

\* What a caller sees of a list and of an iterator.
Look(l) ==
    /\ call' = [fn |-> "look", list |-> l, empty |-> members[l] = <<>>,
                size |-> Len(members[l]), begin |-> At(l, 1), end |-> End(l)]
    /\ UNCHANGED <<members, data>>

LookAt(l, i) ==
    /\ call' = [fn |-> "look at", where |-> At(l, i), data |-> data[At(l, i)],
                next |-> At(l, i + 1), pre |-> At(l, i - 1)]
    /\ UNCHANGED <<members, data>>

\* The first member of a range that holds d, or the end of the list.
Find(l, i, j, d) ==
    LET hit == FirstMatch(Between(l, i, j), LAMBDA x : x = d)
    IN  /\ call' = [fn |-> "DLLFind", from |-> At(l, i), to |-> At(l, j), data |-> d,
                    iterator |-> IF hit = 0 THEN End(l) ELSE At(l, i + hit - 1)]
        /\ UNCHANGED <<members, data>>

\* An action that fails for the data in bad is called for every member of a
\* range, up to the first failure.
ForEach(l, i, j, bad) ==
    LET fail == FirstMatch(Between(l, i, j), LAMBDA x : x \in bad)
        last == IF fail = 0 THEN j - 1 ELSE i + fail - 1
    IN  /\ call' = [fn |-> "DLLForEach", from |-> At(l, i), to |-> At(l, j), bad |-> bad,
                    visited |-> [k \in 1..(last - i + 1) |-> data[At(l, i + k - 1)]],
                    failed |-> fail # 0]
        /\ UNCHANGED <<members, data>>

Next ==
    \/ \E l \in List : Create(l)
    \/ OutOfMemory
    \/ \E l \in DOMAIN members :
         \/ Destroy(l) \/ Look(l)
         \/ \E d \in Data : PushFront(l, d) \/ PushBack(l, d)
         \/ \E d \in Data, i \in 0..(Len(members[l]) + 1) : Insert(l, i, d)
         \/ members[l] # <<>> /\ (PopFront(l) \/ PopBack(l))
         \/ \E i \in DOMAIN members[l] : Erase(l, i) \/ LookAt(l, i)
         \/ \E i, j \in 1..(Len(members[l]) + 1) :
              /\ i <= j
              /\ \/ \E d \in Data : Find(l, i, j, d)
                 \/ \E bad \in SUBSET Data : ForEach(l, i, j, bad)
         \/ \E k \in DOMAIN members \ {l}, i, j \in 1..(Len(members[l]) + 1) :
              /\ i < j
              /\ \E w \in 1..(Len(members[k]) + 1) : Splice(k, w, l, i, j)

Spec == Init /\ [][Next]_vars
=============================================================================
