---------------------------- MODULE CircularList ----------------------------
(***************************************************************************)
(* The circular buffer of producer_consumer/fixed_size_circular_list.c.    *)
(*                                                                         *)
(* Pointers are offsets from base.  Both cursors wrap lazily: a transfer   *)
(* that ends exactly at the end of the buffer leaves its cursor at offset  *)
(* Capacity, one past the last byte, until the next transfer that moves    *)
(* something.  A full and an empty buffer therefore cannot be told apart   *)
(* from the cursors, and number_of_unread_bytes (here unread) decides.     *)
(*                                                                         *)
(* Calls are atomic here: this is the list used by one thread at a time.   *)
(***************************************************************************)
EXTENDS Integers, Sequences

CONSTANTS Capacity,    \* the size given to CListCreate
          Byte,        \* the values a byte can have
          MaxRequest   \* bound on the length of one request

ASSUME CircularListAssumption ==
    /\ Capacity \in Nat
    /\ MaxRequest \in Nat

VARIABLES base,     \* the bytes of the buffer
          read,     \* offset of the read cursor
          write,    \* offset of the write cursor
          unread,   \* number_of_unread_bytes
          ret,      \* the number the last call returned
          given,    \* the bytes the last call was given to write
          dest      \* the bytes the last call copied out to its caller

vars == <<base, read, write, unread, ret, given, dest>>

Offset == 0..(Capacity - 1)

Source == UNION {[1..n -> Byte] : n \in 0..MaxRequest}

Clip(n, limit) == IF n <= limit THEN n ELSE limit

\* CListCreate: malloc leaves the bytes of the buffer indeterminate.
Init ==
    /\ base \in [Offset -> Byte]
    /\ read = 0
    /\ write = 0
    /\ unread = 0
    /\ ret = 0
    /\ given = <<>>
    /\ dest = <<>>

\* Mutant of Store: the second memcpy copies from src again, not from where
\* the first one stopped.
StoreSourceTwice(src, n, k) ==
    [i \in Offset |->
        IF write <= i /\ i < write + k THEN src[i - write + 1]
        ELSE IF i < n - k THEN src[i + 1]
        ELSE base[i]]

\* The buffer after two memcpy calls: bytes 1..k of src from the write cursor
\* on, the rest of the n bytes from offset 0 on.
Store(src, n, k) ==
    [i \in Offset |->
        IF write <= i /\ i < write + k THEN src[i - write + 1]
        ELSE IF i < n - k THEN src[k + i + 1]
        ELSE base[i]]

\* The n bytes two memcpy calls copy out: k from the read cursor, the rest
\* from offset 0 on.
Fetch(n, k) ==
    [i \in 1..n |-> IF i <= k THEN base[read + i - 1] ELSE base[i - k - 1]]

CListWrite(src) ==
    LET n        == Clip(Len(src), Capacity - unread)
        untilEnd == Capacity - write
    IN  /\ \/ /\ write + n <= Capacity
              /\ base' = Store(src, n, n)
              /\ write' = write + n
           \/ /\ write + n > Capacity
              /\ base' = Store(src, n, untilEnd)
              /\ write' = n - untilEnd
        /\ unread' = unread + n
        /\ ret' = n
        /\ given' = src
        /\ dest' = <<>>
        /\ UNCHANGED read

CListRead(request) ==
    LET n        == Clip(request, unread)
        untilEnd == Capacity - read
    IN  /\ \/ /\ read + n <= Capacity
              /\ dest' = Fetch(n, n)
              /\ read' = read + n
           \/ /\ read + n > Capacity
              /\ dest' = Fetch(n, untilEnd)
              /\ read' = n - untilEnd
        /\ unread' = unread - n
        /\ ret' = n
        /\ given' = <<>>
        /\ UNCHANGED <<base, write>>

CListClear ==
    /\ read' = 0
    /\ write' = 0
    /\ unread' = 0
    /\ ret' = 0
    /\ given' = <<>>
    /\ dest' = <<>>
    /\ UNCHANGED base

Next ==
    \/ \E src \in Source : CListWrite(src)
    \/ \E n \in 0..MaxRequest : CListRead(n)
    \/ CListClear

Spec == Init /\ [][Next]_vars

-----------------------------------------------------------------------------
(* Properties *)

\* Every variable has its type: both cursors stay inside the buffer or one
\* past its end, and the count of unread bytes never leaves 0..Capacity (a
\* size_t that went below zero would wrap).
TypeOK ==
    /\ base \in [Offset -> Byte]
    /\ read \in 0..Capacity
    /\ write \in 0..Capacity
    /\ unread \in 0..Capacity
    /\ ret \in 0..Capacity
    /\ given \in Source
    /\ dest \in Seq(Byte)

\* The three redundant fields agree: the write cursor is unread bytes ahead
\* of the read cursor, up to one lap.  The lazy wrap is what makes this
\* delicate: each cursor has two offsets for the same place.
CursorsAgree ==
    \/ write = read + unread
    \/ write + Capacity = read + unread

\* The offset of the i-th byte from a cursor on.
Slot(cursor, i) == IF cursor + i - 1 < Capacity THEN cursor + i - 1
                   ELSE cursor + i - 1 - Capacity

Unread == [i \in 1..unread |-> base[Slot(read, i)]]

Fifo == INSTANCE ByteFifo WITH queue <- Unread

\* The circular list is a bounded first-in first-out queue of bytes: "the
\* writer never overwrites data that the reader hasn't already read, and the
\* reader can only read data that has been written by the writer"
\* (fixed_size_circular_list.h:10-13), across every wrap of either cursor,
\* partial write, partial read and clear.
IsAFifo == Fifo!Spec
=============================================================================
