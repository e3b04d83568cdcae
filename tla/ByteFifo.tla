------------------------------ MODULE ByteFifo ------------------------------
(***************************************************************************)
(* What fixed_size_circular_list.h promises to a caller, with no buffer    *)
(* behind it: a queue of at most Capacity bytes.  A write takes as much of *)
(* the source as fits, a read takes as much as there is, and both return   *)
(* the number of bytes they moved.  CircularList implements this module.   *)
(***************************************************************************)
EXTENDS Integers, Sequences

CONSTANTS Capacity,    \* the size given to CListCreate
          Byte,        \* the values a byte can have
          MaxRequest   \* bound on the length of one request

VARIABLES queue,   \* the unread bytes, oldest first
          ret,     \* the number the last call returned
          given,   \* the bytes the last call was given to write
          dest     \* the bytes the last call copied out to its caller

vars == <<queue, ret, given, dest>>

Source == UNION {[1..n -> Byte] : n \in 0..MaxRequest}

Clip(n, limit) == IF n <= limit THEN n ELSE limit

Init ==
    /\ queue = <<>>
    /\ ret = 0
    /\ given = <<>>
    /\ dest = <<>>

Put(src) ==
    /\ ret' = Clip(Len(src), Capacity - Len(queue))
    /\ queue' = queue \o SubSeq(src, 1, ret')
    /\ given' = src
    /\ dest' = <<>>

Take(n) ==
    /\ ret' = Clip(n, Len(queue))
    /\ given' = <<>>
    /\ dest' = SubSeq(queue, 1, ret')
    /\ queue' = SubSeq(queue, ret' + 1, Len(queue))

Clear ==
    /\ queue' = <<>>
    /\ ret' = 0
    /\ given' = <<>>
    /\ dest' = <<>>

Next ==
    \/ \E src \in Source : Put(src)
    \/ \E n \in 0..MaxRequest : Take(n)
    \/ Clear

Spec == Init /\ [][Next]_vars
=============================================================================
