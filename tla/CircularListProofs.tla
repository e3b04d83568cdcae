------------------------- MODULE CircularListProofs -------------------------
(***************************************************************************)
(* The circular list is a bounded FIFO for every capacity, byte alphabet   *)
(* and bound on requests.  The invariant is TypeOK /\ CursorsAgree: without *)
(* CursorsAgree the position of the unread bytes is not determined and     *)
(* neither the bounds of the cursors nor the refinement can be shown.      *)
(***************************************************************************)
EXTENDS CircularList, SequenceTheorems, TLAPS

Inv == TypeOK /\ CursorsAgree

\* A source has a length within the bound, and bytes at every position.
LEMMA SourceType ==
    ASSUME NEW src \in Source
    PROVE  /\ src \in Seq(Byte)
           /\ Len(src) \in Nat
           /\ src = [i \in 1..Len(src) |-> src[i]]
           /\ \A i \in 1..Len(src) : src[i] \in Byte
  <1>1. PICK n \in 0..MaxRequest : src \in [1..n -> Byte]
    BY DEF Source
  <1>2. n \in Nat
    OBVIOUS
  <1>3. src \in Seq(Byte)
    BY <1>1, <1>2
  <1>. QED BY <1>3

\* Clipping a request gives a number within both the request and the limit.
LEMMA ClipBounds ==
    ASSUME NEW n \in Nat, NEW limit \in Nat
    PROVE  Clip(n, limit) \in Nat /\ Clip(n, limit) <= n /\ Clip(n, limit) <= limit
  BY DEF Clip

\* Storing n bytes of a source, the first k of them before the end of the
\* buffer, gives a buffer of bytes.
LEMMA StoreType ==
    ASSUME TypeOK, NEW src \in Source, NEW n \in Nat, NEW k \in Nat,
           k <= n, n <= Len(src), write + k <= Capacity
    PROVE  Store(src, n, k) \in [Offset -> Byte]
  <1>. SUFFICES ASSUME NEW i \in Offset
                PROVE  Store(src, n, k)[i] \in Byte
    BY DEF Store
  <1>0. /\ i \in Nat /\ write \in Nat /\ Len(src) \in Nat
        /\ base[i] \in Byte
        /\ \A j \in 1..Len(src) : src[j] \in Byte
    BY SourceType, CircularListAssumption DEF Offset, TypeOK
  <1>1. CASE write <= i /\ i < write + k
    <2>1. i - write + 1 \in 1..Len(src)
      BY <1>0, <1>1
    <2>. QED BY <1>0, <1>1, <2>1 DEF Store
  <1>2. CASE ~(write <= i /\ i < write + k) /\ i < n - k
    <2>1. k + i + 1 \in 1..Len(src)
      BY <1>0, <1>2
    <2>. QED BY <1>0, <1>2, <2>1 DEF Store
  <1>3. CASE ~(write <= i /\ i < write + k) /\ ~(i < n - k)
    BY <1>0, <1>3 DEF Store
  <1>. QED BY <1>1, <1>2, <1>3

\* Fetching n bytes, the first k of them before the end of the buffer, gives
\* a sequence of n bytes.
LEMMA FetchType ==
    ASSUME TypeOK, NEW n \in Nat, NEW k \in Nat,
           k <= n, read + k <= Capacity, n - k <= Capacity
    PROVE  Fetch(n, k) \in [1..n -> Byte] /\ Fetch(n, k) \in Seq(Byte)
  <1>1. \A i \in 1..n : Fetch(n, k)[i] \in Byte
    <2>. SUFFICES ASSUME NEW i \in 1..n PROVE Fetch(n, k)[i] \in Byte
      OBVIOUS
    <2>0. read \in Nat /\ \A j \in Offset : base[j] \in Byte
      BY CircularListAssumption DEF TypeOK
    <2>1. CASE i <= k
      <3>1. read + i - 1 \in Offset
        BY <2>0, <2>1, CircularListAssumption DEF Offset
      <3>. QED BY <2>0, <2>1, <3>1 DEF Fetch
    <2>2. CASE ~(i <= k)
      <3>1. i - k - 1 \in Offset
        BY <2>2, CircularListAssumption DEF Offset
      <3>. QED BY <2>0, <2>2, <3>1 DEF Fetch
    <2>. QED BY <2>1, <2>2
  <1>2. Fetch(n, k) \in [1..n -> Byte]
    BY <1>1 DEF Fetch
  <1>. QED BY <1>2

LEMMA NoBytes == <<>> \in Seq(Byte) /\ <<>> \in Source
  <1>1. <<>> \in [1..0 -> Byte] /\ 0 \in 0..MaxRequest
    BY CircularListAssumption
  <1>. QED BY <1>1 DEF Source

LEMMA WriteInv ==
    ASSUME Inv, NEW src \in Source, CListWrite(src)
    PROVE  Inv'
  <1>. DEFINE n == Clip(Len(src), Capacity - unread)
  <1>. USE CircularListAssumption
  <1>1. n \in Nat /\ n <= Len(src) /\ n <= Capacity - unread
    BY SourceType, ClipBounds DEF Inv, TypeOK
  <1>2. CASE /\ write + n <= Capacity
             /\ base' = Store(src, n, n)
             /\ write' = write + n
    <2>1. base' \in [Offset -> Byte]
      BY <1>1, <1>2, StoreType DEF Inv
    <2>2. /\ unread' = unread + n
          /\ ret' = n
          /\ given' = src
          /\ dest' = <<>>
          /\ read' = read
      BY DEF CListWrite
    <2>. HIDE DEF n
    <2>. QED BY <1>1, <1>2, <2>1, <2>2, NoBytes DEF Inv, TypeOK, CursorsAgree
  <1>3. CASE /\ write + n > Capacity
             /\ base' = Store(src, n, Capacity - write)
             /\ write' = n - (Capacity - write)
    <2>1. base' \in [Offset -> Byte]
      <3>1. /\ Capacity - write \in Nat
            /\ Capacity - write <= n
            /\ write + (Capacity - write) <= Capacity
        BY <1>1, <1>3 DEF Inv, TypeOK
      <3>. QED BY <1>1, <1>3, <3>1, StoreType DEF Inv
    <2>2. /\ unread' = unread + n
          /\ ret' = n
          /\ given' = src
          /\ dest' = <<>>
          /\ read' = read
      BY DEF CListWrite
    <2>. HIDE DEF n
    <2>. QED BY <1>1, <1>3, <2>1, <2>2, NoBytes DEF Inv, TypeOK, CursorsAgree
  <1>. QED BY <1>2, <1>3 DEF CListWrite

LEMMA ReadInv ==
    ASSUME Inv, NEW request \in 0..MaxRequest, CListRead(request)
    PROVE  Inv'
  <1>. DEFINE n == Clip(request, unread)
  <1>. USE CircularListAssumption
  <1>1. n \in Nat /\ n <= request /\ n <= unread
    <2>1. request \in Nat /\ unread \in Nat
      BY DEF Inv, TypeOK
    <2>. QED BY <2>1, ClipBounds
  <1>2. CASE /\ read + n <= Capacity
             /\ dest' = Fetch(n, n)
             /\ read' = read + n
    <2>1. dest' \in Seq(Byte)
      BY <1>1, <1>2, FetchType DEF Inv
    <2>2. /\ unread' = unread - n
          /\ ret' = n
          /\ given' = <<>>
          /\ base' = base
          /\ write' = write
      BY DEF CListRead
    <2>. HIDE DEF n
    <2>. QED BY <1>1, <1>2, <2>1, <2>2, NoBytes DEF Inv, TypeOK, CursorsAgree
  <1>3. CASE /\ read + n > Capacity
             /\ dest' = Fetch(n, Capacity - read)
             /\ read' = n - (Capacity - read)
    <2>1. dest' \in Seq(Byte)
      <3>1. /\ Capacity - read \in Nat
            /\ Capacity - read <= n
            /\ read + (Capacity - read) <= Capacity
            /\ n - (Capacity - read) <= Capacity
        BY <1>1, <1>3 DEF Inv, TypeOK
      <3>. QED BY <1>1, <1>3, <3>1, FetchType DEF Inv
    <2>2. /\ unread' = unread - n
          /\ ret' = n
          /\ given' = <<>>
          /\ base' = base
          /\ write' = write
      BY DEF CListRead
    <2>. HIDE DEF n
    <2>. QED BY <1>1, <1>3, <2>1, <2>2, NoBytes DEF Inv, TypeOK, CursorsAgree
  <1>. QED BY <1>2, <1>3 DEF CListRead

\* Typing and the agreement of the cursors hold in every reachable state.
THEOREM Invariance == Spec => [](TypeOK /\ CursorsAgree)
  <1>1. Init => Inv
    BY CircularListAssumption, NoBytes DEF Init, Inv, TypeOK, CursorsAgree
  <1>2. Inv /\ [Next]_vars => Inv'
    <2>. SUFFICES ASSUME Inv, [Next]_vars PROVE Inv'
      OBVIOUS
    <2>1. CASE \E src \in Source : CListWrite(src)
      BY <2>1, WriteInv
    <2>2. CASE \E n \in 0..MaxRequest : CListRead(n)
      BY <2>2, ReadInv
    <2>3. CASE CListClear
      BY <2>3, CircularListAssumption, NoBytes DEF CListClear, Inv, TypeOK, CursorsAgree
    <2>4. CASE UNCHANGED vars
      BY <2>4 DEF vars, Inv, TypeOK, CursorsAgree
    <2>. QED BY <2>1, <2>2, <2>3, <2>4 DEF Next
  <1>. QED BY <1>1, <1>2, PTL DEF Spec, Inv

-----------------------------------------------------------------------------
(* The refinement *)

\* The first Capacity bytes from a cursor on are inside the buffer.
LEMMA SlotType ==
    ASSUME NEW cursor \in 0..Capacity, NEW i \in 1..Capacity
    PROVE  Slot(cursor, i) \in Offset
  BY CircularListAssumption DEF Slot, Offset

\* The unread bytes are a sequence of unread bytes.
LEMMA UnreadSeq ==
    ASSUME Inv
    PROVE  /\ Unread \in Seq(Byte)
           /\ Len(Unread) = unread
           /\ DOMAIN Unread = 1..unread
           /\ \A i \in 1..unread : Unread[i] = base[Slot(read, i)]
  <1>1. /\ unread \in Nat /\ unread <= Capacity
        /\ read \in 0..Capacity
        /\ base \in [Offset -> Byte]
    BY CircularListAssumption DEF Inv, TypeOK
  <1>2. \A i \in 1..unread : Slot(read, i) \in Offset
    BY <1>1, SlotType, CircularListAssumption
  <1>3. \A i \in 1..unread : base[Slot(read, i)] \in Byte
    BY <1>1, <1>2
  <1>4. Unread = [i \in 1..unread |-> base[Slot(read, i)]]
    BY DEF Unread
  <1>5. Unread \in [1..unread -> Byte]
    BY <1>3, <1>4
  <1>. QED BY <1>1, <1>4, <1>5

\* The same of the next state.
LEMMA UnreadSeqNext ==
    ASSUME Inv'
    PROVE  /\ Unread' \in Seq(Byte)
           /\ Len(Unread') = unread'
           /\ DOMAIN Unread' = 1..unread'
           /\ \A i \in 1..unread' : Unread'[i] = base'[Slot(read', i)]
  <1>1. /\ unread' \in Nat /\ unread' <= Capacity
        /\ read' \in 0..Capacity
        /\ base' \in [Offset -> Byte]
    BY CircularListAssumption DEF Inv, TypeOK
  <1>2. \A i \in 1..unread' : Slot(read', i) \in Offset
    BY <1>1, SlotType, CircularListAssumption
  <1>3. \A i \in 1..unread' : base'[Slot(read', i)] \in Byte
    BY <1>1, <1>2
  <1>4. Unread' = [i \in 1..unread' |-> base'[Slot(read', i)]]
    BY DEF Unread
  <1>5. Unread' \in [1..unread' -> Byte]
    BY <1>3, <1>4
  <1>. QED BY <1>1, <1>4, <1>5

\* A write of n bytes, the first k of them before the end of the buffer,
\* leaves every unread byte where it is and puts the new ones behind them.
LEMMA StoreAppends ==
    ASSUME Inv, NEW src \in Source, NEW n \in Nat, NEW k \in Nat,
           n <= Len(src), n <= Capacity - unread,
           \/ k = n /\ write + n <= Capacity
           \/ k = Capacity - write /\ write + n > Capacity,
           NEW i \in 1..(unread + n)
    PROVE  Store(src, n, k)[Slot(read, i)] =
               IF i <= unread THEN base[Slot(read, i)] ELSE src[i - unread]
  <1>0. /\ unread \in Nat /\ read \in Nat /\ write \in Nat /\ Capacity \in Nat
        /\ read <= Capacity /\ write <= Capacity /\ unread <= Capacity
        /\ i \in Nat /\ i > 0 /\ i <= unread + n
        /\ write = read + unread \/ write + Capacity = read + unread
    BY CircularListAssumption DEF Inv, TypeOK, CursorsAgree
  <1>1. Slot(read, i) \in Nat /\ Slot(read, i) < Capacity /\ Slot(read, i) \in Offset
    BY <1>0 DEF Slot, Offset
  <1>2. CASE i <= unread
    <2>1. ~(write <= Slot(read, i) /\ Slot(read, i) < write + k)
      BY <1>0, <1>2 DEF Slot
    <2>2. ~(Slot(read, i) < n - k)
      BY <1>0, <1>2 DEF Slot
    <2>. QED BY <1>1, <1>2, <2>1, <2>2 DEF Store
  <1>3. CASE ~(i <= unread)
    <2>1. CASE write <= Slot(read, i) /\ Slot(read, i) < write + k
      <3>1. Slot(read, i) - write + 1 = i - unread
        BY <1>0, <1>3, <2>1 DEF Slot
      <3>. QED BY <1>1, <1>3, <2>1, <3>1 DEF Store
    <2>2. CASE ~(write <= Slot(read, i) /\ Slot(read, i) < write + k)
      <3>1. Slot(read, i) < n - k /\ k + Slot(read, i) + 1 = i - unread
        BY <1>0, <1>3, <2>2 DEF Slot
      <3>. QED BY <1>1, <1>3, <2>2, <3>1 DEF Store
    <2>. QED BY <2>1, <2>2
  <1>. QED BY <1>2, <1>3

LEMMA WriteRefines ==
    ASSUME Inv, NEW src \in Source, CListWrite(src)
    PROVE  Fifo!Put(src)
  <1>. DEFINE n == Clip(Len(src), Capacity - unread)
  <1>1. n \in Nat /\ n <= Len(src) /\ n <= Capacity - unread
    BY SourceType, ClipBounds, CircularListAssumption DEF Inv, TypeOK
  <1>2. /\ unread' = unread + n
        /\ ret' = n
        /\ given' = src
        /\ dest' = <<>>
        /\ read' = read
    BY DEF CListWrite
  <1>3. PICK k \in Nat : /\ \/ k = n /\ write + n <= Capacity
                            \/ k = Capacity - write /\ write + n > Capacity
                          /\ base' = Store(src, n, k)
    <2>1. Capacity - write \in Nat
      BY CircularListAssumption DEF Inv, TypeOK
    <2>. QED BY <1>1, <2>1 DEF CListWrite
  <1>4. Inv'
    BY WriteInv
  <1>. HIDE DEF n
  <1>5. unread \in Nat /\ Len(src) \in Nat
    BY SourceType DEF Inv, TypeOK
  <1>6. /\ Unread' \in Seq(Byte)
        /\ Len(Unread') = unread + n
        /\ \A i \in 1..(unread + n) : Unread'[i] = base'[Slot(read, i)]
    BY <1>2, <1>4, <1>5, UnreadSeqNext DEF Slot
  <1>7. \A i \in 1..(unread + n) :
            Unread'[i] = IF i <= unread THEN Unread[i] ELSE src[i - unread]
    <2>. SUFFICES ASSUME NEW i \in 1..(unread + n)
                  PROVE  Unread'[i] = IF i <= unread THEN Unread[i] ELSE src[i - unread]
      OBVIOUS
    <2>1. base'[Slot(read, i)] = IF i <= unread THEN base[Slot(read, i)] ELSE src[i - unread]
      BY <1>1, <1>3, StoreAppends
    <2>. QED BY <1>5, <1>6, <2>1, UnreadSeq
  <1>8. /\ SubSeq(src, 1, n) \in Seq(Byte)
        /\ Len(SubSeq(src, 1, n)) = n
        /\ \A i \in 1..n : SubSeq(src, 1, n)[i] = src[i]
    BY <1>1, <1>5, SourceType
  <1>9. Unread' = Unread \o SubSeq(src, 1, n)
    BY <1>1, <1>5, <1>6, <1>7, <1>8, UnreadSeq
  <1>10. n = Fifo!Clip(Len(src), Capacity - Len(Unread))
    BY UnreadSeq DEF n, Clip, Fifo!Clip
  <1>. QED BY <1>2, <1>9, <1>10 DEF Fifo!Put

\* What is left of a sequence without its first n elements.
LEMMA DropFirst ==
    ASSUME NEW S, NEW s \in Seq(S), NEW t \in Seq(S), NEW n \in Nat, n <= Len(s),
           Len(t) = Len(s) - n,
           \A i \in 1..Len(t) : t[i] = s[i + n]
    PROVE  t = SubSeq(s, n + 1, Len(s))
  <1>. DEFINE r == SubSeq(s, n + 1, Len(s))
  <1>1. r \in Seq(S) /\ Len(r) = Len(s) - n
    BY SubSeqProperties
  <1>2. \A i \in 1..Len(r) : r[i] = s[i + n]
    BY SubSeqProperties, <1>1
  <1>. HIDE DEF r
  <1>3. t = r
    BY <1>1, <1>2, SeqEqual
  <1>. QED BY <1>3 DEF r

\* A read of n bytes, the first k of them before the end of the buffer,
\* copies out the oldest n unread bytes.
LEMMA FetchOldest ==
    ASSUME Inv, NEW n \in Nat, NEW k \in Nat, n <= unread,
           \/ k = n /\ read + n <= Capacity
           \/ k = Capacity - read /\ read + n > Capacity,
           NEW i \in 1..n
    PROVE  Fetch(n, k)[i] = base[Slot(read, i)]
  <1>0. /\ unread \in Nat /\ read \in Nat /\ Capacity \in Nat
        /\ read <= Capacity /\ unread <= Capacity
        /\ i \in Nat /\ i > 0 /\ i <= n
    BY CircularListAssumption DEF Inv, TypeOK
  <1>1. Slot(read, i) = IF i <= k THEN read + i - 1 ELSE i - k - 1
    BY <1>0 DEF Slot
  <1>. QED BY <1>1 DEF Fetch

LEMMA ReadRefines ==
    ASSUME Inv, NEW request \in 0..MaxRequest, CListRead(request)
    PROVE  Fifo!Take(request)
  <1>. DEFINE n == Clip(request, unread)
  <1>0. request \in Nat /\ unread \in Nat /\ read \in Nat /\ Capacity \in Nat
        /\ read <= Capacity /\ unread <= Capacity
    BY CircularListAssumption DEF Inv, TypeOK
  <1>1. n \in Nat /\ n <= request /\ n <= unread
    BY <1>0, ClipBounds
  <1>2. /\ unread' = unread - n
        /\ ret' = n
        /\ given' = <<>>
        /\ base' = base
    BY DEF CListRead
  <1>3. PICK k \in Nat : /\ \/ k = n /\ read + n <= Capacity /\ read' = read + n
                            \/ /\ k = Capacity - read /\ read + n > Capacity
                               /\ read' = n - k
                         /\ dest' = Fetch(n, k)
    BY <1>0, <1>1 DEF CListRead
  <1>4. Inv'
    BY ReadInv
  <1>5. n = Fifo!Clip(request, Len(Unread))
    BY UnreadSeq DEF Clip, Fifo!Clip
  <1>. HIDE DEF n
  <1>6. dest' = SubSeq(Unread, 1, n)
    <2>1. \A i \in 1..n : Fetch(n, k)[i] = Unread[i]
      BY <1>0, <1>1, <1>3, FetchOldest, UnreadSeq
    <2>2. Fetch(n, k) = [i \in 1..n |-> Unread[i]]
      BY <2>1 DEF Fetch
    <2>. QED BY <1>0, <1>1, <1>3, <2>2, UnreadSeq
  <1>7. \A i \in 1..(unread - n) : Slot(read', i) = Slot(read, i + n)
    BY <1>0, <1>1, <1>3 DEF Slot
  <1>8. \A i \in 1..(unread - n) : Unread'[i] = Unread[i + n]
    <2>. SUFFICES ASSUME NEW i \in 1..(unread - n)
                  PROVE  Unread'[i] = Unread[i + n]
      OBVIOUS
    <2>1. i \in 1..unread' /\ i + n \in 1..unread
      BY <1>0, <1>1, <1>2
    <2>2. Unread'[i] = base'[Slot(read', i)]
      BY <1>4, <2>1, UnreadSeqNext
    <2>3. Unread[i + n] = base[Slot(read, i + n)]
      BY <2>1, UnreadSeq
    <2>. QED BY <1>2, <1>7, <2>2, <2>3
  <1>9. Unread' = SubSeq(Unread, n + 1, Len(Unread))
    BY <1>0, <1>1, <1>2, <1>4, <1>8, UnreadSeq, UnreadSeqNext, DropFirst
  <1>. QED BY <1>2, <1>5, <1>6, <1>9 DEF Fifo!Take

LEMMA ClearRefines ==
    ASSUME Inv, CListClear
    PROVE  Fifo!Clear
  <1>1. Unread' = <<>>
    BY DEF CListClear, Unread
  <1>. QED BY <1>1 DEF CListClear, Fifo!Clear

\* The circular buffer implements the bounded queue of bytes of its header:
\* no write damages an unread byte and reads return exactly what was
\* written, in order (fixed_size_circular_list.h:10-13), for every capacity.
THEOREM Refinement == Spec => IsAFifo
  <1>1. Init => Fifo!Init
    <2>. SUFFICES ASSUME Init PROVE Fifo!Init
      OBVIOUS
    <2>1. Unread = <<>>
      BY DEF Init, Unread
    <2>. QED BY <2>1 DEF Init, Fifo!Init
  <1>2. Inv /\ [Next]_vars => [Fifo!Next]_(Fifo!vars)
    <2>. SUFFICES ASSUME Inv, [Next]_vars PROVE [Fifo!Next]_(Fifo!vars)
      OBVIOUS
    <2>1. CASE \E src \in Source : CListWrite(src)
      <3>1. PICK src \in Source : CListWrite(src)
        BY <2>1
      <3>2. src \in Fifo!Source
        BY DEF Source, Fifo!Source
      <3>. QED BY <3>1, <3>2, WriteRefines DEF Fifo!Next
    <2>2. CASE \E n \in 0..MaxRequest : CListRead(n)
      BY <2>2, ReadRefines DEF Fifo!Next
    <2>3. CASE CListClear
      BY <2>3, ClearRefines DEF Fifo!Next
    <2>4. CASE UNCHANGED vars
      BY <2>4 DEF vars, Fifo!vars, Unread, Slot
    <2>. QED BY <2>1, <2>2, <2>3, <2>4 DEF Next
  <1>3. Spec => []Inv
    BY Invariance, PTL DEF Inv
  <1>. QED BY <1>1, <1>2, <1>3, PTL DEF Spec, IsAFifo, Fifo!Spec
=============================================================================
