---------------------- MODULE ProducerConsumerFProofs ----------------------
(***************************************************************************)
(* Proofs about ProducerConsumerF: whatever updates of the count are lost, *)
(* it stays within the buffer, and no token of the semaphores is lost.     *)
(***************************************************************************)
EXTENDS ProducerConsumerF, TLAPS

USE DEF Thread, At, Goto

\* Between its clipping and its load a thread finds room for what it moves:
\* the other thread can only make more of it.
RoomBefore ==
    /\ pc["writer"] \in {"move", "load"} => unread + n["writer"] <= Capacity
    /\ pc["reader"] \in {"move", "load"} => n["reader"] <= unread

\* Between its load and its store a thread holds a count that is out of date
\* in one direction only.
StaleCounts ==
    /\ pc["writer"] = "store" => /\ unread <= count["writer"]
                                 /\ count["writer"] + n["writer"] <= Capacity
    /\ pc["reader"] = "store" => /\ count["reader"] <= unread
                                 /\ n["reader"] <= count["reader"]

IInv == TypeOK /\ UnreadInBounds /\ TokensConserved /\ RoomBefore /\ StaleCounts

\* A cursor stays in the buffer when at most one byte is moved.
LEMMA AdvanceInBuffer ==
    \A c \in 0..Capacity, b \in {0, 1} : Advance(c, b) \in 0..Capacity
  BY ProducerConsumerFAssumption DEF Advance

LEMMA InitInv == Init => IInv
<1> SUFFICES ASSUME Init PROVE IInv
  OBVIOUS
<1>1. pc["writer"] = "wait" /\ pc["reader"] = "wait"
  BY DEF Init
<1>2. TypeOK /\ UnreadInBounds
  <2>1. pc \in [Thread -> {"wait", "lock", "clip", "move", "load", "store", "post"}]
    BY DEF Init
  <2>2. n \in [Thread -> {0, 1}] /\ count \in [Thread -> Int]
    BY DEF Init
  <2>3. /\ free_space_to_write \in 0..Capacity /\ avliable_to_read \in 0..Capacity
        /\ write \in 0..Capacity /\ read \in 0..Capacity /\ unread \in 0..Capacity
    BY ProducerConsumerFAssumption DEF Init
  <2>4. aborted \in BOOLEAN
    BY Zenon DEF Init
  <2> QED BY <2>1, <2>2, <2>3, <2>4 DEF TypeOK, UnreadInBounds
<1>3. TokensConserved
  BY <1>1, ProducerConsumerFAssumption DEF Init, TokensConserved, Inside
<1>4. RoomBefore /\ StaleCounts
  BY <1>1 DEF RoomBefore, StaleCounts
<1> QED BY <1>2, <1>3, <1>4 DEF IInv

LEMMA StepInv == IInv /\ [Next]_vars => IInv'
<1> SUFFICES ASSUME IInv, [Next]_vars PROVE IInv'
  OBVIOUS
<1> USE ProducerConsumerFAssumption
        DEF IInv, TypeOK, UnreadInBounds, TokensConserved, Inside, RoomBefore, StaleCounts
<1>1. ASSUME NEW t \in Thread, Wait(t) PROVE IInv'
  <2>1. CASE t = "writer"
    BY <1>1, <2>1 DEF Wait
  <2>2. CASE t = "reader"
    BY <1>1, <2>2 DEF Wait
  <2> QED BY <2>1, <2>2
<1>2. ASSUME NEW t \in Thread, Lock(t) PROVE IInv'
  <2>1. CASE t = "writer"
    BY <1>2, <2>1 DEF Lock
  <2>2. CASE t = "reader"
    BY <1>2, <2>2 DEF Lock
  <2> QED BY <2>1, <2>2
<1>3. ASSUME NEW t \in Thread, Clip(t) PROVE IInv'
  <2>1. CASE t = "writer"
    BY <1>3, <2>1 DEF Clip, AtMostOne
  <2>2. CASE t = "reader"
    BY <1>3, <2>2 DEF Clip, AtMostOne
  <2> QED BY <2>1, <2>2
<1>4. ASSUME NEW t \in Thread, Move(t) PROVE IInv'
  <2>1. CASE t = "writer"
    <3>1. Advance(write, n["writer"]) \in 0..Capacity
      BY AdvanceInBuffer
    <3> QED BY <1>4, <2>1, <3>1 DEF Move
  <2>2. CASE t = "reader"
    <3>1. Advance(read, n["reader"]) \in 0..Capacity
      BY AdvanceInBuffer
    <3> QED BY <1>4, <2>2, <3>1 DEF Move
  <2> QED BY <2>1, <2>2
<1>5. ASSUME NEW t \in Thread, Load(t) PROVE IInv'
  <2>1. CASE t = "writer"
    BY <1>5, <2>1 DEF Load
  <2>2. CASE t = "reader"
    BY <1>5, <2>2 DEF Load
  <2> QED BY <2>1, <2>2
<1>6. ASSUME NEW t \in Thread, StoreCount(t) PROVE IInv'
  <2>1. CASE t = "writer"
    BY <1>6, <2>1 DEF StoreCount
  <2>2. CASE t = "reader"
    BY <1>6, <2>2 DEF StoreCount
  <2> QED BY <2>1, <2>2
<1>7. ASSUME NEW t \in Thread, Post(t) PROVE IInv'
  <2>1. CASE t = "writer"
    BY <1>7, <2>1 DEF Post
  <2>2. CASE t = "reader"
    BY <1>7, <2>2 DEF Post
  <2> QED BY <2>1, <2>2
<1>8. CASE UNCHANGED vars
  BY <1>8 DEF vars
<1> QED BY <1>1, <1>2, <1>3, <1>4, <1>5, <1>6, <1>7, <1>8 DEF Next, Step

\* The inductive invariant holds.
THEOREM Invariance == Spec => []IInv
  BY InitInv, StepInv, PTL DEF Spec

\* Lost updates never take number_of_unread_bytes below 0 or above the
\* capacity, for every capacity.
THEOREM CountStaysInBounds == Spec => []UnreadInBounds
<1>1. IInv => UnreadInBounds
  BY DEF IInv
<1> QED BY <1>1, Invariance, PTL

\* Every byte of the buffer is accounted for by the semaphores and the two
\* threads, even after a call that moved nothing.
THEOREM NoTokenLost == Spec => []TokensConserved
<1>1. IInv => TokensConserved
  BY DEF IInv
<1> QED BY <1>1, Invariance, PTL
=============================================================================
