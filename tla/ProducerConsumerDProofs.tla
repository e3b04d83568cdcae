----------------------- MODULE ProducerConsumerDProofs ----------------------
(***************************************************************************)
(* For any number of threads: the list is used by one thread at a time,    *)
(* the semaphore counts exactly the items that are free to be taken, no    *)
(* consumer pops an empty list unless an allocation failed, and the list   *)
(* is destroyed twice only when no thread exists.                          *)
(*                                                                         *)
(* The argument: TokensMatchItems is inductive together with the typing,   *)
(* because every step moves one thread between Posting, Entitled and the   *)
(* rest, and changes the list or the semaphore by the same amount.  A      *)
(* consumer at "pop" is entitled, so the list cannot be empty.             *)
(***************************************************************************)
EXTENDS ProducerConsumerD, FiniteSetTheorems, SequenceTheorems, TLAPS

\* The first producer is created before any other thread.
FirstProducerFirst ==
    \/ \E t \in Thread : pc[t] # "absent"
    \/ main = "create_consumer"
    \/ i > 1
    => pc[<<"producer", 1>>] # "absent"

\* The list is destroyed once by a failed CreateThreads, and again only by a
\* JoinThreads that ends the run with no thread alive.
DestroyPhases ==
    /\ main # "join" => destroys = 0
    /\ destroys > 1 => ~Running /\ \A t \in Thread : pc[t] = "absent"

\* CreateThreads has not yet reached these threads.
NotYetCreated ==
    \A n \in i..Threads :
        /\ main = "create_producer" => pc[<<"producer", n>>] = "absent"
        /\ main = "create_consumer" /\ n > i => pc[<<"producer", n>>] = "absent"
        /\ main # "join" => pc[<<"consumer", n>>] = "absent"

Inv ==
    /\ TypeOK
    /\ MutualExclusion
    /\ TokensMatchItems
    /\ SafeUnlessMemoryFails
    /\ FirstProducerFirst
    /\ NotYetCreated
    /\ DestroyPhases

-----------------------------------------------------------------------------
(* Threads and counts *)

LEMMA Kinds ==
    /\ Nobody \notin Thread
    /\ Producer \cap Consumer = {}
    /\ Thread = Producer \cup Consumer
    /\ <<"producer", 1>> \in Producer
    /\ \A n \in 1..Threads : <<"producer", n>> \in Producer /\ <<"consumer", n>> \in Consumer
  BY ProducerConsumerAssumption DEF Nobody, Thread, Producer, Consumer

LEMMA ThreadsFinite == IsFiniteSet(Producer) /\ IsFiniteSet(Consumer)
  <1>1. IsFiniteSet(1..Threads)
    BY FS_Interval, ProducerConsumerAssumption
  <1>2. IsFiniteSet({"producer"}) /\ IsFiniteSet({"consumer"})
    BY FS_Singleton
  <1>. QED BY <1>1, <1>2, FS_Product DEF Producer, Consumer

LEMMA CountType ==
    /\ IsFiniteSet(Posting) /\ IsFiniteSet(Entitled)
    /\ Cardinality(Posting) \in Nat /\ Cardinality(Entitled) \in Nat
  <1>1. Posting \subseteq Producer /\ Entitled \subseteq Consumer
    BY DEF Posting, Entitled
  <1>2. IsFiniteSet(Posting) /\ IsFiniteSet(Entitled)
    BY <1>1, ThreadsFinite, FS_Subset
  <1>. QED BY <1>2, FS_CardinalityType

\* One element more, one less.
LEMMA CountChange ==
    ASSUME NEW S, IsFiniteSet(S), NEW x
    PROVE  /\ x \notin S => Cardinality(S \cup {x}) = Cardinality(S) + 1
           /\ x \in S => Cardinality(S \ {x}) = Cardinality(S) - 1
  BY FS_AddElement, FS_RemoveElement

\* What moving one thread to another place in its code does to the counts.
LEMMA Moves ==
    ASSUME TypeOK, NEW t \in Thread, NEW label, Goto(t, label)
    PROVE  /\ pc'[t] = label
           /\ \A u \in Thread \ {t} : pc'[u] = pc[u]
           /\ DOMAIN pc' = Thread
           /\ t \in Producer =>
                /\ Entitled' = Entitled
                /\ label \in {"unlock", "post"} => Posting' = Posting \cup {t}
                /\ label \notin {"unlock", "post"} => Posting' = Posting \ {t}
           /\ t \in Consumer =>
                /\ Posting' = Posting
                /\ label \in {"lock", "pop"} => Entitled' = Entitled \cup {t}
                /\ label \notin {"lock", "pop"} => Entitled' = Entitled \ {t}
  <1>1. pc \in [Thread -> ProducerLabel \cup ConsumerLabel]
    BY DEF TypeOK
  <1>2. /\ pc'[t] = label
        /\ \A u \in Thread \ {t} : pc'[u] = pc[u]
        /\ DOMAIN pc' = Thread
    BY <1>1 DEF Goto
  <1>3. ASSUME t \in Producer
        PROVE  /\ Entitled' = Entitled
               /\ label \in {"unlock", "post"} => Posting' = Posting \cup {t}
               /\ label \notin {"unlock", "post"} => Posting' = Posting \ {t}
    BY <1>2, <1>3, Kinds DEF Entitled, Posting
  <1>4. ASSUME t \in Consumer
        PROVE  /\ Posting' = Posting
               /\ label \in {"lock", "pop"} => Entitled' = Entitled \cup {t}
               /\ label \notin {"lock", "pop"} => Entitled' = Entitled \ {t}
    BY <1>2, <1>4, Kinds DEF Entitled, Posting
  <1>. QED BY <1>2, <1>3, <1>4

\* A step of a created thread leaves main's part of the invariant alone.
LEMMA ThreadStepKeepsMain ==
    ASSUME Inv, Running, NEW t \in Thread, pc[t] # "absent",
           UNCHANGED mainVars,
           NEW label, Goto(t, label), label # "absent"
    PROVE  FirstProducerFirst' /\ DestroyPhases' /\ NotYetCreated'
  <1>1. \A u \in Thread : pc'[u] = "absent" <=> pc[u] = "absent"
    BY Moves DEF Inv
  <1>2. \A n \in i..Threads : <<"producer", n>> \in Thread /\ <<"consumer", n>> \in Thread
    <2>. SUFFICES ASSUME NEW n \in i..Threads
                  PROVE  <<"producer", n>> \in Thread /\ <<"consumer", n>> \in Thread
      OBVIOUS
    <2>1. n \in 1..Threads
      BY ProducerConsumerAssumption DEF Inv, TypeOK
    <2>. QED BY <2>1, Kinds
  <1>3. FirstProducerFirst' /\ DestroyPhases'
    BY <1>1, Kinds DEF Inv, FirstProducerFirst, DestroyPhases, mainVars
  <1>4. NotYetCreated'
    BY <1>1, <1>2 DEF Inv, NotYetCreated, mainVars
  <1>. QED BY <1>3, <1>4

\* A consumer at "pop" is entitled to an item, so there is one.
LEMMA PopFindsItemFromTokens ==
    ASSUME TypeOK, TokensMatchItems, failures = 0
    PROVE  PopFindsItem
  <1>. SUFFICES ASSUME NEW c \in Consumer, pc[c] = "pop", list = <<>> PROVE FALSE
    BY DEF PopFindsItem
  <1>1. c \in Entitled
    BY DEF Entitled
  <1>2. Cardinality(Entitled) # 0
    BY <1>1, CountType, FS_EmptySet
  <1>3. Len(list) = 0
    OBVIOUS
  <1>. QED BY <1>2, <1>3, CountType DEF TokensMatchItems, TypeOK

LEMMA PopFindsItemFromTokensNext ==
    ASSUME TypeOK', TokensMatchItems', failures' = 0
    PROVE  PopFindsItem'
  <1>. SUFFICES ASSUME NEW c \in Consumer, pc'[c] = "pop", list' = <<>> PROVE FALSE
    BY DEF PopFindsItem
  <1>1. c \in Entitled'
    BY DEF Entitled
  <1>2. Entitled' \subseteq Consumer /\ Posting' \subseteq Producer
    BY DEF Entitled, Posting
  <1>3. IsFiniteSet(Entitled') /\ IsFiniteSet(Posting')
    BY <1>2, ThreadsFinite, FS_Subset
  <1>4. Cardinality(Entitled') \in Nat /\ Cardinality(Posting') \in Nat
    BY <1>3, FS_CardinalityType
  <1>5. Cardinality(Entitled') # 0
    BY <1>1, <1>3, FS_EmptySet
  <1>6. Len(list') = 0
    OBVIOUS
  <1>. QED BY <1>4, <1>5, <1>6 DEF TokensMatchItems, TypeOK

-----------------------------------------------------------------------------
(* One lemma per step *)

LEMMA PushLockInv ==
    ASSUME Inv, NEW p \in Producer, PushLock(p)
    PROVE  Inv'
  <1>. USE DEF Running
  <1>0. /\ p \in Thread /\ pc[p] # "absent" /\ Running
        /\ TypeOK
        /\ UNCHANGED mainVars
    BY Kinds DEF PushLock, Inv
  <1>1. Goto(p, "push")
    BY DEF PushLock
  <1>2. TypeOK'
    BY <1>0, <1>1, Kinds DEF PushLock, Goto, TypeOK, mainVars, Lock, Unlock,
       ProducerLabel, ConsumerLabel
  <1>3. MutualExclusion'
    BY <1>0, <1>1, <1>2, Moves, Kinds DEF PushLock, Inv, MutualExclusion, Inside, Lock, Unlock
  <1>4. TokensMatchItems'
    <2>1. Posting' = Posting
      BY <1>0, <1>1, Moves, Kinds DEF PushLock, Posting
    <2>2. Entitled' = Entitled
      BY <1>0, <1>1, Moves, Kinds DEF PushLock, Entitled
    <2>. QED BY <2>1, <2>2, CountType, CountChange DEF PushLock, Inv, TokensMatchItems, TypeOK
  <1>5. SafeUnlessMemoryFails'
    BY <1>2, <1>4, PopFindsItemFromTokensNext DEF PushLock, Inv, SafeUnlessMemoryFails
  <1>6. FirstProducerFirst' /\ DestroyPhases' /\ NotYetCreated'
    BY <1>0, <1>1, ThreadStepKeepsMain
  <1>. QED BY <1>2, <1>3, <1>4, <1>5, <1>6 DEF Inv

LEMMA PushUnlockInv ==
    ASSUME Inv, NEW p \in Producer, PushUnlock(p)
    PROVE  Inv'
  <1>. USE DEF Running
  <1>0. /\ p \in Thread /\ pc[p] # "absent" /\ Running
        /\ TypeOK
        /\ UNCHANGED mainVars
    BY Kinds DEF PushUnlock, Inv
  <1>1. Goto(p, "post")
    BY DEF PushUnlock
  <1>2. TypeOK'
    BY <1>0, <1>1, Kinds DEF PushUnlock, Goto, TypeOK, mainVars, Lock, Unlock,
       ProducerLabel, ConsumerLabel
  <1>3. MutualExclusion'
    BY <1>0, <1>1, <1>2, Moves, Kinds DEF PushUnlock, Inv, MutualExclusion, Inside, Lock, Unlock
  <1>4. TokensMatchItems'
    <2>1. Posting' = Posting
      BY <1>0, <1>1, Moves, Kinds DEF PushUnlock, Posting
    <2>2. Entitled' = Entitled
      BY <1>0, <1>1, Moves, Kinds DEF PushUnlock, Entitled
    <2>. QED BY <2>1, <2>2, CountType, CountChange DEF PushUnlock, Inv, TokensMatchItems, TypeOK
  <1>5. SafeUnlessMemoryFails'
    BY <1>2, <1>4, PopFindsItemFromTokensNext DEF PushUnlock, Inv, SafeUnlessMemoryFails
  <1>6. FirstProducerFirst' /\ DestroyPhases' /\ NotYetCreated'
    BY <1>0, <1>1, ThreadStepKeepsMain
  <1>. QED BY <1>2, <1>3, <1>4, <1>5, <1>6 DEF Inv

LEMMA PushPostInv ==
    ASSUME Inv, NEW p \in Producer, PushPost(p)
    PROVE  Inv'
  <1>. USE DEF Running
  <1>0. /\ p \in Thread /\ pc[p] # "absent" /\ Running
        /\ TypeOK
        /\ UNCHANGED mainVars
    BY Kinds DEF PushPost, Inv
  <1>1. Goto(p, "top")
    BY DEF PushPost
  <1>2. TypeOK'
    BY <1>0, <1>1, Kinds DEF PushPost, Goto, TypeOK, mainVars, Lock, Unlock,
       ProducerLabel, ConsumerLabel
  <1>3. MutualExclusion'
    BY <1>0, <1>1, <1>2, Moves, Kinds DEF PushPost, Inv, MutualExclusion, Inside, Lock, Unlock
  <1>4. TokensMatchItems'
    <2>1. p \in Posting /\ Posting' = Posting \ {p}
      BY <1>0, <1>1, Moves, Kinds DEF PushPost, Posting
    <2>2. Entitled' = Entitled
      BY <1>0, <1>1, Moves, Kinds DEF PushPost, Entitled
    <2>3. Cardinality(Posting') = Cardinality(Posting) - 1
      BY <2>1, CountType, CountChange
    <2>. QED BY <2>2, <2>3, CountType DEF PushPost, Inv, TokensMatchItems, TypeOK
  <1>5. SafeUnlessMemoryFails'
    BY <1>2, <1>4, PopFindsItemFromTokensNext DEF PushPost, Inv, SafeUnlessMemoryFails
  <1>6. FirstProducerFirst' /\ DestroyPhases' /\ NotYetCreated'
    BY <1>0, <1>1, ThreadStepKeepsMain
  <1>. QED BY <1>2, <1>3, <1>4, <1>5, <1>6 DEF Inv

LEMMA PopWaitInv ==
    ASSUME Inv, NEW c \in Consumer, PopWait(c)
    PROVE  Inv'
  <1>. USE DEF Running
  <1>0. /\ c \in Thread /\ pc[c] # "absent" /\ Running
        /\ TypeOK
        /\ UNCHANGED mainVars
    BY Kinds DEF PopWait, Inv
  <1>1. Goto(c, "lock")
    BY DEF PopWait
  <1>2. TypeOK'
    BY <1>0, <1>1, Kinds DEF PopWait, Goto, TypeOK, mainVars, Lock, Unlock,
       ProducerLabel, ConsumerLabel
  <1>3. MutualExclusion'
    BY <1>0, <1>1, <1>2, Moves, Kinds DEF PopWait, Inv, MutualExclusion, Inside, Lock, Unlock
  <1>4. TokensMatchItems'
    <2>1. Posting' = Posting
      BY <1>0, <1>1, Moves, Kinds DEF PopWait, Posting
    <2>2. c \notin Entitled /\ Entitled' = Entitled \cup {c}
      BY <1>0, <1>1, Moves, Kinds DEF PopWait, Entitled
    <2>. QED BY <2>1, <2>2, CountType, CountChange DEF PopWait, Inv, TokensMatchItems, TypeOK
  <1>5. SafeUnlessMemoryFails'
    BY <1>2, <1>4, PopFindsItemFromTokensNext DEF PopWait, Inv, SafeUnlessMemoryFails
  <1>6. FirstProducerFirst' /\ DestroyPhases' /\ NotYetCreated'
    BY <1>0, <1>1, ThreadStepKeepsMain
  <1>. QED BY <1>2, <1>3, <1>4, <1>5, <1>6 DEF Inv

LEMMA PopLockInv ==
    ASSUME Inv, NEW c \in Consumer, PopLock(c)
    PROVE  Inv'
  <1>. USE DEF Running
  <1>0. /\ c \in Thread /\ pc[c] # "absent" /\ Running
        /\ TypeOK
        /\ UNCHANGED mainVars
    BY Kinds DEF PopLock, Inv
  <1>1. Goto(c, "pop")
    BY DEF PopLock
  <1>2. TypeOK'
    BY <1>0, <1>1, Kinds DEF PopLock, Goto, TypeOK, mainVars, Lock, Unlock,
       ProducerLabel, ConsumerLabel
  <1>3. MutualExclusion'
    BY <1>0, <1>1, <1>2, Moves, Kinds DEF PopLock, Inv, MutualExclusion, Inside, Lock, Unlock
  <1>4. TokensMatchItems'
    <2>1. Posting' = Posting
      BY <1>0, <1>1, Moves, Kinds DEF PopLock, Posting
    <2>2. Entitled' = Entitled
      BY <1>0, <1>1, Moves, Kinds DEF PopLock, Entitled
    <2>. QED BY <2>1, <2>2, CountType, CountChange DEF PopLock, Inv, TokensMatchItems, TypeOK
  <1>5. SafeUnlessMemoryFails'
    BY <1>2, <1>4, PopFindsItemFromTokensNext DEF PopLock, Inv, SafeUnlessMemoryFails
  <1>6. FirstProducerFirst' /\ DestroyPhases' /\ NotYetCreated'
    BY <1>0, <1>1, ThreadStepKeepsMain
  <1>. QED BY <1>2, <1>3, <1>4, <1>5, <1>6 DEF Inv

LEMMA PopUnlockInv ==
    ASSUME Inv, NEW c \in Consumer, PopUnlock(c)
    PROVE  Inv'
  <1>. USE DEF Running
  <1>0. /\ c \in Thread /\ pc[c] # "absent" /\ Running
        /\ TypeOK
        /\ UNCHANGED mainVars
    BY Kinds DEF PopUnlock, Inv
  <1>1. Goto(c, "top")
    BY DEF PopUnlock
  <1>2. TypeOK'
    BY <1>0, <1>1, Kinds DEF PopUnlock, Goto, TypeOK, mainVars, Lock, Unlock,
       ProducerLabel, ConsumerLabel
  <1>3. MutualExclusion'
    BY <1>0, <1>1, <1>2, Moves, Kinds DEF PopUnlock, Inv, MutualExclusion, Inside, Lock, Unlock
  <1>4. TokensMatchItems'
    <2>1. Posting' = Posting
      BY <1>0, <1>1, Moves, Kinds DEF PopUnlock, Posting
    <2>2. Entitled' = Entitled
      BY <1>0, <1>1, Moves, Kinds DEF PopUnlock, Entitled
    <2>. QED BY <2>1, <2>2, CountType, CountChange DEF PopUnlock, Inv, TokensMatchItems, TypeOK
  <1>5. SafeUnlessMemoryFails'
    BY <1>2, <1>4, PopFindsItemFromTokensNext DEF PopUnlock, Inv, SafeUnlessMemoryFails
  <1>6. FirstProducerFirst' /\ DestroyPhases' /\ NotYetCreated'
    BY <1>0, <1>1, ThreadStepKeepsMain
  <1>. QED BY <1>2, <1>3, <1>4, <1>5, <1>6 DEF Inv

LEMMA PushInv ==
    ASSUME Inv, NEW p \in Producer, Push(p)
    PROVE  Inv'
  <1>. USE DEF Running
  <1>0. /\ p \in Thread /\ pc[p] = "push" /\ pc[p] # "absent" /\ Running
        /\ TypeOK
        /\ UNCHANGED <<mutex, dlist_count, mainVars>>
    BY Kinds DEF Push, Inv
  <1>1. CASE /\ destroys = 0
             /\ Goto(p, "unlock")
             /\ UNCHANGED outcome
             /\ \/ list' = <<p>> \o list /\ UNCHANGED failures
                \/ failures' = failures + 1 /\ UNCHANGED list
    <2>0. /\ list' \in Seq(Producer)
          /\ failures' \in Nat
          /\ Len(list') + failures' = Len(list) + failures + 1
      <3>1. list \in Seq(Producer) /\ Len(list) \in Nat /\ failures \in Nat
        BY <1>0 DEF TypeOK
      <3>2. CASE list' = <<p>> \o list /\ failures' = failures
        <4>1. <<p>> \in Seq(Producer) /\ Len(<<p>>) = 1
          OBVIOUS
        <4>2. /\ <<p>> \o list \in Seq(Producer)
              /\ Len(<<p>> \o list) = 1 + Len(list)
          BY <3>1, <4>1, ConcatProperties
        <4>. QED BY <3>1, <3>2, <4>2
      <3>3. CASE failures' = failures + 1 /\ list' = list
        BY <3>1, <3>3
      <3>. QED BY <1>1, <3>2, <3>3
    <2>1. TypeOK'
      BY <1>0, <1>1, <2>0, Kinds DEF Goto, TypeOK, mainVars, ProducerLabel, ConsumerLabel
    <2>2. MutualExclusion'
      BY <1>0, <1>1, Moves, Kinds DEF Inv, MutualExclusion, Inside
    <2>3. TokensMatchItems'
      <3>1. p \notin Posting /\ Posting' = Posting \cup {p} /\ Entitled' = Entitled
        BY <1>0, <1>1, Moves, Kinds DEF Posting
      <3>2. Cardinality(Posting') = Cardinality(Posting) + 1
        BY <3>1, CountType, CountChange
      <3>3. dlist_count' = dlist_count /\ dlist_count \in Nat
        BY <1>0 DEF TypeOK
      <3>4. Len(list') \in Nat /\ Len(list) \in Nat /\ failures \in Nat /\ failures' \in Nat
        BY <1>0, <2>0 DEF TypeOK
      <3>5. Len(list) + failures = dlist_count + Cardinality(Posting) + Cardinality(Entitled)
        BY DEF Inv, TokensMatchItems
      <3>6. Cardinality(Entitled') = Cardinality(Entitled)
        BY <3>1
      <3>7. Len(list') + failures' = Len(list) + failures + 1
        BY <2>0
      <3>8. Cardinality(Posting) \in Nat /\ Cardinality(Entitled) \in Nat
        BY CountType
      <3>9. dlist_count' + Cardinality(Posting') + Cardinality(Entitled')
              = dlist_count + (Cardinality(Posting) + 1) + Cardinality(Entitled)
        BY <3>2, <3>3, <3>6
      <3>10. @ = (dlist_count + Cardinality(Posting) + Cardinality(Entitled)) + 1
        BY <3>3, <3>8
      <3>11. Len(list') + failures' = (Len(list) + failures) + 1
        BY <3>7
      <3>. QED BY <3>5, <3>9, <3>10, <3>11 DEF TokensMatchItems
    <2>4. SafeUnlessMemoryFails'
      BY <1>0, <1>1, <2>1, <2>3, PopFindsItemFromTokensNext
         DEF Inv, SafeUnlessMemoryFails, TypeOK
    <2>5. FirstProducerFirst' /\ DestroyPhases' /\ NotYetCreated'
      BY <1>0, <1>1, ThreadStepKeepsMain
    <2>. QED BY <2>1, <2>2, <2>3, <2>4, <2>5 DEF Inv
  <1>2. CASE destroys > 0 /\ outcome' = "undefined" /\ UNCHANGED <<list, failures, pc>>
    BY <1>0, <1>2 DEF Inv, TypeOK, mainVars, MutualExclusion, Inside, TokensMatchItems,
       Posting, Entitled, SafeUnlessMemoryFails, PopFindsItem, FirstProducerFirst,
       NotYetCreated, DestroyPhases
  <1>. QED BY <1>1, <1>2 DEF Push, PushFront

LEMMA PopInv ==
    ASSUME Inv, NEW c \in Consumer, Pop(c)
    PROVE  Inv'
  <1>. USE DEF Running
  <1>0. /\ c \in Thread /\ pc[c] = "pop" /\ pc[c] # "absent" /\ Running
        /\ TypeOK
        /\ UNCHANGED <<mutex, dlist_count, failures, mainVars>>
    BY Kinds DEF Pop, Inv
  <1>1. CASE list # <<>> /\ list' = Tail(list) /\ Goto(c, "unlock") /\ UNCHANGED outcome
    <2>0. list' \in Seq(Producer) /\ Len(list') = Len(list) - 1
      BY <1>0, <1>1 DEF TypeOK
    <2>1. TypeOK'
      BY <1>0, <1>1, <2>0, Kinds DEF Goto, TypeOK, mainVars, ProducerLabel, ConsumerLabel
    <2>2. MutualExclusion'
      BY <1>0, <1>1, Moves, Kinds DEF Inv, MutualExclusion, Inside
    <2>3. TokensMatchItems'
      <3>1. c \in Entitled /\ Entitled' = Entitled \ {c} /\ Posting' = Posting
        BY <1>0, <1>1, Moves, Kinds DEF Entitled
      <3>2. Cardinality(Entitled') = Cardinality(Entitled) - 1
        BY <3>1, CountType, CountChange
      <3>3. dlist_count' = dlist_count /\ dlist_count \in Nat /\ failures' = failures /\ failures \in Nat
        BY <1>0 DEF TypeOK
      <3>4. Len(list) \in Nat /\ Len(list') \in Nat
        BY <1>0, <2>0 DEF TypeOK
      <3>5. Len(list) + failures = dlist_count + Cardinality(Posting) + Cardinality(Entitled)
        BY DEF Inv, TokensMatchItems
      <3>6. Cardinality(Posting') = Cardinality(Posting)
        BY <3>1
      <3>7. Len(list') = Len(list) - 1
        BY <2>0
      <3>8. Cardinality(Posting) \in Nat /\ Cardinality(Entitled) \in Nat
        BY CountType
      <3>9. dlist_count' + Cardinality(Posting') + Cardinality(Entitled')
              = dlist_count + Cardinality(Posting) + (Cardinality(Entitled) - 1)
        BY <3>2, <3>3, <3>6
      <3>10. @ = (dlist_count + Cardinality(Posting) + Cardinality(Entitled)) - 1
        BY <3>3, <3>8
      <3>11. Len(list') + failures' = (Len(list) + failures) - 1
        BY <3>3, <3>4, <3>7
      <3>. QED BY <3>5, <3>9, <3>10, <3>11 DEF TokensMatchItems
    <2>4. SafeUnlessMemoryFails'
      BY <1>0, <1>1, <2>1, <2>3, PopFindsItemFromTokensNext DEF Inv, SafeUnlessMemoryFails
    <2>5. FirstProducerFirst' /\ DestroyPhases' /\ NotYetCreated'
      BY <1>0, <1>1, ThreadStepKeepsMain
    <2>. QED BY <2>1, <2>2, <2>3, <2>4, <2>5 DEF Inv
  <1>2. CASE list = <<>> /\ outcome' = "crashed" /\ UNCHANGED <<list, pc>>
    <2>1. failures # 0
      BY <1>0, <1>2 DEF Inv, SafeUnlessMemoryFails, PopFindsItem
    <2>. QED BY <1>0, <1>2, <2>1 DEF Inv, TypeOK, mainVars, MutualExclusion, Inside,
         TokensMatchItems, Posting, Entitled, SafeUnlessMemoryFails, FirstProducerFirst,
         NotYetCreated, DestroyPhases
  <1>3. CASE outcome' = "undefined" /\ UNCHANGED <<list, pc>>
    BY <1>0, <1>3 DEF Inv, TypeOK, mainVars, MutualExclusion, Inside, TokensMatchItems,
       Posting, Entitled, SafeUnlessMemoryFails, PopFindsItem, FirstProducerFirst,
       NotYetCreated, DestroyPhases
  <1>. QED BY <1>1, <1>2, <1>3 DEF Pop

LEMMA CreateThreadInv ==
    ASSUME Inv, Running, NEW t \in Thread, CreateThread(t), pc[t] = "absent",
           \/ t = <<"producer", i>> /\ main = "create_producer"
           \/ t = <<"consumer", i>> /\ main = "create_consumer",
           UNCHANGED <<list, mutex, dlist_count, failures, outcome>>
    PROVE  Inv'
  <1>. USE DEF Running
  <1>0. TypeOK /\ destroys = 0
    BY DEF Inv, DestroyPhases
  <1>1. CASE /\ Goto(t, "top")
             /\ UNCHANGED destroys
             /\ IF t \in Producer THEN main' = "create_consumer" /\ UNCHANGED i
                ELSE IF i < Threads THEN main' = "create_producer" /\ i' = i + 1
                ELSE main' = "join" /\ UNCHANGED i
    <2>0. /\ i \in 1..Threads /\ i' \in 1..Threads
          /\ main' \in {"create_producer", "create_consumer", "join"}
      BY <1>0, <1>1, ProducerConsumerAssumption DEF TypeOK
    <2>1. TypeOK'
      BY <1>0, <1>1, <2>0, Kinds DEF Goto, TypeOK, ProducerLabel, ConsumerLabel
    <2>2. MutualExclusion'
      BY <1>0, <1>1, Moves, Kinds DEF Inv, MutualExclusion, Inside
    <2>3. TokensMatchItems'
      <3>1. Entitled' = Entitled /\ Posting' = Posting
        BY <1>0, <1>1, Moves, Kinds DEF Entitled, Posting
      <3>. QED BY <3>1 DEF Inv, TokensMatchItems
    <2>4. SafeUnlessMemoryFails'
      BY <2>1, <2>3, PopFindsItemFromTokensNext DEF Inv, SafeUnlessMemoryFails
    <2>5. FirstProducerFirst'
      BY <1>0, <1>1, <2>0, Moves, Kinds DEF Inv, FirstProducerFirst
    <2>6. DestroyPhases'
      BY <1>0, <1>1 DEF DestroyPhases
    <2>7. NotYetCreated'
      <3>. SUFFICES ASSUME NEW n \in i'..Threads
                    PROVE  /\ main' = "create_producer" => pc'[<<"producer", n>>] = "absent"
                           /\ main' = "create_consumer" /\ n > i'
                                  => pc'[<<"producer", n>>] = "absent"
                           /\ main' # "join" => pc'[<<"consumer", n>>] = "absent"
        BY DEF NotYetCreated
      <3>1. /\ n \in Nat /\ i \in Nat /\ n \in i..Threads
            /\ <<"producer", n>> \in Producer /\ <<"consumer", n>> \in Consumer
        <4>1. n \in 1..Threads /\ n \in i..Threads /\ n \in Nat /\ i \in Nat
          BY <1>1, <2>0, ProducerConsumerAssumption
        <4>. QED BY <4>1, Kinds
      <3>2. \A u \in Thread : u # t => pc'[u] = pc[u]
        BY <1>0, <1>1, Moves
      <3>3. CASE t = <<"producer", i>> /\ main = "create_producer"
        <4>1. main' = "create_consumer" /\ i' = i
          BY <1>1, <2>0, <3>3, Kinds
        <4>. QED BY <3>1, <3>2, <3>3, <4>1, Kinds DEF Inv, NotYetCreated
      <3>4. CASE t = <<"consumer", i>> /\ main = "create_consumer"
        <4>1. main' = "join" \/ (main' = "create_producer" /\ i' = i + 1)
          BY <1>1, <2>0, <3>4, Kinds
        <4>. QED BY <3>1, <3>2, <3>4, <4>1, Kinds DEF Inv, NotYetCreated
      <3>. QED BY <3>3, <3>4
    <2>. QED BY <2>1, <2>2, <2>3, <2>4, <2>5, <2>6, <2>7 DEF Inv
  <1>2. CASE destroys' = destroys + 1 /\ main' = "join" /\ UNCHANGED <<pc, i>>
    BY <1>0, <1>2 DEF Inv, TypeOK, MutualExclusion, Inside, TokensMatchItems,
       Posting, Entitled, SafeUnlessMemoryFails, PopFindsItem, FirstProducerFirst,
       NotYetCreated, DestroyPhases
  <1>. QED BY <1>1, <1>2 DEF CreateThread

LEMMA CreateInv ==
    ASSUME Inv, CreateProducer \/ CreateConsumer
    PROVE  Inv'
  <1>0. i \in 1..Threads /\ i \in i..Threads
    BY DEF Inv, TypeOK
  <1>1. CASE CreateProducer
    <2>1. pc[<<"producer", i>>] = "absent" /\ <<"producer", i>> \in Thread
      BY <1>0, <1>1, Kinds DEF CreateProducer, Inv, NotYetCreated
    <2>. QED BY <1>1, <2>1, CreateThreadInv DEF CreateProducer
  <1>2. CASE CreateConsumer
    <2>1. pc[<<"consumer", i>>] = "absent" /\ <<"consumer", i>> \in Thread
      BY <1>0, <1>2, Kinds DEF CreateConsumer, Inv, NotYetCreated
    <2>. QED BY <1>2, <2>1, CreateThreadInv DEF CreateConsumer
  <1>. QED BY <1>1, <1>2

LEMMA JoinThreadsInv ==
    ASSUME Inv, JoinThreads
    PROVE  Inv'
  <1>1. \A t \in Thread : pc[t] = "absent"
    BY DEF Inv, FirstProducerFirst, JoinThreads
  <1>2. TypeOK' /\ DestroyPhases'
    BY <1>1 DEF Inv, TypeOK, DestroyPhases, JoinThreads, threadVars, Running
  <1>. QED BY <1>2 DEF Inv, JoinThreads, threadVars, MutualExclusion, Inside,
       TokensMatchItems, Posting, Entitled, SafeUnlessMemoryFails, PopFindsItem,
       FirstProducerFirst, NotYetCreated, TypeOK

-----------------------------------------------------------------------------
(* The theorems *)

LEMMA InitInv == Init => Inv
  <1>. SUFFICES ASSUME Init PROVE Inv
    OBVIOUS
  <1>1. TypeOK
    BY ProducerConsumerAssumption, Kinds DEF Init, TypeOK, ProducerLabel, ConsumerLabel
  <1>2. Posting = {} /\ Entitled = {}
    BY Kinds DEF Init, Posting, Entitled
  <1>3. TokensMatchItems
    BY <1>2, FS_EmptySet DEF Init, TokensMatchItems
  <1>4. PopFindsItem
    BY Kinds DEF Init, PopFindsItem
  <1>5. MutualExclusion /\ FirstProducerFirst /\ DestroyPhases
    BY Kinds DEF Init, MutualExclusion, Inside, FirstProducerFirst, DestroyPhases
  <1>6. NotYetCreated
    BY Kinds DEF Init, NotYetCreated
  <1>. QED BY <1>1, <1>3, <1>4, <1>5, <1>6 DEF Init, Inv, SafeUnlessMemoryFails

LEMMA NextInv == Inv /\ [Next]_vars => Inv'
  <1>. SUFFICES ASSUME Inv, [Next]_vars PROVE Inv'
    OBVIOUS
  <1>1. CASE \E p \in Producer : PushLock(p) \/ Push(p) \/ PushUnlock(p) \/ PushPost(p)
    BY <1>1, PushLockInv, PushInv, PushUnlockInv, PushPostInv
  <1>2. CASE \E c \in Consumer : PopWait(c) \/ PopLock(c) \/ Pop(c) \/ PopUnlock(c)
    BY <1>2, PopWaitInv, PopLockInv, PopInv, PopUnlockInv
  <1>3. CASE CreateProducer \/ CreateConsumer
    BY <1>3, CreateInv
  <1>4. CASE JoinThreads
    BY <1>4, JoinThreadsInv
  <1>5. CASE UNCHANGED vars
    BY <1>5 DEF vars, Inv, TypeOK, MutualExclusion, Inside, TokensMatchItems, Posting,
       Entitled, SafeUnlessMemoryFails, PopFindsItem, FirstProducerFirst, NotYetCreated,
       DestroyPhases, Running
  <1>. QED BY <1>1, <1>2, <1>3, <1>4, <1>5 DEF Next, Stopped

\* The typing and the whole inductive invariant hold in every reachable state.
THEOREM Invariance == Spec => []Inv
  BY InitInv, NextInv, PTL DEF Spec

\* The list is used by one thread at a time.
THEOREM ListIsLocked == Spec => []MutualExclusion
  BY Invariance, PTL DEF Inv

\* The counting semaphore of producer_consumer_d.c agrees with the list at
\* every moment, even though it is posted outside the mutex.
THEOREM SemaphoreCountsItems == Spec => []TokensMatchItems
  BY Invariance, PTL DEF Inv

\* Without a failed allocation no consumer pops an empty list.
THEOREM NeverPopsEmptyList == Spec => []SafeUnlessMemoryFails
  BY Invariance, PTL DEF Inv

\* The repeated DLLDestroy of the failure paths happens only with no thread.
THEOREM DoubleDestroyAlone == Spec => []DestroyedTwiceOnlyAlone
  <1>1. Inv => DestroyedTwiceOnlyAlone
    BY DEF Inv, DestroyPhases, DestroyedTwiceOnlyAlone
  <1>. QED BY <1>1, Invariance, PTL
=============================================================================
