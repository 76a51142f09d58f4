-------------------------- MODULE PacketQueueProofs --------------------------
(***************************************************************************)
(* Theorems about PacketQueue, for any sets of producers and consumers and *)
(* any capacity, batch size and number of packets.                         *)
(***************************************************************************)
EXTENDS PacketQueue, SequenceTheorems, TLAPS

\* BatchSize is what can be taken: no more than MaxN and no more than there
\* is, and zero only from an empty queue.
LEMMA BatchSizeBounds ==
    ASSUME items \in Seq(PacketIds)
    PROVE  /\ BatchSize \in 0..Len(items)
           /\ BatchSize <= MaxN
           /\ BatchSize = 0 <=> items = <<>>
           /\ BatchSize = MaxN \/ BatchSize = Len(items)
<1>1. Len(items) \in Nat /\ (Len(items) = 0 <=> items = <<>>)
  BY EmptySeq, LenProperties
<1> QED BY <1>1, SizesPositive DEF BatchSize

\* Cutting a queue after n packets: both halves are queues, their lengths
\* add up, and together they are the queue again.
LEMMA Cut ==
    ASSUME NEW q \in Seq(PacketIds), NEW n \in 0..Len(q)
    PROVE  /\ SubSeq(q, 1, n) \in Seq(PacketIds)
           /\ SubSeq(q, n + 1, Len(q)) \in Seq(PacketIds)
           /\ Len(SubSeq(q, 1, n)) = n
           /\ Len(SubSeq(q, n + 1, Len(q))) = Len(q) - n
           /\ SubSeq(q, 1, n) \o SubSeq(q, n + 1, Len(q)) = q
<1>1. Len(q) \in Nat /\ \A i \in 1..Len(q) : q[i] \in PacketIds
  BY LenProperties, ElementOfSeq
<1>2. /\ SubSeq(q, 1, n) \in Seq(PacketIds)
      /\ Len(SubSeq(q, 1, n)) = n
  BY <1>1, SubSeqProperties
<1>3. /\ SubSeq(q, n + 1, Len(q)) \in Seq(PacketIds)
      /\ Len(SubSeq(q, n + 1, Len(q))) = Len(q) - n
  BY <1>1, SubSeqProperties
<1>4. SubSeq(q, 1, n) \o SubSeq(q, n + 1, Len(q)) = SubSeq(q, 1, Len(q))
  <2>1. /\ 1 \in 1..(Len(q) + 1)
        /\ n \in (1 - 1)..Len(q)
        /\ Len(q) \in n..Len(q)
    BY <1>1
  <2> QED BY <2>1, ConcatAdjacentSubSeq
<1>5. SubSeq(q, 1, Len(q)) = q
  BY SubSeqFull
<1> QED BY <1>2, <1>3, <1>4, <1>5

-----------------------------------------------------------------------------
(* Type correctness                                                        *)

\* The critical sections keep the types, whatever called them.
LEMMA PushSectionTyped ==
    ASSUME QueueTypeOK, NEW p \in Producers, NEW x \in PacketIds,
           PushSection(p, x), p \notin not_full,
           calls' \in 0..MaxPackets
    PROVE  QueueTypeOK'
<1> USE ThreadsDistinct DEF Threads, Goto
<1>1. ControlTypeOK'
  <2>1. /\ pc'[p] \in ProducerPC
        /\ p \in not_full' => pc'[p] = "push_wait"
        /\ \A t \in Threads \ {p} : pc'[t] = pc[t]
        /\ pc' \in [Threads -> ProducerPC \cup ConsumerPC \cup MainPC]
        /\ not_full' \ {p} = not_full /\ not_empty' = not_empty
    BY DEF PushSection, PushSleep, PushRefuse, PushAppend, QueueTypeOK,
           ControlTypeOK, ProducerPC
  <2> QED BY <2>1 DEF QueueTypeOK, ControlTypeOK
<1>2. DataTypeOK'
  <2>1. items' \in Seq(PacketIds) /\ pushed' \in Seq(PacketIds)
    <3>1. CASE PushAppend(p, x)
      BY <3>1, AppendProperties DEF PushAppend, QueueTypeOK, DataTypeOK
    <3>2. CASE UNCHANGED <<items, pushed>>
      BY <3>2 DEF QueueTypeOK, DataTypeOK
    <3> QED BY <3>1, <3>2 DEF PushSection, PushSleep, PushRefuse
  <2>2. /\ arg' \in [Producers -> PacketIds \cup {0}]
        /\ \A q \in Producers : pc'[q] = "push_wait" => arg'[q] \in PacketIds
    <3>1. PICK y \in {x, 0} : arg' = [arg EXCEPT ![p] = y]
                              /\ (pc'[p] = "push_wait" => y = x)
      BY DEF PushSection, PushSleep, PushRefuse, PushAppend, QueueTypeOK, ControlTypeOK
    <3>2. \A q \in Producers \ {p} : pc'[q] = pc[q]
      BY DEF PushSection, PushSleep, PushRefuse, PushAppend, QueueTypeOK, ControlTypeOK
    <3> QED BY <3>1, <3>2 DEF QueueTypeOK, DataTypeOK
  <2>4. rejected' \subseteq PacketIds
    BY DEF PushSection, PushSleep, PushRefuse, PushAppend, QueueTypeOK, DataTypeOK
  <2>3. UNCHANGED <<wanted, shutdown, batch, popped>>
    BY DEF PushSection
  <2> QED BY <2>1, <2>2, <2>3, <2>4 DEF QueueTypeOK, DataTypeOK
<1> QED BY <1>1, <1>2 DEF QueueTypeOK

LEMMA TakeBatchTyped ==
    ASSUME QueueTypeOK, NEW c \in Consumers, TakeBatch(c), c \notin not_empty,
           UNCHANGED popUnchanged, wanted' \in {1, MaxN}
    PROVE  QueueTypeOK'
<1> USE ThreadsDistinct DEF Threads, Goto
<1>1. ControlTypeOK'
  <2>1. /\ pc'[c] \in ConsumerPC
        /\ pc' \in [Threads -> ProducerPC \cup ConsumerPC \cup MainPC]
        /\ \A t \in Threads \ {c} : pc'[t] = pc[t]
    BY DEF TakeBatch, AfterTake, ConsumerPC, QueueTypeOK, ControlTypeOK
  <2> QED BY <2>1 DEF TakeBatch, popUnchanged, QueueTypeOK, ControlTypeOK
<1>2. DataTypeOK'
  <2>1. /\ items' \in Seq(PacketIds) /\ popped' \in Seq(PacketIds)
        /\ batch' \in [Consumers -> Seq(PacketIds)]
    BY BatchSizeBounds, Cut, ConcatProperties
       DEF TakeBatch, QueueTypeOK, DataTypeOK
  <2>2. \A q \in Producers : pc'[q] = pc[q]
    BY DEF TakeBatch, QueueTypeOK, ControlTypeOK
  <2> QED BY <2>1, <2>2 DEF popUnchanged, QueueTypeOK, DataTypeOK
<1> QED BY <1>1, <1>2 DEF QueueTypeOK

LEMMA SleepTyped ==
    ASSUME QueueTypeOK, NEW c \in Consumers,
           NEW label \in {"pop_wait", "linger_wait"}, Sleep(c, label),
           UNCHANGED popUnchanged, wanted' \in {1, MaxN}
    PROVE  QueueTypeOK'
<1> USE ThreadsDistinct DEF Threads, Goto
<1>1. ControlTypeOK'
  BY DEF Sleep, popUnchanged, ProducerPC, ConsumerPC, MainPC, QueueTypeOK,
         ControlTypeOK
<1>2. DataTypeOK'
  <2>1. batch' \in [Consumers -> Seq(PacketIds)]
    BY EmptySeq DEF Sleep, QueueTypeOK, DataTypeOK
  <2>2. \A q \in Producers : pc'[q] = pc[q]
    BY DEF Sleep, QueueTypeOK, ControlTypeOK
  <2> QED BY <2>1, <2>2 DEF Sleep, popUnchanged, QueueTypeOK, DataTypeOK
<1> QED BY <1>1, <1>2 DEF QueueTypeOK

\* A pop_batch() section either sleeps or takes a batch.
LEMMA PopSectionTyped ==
    ASSUME QueueTypeOK, NEW c \in Consumers, c \notin not_empty,
           PopSection(c) \/ AfterFirstWait(c),
           UNCHANGED popUnchanged, wanted' \in {1, MaxN}
    PROVE  QueueTypeOK'
<1>1. \/ \E label \in {"pop_wait", "linger_wait"} : Sleep(c, label)
      \/ TakeBatch(c)
  BY DEF PopSection, AfterFirstWait
<1> QED BY <1>1, SleepTyped, TakeBatchTyped

\* QueueInit has the types, and every action keeps them.
LEMMA InitTyped == QueueInit => QueueTypeOK
<1> SUFFICES ASSUME QueueInit PROVE QueueTypeOK
  OBVIOUS
<1>1. ControlTypeOK
  BY DEF QueueInit, ControlTypeOK, Threads, ProducerPC, ConsumerPC, MainPC
<1>2. DataTypeOK
  <2>1. items \in Seq(PacketIds) /\ pushed \in Seq(PacketIds) /\ popped \in Seq(PacketIds)
        /\ batch \in [Consumers -> Seq(PacketIds)]
    BY EmptySeq DEF QueueInit
  <2>2. calls \in 0..MaxPackets
    BY BoundNatural DEF QueueInit
  <2>3. \A p \in Producers : pc[p] = "idle" /\ arg[p] = 0
    BY DEF QueueInit, Threads
  <2>4. arg \in [Producers -> PacketIds \cup {0}]
    BY DEF QueueInit
  <2> QED BY <2>1, <2>2, <2>3, <2>4 DEF QueueInit, DataTypeOK
<1> QED BY <1>1, <1>2 DEF QueueTypeOK

\* What a step that only moves one thread and wakes sleepers keeps.
LEMMA MoveTyped ==
    ASSUME QueueTypeOK, NEW t \in Threads, NEW label, Goto(t, label),
           t \in Producers => label \in {"idle"},
           t \in Consumers => label \in ConsumerPC,
           t = Main => label \in MainPC,
           t \notin not_full', t \notin not_empty',
           not_full' \subseteq not_full, not_empty' \subseteq not_empty,
           shutdown' \in BOOLEAN,
           UNCHANGED <<items, wanted, arg, batch, calls, pushed, popped, rejected>>
    PROVE  QueueTypeOK'
<1> USE ThreadsDistinct DEF Threads, Goto
<1>1. ControlTypeOK'
  BY DEF ProducerPC, ConsumerPC, MainPC, QueueTypeOK, ControlTypeOK
<1>2. DataTypeOK'
  <2>1. \A q \in Producers : pc'[q] = "push_wait" => pc[q] = "push_wait"
    BY DEF QueueTypeOK, ControlTypeOK
  <2> QED BY <2>1 DEF QueueTypeOK, DataTypeOK
<1> QED BY <1>1, <1>2 DEF QueueTypeOK

\* notify_one removes at most one sleeper and adds none.
LEMMA NotifyOneShrinks ==
    ASSUME NEW cv, NEW cv2 \in NotifyOne(cv)
    PROVE  /\ cv2 \subseteq cv
           /\ cv # {} => \E t \in cv : cv2 = cv \ {t}
BY DEF NotifyOne

LEMMA StepTyped == QueueTypeOK /\ [QueueNext]_queueVars => QueueTypeOK'
<1> SUFFICES ASSUME QueueTypeOK, [QueueNext]_queueVars PROVE QueueTypeOK'
  OBVIOUS
<1> USE DEF Threads
<1>a. wanted \in {1, MaxN} /\ MaxN \in {1, MaxN} /\ shutdown \in BOOLEAN
  BY DEF QueueTypeOK, DataTypeOK
<1>b. /\ \A p \in Producers : p \in not_full => pc[p] = "push_wait"
      /\ \A c \in Consumers : c \in not_empty => pc[c] \in {"pop_wait", "linger_wait"}
      /\ not_full \subseteq Producers /\ not_empty \subseteq Consumers
  BY DEF QueueTypeOK, ControlTypeOK
<1>1. ASSUME NEW p \in Producers, PushCall(p) PROVE QueueTypeOK'
  <2>1. calls + 1 \in PacketIds /\ calls' \in 0..MaxPackets /\ p \notin not_full
    BY <1>1, <1>b, BoundNatural DEF PushCall, PacketIds, QueueTypeOK, DataTypeOK
  <2> QED BY <1>1, <2>1, PushSectionTyped DEF PushCall
<1>2. ASSUME NEW p \in Producers, PushResume(p) PROVE QueueTypeOK'
  <2>1. arg[p] \in PacketIds /\ calls' \in 0..MaxPackets /\ p \notin not_full
    BY <1>2 DEF PushResume, QueueTypeOK, DataTypeOK
  <2> QED BY <1>2, <2>1, PushSectionTyped DEF PushResume
<1>3. ASSUME NEW p \in Producers, PushNotify(p) PROVE QueueTypeOK'
  BY <1>3, <1>a, <1>b, MoveTyped, NotifyOneShrinks, ThreadsDistinct DEF PushNotify
<1>4. ASSUME NEW c \in Consumers, PopCall(c) PROVE QueueTypeOK'
  BY <1>4, <1>a, <1>b, PopSectionTyped DEF PopCall
<1>5. ASSUME NEW c \in Consumers, PopResume(c) PROVE QueueTypeOK'
  BY <1>5, <1>a, <1>b, PopSectionTyped DEF PopResume
<1>6. ASSUME NEW c \in Consumers, PopExpired(c) PROVE QueueTypeOK'
  BY <1>6, <1>a, <1>b, PopSectionTyped DEF PopExpired
<1>7. ASSUME NEW c \in Consumers, LingerResume(c) PROVE QueueTypeOK'
  BY <1>7, <1>a, <1>b, SleepTyped, TakeBatchTyped DEF LingerResume
<1>8. ASSUME NEW c \in Consumers, LingerExpired(c) PROVE QueueTypeOK'
  BY <1>8, <1>a, <1>b, TakeBatchTyped DEF LingerExpired
<1>9. ASSUME NEW c \in Consumers, PopExpire(c) \/ LingerExpire(c) PROVE QueueTypeOK'
  BY <1>9, <1>a, <1>b, MoveTyped, ThreadsDistinct
     DEF PopExpire, LingerExpire, popUnchanged, ConsumerPC
<1>10. ASSUME NEW c \in Consumers, PopNotifyFull(c) PROVE QueueTypeOK'
  BY <1>10, <1>a, <1>b, MoveTyped, ThreadsDistinct
     DEF PopNotifyFull, NotifyAll, ConsumerPC
<1>11. ASSUME NEW c \in Consumers, PopNotifyEmpty(c) PROVE QueueTypeOK'
  BY <1>11, <1>a, <1>b, MoveTyped, NotifyOneShrinks, ThreadsDistinct
     DEF PopNotifyEmpty, ConsumerPC
<1>12. CASE ShutdownCall
  BY <1>12, <1>a, <1>b, MoveTyped, ThreadsDistinct DEF ShutdownCall, MainPC
<1>13. CASE ShutdownStep
  BY <1>13, <1>a, <1>b, MoveTyped, ThreadsDistinct
     DEF ShutdownStep, ShutdownNotifyFull, ShutdownNotifyEmpty, NotifyAll, MainPC
<1>14. ASSUME NEW t \in Threads, Spurious(t) PROVE QueueTypeOK'
  <2>1. ControlTypeOK'
    BY <1>14 DEF Spurious, QueueTypeOK, ControlTypeOK
  <2>2. DataTypeOK'
    BY <1>14 DEF Spurious, QueueTypeOK, DataTypeOK
  <2> QED BY <2>1, <2>2 DEF QueueTypeOK
<1>15. CASE UNCHANGED queueVars
  <2>1. ControlTypeOK'
    BY <1>15 DEF queueVars, QueueTypeOK, ControlTypeOK
  <2>2. DataTypeOK'
    BY <1>15 DEF queueVars, QueueTypeOK, DataTypeOK
  <2> QED BY <2>1, <2>2 DEF QueueTypeOK
<1> QED
  BY <1>1, <1>2, <1>3, <1>4, <1>5, <1>6, <1>7, <1>8, <1>9, <1>10, <1>11, <1>12,
     <1>13, <1>14, <1>15
  DEF QueueNext, PushStep, PopStep, Expiry

\* Every behaviour of the queue is type correct, and only threads inside
\* the matching wait of push() or pop_batch() are asleep.
THEOREM QueueTypeCorrect == QueueSpec => []QueueTypeOK
BY InitTyped, StepTyped, PTL DEF QueueSpec

-----------------------------------------------------------------------------
(* No wakeup is lost                                                       *)

\* The shape of every step of thread t on pc.
LEMMA GotoFacts ==
    ASSUME QueueTypeOK, NEW t \in Threads, NEW label, Goto(t, label)
    PROVE  pc'[t] = label /\ \A u \in Threads \ {t} : pc'[u] = pc[u]
BY DEF Goto, QueueTypeOK, ControlTypeOK

LEMMA LenFacts ==
    ASSUME QueueTypeOK
    PROVE  Len(items) \in Nat /\ (Len(items) = 0 <=> items = <<>>)
BY EmptySeq, LenProperties DEF QueueTypeOK, DataTypeOK

\* What taking a batch leaves behind, and where the consumer goes with it.
LEMMA TakeFacts ==
    ASSUME QueueTypeOK, NEW c \in Consumers, TakeBatch(c)
    PROVE  /\ Len(items') \in Nat /\ Len(items') <= Len(items)
           /\ Len(items') = 0 <=> items' = <<>>
           /\ items' # <<>> => pc'[c] = "notify_both"
           /\ items # <<>> => pc'[c] \in {"notify_full", "notify_both"}
           /\ items = <<>> => items' = <<>> /\ pc'[c] = "idle"
           /\ \A u \in Threads \ {c} : pc'[u] = pc[u]
<1>1. items \in Seq(PacketIds)
  BY DEF QueueTypeOK, DataTypeOK
<1>2. /\ Len(items') = Len(items) - BatchSize
      /\ items' \in Seq(PacketIds)
  BY <1>1, BatchSizeBounds, Cut DEF TakeBatch
<1>3. /\ pc'[c] = AfterTake(BatchSize, Len(items) - BatchSize)
      /\ \A u \in Threads \ {c} : pc'[u] = pc[u]
  BY GotoFacts DEF TakeBatch, Threads
<1>4. Len(items') = 0 <=> items' = <<>>
  BY <1>2, EmptySeq, LenProperties
<1> QED BY <1>1, <1>2, <1>3, <1>4, BatchSizeBounds, LenFacts DEF AfterTake

LEMMA PushSectionWakes ==
    ASSUME QueueTypeOK, WakeInv, NEW p \in Producers, NEW x \in PacketIds,
           PushSection(p, x), pc[p] # "push_notify"
    PROVE  WakeInv'
<1> USE ThreadsDistinct, SizesPositive, LenFacts DEF Threads
<1>1. CASE PushSleep(p, x) \/ PushRefuse(p, x)
  <2>1. /\ UNCHANGED <<items, wanted, shutdown, not_empty>>
        /\ pc'[p] # "push_notify" /\ \A u \in Threads \ {p} : pc'[u] = pc[u]
        /\ not_full' = not_full \/ (~HasSpace /\ ~shutdown)
    BY <1>1, GotoFacts DEF PushSection, PushSleep, PushRefuse
  <2>2. WithinCapacity' /\ WantedKnown' /\ ShutdownByMain' /\ ShutdownWakesAll'
    BY <2>1 DEF WakeInv, WithinCapacity, WantedKnown, ShutdownByMain, ShutdownWakesAll
  <2>3. NoLostPushWakeup'
    BY <2>1 DEF WakeInv, NoLostPushWakeup, HasSpace
  <2>4. Attending => Attending'
    BY <2>1 DEF Attending, Signalled
  <2>5. NoStrandedPackets' /\ FullBatchHandoff'
    BY <2>1, <2>4 DEF WakeInv, NoStrandedPackets, FullBatchHandoff, QueueTypeOK,
       ControlTypeOK
  <2> QED BY <2>2, <2>3, <2>5 DEF WakeInv
<1>2. CASE PushAppend(p, x)
  <2>1. /\ UNCHANGED <<wanted, shutdown, not_empty, not_full>>
        /\ HasSpace
        /\ Len(items') = Len(items) + 1
        /\ pc'[p] = IF Wake(Len(items) + 1) THEN "push_notify" ELSE "idle"
        /\ \A u \in Threads \ {p} : pc'[u] = pc[u]
    BY <1>2, GotoFacts, AppendProperties
       DEF PushSection, PushAppend, QueueTypeOK, DataTypeOK
  <2>2. WithinCapacity' /\ WantedKnown' /\ ShutdownByMain' /\ ShutdownWakesAll'
    BY <2>1 DEF WakeInv, WithinCapacity, WantedKnown, ShutdownByMain,
       ShutdownWakesAll, HasSpace
  <2>3. NoLostPushWakeup'
    BY <2>1 DEF WakeInv, NoLostPushWakeup, HasSpace
  <2>4. Attending \/ Wake(Len(items) + 1) => Attending'
    BY <2>1 DEF Attending, Signalled
  <2>5. NoStrandedPackets'
    <3>1. CASE items = <<>>
      BY <3>1, <2>1, <2>4 DEF NoStrandedPackets, Wake
    <3>2. CASE items # <<>>
      BY <3>2, <2>1, <2>4 DEF WakeInv, NoStrandedPackets, QueueTypeOK, ControlTypeOK
    <3> QED BY <3>1, <3>2
  <2>6. FullBatchHandoff'
    <3>1. CASE Len(items) >= MaxN
      BY <3>1, <2>1, <2>4 DEF WakeInv, FullBatchHandoff
    <3>2. CASE Len(items) + 1 = MaxN /\ not_empty # {}
      <4>1. wanted = MaxN
        BY <3>2 DEF WakeInv, WantedKnown, QueueTypeOK, ControlTypeOK
      <4> QED BY <3>2, <4>1, <2>4 DEF FullBatchHandoff, Wake
    <3> QED BY <3>1, <3>2, <2>1 DEF FullBatchHandoff
  <2> QED BY <2>2, <2>3, <2>5, <2>6 DEF WakeInv
<1> QED BY <1>1, <1>2 DEF PushSection

LEMMA TakeBatchWakes ==
    ASSUME QueueTypeOK, WakeInv, NEW c \in Consumers, TakeBatch(c), c \notin not_empty,
           pc[c] \notin {"notify_full", "notify_both", "notify_empty"},
           UNCHANGED popUnchanged,
           wanted' = MaxN
    PROVE  WakeInv'
<1> USE ThreadsDistinct, SizesPositive, LenFacts, TakeFacts DEF Threads
<1>1. UNCHANGED <<not_empty, shutdown, not_full>>
  BY DEF TakeBatch, popUnchanged
<1>2. WithinCapacity' /\ WantedKnown' /\ ShutdownByMain' /\ ShutdownWakesAll'
  BY <1>1 DEF WakeInv, WithinCapacity, WantedKnown, ShutdownByMain, ShutdownWakesAll
<1>3. NoLostPushWakeup'
  BY <1>1 DEF WakeInv, NoLostPushWakeup, HasSpace
<1>4. NoStrandedPackets'
  BY <1>1 DEF NoStrandedPackets, Attending
<1>5. FullBatchHandoff'
  BY <1>1 DEF FullBatchHandoff, Attending
<1> QED BY <1>2, <1>3, <1>4, <1>5 DEF WakeInv

\* A consumer goes to sleep on not_empty_ only with the queue open and no
\* full batch in it, and in its first wait only with no packet in it.
LEMMA SleepWakes ==
    ASSUME QueueTypeOK, WakeInv, NEW c \in Consumers,
           NEW label \in {"pop_wait", "linger_wait"}, Sleep(c, label),
           ~shutdown, Len(items) < MaxN, label = "pop_wait" => items = <<>>,
           pc[c] \notin {"notify_full", "notify_both", "notify_empty"},
           UNCHANGED popUnchanged,
           wanted' = MaxN
    PROVE  WakeInv'
<1> USE ThreadsDistinct, SizesPositive, LenFacts DEF Threads
<1>1. /\ UNCHANGED <<items, shutdown, not_full>> /\ not_empty' = not_empty \cup {c}
      /\ pc'[c] = label /\ \A u \in Threads \ {c} : pc'[u] = pc[u]
  BY GotoFacts DEF Sleep, popUnchanged
<1>2. WithinCapacity' /\ WantedKnown' /\ ShutdownByMain' /\ ShutdownWakesAll'
  BY <1>1 DEF WakeInv, WithinCapacity, WantedKnown, ShutdownByMain, ShutdownWakesAll
<1>3. NoLostPushWakeup'
  BY <1>1 DEF WakeInv, NoLostPushWakeup, HasSpace
<1>4. NoStrandedPackets' /\ FullBatchHandoff'
  BY <1>1 DEF NoStrandedPackets, FullBatchHandoff
<1> QED BY <1>2, <1>3, <1>4 DEF WakeInv

\* notify_one on not_empty_ hands the watch from the notifier to a consumer.
LEMMA NotifyOneWakes ==
    ASSUME QueueTypeOK, WakeInv, NEW t \in Producers \cup Consumers,
           pc[t] \in {"push_notify", "notify_empty"}, Goto(t, "idle"),
           not_empty' \in NotifyOne(not_empty),
           UNCHANGED <<items, wanted, shutdown, not_full>>
    PROVE  WakeInv'
<1> USE ThreadsDistinct, SizesPositive, LenFacts DEF Threads
<1>1. pc'[t] = "idle" /\ \A u \in Threads \ {t} : pc'[u] = pc[u]
  BY GotoFacts
<1>2. WithinCapacity' /\ WantedKnown' /\ ShutdownByMain'
  BY <1>1 DEF WakeInv, WithinCapacity, WantedKnown, ShutdownByMain
<1>3. NoLostPushWakeup'
  BY <1>1 DEF WakeInv, NoLostPushWakeup, HasSpace
<1>4. ShutdownWakesAll'
  BY <1>1, NotifyOneShrinks DEF WakeInv, ShutdownWakesAll
<1>5. not_empty' # {} => Attending'
  <2> SUFFICES ASSUME not_empty' # {} PROVE Attending'
    OBVIOUS
  <2>1. PICK u \in not_empty : not_empty' = not_empty \ {u}
    BY NotifyOneShrinks
  <2>2. u \in Consumers /\ u # t /\ pc[u] \in {"pop_wait", "linger_wait"}
    BY <2>1 DEF QueueTypeOK, ControlTypeOK
  <2> QED BY <2>1, <2>2, <1>1 DEF Attending, Signalled
<1>6. NoStrandedPackets' /\ FullBatchHandoff'
  BY <1>5 DEF NoStrandedPackets, FullBatchHandoff
<1> QED BY <1>2, <1>3, <1>4, <1>6 DEF WakeInv

LEMMA InitWakes == QueueInit => WakeInv
<1> SUFFICES ASSUME QueueInit PROVE WakeInv
  OBVIOUS
<1>1. items = <<>> /\ Len(items) = 0 /\ not_full = {} /\ not_empty = {} /\ shutdown = FALSE
  BY EmptySeq DEF QueueInit
<1>2. \A t \in Threads : pc[t] = "idle"
  BY DEF QueueInit
<1>3. WithinCapacity /\ WantedKnown
  BY <1>1, <1>2, SizesPositive DEF WithinCapacity, WantedKnown, Threads
<1>4. ShutdownByMain
  BY <1>1, <1>2 DEF ShutdownByMain, Threads
<1>5. NoLostPushWakeup /\ NoStrandedPackets /\ FullBatchHandoff /\ ShutdownWakesAll
  BY <1>1 DEF NoLostPushWakeup, NoStrandedPackets, FullBatchHandoff, ShutdownWakesAll
<1> QED BY <1>3, <1>4, <1>5 DEF WakeInv

LEMMA StepWakes ==
    QueueTypeOK /\ WakeInv /\ [QueueNext]_queueVars => WakeInv'
<1> SUFFICES ASSUME QueueTypeOK, WakeInv, [QueueNext]_queueVars PROVE WakeInv'
  OBVIOUS
<1> USE ThreadsDistinct, SizesPositive, LenFacts DEF Threads
<1>a. /\ \A c \in Consumers : c \in not_empty => pc[c] \in {"pop_wait", "linger_wait"}
      /\ \A p \in Producers : p \in not_full => pc[p] = "push_wait"
      /\ not_full \subseteq Producers /\ not_empty \subseteq Consumers
  BY DEF QueueTypeOK, ControlTypeOK
<1>b. \A c \in Consumers : pc[c] # "idle" => wanted = MaxN
  BY DEF WakeInv, WantedKnown
<1>1. ASSUME NEW p \in Producers, PushCall(p) PROVE WakeInv'
  <2>1. calls + 1 \in PacketIds
    BY <1>1, BoundNatural DEF PushCall, PacketIds, QueueTypeOK, DataTypeOK
  <2> QED BY <1>1, <2>1, PushSectionWakes DEF PushCall
<1>2. ASSUME NEW p \in Producers, PushResume(p) PROVE WakeInv'
  <2>1. arg[p] \in PacketIds
    BY <1>2 DEF PushResume, QueueTypeOK, DataTypeOK
  <2> QED BY <1>2, <2>1, PushSectionWakes DEF PushResume
<1>3. ASSUME NEW p \in Producers, PushNotify(p) PROVE WakeInv'
  BY <1>3, NotifyOneWakes DEF PushNotify
<1>4. ASSUME NEW c \in Consumers, PopCall(c) PROVE WakeInv'
  BY <1>4, <1>a, TakeBatchWakes, SleepWakes
     DEF PopCall, PopSection, FirstWaitOver, AfterFirstWait, MustLinger
<1>5. ASSUME NEW c \in Consumers, PopResume(c) PROVE WakeInv'
  BY <1>5, <1>b, TakeBatchWakes, SleepWakes
     DEF PopResume, PopSection, FirstWaitOver, AfterFirstWait, MustLinger
<1>6. ASSUME NEW c \in Consumers, PopExpired(c) PROVE WakeInv'
  BY <1>6, <1>a, <1>b, TakeBatchWakes, SleepWakes
     DEF PopExpired, AfterFirstWait, MustLinger
<1>7. ASSUME NEW c \in Consumers, LingerResume(c) PROVE WakeInv'
  BY <1>7, <1>b, TakeBatchWakes, SleepWakes DEF LingerResume, LingerOver
<1>8. ASSUME NEW c \in Consumers, LingerExpired(c) PROVE WakeInv'
  BY <1>8, <1>a, <1>b, TakeBatchWakes DEF LingerExpired
<1>9. ASSUME NEW c \in Consumers, PopExpire(c) \/ LingerExpire(c) PROVE WakeInv'
  <2>1. /\ UNCHANGED <<items, wanted, shutdown, not_full>>
        /\ not_empty' = not_empty \ {c}
        /\ pc[c] \in {"pop_wait", "linger_wait"}
        /\ pc'[c] \in {"pop_expired", "linger_expired"}
        /\ \A u \in Threads \ {c} : pc'[u] = pc[u]
    BY <1>9, GotoFacts DEF PopExpire, LingerExpire, popUnchanged
  <2>2. WithinCapacity' /\ WantedKnown' /\ ShutdownByMain' /\ ShutdownWakesAll'
    BY <2>1 DEF WakeInv, WithinCapacity, WantedKnown, ShutdownByMain, ShutdownWakesAll
  <2>3. NoLostPushWakeup'
    BY <2>1 DEF WakeInv, NoLostPushWakeup, HasSpace
  <2>4. Attending'
    BY <2>1 DEF Attending
  <2> QED BY <2>2, <2>3, <2>4 DEF WakeInv, NoStrandedPackets, FullBatchHandoff
<1>10. ASSUME NEW c \in Consumers, PopNotifyFull(c) PROVE WakeInv'
  <2>1. /\ UNCHANGED <<items, wanted, shutdown, not_empty>>
        /\ not_full' = {}
        /\ pc[c] \in {"notify_full", "notify_both"}
        /\ pc'[c] = IF pc[c] = "notify_both" THEN "notify_empty" ELSE "idle"
        /\ \A u \in Threads \ {c} : pc'[u] = pc[u]
    BY <1>10, GotoFacts DEF PopNotifyFull, NotifyAll
  <2>2. WithinCapacity' /\ WantedKnown' /\ ShutdownByMain' /\ ShutdownWakesAll'
    BY <2>1 DEF WakeInv, WithinCapacity, WantedKnown, ShutdownByMain, ShutdownWakesAll
  <2>3. NoLostPushWakeup'
    BY <2>1 DEF NoLostPushWakeup
  <2>4. Attending => Attending'
    BY <2>1 DEF Attending, Signalled
  <2>5. NoStrandedPackets' /\ FullBatchHandoff'
    BY <2>1, <2>4, <1>a DEF WakeInv, NoStrandedPackets, FullBatchHandoff
  <2> QED BY <2>2, <2>3, <2>5 DEF WakeInv
<1>11. ASSUME NEW c \in Consumers, PopNotifyEmpty(c) PROVE WakeInv'
  BY <1>11, NotifyOneWakes DEF PopNotifyEmpty
<1>12. CASE ShutdownCall
  <2>1. /\ UNCHANGED <<items, wanted, not_full, not_empty>>
        /\ shutdown' = TRUE
        /\ pc'[Main] = "notify_full" /\ \A u \in Threads \ {Main} : pc'[u] = pc[u]
    BY <1>12, GotoFacts DEF ShutdownCall
  <2>2. WithinCapacity' /\ WantedKnown'
    BY <2>1 DEF WakeInv, WithinCapacity, WantedKnown
  <2>3. ShutdownByMain'
    BY <2>1 DEF ShutdownByMain
  <2> QED BY <2>1, <2>2, <2>3 DEF WakeInv, NoLostPushWakeup, NoStrandedPackets,
         FullBatchHandoff, ShutdownWakesAll, Attending
<1>13. CASE ShutdownNotifyFull
  <2>1. /\ UNCHANGED <<items, wanted, shutdown, not_empty>>
        /\ not_full' = {} /\ pc[Main] = "notify_full"
        /\ pc'[Main] = "notify_empty" /\ \A u \in Threads \ {Main} : pc'[u] = pc[u]
    BY <1>13, GotoFacts DEF ShutdownNotifyFull, NotifyAll
  <2>2. WithinCapacity' /\ WantedKnown'
    BY <2>1 DEF WakeInv, WithinCapacity, WantedKnown
  <2>3. ShutdownByMain'
    BY <2>1 DEF WakeInv, ShutdownByMain
  <2> QED BY <2>1, <2>2, <2>3 DEF WakeInv, NoLostPushWakeup, NoStrandedPackets,
         FullBatchHandoff, ShutdownWakesAll, Attending
<1>14. CASE ShutdownNotifyEmpty
  <2>1. /\ UNCHANGED <<items, wanted, shutdown, not_full>>
        /\ not_empty' = {} /\ pc[Main] = "notify_empty"
        /\ pc'[Main] = "done" /\ \A u \in Threads \ {Main} : pc'[u] = pc[u]
    BY <1>14, GotoFacts DEF ShutdownNotifyEmpty, NotifyAll
  <2>2. WithinCapacity' /\ WantedKnown'
    BY <2>1 DEF WakeInv, WithinCapacity, WantedKnown
  <2>3. ShutdownByMain'
    BY <2>1 DEF WakeInv, ShutdownByMain
  <2>4. NoLostPushWakeup'
    BY <2>1 DEF WakeInv, NoLostPushWakeup, HasSpace
  <2> QED BY <2>1, <2>2, <2>3, <2>4 DEF WakeInv, NoStrandedPackets,
         FullBatchHandoff, ShutdownWakesAll
<1>15. ASSUME NEW t \in Threads, Spurious(t) PROVE WakeInv'
  <2>1. /\ UNCHANGED <<items, wanted, shutdown, pc>>
        /\ not_full' = not_full \ {t} /\ not_empty' = not_empty \ {t}
    BY <1>15 DEF Spurious
  <2>2. WithinCapacity' /\ WantedKnown' /\ ShutdownByMain' /\ ShutdownWakesAll'
    BY <2>1 DEF WakeInv, WithinCapacity, WantedKnown, ShutdownByMain, ShutdownWakesAll
  <2>3. NoLostPushWakeup'
    BY <2>1 DEF WakeInv, NoLostPushWakeup, HasSpace
  <2>4. Attending => Attending'
    BY <2>1 DEF Attending, Signalled
  <2>5. NoStrandedPackets' /\ FullBatchHandoff'
    BY <2>1, <2>4 DEF WakeInv, NoStrandedPackets, FullBatchHandoff
  <2> QED BY <2>2, <2>3, <2>5 DEF WakeInv
<1>16. CASE UNCHANGED queueVars
  <2>1. UNCHANGED <<items, wanted, shutdown, pc, not_full, not_empty>>
    BY <1>16 DEF queueVars
  <2> QED BY <2>1 DEF WakeInv, WithinCapacity, WantedKnown, ShutdownByMain,
       ShutdownWakesAll, NoLostPushWakeup, HasSpace, NoStrandedPackets,
       FullBatchHandoff, Attending, Signalled
<1> QED
  BY <1>1, <1>2, <1>3, <1>4, <1>5, <1>6, <1>7, <1>8, <1>9, <1>10, <1>11, <1>12,
     <1>13, <1>14, <1>15, <1>16
  DEF QueueNext, PushStep, PopStep, Expiry, ShutdownStep

\* The inductive invariant holds throughout; each wakeup property below is
\* one of its conjuncts.
THEOREM QueueWakeInv == QueueSpec => [](QueueTypeOK /\ WakeInv)
<1>1. QueueInit => QueueTypeOK /\ WakeInv
  BY InitTyped, InitWakes
<1>2. QueueTypeOK /\ WakeInv /\ [QueueNext]_queueVars => (QueueTypeOK /\ WakeInv)'
  BY StepTyped, StepWakes
<1> QED BY <1>1, <1>2, PTL DEF QueueSpec

\* push() never lets the queue grow past capacity_.
THEOREM QueueWithinCapacity == QueueSpec => []WithinCapacity
<1>1. QueueTypeOK /\ WakeInv => WithinCapacity
  BY DEF WakeInv
<1> QED BY <1>1, QueueWakeInv, PTL

\* A producer asleep on not_full_ always has a reason to be, or a notifier.
THEOREM QueueNoLostPushWakeup == QueueSpec => []NoLostPushWakeup
<1>1. QueueTypeOK /\ WakeInv => NoLostPushWakeup
  BY DEF WakeInv
<1> QED BY <1>1, QueueWakeInv, PTL

\* Queued packets never wait for the poll timeout of a sleeping consumer.
THEOREM QueueNoStrandedPackets == QueueSpec => []NoStrandedPackets
<1>1. QueueTypeOK /\ WakeInv => NoStrandedPackets
  BY DEF WakeInv
<1> QED BY <1>1, QueueWakeInv, PTL

\* A full batch never waits while every consumer sleeps or lingers.
THEOREM QueueFullBatchHandoff == QueueSpec => []FullBatchHandoff
<1>1. QueueTypeOK /\ WakeInv => FullBatchHandoff
  BY DEF WakeInv
<1> QED BY <1>1, QueueWakeInv, PTL

\* No consumer sleeps past the end of shutdown().
THEOREM QueueShutdownWakesAll == QueueSpec => []ShutdownWakesAll
<1>1. QueueTypeOK /\ WakeInv => ShutdownWakesAll
  BY DEF WakeInv
<1> QED BY <1>1, QueueWakeInv, PTL

-----------------------------------------------------------------------------
(* What becomes of each packet: order, conservation, and the refinement of *)
(* the abstract channel.                                                   *)

\* Appending on the right of a concatenation.
LEMMA AppendConcat ==
    ASSUME NEW a \in Seq(PacketIds), NEW b \in Seq(PacketIds), NEW x \in PacketIds
    PROVE  Append(a \o b, x) = a \o Append(b, x)
<1>1. Append(a \o b, x) = (a \o b) \o <<x>>
  BY AppendIsConcat, ConcatProperties
<1>2. Append(b, x) = b \o <<x>>
  BY AppendIsConcat
<1>3. <<x>> \in Seq(PacketIds)
  OBVIOUS
<1> QED BY <1>1, <1>2, <1>3, ConcatAssociative

\* A batch moved from the queue to the popped packets changes no order.
LEMMA Regroup ==
    ASSUME NEW a \in Seq(PacketIds), NEW b \in Seq(PacketIds), NEW c \in Seq(PacketIds)
    PROVE  (a \o b) \o c = a \o (b \o c)
BY ConcatAssociative

\* Every action touches the packets in one of five ways.
LEMMA StepKinds ==
    ASSUME QueueTypeOK, [QueueNext]_queueVars
    PROVE  \/ \E p \in Producers :
                 /\ PushSection(p, calls + 1) /\ calls + 1 \in PacketIds
                 /\ calls' = calls + 1 /\ pc[p] = "idle"
           \/ \E p \in Producers :
                 /\ PushSection(p, arg[p]) /\ arg[p] \in PacketIds
                 /\ calls' = calls /\ pc[p] = "push_wait"
           \/ \E c \in Consumers : TakeBatch(c) /\ UNCHANGED popUnchanged
           \/ /\ UNCHANGED <<items, arg, calls, pushed, popped, rejected, shutdown>>
              /\ Blocked' = Blocked
           \/ ShutdownCall
<1> USE ThreadsDistinct DEF Threads
<1>1. ASSUME NEW p \in Producers, PushCall(p)
      PROVE  /\ PushSection(p, calls + 1) /\ calls + 1 \in PacketIds
             /\ calls' = calls + 1 /\ pc[p] = "idle"
  BY <1>1, BoundNatural DEF PushCall, PacketIds, QueueTypeOK, DataTypeOK
<1>2. ASSUME NEW p \in Producers, PushResume(p)
      PROVE  /\ PushSection(p, arg[p]) /\ arg[p] \in PacketIds
             /\ calls' = calls /\ pc[p] = "push_wait"
  BY <1>2 DEF PushResume, QueueTypeOK, DataTypeOK
<1>3. ASSUME NEW p \in Producers, PushNotify(p)
      PROVE  /\ UNCHANGED <<items, arg, calls, pushed, popped, rejected, shutdown>>
             /\ Blocked' = Blocked
  BY <1>3, GotoFacts DEF PushNotify, Blocked
<1>4. ASSUME NEW c \in Consumers, NEW label, Sleep(c, label), UNCHANGED popUnchanged
      PROVE  /\ UNCHANGED <<items, arg, calls, pushed, popped, rejected, shutdown>>
             /\ Blocked' = Blocked
  BY <1>4, GotoFacts DEF Sleep, popUnchanged, Blocked
<1>5. ASSUME NEW c \in Consumers,
             PopCall(c) \/ PopResume(c) \/ PopExpired(c) \/ LingerResume(c)
                \/ LingerExpired(c)
      PROVE  /\ UNCHANGED popUnchanged
             /\ TakeBatch(c) \/ \E label \in {"pop_wait", "linger_wait"} : Sleep(c, label)
  BY <1>5 DEF PopCall, PopResume, PopExpired, LingerResume, LingerExpired,
         PopSection, AfterFirstWait
<1>6. ASSUME NEW c \in Consumers, Expiry(c) \/ PopNotifyFull(c) \/ PopNotifyEmpty(c)
      PROVE  /\ UNCHANGED <<items, arg, calls, pushed, popped, rejected, shutdown>>
             /\ Blocked' = Blocked
  BY <1>6, GotoFacts DEF Expiry, PopExpire, LingerExpire, PopNotifyFull,
         PopNotifyEmpty, popUnchanged, Blocked
<1>7. ASSUME ShutdownStep
      PROVE  /\ UNCHANGED <<items, arg, calls, pushed, popped, rejected, shutdown>>
             /\ Blocked' = Blocked
  BY <1>7, GotoFacts DEF ShutdownStep, ShutdownNotifyFull, ShutdownNotifyEmpty, Blocked
<1>8. ASSUME NEW t \in Threads, Spurious(t)
      PROVE  /\ UNCHANGED <<items, arg, calls, pushed, popped, rejected, shutdown>>
             /\ Blocked' = Blocked
  BY <1>8 DEF Spurious, Blocked
<1>9. ASSUME UNCHANGED queueVars
      PROVE  /\ UNCHANGED <<items, arg, calls, pushed, popped, rejected, shutdown>>
             /\ Blocked' = Blocked
  BY <1>9 DEF queueVars, Blocked
<1> QED
  BY <1>1, <1>2, <1>3, <1>4, <1>5, <1>6, <1>7, <1>8, <1>9
  DEF QueueNext, PushStep, PopStep

\* FIFO order survives an append at the back and a cut at the front.
LEMMA StepFifo ==
    ASSUME QueueTypeOK, Fifo, [QueueNext]_queueVars
    PROVE  Fifo'
<1>1. items \in Seq(PacketIds) /\ pushed \in Seq(PacketIds) /\ popped \in Seq(PacketIds)
  BY DEF QueueTypeOK, DataTypeOK
<1>2. ASSUME NEW p \in Producers, NEW x \in PacketIds, PushSection(p, x)
      PROVE  Fifo'
  <2>1. CASE PushAppend(p, x)
    BY <1>1, <1>2, <2>1, AppendConcat DEF PushSection, PushAppend, Fifo
  <2>2. CASE PushSleep(p, x) \/ PushRefuse(p, x)
    BY <1>2, <2>2 DEF PushSection, PushSleep, PushRefuse, Fifo
  <2> QED BY <1>2, <2>1, <2>2 DEF PushSection
<1>3. ASSUME NEW c \in Consumers, TakeBatch(c), UNCHANGED popUnchanged
      PROVE  Fifo'
  <2> DEFINE front == SubSeq(items, 1, BatchSize)
             rest  == SubSeq(items, BatchSize + 1, Len(items))
  <2>1. /\ front \in Seq(PacketIds) /\ rest \in Seq(PacketIds)
        /\ front \o rest = items
    BY <1>1, BatchSizeBounds, Cut
  <2>2. popped' = popped \o front /\ items' = rest /\ pushed' = pushed
    BY <1>3 DEF TakeBatch, popUnchanged
  <2> HIDE DEF front, rest
  <2>3. (popped \o front) \o rest = popped \o (front \o rest)
    BY <1>1, <2>1, Regroup
  <2> QED BY <2>1, <2>2, <2>3 DEF Fifo
<1>4. CASE UNCHANGED <<items, pushed, popped>>
  BY <1>4 DEF Fifo
<1> QED BY StepKinds, <1>2, <1>3, <1>4 DEF ShutdownCall

\* Packets leave the queue in the order they entered it.
THEOREM QueueFifo == QueueSpec => []Fifo
<1>1. QueueInit => Fifo
  BY ConcatEmptySeq, EmptySeq DEF QueueInit, Fifo
<1>2. QueueTypeOK /\ Fifo /\ [QueueNext]_queueVars => Fifo'
  BY StepFifo
<1> QED BY <1>1, <1>2, QueueTypeCorrect, PTL DEF QueueSpec

-----------------------------------------------------------------------------
(* One fate for every packet, and none without a fate                      *)

\* Appending a new packet adds it to the accepted ones, once.
LEMMA AppendAccepts ==
    ASSUME pushed \in Seq(PacketIds), NEW x \in PacketIds, x \notin Accepted,
           pushed' = Append(pushed, x),
           \A i, j \in DOMAIN pushed : pushed[i] = pushed[j] => i = j
    PROVE  /\ Accepted' = Accepted \cup {x}
           /\ \A i, j \in DOMAIN pushed' : pushed'[i] = pushed'[j] => i = j
<1>1. /\ Len(pushed) \in Nat /\ DOMAIN pushed = 1..Len(pushed)
      /\ DOMAIN pushed' = 1..(Len(pushed) + 1)
      /\ \A i \in DOMAIN pushed : pushed'[i] = pushed[i]
      /\ pushed'[Len(pushed) + 1] = x
  BY AppendProperties, LenProperties
<1>2. DOMAIN pushed' = DOMAIN pushed \cup {Len(pushed) + 1}
  BY <1>1
<1>3. Accepted' = Accepted \cup {x}
  BY <1>1, <1>2 DEF Accepted
<1>4. \A i \in DOMAIN pushed : pushed[i] # x
  BY DEF Accepted
<1> QED BY <1>1, <1>2, <1>3, <1>4

\* The packet x that a push() section decides about is new to everyone but
\* its caller p; the other packets already have their fate.
Undecided(p, x) ==
    /\ x \notin Accepted \cup rejected
    /\ \A q \in Blocked \ {p} : arg[q] # x
    /\ 1..calls' = Accepted \cup rejected \cup {arg[q] : q \in Blocked \ {p}} \cup {x}

LEMMA PushDecides ==
    ASSUME QueueTypeOK, NothingDropped, OneFate,
           NEW p \in Producers, NEW x \in PacketIds, PushSection(p, x), Undecided(p, x)
    PROVE  NothingDropped' /\ OneFate'
<1> DEFINE others == Blocked \ {p}
<1>1. /\ \A q \in Producers \ {p} : pc'[q] = pc[q] /\ arg'[q] = arg[q]
      /\ shutdown' = shutdown
  BY GotoFacts DEF Threads, PushSection, PushSleep, PushRefuse, PushAppend,
     QueueTypeOK, DataTypeOK
<1>2. /\ \A q \in others : q \in Producers /\ q # p /\ arg'[q] = arg[q]
      /\ {arg'[q] : q \in others} = {arg[q] : q \in others}
      /\ Blocked' \ {p} = others
      /\ p \in Blocked' <=> pc'[p] = "push_wait"
  BY <1>1 DEF Blocked
<1>3. pushed \in Seq(PacketIds)
  BY DEF QueueTypeOK, DataTypeOK
<1>4. /\ \A q \in others : arg[q] \notin Accepted \cup rejected /\ arg[q] # x
      /\ \A q, r \in others : arg[q] = arg[r] => q = r
      /\ x \notin Accepted \cup rejected
      /\ Accepted \cap rejected = {}
      /\ 1..calls' = Accepted \cup rejected \cup {arg[q] : q \in others} \cup {x}
  BY DEF Undecided, OneFate
<1>5. CASE PushSleep(p, x)
  <2>1. /\ Accepted' = Accepted /\ rejected' = rejected /\ pushed' = pushed
        /\ arg'[p] = x /\ pc'[p] = "push_wait"
    BY <1>5, GotoFacts DEF Threads, PushSleep, Accepted, QueueTypeOK, DataTypeOK
  <2>2. Blocked' = others \cup {p}
    BY <1>2, <2>1
  <2> HIDE DEF others
  <2>3. {arg'[q] : q \in Blocked'} = {arg[q] : q \in others} \cup {x}
    BY <1>2, <2>1, <2>2
  <2>4. NothingDropped'
    BY <1>1, <1>4, <2>1, <2>3 DEF NothingDropped
  <2>5. OneFate'
    <3>1. \A q \in Blocked' : arg'[q] \notin (Accepted \cup rejected)'
      BY <1>2, <1>4, <2>1, <2>2
    <3>2. \A q, r \in Blocked' : arg'[q] = arg'[r] => q = r
      BY <1>2, <1>4, <2>1, <2>2
    <3> QED BY <1>4, <2>1, <3>1, <3>2 DEF OneFate
  <2> QED BY <2>4, <2>5
<1>6. CASE PushRefuse(p, x) \/ PushAppend(p, x)
  <2>1. p \notin Blocked'
    BY <1>6, GotoFacts DEF Threads, PushRefuse, PushAppend, Blocked
  <2>2. Blocked' = others /\ {arg'[q] : q \in Blocked'} = {arg[q] : q \in others}
    BY <1>2, <2>1
  <2> HIDE DEF others
  <2>3. /\ (Accepted \cup rejected)' = Accepted \cup rejected \cup {x}
        /\ (Accepted \cap rejected)' = {}
        /\ rejected' # {} => shutdown'
        /\ \A i, j \in DOMAIN pushed' : pushed'[i] = pushed'[j] => i = j
    <3>1. CASE PushRefuse(p, x)
      <4>1. /\ Accepted' = Accepted /\ rejected' = rejected \cup {x} /\ shutdown'
            /\ pushed' = pushed
        BY <1>1, <3>1 DEF PushRefuse, Accepted
      <4> QED BY <1>4, <4>1 DEF OneFate
    <3>2. CASE PushAppend(p, x)
      <4>1. rejected' = rejected /\ pushed' = Append(pushed, x)
        BY <3>2 DEF PushAppend
      <4>2. /\ Accepted' = Accepted \cup {x}
            /\ \A i, j \in DOMAIN pushed' : pushed'[i] = pushed'[j] => i = j
        BY <1>3, <1>4, <4>1, AppendAccepts DEF OneFate
      <4> QED BY <1>1, <1>4, <4>1, <4>2 DEF NothingDropped
    <3> QED BY <1>6, <3>1, <3>2
  <2>4. NothingDropped'
    BY <1>4, <2>2, <2>3 DEF NothingDropped
  <2>5. OneFate'
    <3>1. \A q \in Blocked' : arg'[q] \notin (Accepted \cup rejected)'
      BY <1>2, <1>4, <2>2, <2>3
    <3>2. \A q, r \in Blocked' : arg'[q] = arg'[r] => q = r
      BY <1>2, <1>4, <2>2
    <3> QED BY <2>3, <3>1, <3>2 DEF OneFate
  <2> QED BY <2>4, <2>5
<1> QED BY <1>5, <1>6 DEF PushSection

LEMMA StepDecides ==
    ASSUME QueueTypeOK, NothingDropped, OneFate, [QueueNext]_queueVars
    PROVE  NothingDropped' /\ OneFate'
<1>1. ASSUME NEW p \in Producers, PushSection(p, calls + 1), calls + 1 \in PacketIds,
             calls' = calls + 1, pc[p] = "idle"
      PROVE  NothingDropped' /\ OneFate'
  <2>1. /\ calls \in Nat /\ calls + 1 \notin 1..calls
        /\ 1..calls' = 1..calls \cup {calls + 1}
    BY <1>1, BoundNatural DEF QueueTypeOK, DataTypeOK
  <2>2. Blocked \ {p} = Blocked
    BY <1>1 DEF Blocked
  <2>3. Undecided(p, calls + 1)
    BY <2>1, <2>2 DEF Undecided, NothingDropped
  <2> QED BY <1>1, <2>3, PushDecides
<1>2. ASSUME NEW p \in Producers, PushSection(p, arg[p]), arg[p] \in PacketIds,
             calls' = calls, pc[p] = "push_wait"
      PROVE  NothingDropped' /\ OneFate'
  <2>1. p \in Blocked /\ Blocked = (Blocked \ {p}) \cup {p}
    BY <1>2 DEF Blocked
  <2>2. {arg[q] : q \in Blocked} = {arg[q] : q \in Blocked \ {p}} \cup {arg[p]}
    BY <2>1
  <2>3. Undecided(p, arg[p])
    BY <1>2, <2>1, <2>2 DEF Undecided, NothingDropped, OneFate
  <2> QED BY <1>2, <2>3, PushDecides
<1>3. ASSUME UNCHANGED <<arg, calls, pushed, rejected>>, Blocked' = Blocked,
             shutdown => shutdown'
      PROVE  NothingDropped' /\ OneFate'
  <2>1. Accepted' = Accepted
    BY <1>3 DEF Accepted
  <2> QED BY <1>3, <2>1 DEF NothingDropped, OneFate
<1>4. ASSUME NEW c \in Consumers, TakeBatch(c), UNCHANGED popUnchanged
      PROVE  UNCHANGED <<arg, calls, pushed, rejected, shutdown>> /\ Blocked' = Blocked
  BY <1>4, TakeFacts, ThreadsDistinct DEF Threads, popUnchanged, Blocked
<1>5. ASSUME ShutdownCall
      PROVE  UNCHANGED <<arg, calls, pushed, rejected>> /\ Blocked' = Blocked /\ shutdown'
  BY <1>5, GotoFacts, ThreadsDistinct DEF Threads, ShutdownCall, Blocked
<1> QED BY StepKinds, <1>1, <1>2, <1>3, <1>4, <1>5

\* The queue's order invariant: packets leave in order, every packet given
\* to push() is accounted for, and each has one fate only.
THEOREM QueueOrder == QueueSpec => [](QueueTypeOK /\ OrderInv)
<1>1. QueueInit => NothingDropped /\ OneFate
  <2> SUFFICES ASSUME QueueInit PROVE NothingDropped /\ OneFate
    OBVIOUS
  <2>1. Accepted = {} /\ Blocked = {} /\ rejected = {} /\ calls = 0 /\ DOMAIN pushed = {}
    BY EmptySeq DEF QueueInit, Accepted, Blocked, Threads
  <2> QED BY <2>1 DEF NothingDropped, OneFate
<1>2. QueueTypeOK /\ NothingDropped /\ OneFate /\ [QueueNext]_queueVars
         => NothingDropped' /\ OneFate'
  BY StepDecides
<1> QED BY <1>1, <1>2, QueueTypeCorrect, QueueFifo, PTL DEF QueueSpec, OrderInv

\* push() loses no packet: each one is in the queue or was taken from it, is
\* held by a blocked push(), or was refused because the queue was shut down.
THEOREM QueueDropsNothing == QueueSpec => []NothingDropped
<1>1. QueueTypeOK /\ OrderInv => NothingDropped
  BY DEF OrderInv
<1> QED BY <1>1, QueueOrder, PTL

\* No packet is appended twice, or both appended and refused.
THEOREM QueueOneFate == QueueSpec => []OneFate
<1>1. QueueTypeOK /\ OrderInv => OneFate
  BY DEF OrderInv
<1> QED BY <1>1, QueueOrder, PTL

-----------------------------------------------------------------------------
(* The queue implements the abstract channel                               *)

LEMMA StepImplements ==
    ASSUME QueueTypeOK, ShutdownByMain, [QueueNext]_queueVars
    PROVE  [Channel!ChannelNext]_(Channel!channelVars)
<1> USE DEF Channel!ChannelNext, Channel!channelVars
<1>1. items \in Seq(PacketIds)
  BY DEF QueueTypeOK, DataTypeOK
<1>2. ASSUME NEW p \in Producers, NEW x \in PacketIds, PushSection(p, x)
      PROVE  [Channel!ChannelNext]_(Channel!channelVars)
  <2>1. CASE PushAppend(p, x)
    BY <1>2, <2>1 DEF PushSection, PushAppend, HasSpace, Channel!Send
  <2>2. CASE PushSleep(p, x) \/ PushRefuse(p, x)
    BY <1>2, <2>2 DEF PushSection, PushSleep, PushRefuse
  <2> QED BY <1>2, <2>1, <2>2 DEF PushSection
<1>3. ASSUME NEW c \in Consumers, TakeBatch(c), UNCHANGED popUnchanged
      PROVE  [Channel!ChannelNext]_(Channel!channelVars)
  <2>1. CASE items = <<>>
    <3>1. items' = <<>>
      BY <1>3, <2>1, TakeFacts
    <3>2. SubSeq(items, 1, BatchSize) = <<>>
      BY <1>1, <2>1, BatchSizeBounds, SubSeqEmpty
    <3>3. popped' = popped
      BY <1>3, <3>2, ConcatEmptySeq DEF TakeBatch, QueueTypeOK, DataTypeOK
    <3> QED BY <1>3, <2>1, <3>1, <3>3 DEF popUnchanged
  <2>2. CASE items # <<>>
    <3>1. BatchSize \in 1..MaxN /\ BatchSize <= Len(items)
          /\ (BatchSize = MaxN \/ BatchSize = Len(items))
      BY <1>1, <2>2, BatchSizeBounds, SizesPositive, LenFacts
    <3>2. Channel!Receive(BatchSize)
      BY <1>3, <3>1 DEF Channel!Receive, TakeBatch, popUnchanged
    <3> QED BY <3>1, <3>2
  <2> QED BY <2>1, <2>2
<1>4. CASE UNCHANGED <<items, popped, shutdown>>
  BY <1>4
<1>5. CASE ShutdownCall
  <2>1. shutdown = FALSE
    BY <1>5 DEF ShutdownCall, ShutdownByMain, QueueTypeOK, DataTypeOK
  <2> QED BY <1>5, <2>1 DEF ShutdownCall, Channel!Close
<1> QED BY StepKinds, <1>2, <1>3, <1>4, <1>5

\* Every behaviour of the threads, the mutex and the condition variables is
\* a behaviour of the bounded FIFO channel: push() is Send or nothing,
\* pop_batch() is one Receive or nothing, shutdown() is Close.
THEOREM QueueImplementsChannel == QueueSpec => ImplementsChannel
<1>1. QueueInit => Channel!ChannelInit
  BY DEF QueueInit, Channel!ChannelInit
<1>2. QueueTypeOK /\ ShutdownByMain /\ [QueueNext]_queueVars
         => [Channel!ChannelNext]_(Channel!channelVars)
  BY StepImplements
<1>3. QueueTypeOK /\ WakeInv => QueueTypeOK /\ ShutdownByMain
  BY DEF WakeInv
<1> QED BY <1>1, <1>2, <1>3, QueueWakeInv, PTL
        DEF QueueSpec, ImplementsChannel, Channel!ChannelSpec
=============================================================================
