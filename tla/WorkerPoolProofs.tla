-------------------------- MODULE WorkerPoolProofs --------------------------
(***************************************************************************)
(* Theorems about the worker pool, for any number of workers, producers,   *)
(* packets, any capacity and any batch size.  The pool inherits what is    *)
(* proved of the queue, because each of its steps is a step of the queue   *)
(* or leaves the queue alone.                                              *)
(***************************************************************************)
EXTENDS WorkerPool, PacketQueueProofs, FiniteSetTheorems, FunctionTheorems

\* The packets of a sequence.
Members(s) == {s[i] : i \in DOMAIN s}
Injective(s) == \A i, j \in DOMAIN s : s[i] = s[j] => i = j

\* Where pop_batch() has released the mutex with nothing taken yet.
Waiting == {"pop_wait", "pop_expired", "linger_wait", "linger_expired"}

\* Workers whose batch is being filled, analysed or counted.
Holders == {w \in Consumers : worker[w] \in {"popping", "counting"}}

\* No packet is in two workers' batches or twice in one; a batch that waits
\* to be counted is not empty and has been analysed.
BatchesApart ==
    /\ \A w \in Consumers : pc[w] \in Waiting => batch[w] = <<>>
    /\ \A w \in Consumers : worker[w] = "counting" => batch[w] # <<>>
    /\ \A w \in Consumers : worker[w] = "counting" =>
          \A k \in Members(batch[w]) : analysed[k] = 1
    /\ \A w \in Holders : Injective(batch[w])
    /\ \A w, v \in Holders : w # v => Members(batch[w]) \cap Members(batch[v]) = {}

\* The packets processed_ stands for: analysed, and not in a batch that is
\* still to be counted.
Counted ==
    {k \in PacketIds :
        /\ analysed[k] = 1
        /\ \A w \in Consumers : worker[w] = "counting" => k \notin Members(batch[w])}
CountersExact == processed = Cardinality(Counted) /\ batches <= processed

\* A worker that has left saw the queue shut down and empty; it stays so.
Finished == (\E w \in Consumers : worker[w] = "exited") => is_finished

\* The pool's inductive invariant, relative to the queue's.
PoolInv == BatchesApart /\ AnalysedOnce /\ CountersExact /\ Finished

-----------------------------------------------------------------------------
(* Sequences without repetition                                            *)

\* A sequence without repetition has as many members as positions.
LEMMA MembersCount ==
    ASSUME NEW s \in Seq(PacketIds), Injective(s)
    PROVE  /\ IsFiniteSet(Members(s))
           /\ Cardinality(Members(s)) = Len(s)
<1>1. Len(s) \in Nat /\ DOMAIN s = 1..Len(s) /\ s \in [1..Len(s) -> PacketIds]
  BY LenProperties
<1>2. s \in Bijection(1..Len(s), Members(s))
  <2>1. s \in [1..Len(s) -> Members(s)]
    BY <1>1 DEF Members
  <2>2. s \in Injection(1..Len(s), Members(s))
    BY <1>1, <2>1 DEF Injective, Injection, IsInjective
  <2>3. s \in Surjection(1..Len(s), Members(s))
    BY <1>1, <2>1 DEF Members, Surjection
  <2> QED BY <2>2, <2>3 DEF Bijection
<1>3. ExistsBijection(1..Len(s), Members(s))
  BY <1>2 DEF ExistsBijection
<1>4. IsFiniteSet(1..Len(s)) /\ Cardinality(1..Len(s)) = Len(s)
  BY <1>1, FS_Interval
<1> QED BY <1>3, <1>4, FS_Bijection

\* The members of a concatenation.
LEMMA ConcatMembers ==
    ASSUME NEW s \in Seq(PacketIds), NEW t \in Seq(PacketIds)
    PROVE  /\ Members(s \o t) = Members(s) \cup Members(t)
           /\ Injective(s \o t) => /\ Injective(s) /\ Injective(t)
                                   /\ Members(s) \cap Members(t) = {}
<1> DEFINE m == Len(s)
           n == Len(t)
<1>1. /\ m \in Nat /\ n \in Nat
      /\ DOMAIN s = 1..m /\ DOMAIN t = 1..n /\ DOMAIN (s \o t) = 1..(m + n)
      /\ \A i \in 1..m : (s \o t)[i] = s[i]
      /\ \A j \in 1..n : (s \o t)[m + j] = t[j]
  BY ConcatProperties, LenProperties
<1> HIDE DEF m, n
<1>2. /\ \A i \in 1..(m + n) : i \in 1..m \/ \E j \in 1..n : i = m + j
      /\ \A j \in 1..n : m + j \in 1..(m + n) /\ m + j \notin 1..m
      /\ \A i \in 1..m : i \in 1..(m + n)
  <2>1. \A i \in 1..(m + n) : i \in 1..m \/ (i - m \in 1..n /\ i = m + (i - m))
    BY <1>1
  <2>2. \A i \in 1..(m + n) : i \in 1..m \/ \E j \in 1..n : i = m + j
    BY <2>1
  <2>3. \A j \in 1..n : m + j \in 1..(m + n) /\ m + j \notin 1..m
    BY <1>1
  <2>4. \A i \in 1..m : i \in 1..(m + n)
    BY <1>1
  <2> QED BY <2>2, <2>3, <2>4
<1>3. Members(s \o t) = Members(s) \cup Members(t)
  <2>1. \A k : k \in Members(s \o t) <=> \E i \in 1..(m + n) : (s \o t)[i] = k
    BY <1>1 DEF Members
  <2>2. \A k : k \in Members(s) <=> \E i \in 1..m : s[i] = k
    BY <1>1 DEF Members
  <2>3. \A k : k \in Members(t) <=> \E j \in 1..n : t[j] = k
    BY <1>1 DEF Members
  <2>4. ASSUME NEW k, k \in Members(s \o t) PROVE k \in Members(s) \cup Members(t)
    BY <1>1, <1>2, <2>1, <2>2, <2>3, <2>4
  <2>5. ASSUME NEW k, k \in Members(s) \cup Members(t) PROVE k \in Members(s \o t)
    BY <1>1, <1>2, <2>1, <2>2, <2>3, <2>5
  <2> QED BY <2>4, <2>5
<1>4. ASSUME Injective(s \o t)
      PROVE  /\ Injective(s) /\ Injective(t) /\ Members(s) \cap Members(t) = {}
  <2>1. Injective(s)
    BY <1>1, <1>2, <1>4 DEF Injective
  <2>2. Injective(t)
    <3> SUFFICES ASSUME NEW i \in 1..n, NEW j \in 1..n, t[i] = t[j] PROVE i = j
      BY <1>1 DEF Injective
    <3>1. /\ m + i \in DOMAIN (s \o t) /\ m + j \in DOMAIN (s \o t)
          /\ (s \o t)[m + i] = (s \o t)[m + j]
      BY <1>1, <1>2
    <3>2. m + i = m + j
      BY <1>4, <3>1 DEF Injective
    <3> QED BY <1>1, <3>2
  <2>3. \A i \in 1..m, j \in 1..n : s[i] # t[j]
    <3> SUFFICES ASSUME NEW i \in 1..m, NEW j \in 1..n, s[i] = t[j] PROVE FALSE
      OBVIOUS
    <3>1. i = m + j
      BY <1>1, <1>2, <1>4 DEF Injective
    <3> QED BY <1>2, <3>1
  <2> QED BY <1>1, <2>1, <2>2, <2>3 DEF Members
<1> QED BY <1>3, <1>4

\* What a consumer takes is new: no packet of the batch was popped before,
\* and none is in it twice.
LEMMA FrontIsNew ==
    ASSUME QueueTypeOK, OrderInv, NEW c \in Consumers, TakeBatch(c)
    PROVE  LET got == SubSeq(items, 1, BatchSize)
           IN  /\ got \in Seq(PacketIds) /\ Injective(got)
               /\ popped' = popped \o got
               /\ Members(popped) \cap Members(got) = {}
               /\ batch' = [batch EXCEPT ![c] = got]
<1> DEFINE got  == SubSeq(items, 1, BatchSize)
           rest == SubSeq(items, BatchSize + 1, Len(items))
<1>1. items \in Seq(PacketIds) /\ popped \in Seq(PacketIds) /\ pushed \in Seq(PacketIds)
  BY DEF QueueTypeOK, DataTypeOK
<1>2. got \in Seq(PacketIds) /\ rest \in Seq(PacketIds) /\ got \o rest = items
  BY <1>1, BatchSizeBounds, Cut
<1>3. popped' = popped \o got /\ batch' = [batch EXCEPT ![c] = got]
  BY DEF TakeBatch
<1> HIDE DEF got, rest
<1>4. Injective(popped \o items)
  BY DEF OrderInv, Fifo, OneFate, Injective
<1>5. Injective(items) /\ Members(popped) \cap Members(items) = {}
  BY <1>1, <1>4, ConcatMembers
<1>6. Injective(got) /\ Members(items) = Members(got) \cup Members(rest)
  BY <1>2, <1>5, ConcatMembers
<1>7. /\ got \in Seq(PacketIds) /\ Injective(got)
      /\ popped' = popped \o got
      /\ Members(popped) \cap Members(got) = {}
      /\ batch' = [batch EXCEPT ![c] = got]
  BY <1>2, <1>3, <1>5, <1>6
<1> QED BY <1>7 DEF got

-----------------------------------------------------------------------------
(* The pool's steps are the queue's                                        *)

\* The pool uses the queue only through push(), pop_batch() and shutdown().
LEMMA PoolStepsQueue == [PoolNext]_allPoolVars => [QueueNext]_queueVars
BY DEF PoolNext, QueueNext, StartWorker, WorkerStep, WorkerPop, WorkerAnalyze,
       WorkerCount, WorkerCheck, WorkerInPop, allPoolVars

\* Every behaviour of the pool is a behaviour of the queue, so that what is
\* proved of the queue holds in the pool.
THEOREM PoolUsesQueue == PoolSpec => QueueSpec
BY PoolStepsQueue, PTL DEF PoolSpec, QueueSpec

\* Worker w has no packets in its hands and may be given some.
EmptyHanded(w) ==
    worker[w] = "looping" \/ (worker[w] = "popping" /\ pc[w] \in Waiting)

\* Worker w moves on inside pop_batch() and holds got afterwards.
Takes(w, got) ==
    /\ EmptyHanded(w)
    /\ worker' = [worker EXCEPT ![w] = "popping"]
    /\ UNCHANGED <<analysed, processed, batches, shutdown>>
    /\ batch' = [batch EXCEPT ![w] = got]
    /\ popped' = popped \o got
    /\ got \in Seq(PacketIds) /\ Injective(got)
    /\ Members(popped) \cap Members(got) = {}
    /\ pc'[w] \in Waiting => got = <<>>
    /\ \A t \in Threads \ {w} : pc'[t] = pc[t]
    /\ items = <<>> => items' = <<>>

\* A step that gives and takes no packets.
HandsUnchanged ==
    /\ UNCHANGED <<poolVars, batch, popped>>
    /\ \A w \in Consumers : pc'[w] \in Waiting => pc[w] \in Waiting
    /\ \A w \in Consumers : pc'[w] # "idle" => pc[w] # "idle"
    /\ is_finished => is_finished'

LEMMA EmptyHands ==
    Members(<<>>) = {} /\ Injective(<<>>) /\ <<>> \in Seq(PacketIds)
<1>1. DOMAIN <<>> = {} /\ <<>> \in Seq(PacketIds)
  BY EmptySeq, LenProperties
<1> QED BY <1>1 DEF Members, Injective

\* Whatever pop_batch() does between two waits leaves the worker with a new
\* batch or with none.
LEMMA PopTakes ==
    ASSUME QueueTypeOK, OrderInv, PoolTypeOK, NEW w \in Consumers, EmptyHanded(w),
           TakeBatch(w) \/ \E label \in {"pop_wait", "linger_wait"} : Sleep(w, label),
           UNCHANGED popUnchanged, worker' = [worker EXCEPT ![w] = "popping"],
           UNCHANGED <<analysed, processed, batches>>
    PROVE  \E got \in Seq(PacketIds) : Takes(w, got)
<1>1. CASE TakeBatch(w)
  <2> DEFINE got == SubSeq(items, 1, BatchSize)
  <2>1. /\ got \in Seq(PacketIds) /\ Injective(got)
        /\ popped' = popped \o got
        /\ Members(popped) \cap Members(got) = {}
        /\ batch' = [batch EXCEPT ![w] = got]
    BY <1>1, FrontIsNew
  <2> HIDE DEF got
  <2>2. /\ pc'[w] \notin Waiting
        /\ \A t \in Threads \ {w} : pc'[t] = pc[t]
        /\ items = <<>> => items' = <<>>
    BY <1>1, TakeFacts DEF Waiting
  <2> QED BY <2>1, <2>2 DEF Takes, popUnchanged
<1>2. ASSUME NEW label \in {"pop_wait", "linger_wait"}, Sleep(w, label)
      PROVE  Takes(w, <<>>)
  <2>1. /\ batch' = [batch EXCEPT ![w] = <<>>] /\ UNCHANGED <<items, popped>>
        /\ \A t \in Threads \ {w} : pc'[t] = pc[t]
    BY <1>2, GotoFacts DEF Sleep, Threads
  <2>2. popped \o <<>> = popped
    BY ConcatEmptySeq DEF QueueTypeOK, DataTypeOK
  <2> QED BY <2>1, <2>2, EmptyHands DEF Takes, popUnchanged
<1> QED BY <1>1, <1>2, EmptyHands

LEMMA PoolKinds ==
    ASSUME QueueTypeOK, OrderInv, PoolTypeOK, [PoolNext]_allPoolVars
    PROVE  \/ \E w \in Consumers : StartWorker(w) \/ WorkerAnalyze(w)
                                      \/ WorkerCount(w) \/ WorkerCheck(w)
           \/ \E w \in Consumers, got \in Seq(PacketIds) : Takes(w, got)
           \/ HandsUnchanged
<1> USE ThreadsDistinct DEF Threads
<1>1. ASSUME NEW w \in Consumers, WorkerPop(w)
      PROVE  \E got \in Seq(PacketIds) : Takes(w, got)
  BY <1>1, PopTakes DEF WorkerPop, PopCall, PopSection, AfterFirstWait, EmptyHanded
<1>2. ASSUME NEW w \in Consumers, UNCHANGED poolVars,
             PopResume(w) \/ PopExpired(w) \/ LingerResume(w) \/ LingerExpired(w)
      PROVE  \E got \in Seq(PacketIds) : Takes(w, got)
  <2>1. pc[w] \in Waiting
    BY <1>2 DEF PopResume, PopExpired, LingerResume, LingerExpired, Waiting
  <2>2. EmptyHanded(w) /\ worker' = [worker EXCEPT ![w] = "popping"]
    BY <1>2, <2>1 DEF PoolTypeOK, EmptyHanded, Waiting, poolVars
  <2>3. /\ TakeBatch(w) \/ \E label \in {"pop_wait", "linger_wait"} : Sleep(w, label)
        /\ UNCHANGED popUnchanged
    BY <1>2 DEF PopResume, PopExpired, LingerResume, LingerExpired, PopSection,
       AfterFirstWait
  <2> QED BY <1>2, <2>2, <2>3, PopTakes DEF poolVars
<1>3. ASSUME NEW w \in Consumers, UNCHANGED poolVars,
             PopNotifyFull(w) \/ PopNotifyEmpty(w) \/ Expiry(w)
      PROVE  HandsUnchanged
  <2>1. /\ UNCHANGED <<batch, popped, shutdown, items>>
        /\ \A v \in Consumers \ {w} : pc'[v] = pc[v]
        /\ pc[w] # "idle"
        /\ pc'[w] \in Waiting => pc[w] \in Waiting
    BY <1>3, GotoFacts DEF PopNotifyFull, PopNotifyEmpty, Expiry, PopExpire,
       LingerExpire, popUnchanged, Waiting
  <2> QED BY <1>3, <2>1 DEF HandsUnchanged, is_finished
<1>4. ASSUME NEW p \in Producers, NEW x, PushSection(p, x)
      PROVE  /\ UNCHANGED <<batch, popped>> /\ \A w \in Consumers : pc'[w] = pc[w]
             /\ is_finished => is_finished'
  BY <1>4, GotoFacts DEF PushSection, PushSleep, PushRefuse, PushAppend, is_finished
<1>5. ASSUME NEW p \in Producers, PushCall(p) \/ PushStep(p), UNCHANGED poolVars
      PROVE  HandsUnchanged
  <2>1. CASE PushCall(p) \/ PushResume(p)
    BY <1>4, <1>5, <2>1 DEF PushCall, PushResume, HandsUnchanged
  <2>2. CASE PushNotify(p)
    BY <1>5, <2>2, GotoFacts DEF PushNotify, HandsUnchanged, is_finished
  <2> QED BY <1>5, <2>1, <2>2 DEF PushStep
<1>6. ASSUME ShutdownCall \/ ShutdownStep, UNCHANGED poolVars
      PROVE  HandsUnchanged
  BY <1>6, GotoFacts DEF ShutdownCall, ShutdownStep, ShutdownNotifyFull,
     ShutdownNotifyEmpty, HandsUnchanged, is_finished
<1>7. ASSUME NEW t \in Threads, Spurious(t), UNCHANGED poolVars
      PROVE  HandsUnchanged
  BY <1>7 DEF Spurious, HandsUnchanged, is_finished
<1>8. ASSUME UNCHANGED allPoolVars PROVE HandsUnchanged
  BY <1>8 DEF allPoolVars, queueVars, HandsUnchanged, is_finished
<1> QED BY <1>1, <1>2, <1>3, <1>5, <1>6, <1>7, <1>8
        DEF PoolNext, WorkerStep, WorkerInPop, PopStep

-----------------------------------------------------------------------------
(* Type correctness                                                        *)

LEMMA PoolStepTyped ==
    ASSUME QueueTypeOK, OrderInv, PoolTypeOK, [PoolNext]_allPoolVars
    PROVE  PoolTypeOK'
<1> USE ThreadsDistinct DEF Threads
<1>1. ASSUME NEW w \in Consumers, NEW label \in WorkerPC, UNCHANGED queueVars,
             worker' = [worker EXCEPT ![w] = label], pc[w] = "idle"
      PROVE  /\ worker' \in [Consumers -> WorkerPC]
             /\ \A v \in Consumers : pc'[v] # "idle" => worker'[v] = "popping"
  BY <1>1 DEF PoolTypeOK, queueVars
<1>2. ASSUME NEW w \in Consumers,
             StartWorker(w) \/ WorkerAnalyze(w) \/ WorkerCount(w) \/ WorkerCheck(w)
      PROVE  PoolTypeOK'
  <2>1. /\ UNCHANGED queueVars /\ pc[w] = "idle"
        /\ \E label \in WorkerPC : worker' = [worker EXCEPT ![w] = label]
    BY <1>2 DEF StartWorker, WorkerAnalyze, WorkerCount, WorkerCheck, WorkerPC, PoolTypeOK
  <2>2. analysed' \in [PacketIds -> Nat]
    BY <1>2 DEF StartWorker, WorkerAnalyze, WorkerCount, WorkerCheck, PoolTypeOK
  <2>3. Len(batch[w]) \in Nat
    BY LenProperties DEF QueueTypeOK, DataTypeOK
  <2>4. processed' \in Nat /\ batches' \in Nat
    BY <1>2, <2>3 DEF StartWorker, WorkerAnalyze, WorkerCount, WorkerCheck, PoolTypeOK
  <2> QED BY <1>1, <2>1, <2>2, <2>4 DEF PoolTypeOK
<1>3. ASSUME NEW w \in Consumers, NEW got \in Seq(PacketIds), Takes(w, got)
      PROVE  PoolTypeOK'
  BY <1>3 DEF Takes, PoolTypeOK, WorkerPC
<1>4. CASE HandsUnchanged
  BY <1>4 DEF HandsUnchanged, PoolTypeOK, poolVars
<1> QED BY PoolKinds, <1>2, <1>3, <1>4

\* The pool is type correct, and a worker is inside pop_batch() only when
\* worker_loop() called it.
THEOREM PoolTypeCorrect == PoolSpec => []PoolTypeOK
<1>1. QueueInit /\ PoolInit => PoolTypeOK
  BY DEF QueueInit, PoolInit, PoolTypeOK, WorkerPC, Threads
<1>2. QueueTypeOK /\ OrderInv /\ PoolTypeOK /\ [PoolNext]_allPoolVars => PoolTypeOK'
  BY PoolStepTyped
<1> QED BY <1>1, <1>2, PoolUsesQueue, QueueOrder, PTL DEF PoolSpec

-----------------------------------------------------------------------------
(* Every packet that leaves the queue is analysed and counted once         *)

\* InBatch, Popped and InHand as sets.
LEMMA InMembers ==
    /\ \A k, w : InBatch(k, w) <=> k \in Members(batch[w])
    /\ \A k : Popped(k) <=> k \in Members(popped)
    /\ \A k : InHand(k) <=> \E w \in Consumers : /\ worker[w] = "popping"
                                                  /\ k \in Members(batch[w])
BY DEF InBatch, Popped, InHand, Members

LEMMA BatchTyped ==
    ASSUME QueueTypeOK, NEW w \in Consumers
    PROVE  batch[w] \in Seq(PacketIds) /\ Members(batch[w]) \subseteq PacketIds
<1>1. batch[w] \in Seq(PacketIds)
  BY DEF QueueTypeOK, DataTypeOK
<1> QED BY <1>1, ElementOfSeq, LenProperties DEF Members

LEMMA TakesKeeps ==
    ASSUME QueueTypeOK, PoolTypeOK, PoolInv,
           NEW w \in Consumers, NEW got \in Seq(PacketIds), Takes(w, got)
    PROVE  PoolInv'
<1> USE ThreadsDistinct DEF Threads
<1>1. /\ worker'[w] = "popping" /\ \A v \in Consumers \ {w} : worker'[v] = worker[v]
      /\ batch'[w] = got /\ \A v \in Consumers \ {w} : batch'[v] = batch[v]
      /\ worker[w] \in {"looping", "popping"}
      /\ \A v \in Consumers \ {w} : pc'[v] = pc[v]
      /\ UNCHANGED <<analysed, processed, batches>>
  BY DEF Takes, EmptyHanded, QueueTypeOK, DataTypeOK, PoolTypeOK
<1>2. worker[w] = "popping" => Members(batch[w]) = {}
  BY EmptyHands DEF Takes, EmptyHanded, PoolInv, BatchesApart
<1>3. Members(popped') = Members(popped) \cup Members(got)
  BY ConcatMembers DEF Takes, QueueTypeOK, DataTypeOK
<1>4. \A v \in Consumers \ {w} : v \in Holders =>
         Members(batch[v]) \subseteq Members(popped)
  <2> SUFFICES ASSUME NEW v \in Consumers \ {w}, v \in Holders,
                      NEW k \in Members(batch[v])
               PROVE  k \in Members(popped)
    OBVIOUS
  <2>1. k \in PacketIds
    BY BatchTyped
  <2>2. InHand(k) \/ analysed[k] = 1
    BY InMembers DEF Holders, PoolInv, BatchesApart
  <2> QED BY <2>1, <2>2, InMembers DEF PoolInv, AnalysedOnce
<1>5. BatchesApart'
  <2>1. Holders' = Holders \cup {w} /\ w \in Consumers
    BY <1>1 DEF Holders
  <2>2. \A v \in Consumers : pc'[v] \in Waiting => batch'[v] = <<>>
    BY <1>1 DEF Takes, PoolInv, BatchesApart
  <2>3. \A v \in Consumers : worker'[v] = "counting" =>
           batch'[v] # <<>> /\ \A k \in Members(batch'[v]) : analysed'[k] = 1
    BY <1>1 DEF PoolInv, BatchesApart
  <2>4. \A v \in Holders' : Injective(batch'[v])
    BY <1>1, <2>1 DEF Takes, Holders, PoolInv, BatchesApart
  <2>5. \A v \in Holders' \ {w} : Members(batch'[v]) \cap Members(got) = {}
    BY <1>1, <1>4, <2>1 DEF Takes, Holders
  <2>6. \A u, v \in Holders' : u # v => Members(batch'[u]) \cap Members(batch'[v]) = {}
    BY <1>1, <2>1, <2>5 DEF Holders, PoolInv, BatchesApart
  <2> QED BY <2>2, <2>3, <2>4, <2>6 DEF BatchesApart
<1>6. AnalysedOnce'
  <2> SUFFICES ASSUME NEW k \in PacketIds
               PROVE  /\ analysed'[k] <= 1
                      /\ Popped(k)' <=> (analysed'[k] = 1 \/ InHand(k)')
                      /\ ~(analysed'[k] = 1 /\ InHand(k)')
    BY DEF AnalysedOnce
  <2>1. InHand(k)' <=> InHand(k) \/ k \in Members(got)
    <3>1. InHand(k)' <=> \E v \in Consumers : /\ worker'[v] = "popping"
                                              /\ k \in Members(batch'[v])
      BY DEF InHand, InBatch, Members
    <3> QED BY <1>1, <1>2, <3>1, InMembers
  <2>2. Popped(k)' <=> Popped(k) \/ k \in Members(got)
    BY <1>3 DEF Popped, Members
  <2>3. k \in Members(got) => ~Popped(k)
    BY InMembers DEF Takes
  <2> QED BY <1>1, <2>1, <2>2, <2>3 DEF PoolInv, AnalysedOnce
<1>7. CountersExact'
  <2>1. Counted' = Counted
    BY <1>1 DEF Counted
  <2> QED BY <1>1, <2>1 DEF PoolInv, CountersExact
<1>8. Finished'
  BY <1>1 DEF Takes, PoolInv, Finished, is_finished
<1> QED BY <1>5, <1>6, <1>7, <1>8 DEF PoolInv

\* What the four steps outside pop_batch() have in common.
LEMMA WorkerMoves ==
    ASSUME PoolTypeOK, NEW w \in Consumers,
           StartWorker(w) \/ WorkerAnalyze(w) \/ WorkerCount(w) \/ WorkerCheck(w)
    PROVE  /\ UNCHANGED <<items, shutdown, pc, batch, popped, pushed>>
           /\ \A v \in Consumers \ {w} : worker'[v] = worker[v]
           /\ StartWorker(w) => worker'[w] = "looping"
           /\ WorkerAnalyze(w) => worker'[w] = "counting"
           /\ WorkerCount(w) => worker'[w] = "looping"
           /\ WorkerCheck(w) => worker'[w] = IF is_finished THEN "exited" ELSE "looping"
BY DEF StartWorker, WorkerAnalyze, WorkerCount, WorkerCheck, queueVars, PoolTypeOK

\* Entering the loop, and going round it or leaving it with an empty batch.
LEMMA IdleStepKeeps ==
    ASSUME QueueTypeOK, PoolTypeOK, PoolInv, NEW w \in Consumers,
           StartWorker(w) \/ WorkerCheck(w)
    PROVE  PoolInv'
<1>1. /\ UNCHANGED <<items, shutdown, pc, batch, popped, analysed, processed, batches>>
      /\ \A v \in Consumers \ {w} : worker'[v] = worker[v]
      /\ worker'[w] \in {"looping", "exited"}
      /\ worker'[w] = "exited" => is_finished
      /\ worker[w] \in {"new", "popping"}
      /\ worker[w] = "popping" => Members(batch[w]) = {}
  BY WorkerMoves, EmptyHands DEF StartWorker, WorkerCheck
<1>2. Holders' = Holders \ {w}
  BY <1>1 DEF Holders
<1>3. BatchesApart'
  BY <1>1, <1>2 DEF PoolInv, BatchesApart
<1>4. AnalysedOnce'
  <2>1. \A k : Popped(k)' <=> Popped(k)
    BY <1>1 DEF Popped
  <2>2. ASSUME NEW k PROVE InHand(k)' <=> InHand(k)
    <3>1. InHand(k)' <=> \E v \in Consumers : /\ worker'[v] = "popping"
                                              /\ k \in Members(batch'[v])
      BY DEF InHand, InBatch, Members
    <3> QED BY <1>1, <3>1, InMembers
  <2> QED BY <1>1, <2>1, <2>2 DEF PoolInv, AnalysedOnce
<1>5. CountersExact'
  <2>1. Counted' = Counted
    BY <1>1 DEF Counted
  <2> QED BY <1>1, <2>1 DEF PoolInv, CountersExact
<1>6. Finished'
  BY <1>1 DEF PoolInv, Finished, is_finished
<1> QED BY <1>3, <1>4, <1>5, <1>6 DEF PoolInv

\* analyze_ gets a batch nobody else holds and nobody has analysed.
LEMMA AnalyzeKeeps ==
    ASSUME QueueTypeOK, PoolTypeOK, PoolInv, NEW w \in Consumers, WorkerAnalyze(w)
    PROVE  PoolInv'
<1>1. /\ UNCHANGED <<items, shutdown, pc, batch, popped, processed, batches>>
      /\ \A v \in Consumers \ {w} : worker'[v] = worker[v]
      /\ worker'[w] = "counting" /\ worker[w] = "popping" /\ batch[w] # <<>>
  BY WorkerMoves DEF WorkerAnalyze
<1>2. \A k \in PacketIds :
         analysed'[k] = IF k \in Members(batch[w]) THEN analysed[k] + 1 ELSE analysed[k]
  BY InMembers DEF WorkerAnalyze
<1>3. Holders' = Holders /\ w \in Holders
  BY <1>1 DEF Holders
<1>4. \A k \in Members(batch[w]) : k \in PacketIds /\ analysed[k] = 0 /\ InHand(k)
  <2> SUFFICES ASSUME NEW k \in Members(batch[w])
               PROVE  k \in PacketIds /\ analysed[k] = 0 /\ InHand(k)
    OBVIOUS
  <2>1. k \in PacketIds /\ InHand(k)
    BY <1>1, BatchTyped, InMembers
  <2>2. analysed[k] \in Nat /\ analysed[k] <= 1 /\ analysed[k] # 1
    BY <2>1 DEF PoolTypeOK, PoolInv, AnalysedOnce
  <2> QED BY <2>1, <2>2
<1>5. \A k \in PacketIds : k \in Members(batch[w]) => analysed'[k] = 1
  BY <1>2, <1>4
<1>6. BatchesApart'
  <2>1. \A v \in Consumers : worker'[v] = "counting" =>
           \A k \in Members(batch'[v]) : analysed'[k] = 1
    <3> SUFFICES ASSUME NEW v \in Consumers, worker'[v] = "counting",
                        NEW k \in Members(batch[v])
                 PROVE  analysed'[k] = 1
      BY <1>1
    <3>1. k \in PacketIds
      BY BatchTyped
    <3>2. CASE v = w
      BY <1>5, <3>1, <3>2
    <3>3. CASE v # w
      <4>1. analysed[k] = 1
        BY <1>1, <3>3 DEF PoolInv, BatchesApart
      <4>2. k \notin Members(batch[w])
        BY <1>4, <4>1
      <4> QED BY <1>2, <3>1, <4>1, <4>2
    <3> QED BY <3>2, <3>3
  <2> QED BY <1>1, <1>3, <2>1 DEF PoolInv, BatchesApart
<1>7. AnalysedOnce'
  <2> SUFFICES ASSUME NEW k \in PacketIds
               PROVE  /\ analysed'[k] <= 1
                      /\ Popped(k)' <=> (analysed'[k] = 1 \/ InHand(k)')
                      /\ ~(analysed'[k] = 1 /\ InHand(k)')
    BY DEF AnalysedOnce
  <2>1. InHand(k)' <=> \E v \in Consumers : /\ worker'[v] = "popping"
                                            /\ k \in Members(batch'[v])
    BY DEF InHand, InBatch, Members
  <2>2. Popped(k)' <=> Popped(k)
    BY <1>1 DEF Popped
  <2>3. CASE k \in Members(batch[w])
    <3>1. \A v \in Consumers \ {w} : worker[v] = "popping" => k \notin Members(batch[v])
      BY <1>3, <2>3 DEF PoolInv, BatchesApart, Holders
    <3>2. ~InHand(k)'
      BY <1>1, <2>1, <3>1
    <3>3. analysed'[k] = 1 /\ Popped(k)
      BY <1>4, <1>5, <2>3 DEF PoolInv, AnalysedOnce
    <3> QED BY <2>2, <3>2, <3>3
  <2>4. CASE k \notin Members(batch[w])
    <3>1. InHand(k)' <=> InHand(k)
      BY <1>1, <2>1, <2>4, InMembers
    <3>2. analysed'[k] = analysed[k]
      BY <1>2, <2>4
    <3> QED BY <2>2, <3>1, <3>2 DEF PoolInv, AnalysedOnce
  <2> QED BY <2>3, <2>4
<1>8. CountersExact'
  <2>1. \A k \in PacketIds : k \in Counted' <=> k \in Counted
    <3> SUFFICES ASSUME NEW k \in PacketIds PROVE k \in Counted' <=> k \in Counted
      OBVIOUS
    <3>1. CASE k \in Members(batch[w])
      BY <1>1, <1>4, <3>1 DEF Counted
    <3>2. CASE k \notin Members(batch[w])
      BY <1>1, <1>2, <3>2 DEF Counted
    <3> QED BY <3>1, <3>2
  <2>2. Counted' = Counted
    BY <2>1 DEF Counted
  <2> QED BY <1>1, <2>2 DEF PoolInv, CountersExact
<1>9. Finished'
  BY <1>1 DEF PoolInv, Finished, is_finished
<1> QED BY <1>6, <1>7, <1>8, <1>9 DEF PoolInv

\* processed_ grows by exactly the packets that become counted.
LEMMA CountKeeps ==
    ASSUME QueueTypeOK, PoolTypeOK, PoolInv, NEW w \in Consumers, WorkerCount(w)
    PROVE  PoolInv'
<1>1. /\ UNCHANGED <<items, shutdown, pc, batch, popped, analysed>>
      /\ \A v \in Consumers \ {w} : worker'[v] = worker[v]
      /\ worker'[w] = "looping" /\ worker[w] = "counting"
      /\ processed' = processed + Len(batch[w]) /\ batches' = batches + 1
  BY WorkerMoves DEF WorkerCount
<1>2. Holders' = Holders \ {w} /\ w \in Holders
  BY <1>1 DEF Holders
<1>3. BatchesApart'
  BY <1>1, <1>2 DEF PoolInv, BatchesApart
<1>4. AnalysedOnce'
  <2>1. \A k : Popped(k)' <=> Popped(k)
    BY <1>1 DEF Popped
  <2>2. ASSUME NEW k PROVE InHand(k)' <=> InHand(k)
    <3>1. InHand(k)' <=> \E v \in Consumers : /\ worker'[v] = "popping"
                                              /\ k \in Members(batch'[v])
      BY DEF InHand, InBatch, Members
    <3> QED BY <1>1, <3>1, InMembers
  <2> QED BY <1>1, <2>1, <2>2 DEF PoolInv, AnalysedOnce
<1>5. CountersExact'
  <2> DEFINE new == Members(batch[w])
  <2>1. batch[w] \in Seq(PacketIds) /\ new \subseteq PacketIds /\ Injective(batch[w])
    BY <1>2, BatchTyped DEF PoolInv, BatchesApart
  <2>2. IsFiniteSet(new) /\ Cardinality(new) = Len(batch[w])
    BY <2>1, MembersCount
  <2>3. Len(batch[w]) \in Nat /\ Len(batch[w]) # 0
    BY <1>1, <2>1, EmptySeq, LenProperties DEF PoolInv, BatchesApart
  <2>4. \A k \in new : analysed[k] = 1 /\ \A v \in Consumers \ {w} :
           worker[v] = "counting" => k \notin Members(batch[v])
    BY <1>1, <1>2 DEF PoolInv, BatchesApart, Holders
  <2> HIDE DEF new
  <2>5. Counted' = Counted \cup new /\ Counted \cap new = {}
    <3>1. Counted \cap new = {}
      BY <1>1 DEF Counted, new
    <3>2. \A k \in PacketIds : k \in Counted' <=> k \in Counted \/ k \in new
      <4> SUFFICES ASSUME NEW k \in PacketIds
                   PROVE  k \in Counted' <=> k \in Counted \/ k \in new
        OBVIOUS
      <4>1. CASE k \in new
        BY <1>1, <2>4, <4>1 DEF Counted
      <4>2. CASE k \notin new
        BY <1>1, <4>2 DEF Counted, new
      <4> QED BY <4>1, <4>2
    <3>3. Counted' \subseteq PacketIds /\ Counted \subseteq PacketIds
      BY DEF Counted
    <3> QED BY <2>1, <3>1, <3>2, <3>3
  <2>6. IsFiniteSet(Counted) /\ Cardinality(Counted) \in Nat
    <3>1. IsFiniteSet(PacketIds)
      BY FS_Interval, BoundNatural DEF PacketIds
    <3> QED BY <3>1, FS_Subset, FS_CardinalityType DEF Counted
  <2>7. Cardinality(Counted') = Cardinality(Counted) + Len(batch[w])
    <3>1. Cardinality(Counted \cup new)
             = Cardinality(Counted) + Cardinality(new) - Cardinality(Counted \cap new)
      BY <2>2, <2>6, FS_Union
    <3>2. Cardinality(Counted \cap new) = 0
      BY <2>5, FS_EmptySet
    <3>3. Cardinality(Counted \cup new) = Cardinality(Counted) + Len(batch[w])
      BY <2>2, <2>3, <2>6, <3>1, <3>2
    <3> QED BY <2>5, <3>3
  <2>8. processed' = Cardinality(Counted')
    BY <1>1, <2>7 DEF PoolInv, CountersExact
  <2>9. batches' <= processed'
    BY <1>1, <2>3 DEF PoolInv, CountersExact, PoolTypeOK
  <2> QED BY <2>8, <2>9 DEF CountersExact
<1>6. Finished'
  BY <1>1 DEF PoolInv, Finished, is_finished
<1> QED BY <1>3, <1>4, <1>5, <1>6 DEF PoolInv

LEMMA UnchangedKeeps ==
    ASSUME QueueTypeOK, PoolTypeOK, PoolInv, HandsUnchanged
    PROVE  PoolInv'
<1>1. /\ UNCHANGED <<worker, analysed, processed, batches, batch, popped>>
      /\ \A w \in Consumers : pc'[w] \in Waiting => pc[w] \in Waiting
      /\ is_finished => is_finished'
  BY DEF HandsUnchanged, poolVars
<1>2. Holders' = Holders /\ Counted' = Counted
  BY <1>1 DEF Holders, Counted
<1>3. BatchesApart'
  BY <1>1, <1>2 DEF PoolInv, BatchesApart
<1>4. AnalysedOnce'
  BY <1>1 DEF PoolInv, AnalysedOnce, Popped, InHand, InBatch
<1>5. CountersExact' /\ Finished'
  BY <1>1, <1>2 DEF PoolInv, CountersExact, Finished
<1> QED BY <1>3, <1>4, <1>5 DEF PoolInv

LEMMA InitPool == QueueInit /\ PoolInit => PoolInv
<1> SUFFICES ASSUME QueueInit, PoolInit PROVE PoolInv
  OBVIOUS
<1>1. /\ \A w \in Consumers : worker[w] = "new" /\ batch[w] = <<>> /\ pc[w] = "idle"
      /\ \A k \in PacketIds : analysed[k] = 0
      /\ popped = <<>> /\ processed = 0 /\ batches = 0
  BY DEF QueueInit, PoolInit, Threads
<1>2. Holders = {} /\ Counted = {}
  BY <1>1 DEF Holders, Counted
<1>3. BatchesApart /\ Finished
  BY <1>1, <1>2 DEF BatchesApart, Waiting, Finished
<1>4. AnalysedOnce
  BY <1>1, InMembers, EmptyHands DEF AnalysedOnce
<1>5. CountersExact
  BY <1>1, <1>2, FS_EmptySet DEF CountersExact
<1> QED BY <1>3, <1>4, <1>5 DEF PoolInv

\* The pool's inductive invariant holds in every reachable state.
THEOREM PoolInvariant == PoolSpec => [](QueueTypeOK /\ OrderInv /\ PoolTypeOK /\ PoolInv)
<1>1. QueueTypeOK /\ OrderInv /\ PoolTypeOK /\ PoolInv /\ [PoolNext]_allPoolVars => PoolInv'
  BY PoolKinds, IdleStepKeeps, AnalyzeKeeps, CountKeeps, TakesKeeps, UnchangedKeeps
<1> QED BY <1>1, InitPool, PoolTypeCorrect, PoolUsesQueue, QueueOrder, PTL DEF PoolSpec

\* analyze_ is called once for each packet that leaves the queue, however
\* many workers pop batches at the same time.
THEOREM PoolAnalysesOnce == PoolSpec => []AnalysedOnce
<1>1. PoolInv => AnalysedOnce
  BY DEF PoolInv
<1> QED BY <1>1, PoolInvariant, PTL

LEMMA FinishedMeansDrained ==
    ASSUME QueueTypeOK, OrderInv, PoolInv
    PROVE  ExitOnlyWhenDrained
<1> SUFFICES ASSUME is_finished PROVE popped = pushed
  BY DEF PoolInv, Finished, ExitOnlyWhenDrained, is_finished
<1> QED BY ConcatEmptySeq DEF is_finished, OrderInv, Fifo, QueueTypeOK, DataTypeOK

\* A worker leaves worker_loop() only when nothing will ever come out of the
\* queue again: is_finished() is stable, although it is read after
\* pop_batch() has released the mutex.
THEOREM PoolExitsDrained == PoolSpec => []ExitOnlyWhenDrained
<1>1. QueueTypeOK /\ OrderInv /\ PoolInv => ExitOnlyWhenDrained
  BY FinishedMeansDrained
<1> QED BY <1>1, PoolInvariant, PTL

LEMMA JoinedCounts ==
    ASSUME QueueTypeOK, OrderInv, PoolTypeOK, PoolInv
    PROVE  JoinedMeansProcessed
<1> SUFFICES ASSUME Joined
             PROVE  /\ processed = Len(pushed)
                    /\ \A i \in DOMAIN pushed : analysed[pushed[i]] = 1
                    /\ batches <= processed
  BY DEF JoinedMeansProcessed
<1>1. \A w \in Consumers : worker[w] = "exited"
  BY DEF Joined
<1>2. popped = pushed
  BY <1>1, FinishedMeansDrained, PoolNotEmpty DEF ExitOnlyWhenDrained
<1>3. pushed \in Seq(PacketIds) /\ Injective(pushed) /\ Members(pushed) \subseteq PacketIds
  <2>1. pushed \in Seq(PacketIds)
    BY DEF QueueTypeOK, DataTypeOK
  <2> QED BY <2>1, ElementOfSeq, LenProperties DEF OrderInv, OneFate, Injective, Members
<1>4. \A k \in PacketIds : Popped(k) <=> analysed[k] = 1
  BY <1>1, InMembers DEF PoolInv, AnalysedOnce
<1>5. Counted = Members(pushed)
  BY <1>1, <1>2, <1>3, <1>4, InMembers DEF Counted
<1>6. Cardinality(Members(pushed)) = Len(pushed)
  BY <1>3, MembersCount
<1>7. \A i \in DOMAIN pushed : analysed[pushed[i]] = 1
  BY <1>5 DEF Counted, Members
<1> QED BY <1>5, <1>6, <1>7 DEF PoolInv, CountersExact

\* Once join() has returned, processed() is the number of packets push()
\* accepted, each of them was analysed, and no batch was counted empty.
THEOREM PoolJoinedProcessed == PoolSpec => []JoinedMeansProcessed
<1>1. QueueTypeOK /\ OrderInv /\ PoolTypeOK /\ PoolInv => JoinedMeansProcessed
  BY JoinedCounts
<1> QED BY <1>1, PoolInvariant, PTL

-----------------------------------------------------------------------------
(* Who may overtake whom                                                   *)

\* A batch is a run of consecutive packets, in the order they were popped.
BatchIsRun ==
    \A w \in Consumers : \E o \in Nat :
        \A m \in DOMAIN batch[w] : o + m \in DOMAIN popped /\ batch[w][m] = popped[o + m]

LEMMA RunStep ==
    ASSUME QueueTypeOK, OrderInv, PoolTypeOK, BatchIsRun, [PoolNext]_allPoolVars
    PROVE  BatchIsRun'
<1>1. popped \in Seq(PacketIds) /\ batch \in [Consumers -> Seq(PacketIds)]
  BY DEF QueueTypeOK, DataTypeOK
<1>2. ASSUME NEW w \in Consumers, NEW got \in Seq(PacketIds), Takes(w, got)
      PROVE  BatchIsRun'
  <2>1. popped' = popped \o got /\ batch' = [batch EXCEPT ![w] = got]
    BY <1>2 DEF Takes
  <2>2. /\ Len(popped) \in Nat /\ Len(got) \in Nat
        /\ DOMAIN popped = 1..Len(popped) /\ DOMAIN got = 1..Len(got)
        /\ DOMAIN popped' = 1..(Len(popped) + Len(got))
        /\ \A i \in 1..Len(popped) : popped'[i] = popped[i]
        /\ \A m \in 1..Len(got) : popped'[Len(popped) + m] = got[m]
    BY <1>1, <2>1, ConcatProperties, LenProperties
  <2>3. \A i \in DOMAIN popped : i \in DOMAIN popped' /\ popped'[i] = popped[i]
    BY <2>2
  <2>4. \A m \in DOMAIN got : Len(popped) + m \in DOMAIN popped'
                              /\ got[m] = popped'[Len(popped) + m]
    BY <2>2
  <2>5. ASSUME NEW v \in Consumers
        PROVE  \E o \in Nat : \A m \in DOMAIN batch'[v] :
                  o + m \in DOMAIN popped' /\ batch'[v][m] = popped'[o + m]
    <3>1. CASE v = w
      <4>1. batch'[v] = got
        BY <1>1, <2>1, <3>1
      <4> QED BY <2>2, <2>4, <4>1
    <3>2. CASE v # w
      <4>1. batch'[v] = batch[v]
        BY <1>1, <2>1, <3>2
      <4>2. PICK o \in Nat : \A m \in DOMAIN batch[v] :
                o + m \in DOMAIN popped /\ batch[v][m] = popped[o + m]
        BY DEF BatchIsRun
      <4>3. \A m \in DOMAIN batch[v] :
                o + m \in DOMAIN popped' /\ batch[v][m] = popped'[o + m]
        BY <2>3, <4>2
      <4> QED BY <4>1, <4>3
    <3> QED BY <3>1, <3>2
  <2> QED BY <2>5 DEF BatchIsRun
<1>3. CASE UNCHANGED <<batch, popped>>
  BY <1>3 DEF BatchIsRun
<1>4. ASSUME NEW w \in Consumers,
             StartWorker(w) \/ WorkerAnalyze(w) \/ WorkerCount(w) \/ WorkerCheck(w)
      PROVE  UNCHANGED <<batch, popped>>
  BY <1>4 DEF StartWorker, WorkerAnalyze, WorkerCount, WorkerCheck, queueVars
<1> QED BY PoolKinds, <1>2, <1>3, <1>4 DEF HandsUnchanged

LEMMA RunInit == QueueInit => BatchIsRun
<1> SUFFICES ASSUME QueueInit, NEW w \in Consumers
             PROVE  \E o \in Nat : \A m \in DOMAIN batch[w] :
                       o + m \in DOMAIN popped /\ batch[w][m] = popped[o + m]
  BY DEF BatchIsRun
<1>1. DOMAIN batch[w] = {}
  BY EmptySeq, LenProperties DEF QueueInit
<1>2. 0 \in Nat
  OBVIOUS
<1> QED BY <1>1, <1>2

\* The earlier of two packets that left the queue left it first; until it is
\* analysed a worker holds it, in a batch that keeps the order of the queue.
LEMMA EarlierInHand ==
    ASSUME QueueTypeOK, OrderInv, PoolTypeOK, PoolInv, BatchIsRun
    PROVE  OvertakenInHand
<1> SUFFICES ASSUME NEW i \in DOMAIN pushed, NEW j \in DOMAIN pushed, i < j,
                    Popped(pushed[j]), analysed[pushed[i]] = 0
             PROVE  \E w \in Consumers :
                       worker[w] = "popping" /\ Ahead(batch[w], pushed[i], pushed[j])
  BY DEF OvertakenInHand
<1>1. /\ popped \in Seq(PacketIds) /\ items \in Seq(PacketIds) /\ pushed \in Seq(PacketIds)
      /\ pushed = popped \o items
      /\ \A a, b \in DOMAIN pushed : pushed[a] = pushed[b] => a = b
  BY DEF QueueTypeOK, DataTypeOK, OrderInv, Fifo, OneFate
<1>2. /\ Len(popped) \in Nat /\ Len(items) \in Nat
      /\ DOMAIN popped = 1..Len(popped)
      /\ DOMAIN pushed = 1..(Len(popped) + Len(items))
      /\ \A a \in 1..Len(popped) : pushed[a] = popped[a]
  BY <1>1, ConcatProperties, LenProperties
<1>3. \A a \in DOMAIN popped : a \in DOMAIN pushed /\ pushed[a] = popped[a]
  BY <1>2
<1>4. j \in DOMAIN popped
  <2>1. PICK a \in DOMAIN popped : popped[a] = pushed[j]
    BY DEF Popped
  <2>2. a = j
    BY <1>1, <1>3, <2>1
  <2> QED BY <2>1, <2>2
<1>5. i \in DOMAIN popped
  BY <1>2, <1>4
<1>6. pushed[i] \in PacketIds
  BY <1>1, <1>2, ElementOfSeq
<1>7. InHand(pushed[i])
  <2>1. Popped(pushed[i])
    BY <1>3, <1>5 DEF Popped
  <2>2. analysed[pushed[i]] # 1
    OBVIOUS
  <2> QED BY <1>6, <2>1, <2>2 DEF PoolInv, AnalysedOnce
<1>8. PICK w \in Consumers : worker[w] = "popping" /\ InBatch(pushed[i], w)
  BY <1>7 DEF InHand
<1>9. PICK m \in DOMAIN batch[w] : batch[w][m] = pushed[i]
  BY <1>8 DEF InBatch
<1>10. PICK o \in Nat : \A n \in DOMAIN batch[w] :
          o + n \in DOMAIN popped /\ batch[w][n] = popped[o + n]
  BY DEF BatchIsRun
<1>11. batch[w] \in Seq(PacketIds) /\ Len(batch[w]) \in Nat /\ DOMAIN batch[w] = 1..Len(batch[w])
  BY LenProperties DEF QueueTypeOK, DataTypeOK
<1>12. o + m = i
  BY <1>1, <1>3, <1>9, <1>10
<1>13. ASSUME NEW n \in 1..m, batch[w][n] = pushed[j] PROVE FALSE
  <2>1. n \in DOMAIN batch[w] /\ m \in Nat /\ n <= m
    BY <1>11
  <2>2. o + n \in DOMAIN pushed /\ pushed[o + n] = pushed[j]
    BY <1>3, <1>10, <1>13, <2>1
  <2>3. o + n = j
    BY <1>1, <2>2
  <2> QED BY <1>2, <1>12, <2>1, <2>3
<1> QED BY <1>8, <1>9, <1>13 DEF Ahead

\* However many workers there are, a packet is analysed before one queued
\* earlier only while another worker holds the earlier one.
THEOREM PoolOvertakes == PoolSpec => []OvertakenInHand
<1>1. QueueTypeOK /\ OrderInv /\ PoolTypeOK /\ BatchIsRun /\ [PoolNext]_allPoolVars
         => BatchIsRun'
  BY RunStep
<1>2. QueueTypeOK /\ OrderInv /\ PoolTypeOK /\ PoolInv /\ BatchIsRun => OvertakenInHand
  BY EarlierInHand
<1> QED BY <1>1, <1>2, RunInit, PoolInvariant, PTL DEF PoolSpec
=============================================================================
