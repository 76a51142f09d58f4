--------------------------- MODULE AnalysisProofs ---------------------------
(***************************************************************************)
(* Theorems about Analysis, for any finite set of workers, any batches and *)
(* any number of them.                                                     *)
(***************************************************************************)
EXTENDS Analysis, DataInduction, SequenceTheorems, FiniteSetTheorems, FunctionTheorems, TLAPS

(* The operators on batches                                                *)

\* The recursive function behind TotalBytes is what its definition says.
LEMMA TotalBytesNat ==
    ASSUME NEW p \in Seq(Packet)
    PROVE  TotalBytes(p) \in Nat
<1> DEFINE n == Len(p)
           step == [kv \in (1..n) \X Nat |-> kv[2] + p[kv[1]].size]
           sum == CHOOSE f : f = [k \in 0..n |-> IF k = 0 THEN 0 ELSE f[k - 1] + p[k].size]
           T == {k \in 0..n : sum[k] \in Nat}
<1>1. n \in Nat /\ \A k \in 1..n : p[k].size \in Nat
  <2>1. n \in Nat /\ \A k \in 1..n : p[k] \in Packet
    BY LenProperties, ElementOfSeq
  <2> QED BY <2>1 DEF Packet
<1>2. step \in [(1..n) \X Nat -> Nat]
  BY <1>1
<1>3. PICK f : IsRecursive(f, n, Nat, 0, step)
  <2>1. n \in Nat /\ 0 \in Nat
    BY <1>1
  <2> HIDE DEF n, step, sum, T
  <2> QED BY <2>1, <1>2, RecursionExists, Zenon
<1>4. \A k \in 1..n : f[k] = f[k - 1] + p[k].size
  <2> TAKE k \in 1..n
  <2>1. k - 1 \in 0..n /\ f[k - 1] \in Nat
    BY <1>1, <1>3 DEF IsRecursive
  <2>2. step[<<k, f[k - 1]>>] = f[k - 1] + p[k].size
    BY <2>1
  <2> QED BY <1>3, <2>2 DEF IsRecursive
<1>5. f = [k \in 0..n |-> IF k = 0 THEN 0 ELSE f[k - 1] + p[k].size]
  BY <1>1, <1>3, <1>4 DEF IsRecursive
<1>6. sum = [k \in 0..n |-> IF k = 0 THEN 0 ELSE sum[k - 1] + p[k].size]
  <2> HIDE DEF n, T
  <2> QED BY <1>5, Zenon
<1>7. TotalBytes(p) = sum[n]
  BY DEF TotalBytes
<1> HIDE DEF sum
<1>8. 0 \in T
  BY <1>1, <1>6
<1>9. \A k \in 1..n : k - 1 \in T => k \in T
  BY <1>1, <1>6
<1>10. 0..n \subseteq T
  <2> HIDE DEF n, T
  <2> QED BY <1>1, <1>8, <1>9, StepInduction, Zenon
<1> QED BY <1>1, <1>7, <1>10

\* What the code collects as eligible: positions of the batch, and exactly
\* those of the packets that are long enough.
LEMMA EligibleAtFacts ==
    ASSUME NEW b \in Seq(Packet)
    PROVE  /\ EligibleAt(b) \in Seq(1..Len(b))
           /\ \A i \in 1..Len(b) :
                  (\E k \in 1..Len(EligibleAt(b)) : EligibleAt(b)[k] = i)
                      <=> b[i].size >= MinPayload
<1> DEFINE n == Len(b)
           V == Seq(1..n)
           long(i) == b[i].size >= MinPayload
           none == <<>>
           next(q, i) == IF long(i) THEN Append(q, i) ELSE q
           step == [kv \in (1..n) \X V |-> next(kv[2], kv[1])]
           upTo == CHOOSE f : f = [i \in 0..n |-> IF i = 0 THEN none ELSE next(f[i - 1], i)]
           Good(q, m) == /\ q \in V
                         /\ \A i \in 1..m : (\E k \in 1..Len(q) : q[k] = i) <=> long(i)
                         /\ \A k \in 1..Len(q) : q[k] <= m
           T == {k \in 0..n : Good(upTo[k], k)}
<1>0. EligibleAt(b) = upTo[n]
  BY DEF EligibleAt
<1>1. n \in Nat
  BY LenProperties
<1>2. none \in V /\ \A k \in 1..n, q \in V : next(q, k) \in V
  <2> HIDE DEF n, long
  <2>1. none \in V
    OBVIOUS
  <2>2. ASSUME NEW k \in 1..n, NEW q \in V PROVE next(q, k) \in V
    <3>1. Append(q, k) \in V
      BY AppendProperties
    <3> QED BY <3>1
  <2> QED BY <2>1, <2>2
<1>3. Good(none, 0)
  OBVIOUS
<1> HIDE DEF n, V, none, next, upTo, Good
<1>4. step \in [(1..n) \X V -> V]
  BY <1>2
<1>5. PICK f : IsRecursive(f, n, V, none, step)
  <2> HIDE DEF step, T
  <2> QED BY <1>1, <1>2, <1>4, RecursionExists, Zenon
<1>6. \A k \in 1..n : f[k] = next(f[k - 1], k)
  <2> TAKE k \in 1..n
  <2>1. k - 1 \in 0..n /\ f[k - 1] \in V
    BY <1>1, <1>5 DEF IsRecursive
  <2>2. step[<<k, f[k - 1]>>] = next(f[k - 1], k)
    BY <2>1
  <2> QED BY <1>5, <2>2 DEF IsRecursive
<1>7. f = [i \in 0..n |-> IF i = 0 THEN none ELSE next(f[i - 1], i)]
  <2> HIDE DEF T, step
  <2> QED BY <1>1, <1>5, <1>6 DEF IsRecursive
<1>8. /\ upTo[0] = none
      /\ \A k \in 1..n : upTo[k] = next(upTo[k - 1], k)
  <2>1. upTo = [i \in 0..n |-> IF i = 0 THEN none ELSE next(upTo[i - 1], i)]
    BY <1>7, Zenon DEF upTo
  <2> QED BY <1>1, <2>1
<1>9. 0 \in T
  BY <1>1, <1>3, <1>8
<1>10. ASSUME NEW k \in 1..n, k - 1 \in T PROVE k \in T
  <2> DEFINE q == upTo[k - 1]
  <2>1. Good(q, k - 1) /\ k \in 0..n /\ k - 1 \in 0..n
    BY <1>1, <1>10
  <2>2. CASE long(k)
    <3>1. upTo[k] = Append(q, k)
      BY <1>8, <2>2 DEF next
    <3> HIDE DEF q, long
    <3> USE DEF V, Good
    <3>2. /\ Append(q, k) \in V /\ Len(Append(q, k)) = Len(q) + 1
          /\ Append(q, k)[Len(q) + 1] = k
          /\ \A j \in 1..Len(q) : Append(q, k)[j] = q[j]
      BY <2>1, AppendProperties
    <3>3. Len(q) \in Nat /\ \A j \in 1..Len(q) : q[j] \in 1..n
      BY <2>1, LenProperties, ElementOfSeq
    <3>4. ASSUME NEW i \in 1..k
          PROVE  (\E j \in 1..Len(Append(q, k)) : Append(q, k)[j] = i) <=> long(i)
      <4>1. CASE i = k
        BY <4>1, <2>2, <3>2, <3>3
      <4>2. CASE i # k
        <5>1. i \in 1..(k - 1)
          BY <4>2
        <5>2. (\E j \in 1..Len(q) : q[j] = i) <=> long(i)
          BY <5>1, <2>1
        <5>3. (\E j \in 1..Len(Append(q, k)) : Append(q, k)[j] = i)
                  <=> (\E j \in 1..Len(q) : q[j] = i)
          BY <4>2, <3>2, <3>3
        <5> QED BY <5>2, <5>3
      <4> QED BY <4>1, <4>2
    <3>5. \A j \in 1..Len(Append(q, k)) : Append(q, k)[j] <= k
      <4> TAKE j \in 1..Len(Append(q, k))
      <4>1. CASE j = Len(q) + 1
        BY <4>1, <3>2
      <4>2. CASE j # Len(q) + 1
        <5>1. j \in 1..Len(q)
          BY <4>2, <3>2, <3>3
        <5> QED BY <5>1, <3>2, <3>3, <2>1
      <4> QED BY <4>1, <4>2
    <3> QED BY <2>1, <3>1, <3>2, <3>4, <3>5
  <2>3. CASE ~ long(k)
    <3>1. upTo[k] = q
      BY <1>8, <2>3 DEF next
    <3> HIDE DEF q, long
    <3> USE DEF V, Good
    <3>2. Len(q) \in Nat /\ \A j \in 1..Len(q) : q[j] \in 1..n /\ q[j] <= k - 1
      BY <2>1, LenProperties, ElementOfSeq
    <3>3. \A i \in 1..k : (\E j \in 1..Len(q) : q[j] = i) <=> long(i)
      <4> TAKE i \in 1..k
      <4>1. CASE i = k
        BY <4>1, <2>3, <3>2
      <4>2. CASE i # k
        <5>1. i \in 1..(k - 1)
          BY <4>2
        <5> QED BY <5>1, <2>1
      <4> QED BY <4>1, <4>2
    <3>4. \A j \in 1..Len(q) : q[j] <= k
      BY <3>2
    <3>5. Good(q, k)
      BY <2>1, <3>3, <3>4
    <3> QED BY <2>1, <3>1, <3>5
  <2> QED BY <2>2, <2>3
<1>11. 0..n \subseteq T
  <2> HIDE DEF T
  <2> QED BY <1>1, <1>9, <1>10, StepInduction, Zenon
<1>12. Good(upTo[n], n)
  BY <1>1, <1>11
<1>13. /\ upTo[n] \in Seq(1..n)
       /\ \A i \in 1..n : (\E k \in 1..Len(upTo[n]) : upTo[n][k] = i)
                              <=> b[i].size >= MinPayload
  BY <1>12, Zenon DEF Good, V
<1> QED BY <1>0, <1>13, Zenon DEF n

\* The eligible packets of a batch, and their verdicts, one for each.
LEMMA EligibleFacts ==
    ASSUME NEW b \in Seq(Packet)
    PROVE  /\ Eligible(b) \in Seq(Packet)
           /\ Len(EligibleAt(b)) \in Nat /\ Len(Eligible(b)) = Len(EligibleAt(b))
           /\ \A k \in 1..Len(EligibleAt(b)) :
                  /\ EligibleAt(b)[k] \in 1..Len(b)
                  /\ Eligible(b)[k] = b[EligibleAt(b)[k]]
           /\ Eligible(b) = <<>> <=> \A i \in 1..Len(b) : ~ (b[i].size >= MinPayload)
<1> DEFINE e == EligibleAt(b)
<1>1. e \in Seq(1..Len(b)) /\ Len(e) \in Nat /\ \A k \in 1..Len(e) : e[k] \in 1..Len(b)
  BY EligibleAtFacts, LenProperties, ElementOfSeq
<1>2. \A i \in 1..Len(b) : (\E k \in 1..Len(e) : e[k] = i) <=> b[i].size >= MinPayload
  BY EligibleAtFacts
<1>3. \A i \in 1..Len(b) : b[i] \in Packet
  BY ElementOfSeq
<1> HIDE DEF e
<1>4. Eligible(b) = [k \in 1..Len(e) |-> b[e[k]]]
  BY DEF Eligible, e
<1>5. \A k \in 1..Len(e) : b[e[k]] \in Packet
  BY <1>1, <1>3
<1>6. Eligible(b) \in Seq(Packet) /\ Len(Eligible(b)) = Len(e)
  <2> DEFINE q == [k \in 1..Len(e) |-> b[e[k]]]
  <2>1. q \in [1..Len(e) -> Packet]
    BY <1>5
  <2> HIDE DEF q
  <2>2. q \in Seq(Packet)
    BY <1>1, <2>1, IsASeq
  <2>3. DOMAIN q = 1..Len(e)
    BY <2>1
  <2>4. Len(q) = Len(e)
    BY <1>1, <2>2, <2>3, LenProperties
  <2> QED BY <1>4, <2>2, <2>4 DEF q
<1>7. \A k \in 1..Len(e) : Eligible(b)[k] = b[e[k]]
  BY <1>4
<1>8. Eligible(b) = <<>> <=> Len(e) = 0
  BY <1>6, EmptySeq
<1>9. Len(e) = 0 <=> \A i \in 1..Len(b) : ~ (b[i].size >= MinPayload)
  <2>1. CASE Len(e) = 0
    <3>1. 1..Len(e) = {}
      BY <2>1
    <3> QED BY <2>1, <3>1, <1>2
  <2>2. CASE Len(e) # 0
    <3>1. 1 \in 1..Len(e)
      BY <2>2, <1>1
    <3> QED BY <2>2, <3>1, <1>1, <1>2
  <2> QED BY <2>1, <2>2
<1> QED BY <1>1, <1>6, <1>7, <1>8, <1>9 DEF e

LEMMA HighsFacts ==
    ASSUME NEW p \in Seq(Packet)
    PROVE  /\ Highs(p) \in Seq(BOOLEAN) /\ Len(Highs(p)) = Len(p)
           /\ \A k \in 1..Len(p) : Highs(p)[k] = p[k].high
<1>1. Len(p) \in Nat /\ \A k \in 1..Len(p) : p[k] \in Packet
  BY LenProperties, ElementOfSeq
<1>2. \A k \in 1..Len(p) : p[k].high \in BOOLEAN
  BY <1>1 DEF Packet
<1>3. Highs(p) \in [1..Len(p) -> BOOLEAN]
  BY <1>2 DEF Highs
<1>4. Highs(p) \in Seq(BOOLEAN)
  BY <1>1, <1>3, IsASeq
<1>5. DOMAIN Highs(p) = 1..Len(p)
  BY DEF Highs
<1>6. Len(Highs(p)) = Len(p)
  BY <1>1, <1>4, <1>5, LenProperties
<1> QED BY <1>4, <1>6 DEF Highs

LEMMA NeededNat ==
    ASSUME NEW p \in Seq(Packet), NEW k \in 1..4
    PROVE  Needed(p, k) \in Nat
<1>1. TotalBytes(p) \in Nat /\ Len(p) \in Nat
  BY TotalBytesNat, LenProperties
<1> QED BY <1>1 DEF Needed, Word

\* What a buffer may be: the code's capacity is what was allocated.
Buffer == {b \in [size : Nat, capacity : Nat] : b.size = b.capacity}

\* ensure_capacity() leaves a buffer whose capacity is its size, and one
\* that is large enough if the device granted the memory.
LEMMA EnsureCapacity ==
    ASSUME NEW b \in Buffer, NEW needed \in Nat, NEW granted \in BOOLEAN
    PROVE  /\ ensure_capacity(b, needed, granted) \in Buffer
           /\ granted => ensure_capacity(b, needed, granted).size >= needed
<1> DEFINE S == {needed, b.capacity * 2, MinGrow}
           g == Grown(b, needed)
<1>1. b.size \in Nat /\ b.capacity \in Nat /\ b.size = b.capacity
  BY DEF Buffer
<1>2. MinGrow \in Nat
  BY AnalysisAssumption
<1>3. \E x \in S : \A y \in S : y <= x
  BY <1>1, <1>2
<1>4. g \in S /\ \A y \in S : y <= g
  BY <1>3 DEF Grown, Largest
<1>5. g \in Nat /\ g >= needed
  BY <1>1, <1>2, <1>4
<1> HIDE DEF S, g
<1>6. CASE Fits(b, needed)
  BY <1>1, <1>6 DEF ensure_capacity, Fits, Buffer
<1>7. CASE ~ Fits(b, needed)
  <2>1. ensure_capacity(b, needed, granted)
          = [size |-> IF granted THEN g ELSE 0, capacity |-> IF granted THEN g ELSE 0]
    BY <1>7 DEF ensure_capacity, g
  <2> QED BY <1>5, <2>1 DEF Buffer
<1> QED BY <1>6, <1>7

-----------------------------------------------------------------------------
(* Types                                                                   *)

Labels == {"idle", "start", "fit", "commit", "rules", "wait", "report", "release"}
BufferSet == [buffer : [1..4 -> Buffer], work : Seq(Packet), results : Seq(BOOLEAN)]
Command == [state : {"none", "running", "completed", "failed"},
            set : Nat, count : Nat, computed : SUBSET Nat]

WorkerTypeOK ==
    /\ pc \in [Workers -> Labels]
    /\ job \in [Workers -> 0..MaxBatches]
    /\ at \in [Workers -> Nat]
    /\ pending \in [Workers -> {"none", "null", "ready", "gpu"}]
    /\ DOMAIN entropies = Workers
    /\ jobs \in Seq(Batches) /\ Len(jobs) <= MaxBatches

\* A worker past "idle" has a batch, and no two have the same.
JobsApart ==
    /\ \A w \in Workers : job[w] <= Len(jobs) /\ (pc[w] # "idle" => job[w] > 0)
    /\ \A v, w \in Workers : v # w /\ job[v] # 0 => job[v] # job[w]

PoolTypeOK ==
    /\ use_gpu \in BOOLEAN
    /\ held \in [Workers -> Nat] /\ \A w \in Workers : held[w] <= Len(sets)
    /\ sets \in Seq(BufferSet)
    /\ free \in Seq(1..Len(sets))

LogTypeOK ==
    /\ command \in [1..MaxBatches -> Command]
    /\ IsABag(events) /\ finished \subseteq 1..MaxBatches /\ fallbacks \in Nat

\* A worker holds a set from take_buffers() until the set is returned, by a
\* failing submit or with the pending dispatch; only eligible packets lead
\* to the backend.
Progress ==
    \A w \in Workers :
        /\ held[w] # 0 <=> (pc[w] \in {"fit", "commit"} \/ pending[w] = "gpu")
        /\ pc[w] \in {"idle", "start", "fit", "commit"} => pending[w] = "none"
        /\ pc[w] \in {"wait", "report", "release"} => pending[w] # "none"
        /\ pc[w] = "rules" /\ Eligible(Batch(w)) # <<>> => pending[w] # "none"
        /\ (pc[w] \in {"start", "fit", "commit"} \/ pending[w] # "none")
               => Eligible(Batch(w)) # <<>>

TypeInv == WorkerTypeOK /\ JobsApart /\ PoolTypeOK /\ LogTypeOK /\ Progress

\* A worker's batch is a batch, and its eligible packets are packets.
LEMMA BatchFacts ==
    ASSUME TypeInv, NEW w \in Workers, job[w] > 0
    PROVE  /\ job[w] \in 1..Len(jobs) /\ job[w] \in 1..MaxBatches
           /\ Batch(w) \in Batches /\ Batch(w) \in Seq(Packet) /\ Batch(w) # <<>>
           /\ Eligible(Batch(w)) \in Seq(Packet)
<1>1. job[w] \in 1..Len(jobs) /\ job[w] \in 1..MaxBatches /\ Len(jobs) \in Nat
  BY LenProperties, AnalysisAssumption DEF TypeInv, WorkerTypeOK, JobsApart
<1>2. Batch(w) \in Batches
  BY <1>1, ElementOfSeq DEF Batch, TypeInv, WorkerTypeOK
<1>3. Batch(w) \in Seq(Packet) /\ Batch(w) # <<>>
  BY <1>2, AnalysisAssumption
<1> QED BY <1>1, <1>2, <1>3, EligibleFacts

\* The batches handed out before are still there after a step.
LEMMA BatchStays ==
    ASSUME jobs \in Seq(Batches), NEW b, jobs' = jobs \/ (b \in Batches /\ jobs' = Append(jobs, b)),
           NEW n \in 1..Len(jobs)
    PROVE  jobs'[n] = jobs[n]
BY AppendProperties

\* A set made to fit packets: all its buffers are buffers, and the first n
\* hold what the packets need.
LEMMA FitFirstFacts ==
    ASSUME NEW set \in BufferSet, NEW p \in Seq(Packet), NEW n \in 0..4
    PROVE  /\ FitFirst(set, p, n) \in BufferSet
           /\ FitFirst(set, p, n).work = set.work
           /\ FitFirst(set, p, n).results = set.results
           /\ \A k \in 1..n : FitFirst(set, p, n).buffer[k].size >= Needed(p, k)
<1> DEFINE old == set.buffer
           new == [k \in 1..4 |-> IF k <= n THEN ensure_capacity(old[k], Needed(p, k), TRUE)
                                           ELSE old[k]]
<1>1. old \in [1..4 -> Buffer]
  BY DEF BufferSet
<1>2. \A k \in 1..4 : /\ ensure_capacity(old[k], Needed(p, k), TRUE) \in Buffer
                      /\ ensure_capacity(old[k], Needed(p, k), TRUE).size >= Needed(p, k)
  BY <1>1, NeededNat, EnsureCapacity
<1>3. FitFirst(set, p, n) = [set EXCEPT !.buffer = new]
  BY DEF FitFirst
<1>4. new \in [1..4 -> Buffer]
  BY <1>1, <1>2
<1>5. \A k \in 1..n : new[k].size >= Needed(p, k)
  <2> TAKE k \in 1..n
  <2>1. k \in 1..4 /\ k <= n
    OBVIOUS
  <2>2. new[k] = ensure_capacity(old[k], Needed(p, k), TRUE)
    BY <2>1
  <2> QED BY <2>1, <2>2, <1>2
<1> HIDE DEF new
<1> QED BY <1>3, <1>4, <1>5 DEF BufferSet

LEMMA TypeInit == AnalysisInit => TypeInv
<1> SUFFICES ASSUME AnalysisInit PROVE TypeInv
  OBVIOUS
<1> USE AnalysisAssumption DEF AnalysisInit
<1>1. WorkerTypeOK
  BY DEF WorkerTypeOK, Labels
<1>2. JobsApart
  BY DEF JobsApart
<1>3. PoolTypeOK
  BY DEF PoolTypeOK
<1>4. LogTypeOK
  <2>1. NoCommand \in Command
    BY DEF NoCommand, Command
  <2>2. IsABag(EmptyBag)
    BY DEF IsABag, EmptyBag, SetToBag
  <2> QED BY <2>1, <2>2 DEF LogTypeOK
<1>5. Progress
  BY DEF Progress
<1> QED BY <1>1, <1>2, <1>3, <1>4, <1>5 DEF TypeInv

\* Adding a set of events to the bag.
LEMMA BagAdd ==
    ASSUME NEW B, IsABag(B), NEW S
    PROVE  /\ IsABag(B (+) SetToBag(S))
           /\ DOMAIN (B (+) SetToBag(S)) = DOMAIN B \cup S
           /\ \A e \in DOMAIN B \cup S :
                  (B (+) SetToBag(S))[e] =
                      (IF e \in DOMAIN B THEN B[e] ELSE 0) + (IF e \in S THEN 1 ELSE 0)
<1> DEFINE C == SetToBag(S)
           D == B (+) C
<1>1. DOMAIN C = S /\ \A e \in S : C[e] = 1
  BY DEF SetToBag
<1>2. \A e \in DOMAIN B : B[e] \in Nat /\ B[e] > 0
  BY DEF IsABag
<1>3. D = [e \in DOMAIN B \cup DOMAIN C |->
             (IF e \in DOMAIN B THEN B[e] ELSE 0) + (IF e \in DOMAIN C THEN C[e] ELSE 0)]
  BY DEF (+)
<1> HIDE DEF C, D
<1>4. DOMAIN D = DOMAIN B \cup S
  BY <1>1, <1>3
<1>5. \A e \in DOMAIN B \cup S :
          D[e] = (IF e \in DOMAIN B THEN B[e] ELSE 0) + (IF e \in S THEN 1 ELSE 0)
  BY <1>1, <1>3
<1>6. \A e \in DOMAIN D : D[e] \in {n \in Nat : n > 0}
  BY <1>2, <1>4, <1>5
<1>7. D = [e \in DOMAIN D |-> D[e]]
  BY <1>3, <1>4, <1>1
<1>8. IsABag(D)
  BY <1>6, <1>7 DEF IsABag
<1> QED BY <1>4, <1>5, <1>8 DEF D, C

\* The actions that touch neither the pool, the commands nor the batches.
LEMMA TypeAnalyzeBatch ==
    ASSUME TypeInv, NEW w \in Workers, AnalyzeBatch(w)
    PROVE  TypeInv'
<1> USE AnalysisAssumption DEF TypeInv
<1>1. PICK b \in Batches :
        /\ Len(jobs) < MaxBatches
        /\ Step(w, "idle", IF Eligible(b) = <<>> THEN "rules" ELSE "start")
        /\ jobs' = Append(jobs, b)
        /\ job' = [job EXCEPT ![w] = Len(jobs')]
        /\ at' = [at EXCEPT ![w] = 1]
        /\ pending' = [pending EXCEPT ![w] = "none"]
        /\ entropies' = [entropies EXCEPT ![w] = <<>>]
        /\ UNCHANGED <<held, gpuVars, events, finished, fallbacks>>
  BY DEF AnalyzeBatch
<1>2. /\ Len(jobs) \in Nat /\ jobs' \in Seq(Batches) /\ Len(jobs') = Len(jobs) + 1
      /\ jobs'[Len(jobs) + 1] = b
      /\ \A n \in 1..Len(jobs) : jobs'[n] = jobs[n]
  BY <1>1, AppendProperties, LenProperties DEF WorkerTypeOK
<1>3. WorkerTypeOK'
  <2>1. pc' \in [Workers -> Labels]
    BY <1>1 DEF WorkerTypeOK, Step, Labels
  <2>2. job' \in [Workers -> 0..MaxBatches]
    BY <1>1, <1>2 DEF WorkerTypeOK
  <2>3. DOMAIN entropies' = Workers
    BY <1>1 DEF WorkerTypeOK
  <2> QED BY <1>1, <1>2, <2>1, <2>2, <2>3 DEF WorkerTypeOK
<1>4. JobsApart'
  BY <1>1, <1>2 DEF WorkerTypeOK, JobsApart, Step
<1>5. PoolTypeOK'
  BY <1>1 DEF PoolTypeOK, gpuVars
<1>6. LogTypeOK'
  BY <1>1 DEF LogTypeOK, gpuVars
<1>7. Progress'
  <2> SUFFICES ASSUME NEW v \in Workers
               PROVE  /\ held'[v] # 0 <=> (pc'[v] \in {"fit", "commit"} \/ pending'[v] = "gpu")
                      /\ pc'[v] \in {"idle", "start", "fit", "commit"} => pending'[v] = "none"
                      /\ pc'[v] \in {"wait", "report", "release"} => pending'[v] # "none"
                      /\ pc'[v] = "rules" /\ Eligible(jobs'[job'[v]]) # <<>>
                             => pending'[v] # "none"
                      /\ (pc'[v] \in {"start", "fit", "commit"} \/ pending'[v] # "none")
                             => Eligible(jobs'[job'[v]]) # <<>>
    BY DEF Progress, Batch
  <2>1. CASE v = w
    <3>1. pc[w] = "idle" /\ pc'[w] = IF Eligible(b) = <<>> THEN "rules" ELSE "start"
      BY <1>1 DEF Step, WorkerTypeOK
    <3>2. pending'[w] = "none" /\ held'[w] = held[w] /\ job'[w] = Len(jobs) + 1
      BY <1>1, <1>2 DEF WorkerTypeOK
    <3>3. held[w] = 0
      BY <3>1 DEF Progress
    <3> QED BY <2>1, <3>1, <3>2, <3>3, <1>2
  <2>2. CASE v # w
    <3>1. /\ pc'[v] = pc[v] /\ pending'[v] = pending[v] /\ held'[v] = held[v]
          /\ job'[v] = job[v]
      BY <1>1, <2>2 DEF Step, WorkerTypeOK
    <3>2. (pc[v] # "idle" \/ pending[v] # "none") => jobs'[job[v]] = jobs[job[v]]
      <4>1. pending[v] # "none" => pc[v] # "idle"
        BY DEF Progress
      <4>2. pc[v] # "idle" => job[v] \in 1..Len(jobs)
        BY <1>2 DEF JobsApart, WorkerTypeOK
      <4> QED BY <4>1, <4>2, <1>2
    <3> QED BY <3>1, <3>2 DEF Progress, Batch
  <2> QED BY <2>1, <2>2
<1> QED BY <1>3, <1>4, <1>5, <1>6, <1>7

\* A step of one worker within its batch.
LEMMA OneWorker ==
    ASSUME TypeInv, NEW w \in Workers, pc[w] # "idle", UNCHANGED <<job, jobs>>,
           \A v \in Workers \ {w} :
               pc'[v] = pc[v] /\ pending'[v] = pending[v] /\ held'[v] = held[v],
           held'[w] # 0 <=> (pc'[w] \in {"fit", "commit"} \/ pending'[w] = "gpu"),
           pc'[w] \in {"idle", "start", "fit", "commit"} => pending'[w] = "none",
           pc'[w] \in {"wait", "report", "release"} => pending'[w] # "none",
           pc'[w] = "rules" /\ Eligible(Batch(w)) # <<>> => pending'[w] # "none",
           (pc'[w] \in {"start", "fit", "commit"} \/ pending'[w] # "none")
               => Eligible(Batch(w)) # <<>>
    PROVE  JobsApart' /\ Progress'
<1>1. JobsApart'
  BY DEF JobsApart, TypeInv
<1>2. ASSUME NEW v \in Workers
      PROVE  /\ held'[v] # 0 <=> (pc'[v] \in {"fit", "commit"} \/ pending'[v] = "gpu")
             /\ pc'[v] \in {"idle", "start", "fit", "commit"} => pending'[v] = "none"
             /\ pc'[v] \in {"wait", "report", "release"} => pending'[v] # "none"
             /\ pc'[v] = "rules" /\ Eligible(Batch(v)') # <<>> => pending'[v] # "none"
             /\ (pc'[v] \in {"start", "fit", "commit"} \/ pending'[v] # "none")
                    => Eligible(Batch(v)') # <<>>
  <2>1. Batch(v)' = Batch(v)
    BY DEF Batch
  <2>2. CASE v = w
    BY <2>1, <2>2
  <2>3. CASE v # w
    <3>1. pc'[v] = pc[v] /\ pending'[v] = pending[v] /\ held'[v] = held[v]
      BY <2>3
    <3> QED BY <2>1, <3>1 DEF Progress, TypeInv
  <2> QED BY <2>2, <2>3
<1>3. Progress'
  BY <1>2 DEF Progress
<1> QED BY <1>1, <1>3

LEMMA TypeCpuStart ==
    ASSUME TypeInv, NEW w \in Workers, CpuStart(w)
    PROVE  TypeInv'
<1> USE AnalysisAssumption DEF TypeInv
<1>1. /\ pc[w] = "start" /\ pc' = [pc EXCEPT ![w] = "rules"]
      /\ pending' = [pending EXCEPT ![w] = "ready"]
      /\ entropies' = [entropies EXCEPT ![w] = Highs(Eligible(Batch(w)))]
      /\ UNCHANGED <<job, at, held, gpuVars, logVars>>
  BY DEF CpuStart, Step
<1>4. WorkerTypeOK'
  <2>1. pc' \in [Workers -> Labels]
    BY <1>1 DEF WorkerTypeOK, Labels
  <2>2. DOMAIN entropies' = Workers
    BY <1>1 DEF WorkerTypeOK
  <2> QED BY <1>1, <2>1, <2>2 DEF WorkerTypeOK, logVars
<1>5. JobsApart' /\ Progress'
  <2>1. pc'[w] = "rules" /\ pending'[w] = "ready" /\ held'[w] = held[w]
    BY <1>1 DEF WorkerTypeOK
  <2>2. held[w] = 0 /\ Eligible(Batch(w)) # <<>>
    BY <1>1 DEF Progress
  <2>3. \A v \in Workers \ {w} : pc'[v] = pc[v] /\ pending'[v] = pending[v] /\ held'[v] = held[v]
    BY <1>1 DEF WorkerTypeOK
  <2>4. UNCHANGED <<job, jobs>>
    BY <1>1 DEF logVars
  <2> QED BY <1>1, <2>1, <2>2, <2>3, <2>4, OneWorker
<1>6. PoolTypeOK' /\ LogTypeOK'
  BY <1>1 DEF PoolTypeOK, LogTypeOK, gpuVars, logVars
<1> QED BY <1>4, <1>5, <1>6

\* What take_buffers() and return_buffers() do to the pool.
LEMMA TakeFacts ==
    ASSUME TypeInv, NEW w \in Workers, take_buffers(w)
    PROVE  /\ PoolTypeOK' \/ use_gpu' # use_gpu
           /\ held'[w] \in Nat \ {0} /\ \A v \in Workers \ {w} : held'[v] = held[v]
           /\ DOMAIN held' = Workers
           /\ \/ /\ free = <<>> /\ free' = <<>> /\ sets' = Append(sets, EmptySet)
                 /\ held'[w] = Len(sets) + 1 /\ Len(sets') = Len(sets) + 1
                 /\ \A s \in 1..Len(sets) : sets'[s] = sets[s]
              \/ /\ free # <<>> /\ sets' = sets /\ held'[w] = free[Len(free)]
                 /\ Len(free') = Len(free) - 1
                 /\ \A i \in 1..Len(free') : free'[i] = free[i]
<1> USE DEF TypeInv
<1>1. /\ held \in [Workers -> Nat] /\ sets \in Seq(BufferSet) /\ free \in Seq(1..Len(sets))
      /\ Len(sets) \in Nat /\ Len(free) \in Nat /\ (Len(free) = 0 <=> free = <<>>)
      /\ \A i \in 1..Len(free) : free[i] \in 1..Len(sets)
      /\ \A v \in Workers : held[v] <= Len(sets)
  BY LenProperties, EmptySeq, ElementOfSeq DEF PoolTypeOK
<1>2. CASE free = <<>>
  <2>1. /\ sets' = Append(sets, EmptySet) /\ held' = [held EXCEPT ![w] = Len(sets')]
        /\ free' = <<>>
    BY <1>2 DEF take_buffers
  <2>2. EmptySet \in BufferSet
    <3>1. [size |-> 0, capacity |-> 0] \in Buffer
      BY DEF Buffer
    <3>2. [k \in 1..4 |-> [size |-> 0, capacity |-> 0]] \in [1..4 -> Buffer]
      BY <3>1
    <3>3. <<>> \in Seq(Packet) /\ <<>> \in Seq(BOOLEAN)
      OBVIOUS
    <3> QED BY <3>2, <3>3 DEF EmptySet, BufferSet
  <2>3. /\ sets' \in Seq(BufferSet) /\ Len(sets') = Len(sets) + 1
        /\ \A s \in 1..Len(sets) : sets'[s] = sets[s]
    BY <1>1, <2>1, <2>2, AppendProperties
  <2>4. held'[w] = Len(sets) + 1 /\ held' \in [Workers -> Nat]
    BY <1>1, <2>1, <2>3
  <2>5. \A v \in Workers \ {w} : held'[v] = held[v]
    BY <1>1, <2>1
  <2>6. \A v \in Workers : held'[v] <= Len(sets')
    BY <1>1, <2>3, <2>4, <2>5
  <2>7. free' \in Seq(1..Len(sets'))
    BY <2>1
  <2> QED BY <1>1, <1>2, <2>1, <2>3, <2>4, <2>5, <2>6, <2>7 DEF PoolTypeOK
<1>3. CASE free # <<>>
  <2>1. /\ held' = [held EXCEPT ![w] = free[Len(free)]] /\ sets' = sets
        /\ free' = SubSeq(free, 1, Len(free) - 1)
    BY <1>3 DEF take_buffers
  <2>2. free[Len(free)] \in 1..Len(sets)
    BY <1>1, <1>3
  <2>3. /\ free' \in Seq(1..Len(sets)) /\ Len(free') = Len(free) - 1
        /\ \A i \in 1..Len(free') : free'[i] = free[i]
    <3> DEFINE m == Len(free) - 1
               front == SubSeq(free, 1, m)
    <3>1. m \in Nat /\ 1 \in Int /\ m \in Int
      BY <1>1, <1>3
    <3>2. \A i \in 1..m : free[i] \in 1..Len(sets)
      BY <1>1
    <3>3. /\ front \in Seq(1..Len(sets)) /\ Len(front) = IF 1 <= m THEN m - 1 + 1 ELSE 0
          /\ \A i \in 1..(m - 1 + 1) : front[i] = free[1 + i - 1]
      <4> HIDE DEF m
      <4> QED BY <3>1, <3>2, SubSeqProperties
    <3>4. Len(front) = m /\ \A i \in 1..m : front[i] = free[i]
      <4> HIDE DEF m, front
      <4> QED BY <3>1, <3>3
    <3> HIDE DEF front
    <3> QED BY <2>1, <3>3, <3>4 DEF front
  <2>4. held' \in [Workers -> Nat] /\ held'[w] = free[Len(free)]
    BY <1>1, <2>1, <2>2
  <2>5. \A v \in Workers \ {w} : held'[v] = held[v]
    BY <1>1, <2>1
  <2>6. \A v \in Workers : held'[v] <= Len(sets)
    <3>1. held'[w] <= Len(sets)
      BY <1>1, <2>2, <2>4
    <3> QED BY <1>1, <3>1, <2>5
  <2> QED BY <1>1, <1>3, <2>1, <2>2, <2>3, <2>4, <2>5, <2>6 DEF PoolTypeOK
<1> QED BY <1>2, <1>3

LEMMA ReturnFacts ==
    ASSUME TypeInv, NEW w \in Workers, held[w] # 0, return_buffers(w)
    PROVE  /\ free' = Append(free, held[w]) /\ held'[w] = 0
           /\ \A v \in Workers \ {w} : held'[v] = held[v]
           /\ held' \in [Workers -> Nat]
           /\ \A v \in Workers : held'[v] <= Len(sets)
           /\ free' \in Seq(1..Len(sets)) /\ Len(free') = Len(free) + 1
           /\ free'[Len(free) + 1] = held[w]
           /\ \A i \in 1..Len(free) : free'[i] = free[i]
<1>1. /\ held \in [Workers -> Nat] /\ free \in Seq(1..Len(sets)) /\ Len(sets) \in Nat
      /\ \A v \in Workers : held[v] <= Len(sets)
  BY LenProperties DEF TypeInv, PoolTypeOK
<1>2. free' = Append(free, held[w]) /\ held' = [held EXCEPT ![w] = 0]
  BY DEF return_buffers
<1>3. held[w] \in 1..Len(sets)
  BY <1>1
<1>4. held' \in [Workers -> Nat] /\ \A v \in Workers : held'[v] <= Len(sets)
  BY <1>1, <1>2
<1> QED BY <1>1, <1>2, <1>3, <1>4, AppendProperties

LEMMA TypeSubmitTake ==
    ASSUME TypeInv, NEW w \in Workers, SubmitTake(w)
    PROVE  TypeInv'
<1> USE AnalysisAssumption DEF TypeInv
<1>1. /\ pc[w] = "start" /\ pc' = [pc EXCEPT ![w] = "fit"] /\ take_buffers(w)
      /\ UNCHANGED <<job, at, pending, entropies, command, use_gpu, logVars>>
  BY DEF SubmitTake, Step
<1>2. WorkerTypeOK'
  <2>1. pc' \in [Workers -> Labels]
    BY <1>1 DEF WorkerTypeOK, Labels
  <2> QED BY <1>1, <2>1 DEF WorkerTypeOK, logVars
<1>3. PoolTypeOK' /\ held'[w] # 0 /\ \A v \in Workers \ {w} : held'[v] = held[v]
  BY <1>1, TakeFacts
<1>4. JobsApart' /\ Progress'
  <2>1. pc'[w] = "fit" /\ pending'[w] = pending[w]
    BY <1>1 DEF WorkerTypeOK
  <2>2. pending[w] = "none" /\ Eligible(Batch(w)) # <<>>
    BY <1>1 DEF Progress
  <2>3. \A v \in Workers \ {w} : pc'[v] = pc[v] /\ pending'[v] = pending[v] /\ held'[v] = held[v]
    BY <1>1, <1>3 DEF WorkerTypeOK
  <2>4. UNCHANGED <<job, jobs>>
    BY <1>1 DEF logVars
  <2> QED BY <1>1, <1>3, <2>1, <2>2, <2>3, <2>4, OneWorker
<1>5. LogTypeOK'
  BY <1>1 DEF LogTypeOK, logVars
<1> QED BY <1>2, <1>3, <1>4, <1>5

\* A changed buffer set is still one of the sets.
LEMMA SetUpdate ==
    ASSUME sets \in Seq(BufferSet), NEW s \in 1..Len(sets), NEW new \in BufferSet
    PROVE  /\ [sets EXCEPT ![s] = new] \in Seq(BufferSet)
           /\ Len([sets EXCEPT ![s] = new]) = Len(sets)
           /\ [sets EXCEPT ![s] = new][s] = new
           /\ \A r \in 1..Len(sets) : r # s => [sets EXCEPT ![s] = new][r] = sets[r]
BY ExceptSeq

\* What SubmitFill() leaves in the worker's set.
LEMMA FillFacts ==
    ASSUME TypeInv, NEW w \in Workers, SubmitFill(w)
    PROVE  LET p == Eligible(Batch(w)) IN
           /\ pc[w] = "fit" /\ job[w] > 0 /\ held[w] \in 1..Len(sets)
           /\ sets' \in Seq(BufferSet) /\ Len(sets') = Len(sets)
           /\ sets'[held[w]].work = p
           /\ \A k \in 1..4 : sets'[held[w]].buffer[k].size >= Needed(p, k)
           /\ \A r \in 1..Len(sets) : r # held[w] => sets'[r] = sets[r]
<1> DEFINE p == Eligible(Batch(w))
           set == sets[held[w]]
           new == [FitFirst(set, p, 4) EXCEPT !.work = p]
<1>1. pc[w] = "fit" /\ sets' = [sets EXCEPT ![held[w]] = new]
  BY DEF SubmitFill, Step
<1>2. job[w] > 0 /\ held[w] # 0
  BY <1>1 DEF TypeInv, JobsApart, Progress
<1>3. p \in Seq(Packet)
  BY <1>2, BatchFacts
<1>4. held[w] \in 1..Len(sets) /\ sets \in Seq(BufferSet) /\ set \in BufferSet
  BY <1>2, LenProperties, ElementOfSeq DEF TypeInv, PoolTypeOK
<1> HIDE DEF p, set
<1>5. /\ FitFirst(set, p, 4) \in BufferSet
      /\ \A k \in 1..4 : FitFirst(set, p, 4).buffer[k].size >= Needed(p, k)
  BY <1>3, <1>4, FitFirstFacts
<1>6. /\ new \in BufferSet /\ new.work = p
      /\ \A k \in 1..4 : new.buffer[k].size >= Needed(p, k)
  BY <1>3, <1>5 DEF BufferSet
<1> HIDE DEF new
<1>7. /\ sets' \in Seq(BufferSet) /\ Len(sets') = Len(sets) /\ sets'[held[w]] = new
      /\ \A r \in 1..Len(sets) : r # held[w] => sets'[r] = sets[r]
  BY <1>1, <1>4, <1>6, SetUpdate
<1> QED BY <1>1, <1>2, <1>4, <1>6, <1>7 DEF p

LEMMA TypeSubmitFill ==
    ASSUME TypeInv, NEW w \in Workers, SubmitFill(w)
    PROVE  TypeInv'
<1> USE AnalysisAssumption DEF TypeInv
<1>1. /\ pc[w] = "fit" /\ pc' = [pc EXCEPT ![w] = "commit"]
      /\ UNCHANGED <<job, at, pending, held, entropies, free, command, use_gpu, logVars>>
  BY DEF SubmitFill, Step
<1>2. WorkerTypeOK'
  <2>1. pc' \in [Workers -> Labels]
    BY <1>1 DEF WorkerTypeOK, Labels
  <2> QED BY <1>1, <2>1 DEF WorkerTypeOK, logVars
<1>3. sets' \in Seq(BufferSet) /\ Len(sets') = Len(sets)
  BY FillFacts
<1>4. PoolTypeOK'
  BY <1>1, <1>3 DEF PoolTypeOK
<1>5. JobsApart' /\ Progress'
  <2>1. pc'[w] = "commit" /\ pending'[w] = pending[w] /\ held'[w] = held[w]
    BY <1>1 DEF WorkerTypeOK
  <2>2. pending[w] = "none" /\ Eligible(Batch(w)) # <<>> /\ held[w] # 0
    BY <1>1 DEF Progress
  <2>3. \A v \in Workers \ {w} : pc'[v] = pc[v] /\ pending'[v] = pending[v] /\ held'[v] = held[v]
    BY <1>1 DEF WorkerTypeOK
  <2>4. UNCHANGED <<job, jobs>>
    BY <1>1 DEF logVars
  <2> QED BY <1>1, <2>1, <2>2, <2>3, <2>4, OneWorker
<1>6. LogTypeOK'
  BY <1>1 DEF LogTypeOK, logVars
<1> QED BY <1>2, <1>4, <1>5, <1>6

LEMMA NoMemoryFacts ==
    ASSUME TypeInv, NEW w \in Workers, SubmitNoMemory(w)
    PROVE  /\ pc[w] = "fit" /\ job[w] > 0 /\ held[w] \in 1..Len(sets)
           /\ sets' \in Seq(BufferSet) /\ Len(sets') = Len(sets)
           /\ \A r \in 1..Len(sets) : r # held[w] => sets'[r] = sets[r]
<1> DEFINE p == Eligible(Batch(w))
           set == sets[held[w]]
<1>1. pc[w] = "fit"
  BY DEF SubmitNoMemory, Step
<1>2. job[w] > 0 /\ held[w] # 0
  BY <1>1 DEF TypeInv, JobsApart, Progress
<1>3. p \in Seq(Packet)
  BY <1>2, BatchFacts
<1>4. held[w] \in 1..Len(sets) /\ sets \in Seq(BufferSet) /\ set \in BufferSet
  BY <1>2, LenProperties, ElementOfSeq DEF TypeInv, PoolTypeOK
<1>5. PICK k \in 1..4 :
        sets' = [sets EXCEPT ![held[w]] =
                   [FitFirst(set, p, k - 1) EXCEPT
                       !.buffer[k] = ensure_capacity(@, Needed(p, k), FALSE)]]
  BY DEF SubmitNoMemory
<1> DEFINE fit == FitFirst(set, p, k - 1)
           new == [fit EXCEPT !.buffer[k] = ensure_capacity(@, Needed(p, k), FALSE)]
<1> HIDE DEF p, set
<1>6. fit \in BufferSet
  <2>1. k - 1 \in 0..4
    OBVIOUS
  <2> QED BY <2>1, <1>3, <1>4, FitFirstFacts
<1>7. Needed(p, k) \in Nat
  BY <1>3, NeededNat
<1> HIDE DEF fit
<1>8. ensure_capacity(fit.buffer[k], Needed(p, k), FALSE) \in Buffer
  <2>1. fit.buffer[k] \in Buffer
    BY <1>6 DEF BufferSet
  <2> QED BY <1>7, <2>1, EnsureCapacity
<1>9. new \in BufferSet
  BY <1>6, <1>8 DEF BufferSet
<1>10. sets' = [sets EXCEPT ![held[w]] = new]
  BY <1>5 DEF fit
<1> HIDE DEF new
<1> QED BY <1>1, <1>2, <1>4, <1>9, <1>10, SetUpdate

LEMMA TypeSubmitNoMemory ==
    ASSUME TypeInv, NEW w \in Workers, SubmitNoMemory(w)
    PROVE  TypeInv'
<1> USE AnalysisAssumption DEF TypeInv
<1>1. /\ pc[w] = "fit" /\ pc' = [pc EXCEPT ![w] = "rules"] /\ return_buffers(w)
      /\ pending' = [pending EXCEPT ![w] = "null"]
      /\ UNCHANGED <<job, at, entropies, command, use_gpu, logVars>>
  BY DEF SubmitNoMemory, Step, GpuStartReturns
<1>2. WorkerTypeOK'
  <2>1. pc' \in [Workers -> Labels]
    BY <1>1 DEF WorkerTypeOK, Labels
  <2> QED BY <1>1, <2>1 DEF WorkerTypeOK, logVars
<1>3. sets' \in Seq(BufferSet) /\ Len(sets') = Len(sets)
  BY NoMemoryFacts
<1>4. held[w] # 0 /\ Eligible(Batch(w)) # <<>>
  BY <1>1 DEF Progress
<1>5. PoolTypeOK'
  BY <1>1, <1>3, <1>4, ReturnFacts DEF PoolTypeOK
<1>6. JobsApart' /\ Progress'
  <2>1. pc'[w] = "rules" /\ pending'[w] = "null"
    BY <1>1 DEF WorkerTypeOK
  <2>2. held'[w] = 0 /\ \A v \in Workers \ {w} : held'[v] = held[v]
    BY <1>1, <1>4, ReturnFacts
  <2>3. \A v \in Workers \ {w} : pc'[v] = pc[v] /\ pending'[v] = pending[v]
    BY <1>1 DEF WorkerTypeOK
  <2>4. UNCHANGED <<job, jobs>>
    BY <1>1 DEF logVars
  <2> QED BY <1>1, <1>4, <2>1, <2>2, <2>3, <2>4, OneWorker
<1>7. LogTypeOK'
  BY <1>1 DEF LogTypeOK, logVars
<1> QED BY <1>2, <1>5, <1>6, <1>7

LEMMA TypeSubmitNoCommand ==
    ASSUME TypeInv, NEW w \in Workers, SubmitNoCommand(w)
    PROVE  TypeInv'
<1> USE AnalysisAssumption DEF TypeInv
<1>1. /\ pc[w] = "commit" /\ pc' = [pc EXCEPT ![w] = "rules"] /\ return_buffers(w)
      /\ pending' = [pending EXCEPT ![w] = "null"]
      /\ UNCHANGED <<job, at, entropies, sets, command, use_gpu, logVars>>
  BY DEF SubmitNoCommand, Step, GpuStartReturns
<1>2. WorkerTypeOK'
  <2>1. pc' \in [Workers -> Labels]
    BY <1>1 DEF WorkerTypeOK, Labels
  <2> QED BY <1>1, <2>1 DEF WorkerTypeOK, logVars
<1>4. held[w] # 0 /\ Eligible(Batch(w)) # <<>>
  BY <1>1 DEF Progress
<1>5. PoolTypeOK'
  BY <1>1, <1>4, ReturnFacts DEF PoolTypeOK
<1>6. JobsApart' /\ Progress'
  <2>1. pc'[w] = "rules" /\ pending'[w] = "null"
    BY <1>1 DEF WorkerTypeOK
  <2>2. held'[w] = 0 /\ \A v \in Workers \ {w} : held'[v] = held[v]
    BY <1>1, <1>4, ReturnFacts
  <2>3. \A v \in Workers \ {w} : pc'[v] = pc[v] /\ pending'[v] = pending[v]
    BY <1>1 DEF WorkerTypeOK
  <2>4. UNCHANGED <<job, jobs>>
    BY <1>1 DEF logVars
  <2> QED BY <1>1, <1>4, <2>1, <2>2, <2>3, <2>4, OneWorker
<1>7. LogTypeOK'
  BY <1>1 DEF LogTypeOK, logVars
<1> QED BY <1>2, <1>5, <1>6, <1>7

LEMMA TypeSubmitCommit ==
    ASSUME TypeInv, NEW w \in Workers, SubmitCommit(w)
    PROVE  TypeInv'
<1> USE AnalysisAssumption DEF TypeInv
<1> DEFINE new == [state |-> "running", set |-> held[w],
                   count |-> Len(Eligible(Batch(w))), computed |-> {}]
<1>1. /\ pc[w] = "commit" /\ pc' = [pc EXCEPT ![w] = "rules"]
      /\ pending' = [pending EXCEPT ![w] = "gpu"]
      /\ command' = [command EXCEPT ![job[w]] = new]
      /\ UNCHANGED <<job, at, held, entropies, free, sets, use_gpu, logVars>>
  BY DEF SubmitCommit, Step, GpuStartReturns
<1>2. WorkerTypeOK'
  <2>1. pc' \in [Workers -> Labels]
    BY <1>1 DEF WorkerTypeOK, Labels
  <2> QED BY <1>1, <2>1 DEF WorkerTypeOK, logVars
<1>4. held[w] # 0 /\ Eligible(Batch(w)) # <<>> /\ job[w] > 0
  BY <1>1 DEF Progress, JobsApart
<1>5. PoolTypeOK'
  BY <1>1 DEF PoolTypeOK
<1>6. JobsApart' /\ Progress'
  <2>1. pc'[w] = "rules" /\ pending'[w] = "gpu" /\ held'[w] = held[w]
    BY <1>1 DEF WorkerTypeOK
  <2>2. \A v \in Workers \ {w} : pc'[v] = pc[v] /\ pending'[v] = pending[v] /\ held'[v] = held[v]
    BY <1>1 DEF WorkerTypeOK
  <2>3. UNCHANGED <<job, jobs>>
    BY <1>1 DEF logVars
  <2> QED BY <1>1, <1>4, <2>1, <2>2, <2>3, OneWorker
<1>7. LogTypeOK'
  <2>1. Len(Eligible(Batch(w))) \in Nat
    BY <1>4, BatchFacts, LenProperties
  <2>2. held[w] \in Nat
    BY DEF PoolTypeOK
  <2>3. new \in Command
    BY <2>1, <2>2 DEF Command
  <2> HIDE DEF new
  <2> QED BY <1>1, <2>3 DEF LogTypeOK, logVars
<1> QED BY <1>2, <1>5, <1>6, <1>7

LEMMA TypeRules ==
    ASSUME TypeInv, NEW w \in Workers, Rules(w)
    PROVE  TypeInv'
<1> USE AnalysisAssumption DEF TypeInv
<1> DEFINE last == LastPacket(w)
           quiet == Eligible(Batch(w)) = <<>>
<1>1. /\ pc[w] = "rules"
      /\ pc' = [pc EXCEPT ![w] = IF ~last THEN "rules" ELSE IF quiet THEN "idle" ELSE "wait"]
      /\ at' = [at EXCEPT ![w] = @ + 1]
      /\ finished' = IF last /\ quiet THEN finished \cup {job[w]} ELSE finished
      /\ UNCHANGED <<job, pending, held, entropies, gpuVars, jobs, fallbacks>>
  BY DEF Rules
<1>2. WorkerTypeOK'
  <2>1. pc' \in [Workers -> Labels]
    BY <1>1 DEF WorkerTypeOK, Labels
  <2> QED BY <1>1, <2>1 DEF WorkerTypeOK
<1>3. job[w] > 0
  BY <1>1 DEF JobsApart
<1>4. PoolTypeOK'
  BY <1>1 DEF PoolTypeOK, gpuVars
<1>5. JobsApart' /\ Progress'
  <2>1. /\ pc'[w] = (IF ~last THEN "rules" ELSE IF quiet THEN "idle" ELSE "wait")
        /\ pending'[w] = pending[w] /\ held'[w] = held[w]
    BY <1>1 DEF WorkerTypeOK
  <2>2. \A v \in Workers \ {w} : pc'[v] = pc[v] /\ pending'[v] = pending[v] /\ held'[v] = held[v]
    BY <1>1 DEF WorkerTypeOK
  <2>3. UNCHANGED <<job, jobs>>
    BY <1>1
  <2>4. /\ held[w] # 0 <=> pending[w] = "gpu"
        /\ pending[w] # "none" <=> ~ quiet
    BY <1>1 DEF Progress
  <2> HIDE DEF last, quiet
  <2>5. /\ held'[w] # 0 <=> (pc'[w] \in {"fit", "commit"} \/ pending'[w] = "gpu")
        /\ pc'[w] \in {"idle", "start", "fit", "commit"} => pending'[w] = "none"
        /\ pc'[w] \in {"wait", "report", "release"} => pending'[w] # "none"
        /\ pc'[w] = "rules" /\ ~ quiet => pending'[w] # "none"
        /\ (pc'[w] \in {"start", "fit", "commit"} \/ pending'[w] # "none") => ~ quiet
    BY <2>1, <2>4
  <2> QED BY <1>1, <2>2, <2>3, <2>5, OneWorker DEF quiet
<1>6. LogTypeOK'
  <2>1. IsABag(events')
    <3>1. PICK A, B : events' = (events (+) SetToBag(A)) (+) SetToBag(B)
      BY Zenon DEF Rules, print_alert
    <3>2. IsABag(events)
      BY DEF LogTypeOK
    <3>3. IsABag(events (+) SetToBag(A))
      BY <3>2, BagAdd, Zenon
    <3>4. IsABag((events (+) SetToBag(A)) (+) SetToBag(B))
      BY <3>3, BagAdd, Zenon
    <3> QED BY <3>1, <3>4
  <2>2. job[w] \in 1..MaxBatches
    BY <1>3, BatchFacts
  <2> QED BY <1>1, <2>1, <2>2 DEF LogTypeOK, gpuVars
<1> QED BY <1>2, <1>4, <1>5, <1>6

LEMMA TypeWait ==
    ASSUME TypeInv, NEW w \in Workers, Wait(w)
    PROVE  TypeInv'
<1> USE AnalysisAssumption DEF TypeInv
<1>1. /\ pc[w] = "wait" /\ pc' = [pc EXCEPT ![w] = "report"]
      /\ UNCHANGED <<job, at, pending, held, gpuVars, jobs, events, finished>>
  BY DEF Wait, Step
<1>2. DOMAIN entropies' = Workers
  BY DEF Wait, WaitGpu, FallBack, Collect, WorkerTypeOK
<1>3. fallbacks' \in Nat
  BY DEF Wait, WaitGpu, FallBack, Collect, LogTypeOK
<1>4. WorkerTypeOK'
  <2>1. pc' \in [Workers -> Labels]
    BY <1>1 DEF WorkerTypeOK, Labels
  <2> QED BY <1>1, <1>2, <2>1 DEF WorkerTypeOK
<1>5. JobsApart' /\ Progress'
  <2>1. pc'[w] = "report" /\ pending'[w] = pending[w] /\ held'[w] = held[w]
    BY <1>1 DEF WorkerTypeOK
  <2>2. /\ held[w] # 0 <=> pending[w] = "gpu"
        /\ pending[w] # "none" /\ Eligible(Batch(w)) # <<>>
    BY <1>1 DEF Progress
  <2>3. \A v \in Workers \ {w} : pc'[v] = pc[v] /\ pending'[v] = pending[v] /\ held'[v] = held[v]
    BY <1>1 DEF WorkerTypeOK
  <2> QED BY <1>1, <2>1, <2>2, <2>3, OneWorker
<1>6. PoolTypeOK' /\ LogTypeOK'
  BY <1>1, <1>3 DEF PoolTypeOK, LogTypeOK, gpuVars
<1> QED BY <1>4, <1>5, <1>6

LEMMA TypeReport ==
    ASSUME TypeInv, NEW w \in Workers, Report(w)
    PROVE  TypeInv'
<1> USE AnalysisAssumption DEF TypeInv
<1>1. /\ pc[w] = "report" /\ pc' = [pc EXCEPT ![w] = "release"]
      /\ UNCHANGED <<job, at, pending, held, entropies, gpuVars, jobs, finished, fallbacks>>
  BY DEF Report, Step
<1>2. WorkerTypeOK'
  <2>1. pc' \in [Workers -> Labels]
    BY <1>1 DEF WorkerTypeOK, Labels
  <2> QED BY <1>1, <2>1 DEF WorkerTypeOK
<1>3. JobsApart' /\ Progress'
  <2>1. pc'[w] = "release" /\ pending'[w] = pending[w] /\ held'[w] = held[w]
    BY <1>1 DEF WorkerTypeOK
  <2>2. /\ held[w] # 0 <=> pending[w] = "gpu"
        /\ pending[w] # "none" /\ Eligible(Batch(w)) # <<>>
    BY <1>1 DEF Progress
  <2>3. \A v \in Workers \ {w} : pc'[v] = pc[v] /\ pending'[v] = pending[v] /\ held'[v] = held[v]
    BY <1>1 DEF WorkerTypeOK
  <2> QED BY <1>1, <2>1, <2>2, <2>3, OneWorker
<1>4. IsABag(events')
  <2>1. PICK A : events' = events (+) SetToBag(A)
    BY Zenon DEF Report, print_alert
  <2>2. IsABag(events)
    BY DEF LogTypeOK
  <2>3. IsABag(events (+) SetToBag(A))
    BY <2>2, BagAdd, Zenon
  <2> QED BY <2>1, <2>3
<1>5. PoolTypeOK' /\ LogTypeOK'
  BY <1>1, <1>4 DEF PoolTypeOK, LogTypeOK, gpuVars
<1> QED BY <1>2, <1>3, <1>5

LEMMA TypeRelease ==
    ASSUME TypeInv, NEW w \in Workers, Release(w)
    PROVE  TypeInv'
<1> USE AnalysisAssumption DEF TypeInv
<1>1. /\ pc[w] = "release" /\ pc' = [pc EXCEPT ![w] = "idle"] /\ return_buffers(w)
      /\ pending' = [pending EXCEPT ![w] = "none"]
      /\ finished' = finished \cup {job[w]}
      /\ UNCHANGED <<job, at, entropies, sets, command, use_gpu, jobs, events, fallbacks>>
  BY DEF Release, Step
<1>2. WorkerTypeOK'
  <2>1. pc' \in [Workers -> Labels]
    BY <1>1 DEF WorkerTypeOK, Labels
  <2> QED BY <1>1, <2>1 DEF WorkerTypeOK
<1>3. /\ PoolTypeOK' /\ held'[w] = 0 /\ \A v \in Workers \ {w} : held'[v] = held[v]
  <2>1. CASE held[w] = 0
    <3>1. held' = [held EXCEPT ![w] = 0] /\ free' = free
      BY <1>1, <2>1 DEF return_buffers
    <3> QED BY <1>1, <2>1, <3>1 DEF PoolTypeOK
  <2>2. CASE held[w] # 0
    BY <1>1, <2>2, ReturnFacts DEF PoolTypeOK
  <2> QED BY <2>1, <2>2
<1>4. JobsApart' /\ Progress'
  <2>1. pc'[w] = "idle" /\ pending'[w] = "none"
    BY <1>1 DEF WorkerTypeOK
  <2>2. \A v \in Workers \ {w} : pc'[v] = pc[v] /\ pending'[v] = pending[v]
    BY <1>1 DEF WorkerTypeOK
  <2> QED BY <1>1, <1>3, <2>1, <2>2, OneWorker
<1>5. LogTypeOK'
  <2>1. job[w] \in 1..MaxBatches
    <3>1. job[w] > 0
      BY <1>1 DEF JobsApart
    <3> QED BY <3>1, BatchFacts
  <2> QED BY <1>1, <2>1 DEF LogTypeOK
<1> QED BY <1>2, <1>3, <1>4, <1>5

\* One threadgroup of command n: result i of the command's set becomes the
\* verdict on what the set holds as payload i; nothing else changes.
Computes(n, i) ==
    LET s == command[n].set
        r == sets[s].results
        q == sets'[s].results
    IN  /\ i \in 1..command[n].count /\ i \notin command[n].computed
        /\ command[n].state = "running"
        /\ command' = [command EXCEPT ![n].computed = @ \cup {i}]
        /\ sets' \in Seq(BufferSet) /\ Len(sets') = Len(sets)
        /\ \A t \in 1..Len(sets) :
               /\ sets'[t].work = sets[t].work /\ sets'[t].buffer = sets[t].buffer
               /\ t # s => sets'[t] = sets[t]
        /\ s \in 1..Len(sets) =>
               /\ i <= Len(q) /\ Len(r) <= Len(q)
               /\ i <= Len(sets[s].work) => q[i] = sets[s].work[i].high
               /\ \A k \in 1..Len(r) : k # i => q[k] = r[k]
        /\ UNCHANGED <<workerVars, free, use_gpu, logVars>>

LEMMA ComputeFacts ==
    ASSUME TypeInv, NEW n \in 1..MaxBatches, GpuCompute(n)
    PROVE  \E i : Computes(n, i)
<1> DEFINE s == command[n].set
           r == sets[s].results
           work == sets[s].work
           value(i) == i <= Len(work) /\ work[i].high
           width(i) == IF i > Len(r) THEN i ELSE Len(r)
           res(i) == [k \in 1..width(i) |-> IF k = i THEN value(i) ELSE k <= Len(r) /\ r[k]]
<1>1. PICK i \in 1..command[n].count \ command[n].computed :
        /\ command[n].state = "running"
        /\ command' = [command EXCEPT ![n].computed = @ \cup {i}]
        /\ sets' = [sets EXCEPT ![s].results = res(i)]
        /\ UNCHANGED <<workerVars, free, use_gpu, logVars>>
  BY DEF GpuCompute
<1>2. sets \in Seq(BufferSet) /\ Len(sets) \in Nat /\ DOMAIN sets = 1..Len(sets)
  BY LenProperties DEF TypeInv, PoolTypeOK
<1>3. i \in Nat /\ i >= 1 /\ i \in 1..command[n].count /\ i \notin command[n].computed
  <2>1. command[n].count \in Nat
    BY DEF TypeInv, LogTypeOK, Command
  <2> QED BY <1>1, <2>1
<1>4. CASE s \in 1..Len(sets)
  <2>1. sets[s] \in BufferSet
    BY <1>2, <1>4, ElementOfSeq
  <2>2. /\ r \in Seq(BOOLEAN) /\ Len(r) \in Nat /\ \A k \in 1..Len(r) : r[k] \in BOOLEAN
        /\ work \in Seq(Packet) /\ Len(work) \in Nat
        /\ \A k \in 1..Len(work) : work[k].high \in BOOLEAN
    <3>1. r \in Seq(BOOLEAN) /\ work \in Seq(Packet)
      BY <2>1 DEF BufferSet
    <3>2. \A k \in 1..Len(work) : work[k] \in Packet
      BY <3>1, ElementOfSeq
    <3> QED BY <3>1, <3>2, LenProperties, ElementOfSeq DEF Packet
  <2>3. width(i) \in Nat /\ i <= width(i) /\ Len(r) <= width(i)
    BY <1>3, <2>2
  <2>4. value(i) \in BOOLEAN /\ (i <= Len(work) => value(i) = work[i].high)
    BY <1>3, <2>2
  <2> DEFINE q == res(i)
             new == [sets[s] EXCEPT !.results = q]
  <2>5. /\ q \in [1..width(i) -> BOOLEAN] /\ q[i] = value(i)
        /\ \A k \in 1..Len(r) : k # i => q[k] = r[k]
    <3> DEFINE cell(k) == IF k = i THEN value(i) ELSE k <= Len(r) /\ r[k]
               wide == 1..width(i)
    <3>1. /\ i \in wide
          /\ \A k \in 1..Len(r) : k \in wide /\ k <= Len(r)
          /\ \A k \in wide : k <= Len(r) => k \in 1..Len(r)
      <4> HIDE DEF r, work, value, width
      <4> QED BY <1>3, <2>2, <2>3
    <3>2. q = [k \in wide |-> cell(k)]
      OBVIOUS
    <3> HIDE DEF r, work, value, width, q, res, wide
    <3>3. \A k \in wide : cell(k) \in BOOLEAN
      BY <2>2, <2>4, <3>1, Zenon
    <3>4. \A k \in 1..Len(r) : k # i => cell(k) = r[k]
      BY <2>2, <3>1, Zenon
    <3>5. cell(i) = value(i)
      OBVIOUS
    <3> HIDE DEF cell
    <3>6. q \in [wide -> BOOLEAN]
      BY <3>2, <3>3
    <3>7. \A k \in wide : q[k] = cell(k)
      BY <3>2
    <3> QED BY <3>1, <3>4, <3>5, <3>6, <3>7 DEF wide
  <2>6. q \in Seq(BOOLEAN) /\ Len(q) = width(i)
    <3>1. q \in Seq(BOOLEAN)
      <4> HIDE DEF q, width
      <4> QED BY <2>3, <2>5, IsASeq
    <3>2. DOMAIN q = 1..width(i)
      OBVIOUS
    <3> HIDE DEF q, width
    <3> QED BY <2>3, <3>1, <3>2, LenProperties
  <2> HIDE DEF q
  <2>7. /\ new \in BufferSet /\ new.results = q
        /\ new.work = sets[s].work /\ new.buffer = sets[s].buffer
    BY <2>1, <2>6 DEF BufferSet
  <2>8. sets' = [sets EXCEPT ![s] = new]
    BY <1>1 DEF q
  <2> HIDE DEF new
  <2>9. /\ sets' \in Seq(BufferSet) /\ Len(sets') = Len(sets) /\ sets'[s] = new
        /\ \A t \in 1..Len(sets) : t # s => sets'[t] = sets[t]
    BY <1>2, <1>4, <2>7, <2>8, SetUpdate
  <2>10. \A t \in 1..Len(sets) :
            /\ sets'[t].work = sets[t].work /\ sets'[t].buffer = sets[t].buffer
            /\ t # s => sets'[t] = sets[t]
    BY <2>7, <2>9
  <2>11. /\ i <= Len(sets'[s].results) /\ Len(r) <= Len(sets'[s].results)
         /\ i <= Len(work) => sets'[s].results[i] = work[i].high
         /\ \A k \in 1..Len(r) : k # i => sets'[s].results[k] = r[k]
    <3>1. sets'[s].results = q
      BY <2>7, <2>9
    <3> HIDE DEF r, work, value, width, s
    <3>2. i <= Len(q) /\ Len(r) <= Len(q)
      BY <2>3, <2>6
    <3>3. i <= Len(work) => q[i] = work[i].high
      BY <2>4, <2>5
    <3> QED BY <2>5, <3>1, <3>2, <3>3
  <2>12. Computes(n, i)
    <3> HIDE DEF value, width, res
    <3> QED BY <1>1, <1>3, <2>9, <2>10, <2>11, Zenon DEF Computes
  <2> QED BY <2>12
<1>5. CASE s \notin 1..Len(sets)
  <2>1. sets' = sets
    BY <1>1, <1>2, <1>5
  <2>2. Computes(n, i)
    <3> HIDE DEF value, width, res
    <3> QED BY <1>1, <1>2, <1>3, <1>5, <2>1, Zenon DEF Computes
  <2> QED BY <2>2
<1> QED BY <1>4, <1>5

LEMMA TypeGpuStep ==
    ASSUME TypeInv, NEW n \in 1..MaxBatches, GpuStep(n)
    PROVE  TypeInv'
<1> USE AnalysisAssumption DEF TypeInv
<1>1. UNCHANGED <<workerVars, free, use_gpu, logVars>>
  BY DEF GpuStep, GpuCompute, GpuComplete, GpuFail
<1>2. sets' \in Seq(BufferSet) /\ Len(sets') = Len(sets)
  <2>1. CASE GpuCompute(n)
    BY <2>1, ComputeFacts DEF Computes
  <2>2. CASE GpuComplete(n) \/ GpuFail(n)
    BY <2>2 DEF GpuComplete, GpuFail, PoolTypeOK
  <2> QED BY <2>1, <2>2 DEF GpuStep
<1>3. command' \in [1..MaxBatches -> Command]
  <2>1. CASE GpuCompute(n)
    <3>1. PICK i : Computes(n, i)
      BY <2>1, ComputeFacts
    <3>2. command[n] \in Command /\ i \in Nat
      BY <3>1 DEF LogTypeOK, Computes, Command
    <3>3. [command[n] EXCEPT !.computed = @ \cup {i}] \in Command
      BY <3>2 DEF Command
    <3> QED BY <3>1, <3>3 DEF Computes, LogTypeOK
  <2>2. CASE GpuComplete(n) \/ GpuFail(n)
    <3>1. PICK st \in {"completed", "failed"} : command' = [command EXCEPT ![n].state = st]
      BY <2>2 DEF GpuComplete, GpuFail
    <3>2. [command[n] EXCEPT !.state = st] \in Command
      BY DEF LogTypeOK, Command
    <3> QED BY <3>1, <3>2 DEF LogTypeOK
  <2> QED BY <2>1, <2>2 DEF GpuStep
<1>4. WorkerTypeOK'
  BY <1>1 DEF WorkerTypeOK, workerVars, logVars
<1>5. JobsApart' /\ Progress'
  BY <1>1 DEF JobsApart, Progress, Batch, workerVars, logVars
<1>6. PoolTypeOK'
  BY <1>1, <1>2 DEF PoolTypeOK, workerVars
<1>7. LogTypeOK'
  BY <1>1, <1>3 DEF LogTypeOK, logVars
<1> QED BY <1>4, <1>5, <1>6, <1>7

LEMMA TypeStep == TypeInv /\ [AnalysisNext]_analysisVars => TypeInv'
<1> SUFFICES ASSUME TypeInv, [AnalysisNext]_analysisVars
             PROVE  TypeInv'
  OBVIOUS
<1>1. ASSUME UNCHANGED analysisVars PROVE TypeInv'
  <2> USE <1>1 DEF TypeInv, analysisVars, workerVars, gpuVars, logVars
  <2>1. WorkerTypeOK'
    BY DEF WorkerTypeOK
  <2>2. JobsApart' /\ Progress'
    BY DEF JobsApart, Progress, Batch
  <2>3. PoolTypeOK' /\ LogTypeOK'
    BY DEF PoolTypeOK, LogTypeOK
  <2> QED BY <2>1, <2>2, <2>3
<1>2. ASSUME NEW w \in Workers, WorkerStep(w) PROVE TypeInv'
  BY <1>2, TypeCpuStart, TypeSubmitTake, TypeSubmitFill, TypeSubmitNoMemory,
     TypeSubmitNoCommand, TypeSubmitCommit, TypeRules, TypeWait, TypeReport, TypeRelease
     DEF WorkerStep
<1> QED BY <1>1, <1>2, TypeAnalyzeBatch, TypeGpuStep DEF AnalysisNext, AnalysisDone

\* The types of Analysis, and what a worker's place in analyze_batch() says
\* of its batch, its pending result and the buffer set it holds.
THEOREM AnalysisTypes == AnalysisSpec => []TypeInv
BY TypeInit, TypeStep, PTL DEF AnalysisSpec

-----------------------------------------------------------------------------
(* Who owns a buffer set                                                   *)

\* Every set is in the pool once or with one worker.
OwnedSets ==
    /\ \A v, w \in Workers : v # w /\ held[v] # 0 => held[v] # held[w]
    /\ \A i, j \in 1..Len(free) : i # j => free[i] # free[j]
    /\ \A w \in Workers, i \in 1..Len(free) : held[w] # free[i]
    /\ \A s \in 1..Len(sets) :
           (\E i \in 1..Len(free) : free[i] = s) \/ (\E w \in Workers : held[w] = s)

\* A dispatch runs on the set of the worker that still has to wait for it.
Dispatched ==
    \A n \in 1..MaxBatches :
        command[n].state = "running" =>
            \E w \in Workers : /\ job[w] = n /\ held[w] = command[n].set
                               /\ pending[w] = "gpu" /\ pc[w] \in {"rules", "wait"}

\* The three things a step can do to the pool.
LEMMA PoolStepKinds ==
    ASSUME TypeInv, [AnalysisNext]_analysisVars
    PROVE  \/ \E w \in Workers : held[w] = 0 /\ take_buffers(w)
           \/ /\ Len(sets') = Len(sets)
              /\ \E w \in Workers : held[w] # 0 /\ return_buffers(w)
           \/ /\ Len(sets') = Len(sets) /\ free' = free
              /\ \A v \in Workers : held'[v] = held[v]
<1> USE DEF gpuVars, workerVars, logVars
<1>1. ASSUME NEW w \in Workers, AnalyzeBatch(w) \/ CpuStart(w) \/ SubmitCommit(w) \/ Rules(w)
                                  \/ Wait(w) \/ Report(w)
      PROVE  Len(sets') = Len(sets) /\ free' = free /\ held' = held
  BY <1>1 DEF AnalyzeBatch, CpuStart, SubmitCommit, Rules, Wait, Report
<1>2. ASSUME NEW w \in Workers, SubmitTake(w)
      PROVE  held[w] = 0 /\ take_buffers(w)
  BY <1>2 DEF SubmitTake, Step, TypeInv, Progress
<1>3. ASSUME NEW w \in Workers, SubmitFill(w)
      PROVE  Len(sets') = Len(sets) /\ free' = free /\ held' = held
  <2>1. free' = free /\ held' = held
    BY <1>3 DEF SubmitFill
  <2> QED BY <1>3, <2>1, FillFacts
<1>4. ASSUME NEW w \in Workers, SubmitNoMemory(w)
      PROVE  Len(sets') = Len(sets) /\ held[w] # 0 /\ return_buffers(w)
  <2>1. return_buffers(w)
    BY <1>4 DEF SubmitNoMemory
  <2> QED BY <1>4, <2>1, NoMemoryFacts
<1>5. ASSUME NEW w \in Workers, SubmitNoCommand(w)
      PROVE  Len(sets') = Len(sets) /\ held[w] # 0 /\ return_buffers(w)
  BY <1>5 DEF SubmitNoCommand, Step, TypeInv, Progress
<1>6. ASSUME NEW w \in Workers, Release(w)
      PROVE  /\ Len(sets') = Len(sets)
             /\ \/ held[w] # 0 /\ return_buffers(w)
                \/ free' = free /\ \A v \in Workers : held'[v] = held[v]
  BY <1>6 DEF Release, return_buffers, TypeInv, PoolTypeOK
<1>7. ASSUME NEW n \in 1..MaxBatches, GpuStep(n)
      PROVE  Len(sets') = Len(sets) /\ free' = free /\ held' = held
  <2>1. CASE GpuCompute(n)
    BY <2>1, ComputeFacts DEF Computes
  <2>2. CASE GpuComplete(n) \/ GpuFail(n)
    BY <2>2 DEF GpuComplete, GpuFail
  <2> QED BY <1>7, <2>1, <2>2 DEF GpuStep
<1>8. ASSUME UNCHANGED analysisVars
      PROVE  Len(sets') = Len(sets) /\ free' = free /\ held' = held
  BY <1>8 DEF analysisVars
<1> QED BY <1>1, <1>2, <1>3, <1>4, <1>5, <1>6, <1>7, <1>8
        DEF AnalysisNext, AnalysisDone, WorkerStep

LEMMA OwnedStep ==
    ASSUME TypeInv, OwnedSets, PoolBounded, [AnalysisNext]_analysisVars
    PROVE  OwnedSets' /\ PoolBounded'
<1> USE DEF OwnedSets
<1>1. /\ sets \in Seq(BufferSet) /\ Len(sets) \in Nat /\ Len(free) \in Nat
      /\ held \in [Workers -> Nat] /\ \A v \in Workers : held[v] <= Len(sets)
      /\ (Len(free) = 0 <=> free = <<>>)
      /\ \A i \in 1..Len(free) : free[i] \in 1..Len(sets)
  BY LenProperties, EmptySeq, ElementOfSeq DEF TypeInv, PoolTypeOK
<1>2. ASSUME NEW w \in Workers, held[w] = 0, take_buffers(w)
      PROVE  OwnedSets' /\ PoolBounded'
  <2>1. held'[w] # 0 /\ \A v \in Workers \ {w} : held'[v] = held[v]
    BY <1>2, TakeFacts
  <2>2. CASE free = <<>>
    <3>1. /\ free' = <<>> /\ held'[w] = Len(sets) + 1 /\ Len(sets') = Len(sets) + 1
      BY <1>2, <2>2, TakeFacts
    <3>2. Len(free) = 0 /\ Len(free') = 0
      BY <1>1, <2>2, <3>1
    <3>3. \A s \in 1..Len(sets) : \E v \in Workers : held[v] = s /\ v # w
      BY <1>1, <1>2, <3>2
    <3>4. OwnedSets'
      BY <1>1, <2>1, <3>1, <3>2, <3>3
    <3>5. Len(sets) + 1 <= Cardinality(Workers)
      <4> DEFINE f == [s \in 1..Len(sets) |-> CHOOSE v \in Workers : held[v] = s /\ v # w]
      <4>1. \A s \in 1..Len(sets) : f[s] \in Workers \ {w} /\ held[f[s]] = s
        BY <3>3
      <4>2. f \in Injection(1..Len(sets), Workers \ {w})
        <5>1. f \in [1..Len(sets) -> Workers \ {w}]
          BY <4>1
        <5> QED BY <4>1, <5>1, Fun_IsInj
      <4>3. /\ IsFiniteSet(Workers \ {w})
            /\ Cardinality(Workers \ {w}) = Cardinality(Workers) - 1
        BY AnalysisAssumption, FS_RemoveElement
      <4>4. Cardinality(1..Len(sets)) = Len(sets)
        <5> DEFINE m == Len(sets)
        <5>1. m \in Nat
          BY <1>1
        <5> HIDE DEF m, f
        <5>2. Cardinality(1..m) = m
          BY ONLY <5>1, FS_Interval
        <5> QED BY <5>2 DEF m
      <4>5. Cardinality(1..Len(sets)) <= Cardinality(Workers \ {w})
        <5> HIDE DEF f
        <5> QED BY <4>2, <4>3, FS_Injection DEF ExistsInjection
      <4>6. Cardinality(Workers) \in Nat
        BY AnalysisAssumption, FS_CardinalityType
      <4> QED BY <1>1, <4>3, <4>4, <4>5, <4>6
    <3> QED BY <3>1, <3>4, <3>5 DEF PoolBounded
  <2>3. CASE free # <<>>
    <3>1. /\ sets' = sets /\ held'[w] = free[Len(free)] /\ Len(free') = Len(free) - 1
          /\ \A i \in 1..Len(free') : free'[i] = free[i]
      BY <1>2, <2>3, TakeFacts
    <3>2. Len(free) >= 1
      BY <1>1, <2>3
    <3>3. /\ \A v \in Workers \ {w} : held'[v] # held'[w]
          /\ \A i \in 1..Len(free') : held'[w] # free'[i]
      BY <1>1, <2>1, <3>1, <3>2
    <3>4. ASSUME NEW s \in 1..Len(sets)
          PROVE  (\E i \in 1..Len(free') : free'[i] = s) \/ (\E v \in Workers : held'[v] = s)
      <4>1. CASE \E i \in 1..Len(free) : free[i] = s
        <5>1. PICK i \in 1..Len(free) : free[i] = s
          BY <4>1
        <5>2. CASE i = Len(free)
          BY <3>1, <5>1, <5>2
        <5>3. CASE i # Len(free)
          <6>1. i \in 1..Len(free')
            BY <1>1, <3>1, <5>3
          <6> QED BY <3>1, <5>1, <6>1
        <5> QED BY <5>2, <5>3
      <4>2. CASE \E v \in Workers : held[v] = s
        BY <1>1, <1>2, <2>1, <4>2
      <4> QED BY <4>1, <4>2
    <3>5. \A u, v \in Workers : u # v /\ held'[u] # 0 => held'[u] # held'[v]
      BY <2>1, <3>3
    <3>6. \A i, j \in 1..Len(free') : i # j => free'[i] # free'[j]
      BY <1>1, <3>1
    <3>7. \A v \in Workers, i \in 1..Len(free') : held'[v] # free'[i]
      BY <1>1, <2>1, <3>1, <3>3
    <3> QED BY <3>1, <3>4, <3>5, <3>6, <3>7 DEF PoolBounded
  <2> QED BY <2>2, <2>3
<1>3. ASSUME Len(sets') = Len(sets), NEW w \in Workers, held[w] # 0, return_buffers(w)
      PROVE  OwnedSets' /\ PoolBounded'
  <2>1. /\ held'[w] = 0 /\ \A v \in Workers \ {w} : held'[v] = held[v]
        /\ Len(free') = Len(free) + 1 /\ free'[Len(free) + 1] = held[w]
        /\ \A i \in 1..Len(free) : free'[i] = free[i]
    BY <1>3, ReturnFacts
  <2>2. \A u, v \in Workers : u # v /\ held'[u] # 0 => held'[u] # held'[v]
    BY <2>1
  <2>3. \A i, j \in 1..Len(free') : i # j => free'[i] # free'[j]
    <3>1. \A i \in 1..Len(free') : i = Len(free) + 1 \/ i \in 1..Len(free)
      BY <1>1, <2>1
    <3> QED BY <2>1, <3>1
  <2>4. \A v \in Workers, i \in 1..Len(free') : held'[v] # free'[i]
    <3> TAKE v \in Workers, i \in 1..Len(free')
    <3>1. CASE i = Len(free) + 1
      BY <1>3, <2>1, <3>1
    <3>2. CASE i # Len(free) + 1
      <4>1. i \in 1..Len(free)
        BY <1>1, <2>1, <3>2
      <4>2. free'[i] = free[i] /\ free[i] \in 1..Len(sets)
        BY <1>1, <2>1, <4>1
      <4>3. held'[v] = 0 \/ held'[v] = held[v]
        BY <2>1
      <4> QED BY <1>1, <4>1, <4>2, <4>3
    <3> QED BY <3>1, <3>2
  <2>5. ASSUME NEW s \in 1..Len(sets)
        PROVE  (\E i \in 1..Len(free') : free'[i] = s) \/ (\E v \in Workers : held'[v] = s)
    <3>1. CASE \E i \in 1..Len(free) : free[i] = s
      BY <1>1, <2>1, <3>1
    <3>2. CASE held[w] = s
      BY <1>1, <2>1, <3>2
    <3>3. CASE \E v \in Workers \ {w} : held[v] = s
      BY <2>1, <3>3
    <3> QED BY <3>1, <3>2, <3>3
  <2> QED BY <1>3, <2>2, <2>3, <2>4, <2>5 DEF PoolBounded
<1>4. ASSUME Len(sets') = Len(sets), free' = free, \A v \in Workers : held'[v] = held[v]
      PROVE  OwnedSets' /\ PoolBounded'
  BY <1>4 DEF PoolBounded
<1> QED BY <1>2, <1>3, <1>4, PoolStepKinds

\* The worker that a running dispatch n belongs to.
Owner(n, w) == /\ job[w] = n /\ held[w] = command[n].set
               /\ pending[w] = "gpu" /\ pc[w] \in {"rules", "wait"}

\* A step of one worker leaves the places of the others alone.
LEMMA OthersStay ==
    ASSUME TypeInv, NEW w \in Workers, NEW v \in Workers \ {w},
           AnalyzeBatch(w) \/ WorkerStep(w)
    PROVE  /\ pc'[v] = pc[v] /\ job'[v] = job[v] /\ at'[v] = at[v]
           /\ pending'[v] = pending[v] /\ held'[v] = held[v] /\ entropies'[v] = entropies[v]
<1> USE DEF TypeInv, WorkerTypeOK, PoolTypeOK, Step, logVars, gpuVars
<1>1. CASE AnalyzeBatch(w)
  BY <1>1 DEF AnalyzeBatch
<1>2. CASE CpuStart(w)
  BY <1>2 DEF CpuStart
<1>3. CASE SubmitTake(w)
  BY <1>3 DEF SubmitTake, take_buffers
<1>4. CASE SubmitFill(w)
  BY <1>4 DEF SubmitFill
<1>5. CASE SubmitNoMemory(w)
  BY <1>5 DEF SubmitNoMemory, return_buffers, GpuStartReturns
<1>6. CASE SubmitNoCommand(w)
  BY <1>6 DEF SubmitNoCommand, return_buffers, GpuStartReturns
<1>7. CASE SubmitCommit(w)
  BY <1>7 DEF SubmitCommit, GpuStartReturns
<1>8. CASE Rules(w)
  BY <1>8 DEF Rules
<1>9. CASE Wait(w)
  BY <1>9 DEF Wait, WaitGpu, Collect, FallBack
<1>10. CASE Report(w)
  BY <1>10 DEF Report
<1>11. CASE Release(w)
  BY <1>11 DEF Release, return_buffers
<1> QED BY <1>1, <1>2, <1>3, <1>4, <1>5, <1>6, <1>7, <1>8, <1>9, <1>10, <1>11 DEF WorkerStep

\* Only SubmitCommit touches a command among the workers' steps.
LEMMA CommandStays ==
    ASSUME NEW w \in Workers, AnalyzeBatch(w) \/ WorkerStep(w), ~ SubmitCommit(w)
    PROVE  command' = command
BY DEF WorkerStep, AnalyzeBatch, CpuStart, SubmitTake, SubmitFill, SubmitNoMemory,
       SubmitNoCommand, Rules, Wait, Report, Release, gpuVars

\* The owner of a running dispatch is in its rule loop or waiting: it goes
\* on to wait, and waiting ends only with the dispatch.
LEMMA OwnerStays ==
    ASSUME TypeInv, NEW n \in 1..MaxBatches, command[n].state = "running",
           NEW v \in Workers, Owner(n, v), NEW w \in Workers,
           AnalyzeBatch(w) \/ WorkerStep(w)
    PROVE  command'[n] = command[n] /\ Owner(n, v)'
<1> USE DEF Owner, TypeInv
<1>1. command' \in [1..MaxBatches -> Command] /\ command'[n] = command[n]
  <2>1. CASE SubmitCommit(w)
    <3>1. pc[w] = "commit"
      BY <2>1 DEF SubmitCommit, Step
    <3>2. job[w] # n
      <4>1. v # w /\ job[v] = n /\ n # 0
        BY <3>1, AnalysisAssumption
      <4> QED BY <4>1 DEF JobsApart
    <3>3. command'[n] = command[n]
      BY <2>1, <3>2 DEF SubmitCommit
    <3> QED BY <2>1, <3>3, TypeSubmitCommit DEF LogTypeOK
  <2>2. CASE ~ SubmitCommit(w)
    BY <2>2, CommandStays DEF LogTypeOK
  <2> QED BY <2>1, <2>2
<1>2. CASE v # w
  BY <1>1, <1>2, OthersStay
<1>3. CASE v = w
  <2>1. pc[w] \in {"rules", "wait"} /\ Eligible(Batch(w)) # <<>>
    BY <1>3 DEF Progress
  <2>2. CASE Rules(w)
    BY <1>1, <1>3, <2>1, <2>2 DEF Rules, WorkerTypeOK
  <2>3. ~ Wait(w)
    BY <1>3 DEF Wait, WaitGpu
  <2>4. Rules(w)
    BY <2>1, <2>3 DEF WorkerStep, AnalyzeBatch, CpuStart, SubmitTake, SubmitFill,
       SubmitNoMemory, SubmitNoCommand, SubmitCommit, Report, Release, Step
  <2> QED BY <2>2, <2>4
<1> QED BY <1>2, <1>3

LEMMA DispatchedStep ==
    ASSUME TypeInv, Dispatched, [AnalysisNext]_analysisVars
    PROVE  Dispatched'
<1> SUFFICES ASSUME NEW n \in 1..MaxBatches, command'[n].state = "running"
             PROVE  \E v \in Workers : Owner(n, v)'
  BY DEF Dispatched, Owner
<1>1. ASSUME NEW w \in Workers, AnalyzeBatch(w) \/ WorkerStep(w)
      PROVE  \E v \in Workers : Owner(n, v)'
  <2>1. CASE command[n].state = "running"
    <3>1. PICK v \in Workers : Owner(n, v)
      BY <2>1 DEF Dispatched, Owner
    <3> QED BY <1>1, <2>1, <3>1, OwnerStays
  <2>2. CASE command[n].state # "running"
    <3>1. SubmitCommit(w)
      BY <1>1, <2>2, CommandStays
    <3>2. pc[w] = "commit" /\ job[w] \in 1..MaxBatches
      <4>1. pc[w] = "commit"
        BY <3>1 DEF SubmitCommit, Step
      <4>2. job[w] > 0
        BY <4>1 DEF TypeInv, JobsApart
      <4> QED BY <4>1, <4>2, BatchFacts
    <3>3. job[w] = n
      BY <2>2, <3>1, <3>2 DEF SubmitCommit, TypeInv, LogTypeOK
    <3>4. /\ pc'[w] = "rules" /\ pending'[w] = "gpu" /\ held'[w] = held[w] /\ job'[w] = n
          /\ command'[n].set = held[w]
      BY <3>1, <3>2, <3>3 DEF SubmitCommit, Step, GpuStartReturns, TypeInv, WorkerTypeOK, LogTypeOK
    <3>5. Owner(n, w)'
      BY <3>4 DEF Owner
    <3> QED BY <3>5
  <2> QED BY <2>1, <2>2
<1>2. ASSUME NEW m \in 1..MaxBatches, GpuStep(m)
      PROVE  \E v \in Workers : Owner(n, v)'
  <2>1. UNCHANGED workerVars
    BY <1>2 DEF GpuStep, GpuCompute, GpuComplete, GpuFail
  <2>2. command[n].state = "running" /\ command'[n].set = command[n].set
    <3>1. \/ \E i : command' = [command EXCEPT ![m].computed = @ \cup {i}]
          \/ \E st \in {"completed", "failed"} : command' = [command EXCEPT ![m].state = st]
      BY <1>2, Zenon DEF GpuStep, GpuCompute, GpuComplete, GpuFail
    <3>2. command \in [1..MaxBatches -> Command]
      BY DEF TypeInv, LogTypeOK
    <3>3. CASE m # n
      BY <3>1, <3>2, <3>3
    <3>4. CASE m = n
      <4>1. CASE \E i : command' = [command EXCEPT ![m].computed = @ \cup {i}]
        BY <3>2, <3>4, <4>1 DEF Command
      <4>2. CASE \E st \in {"completed", "failed"} : command' = [command EXCEPT ![m].state = st]
        <5>1. command'[n].state \in {"completed", "failed"}
          BY <3>2, <3>4, <4>2 DEF Command
        <5> QED BY <5>1
      <4> QED BY <3>1, <4>1, <4>2
    <3> QED BY <3>3, <3>4
  <2> QED BY <2>1, <2>2 DEF Dispatched, Owner, workerVars
<1>3. ASSUME UNCHANGED analysisVars
      PROVE  \E v \in Workers : Owner(n, v)'
  BY <1>3 DEF analysisVars, workerVars, gpuVars, Dispatched, Owner
<1> QED BY <1>1, <1>2, <1>3 DEF AnalysisNext, AnalysisDone

OwnInv == OwnedSets /\ PoolBounded /\ Dispatched

\* Every buffer set has one owner, no failure path loses one, and a running
\* dispatch belongs to the worker that will wait for it: any number of
\* workers, batches and failures.
THEOREM PoolOwned == AnalysisSpec => [](TypeInv /\ OwnInv)
<1>1. AnalysisInit => OwnInv
  <2> SUFFICES ASSUME AnalysisInit PROVE OwnInv
    OBVIOUS
  <2>1. OwnedSets
    BY DEF AnalysisInit, OwnedSets
  <2>2. PoolBounded
    <3>1. Cardinality(Workers) \in Nat
      BY AnalysisAssumption, FS_CardinalityType
    <3> QED BY <3>1 DEF AnalysisInit, PoolBounded
  <2>3. Dispatched
    BY DEF AnalysisInit, Dispatched, NoCommand
  <2> QED BY <2>1, <2>2, <2>3 DEF OwnInv
<1>2. TypeInv /\ OwnInv /\ [AnalysisNext]_analysisVars => OwnInv'
  BY OwnedStep, DispatchedStep DEF OwnInv
<1> QED BY <1>1, <1>2, AnalysisTypes, PTL DEF AnalysisSpec

\* A buffer set belongs to one worker or to the pool, and the GPU writes
\* only to a set whose worker is still waiting for it.
THEOREM AnalysisBuffersExclusive == AnalysisSpec => []BuffersExclusive
<1>1. OwnInv => BuffersExclusive
  BY DEF OwnInv, OwnedSets, Dispatched, BuffersExclusive
<1> QED BY <1>1, PoolOwned, PTL

\* The pool never makes more sets than there are workers.
THEOREM AnalysisPoolBounded == AnalysisSpec => []PoolBounded
BY PoolOwned, PTL DEF OwnInv

-----------------------------------------------------------------------------
(* What a buffer set, a command and a worker hold                          *)

\* Before the commit the set describes the worker's packets and is large
\* enough for them.
Filled(w) ==
    pc[w] = "commit" =>
        /\ sets[held[w]].work = Eligible(Batch(w))
        /\ \A k \in 1..4 : sets[held[w]].buffer[k].size >= Needed(Eligible(Batch(w)), k)

\* While a dispatch is out its set still describes the worker's packets, and
\* the results computed so far are right.
OnGpu(w) ==
    (pending[w] = "gpu" /\ pc[w] \in {"rules", "wait"}) =>
        /\ sets[held[w]].work = Eligible(Batch(w))
        /\ command[job[w]].count = Len(Eligible(Batch(w)))
        /\ command[job[w]].computed \subseteq 1..command[job[w]].count
        /\ \A i \in command[job[w]].computed :
               /\ i <= Len(sets[held[w]].results)
               /\ sets[held[w]].results[i] = Eligible(Batch(w))[i].high
        /\ command[job[w]].state = "completed" =>
               command[job[w]].computed = 1..command[job[w]].count

\* What the CPU computed, and what is about to be reported, is what the
\* packets deserve.
Judged(w) ==
    (pc[w] = "report" \/ (pending[w] = "ready" /\ pc[w] \in {"rules", "wait"})) =>
        entropies[w] = Highs(Eligible(Batch(w)))

WorkInv == \A w \in Workers : Filled(w) /\ OnGpu(w) /\ Judged(w)

\* Nothing changes for a worker whose own state, batch, set and command stay.
LEMMA Untouched ==
    ASSUME TypeInv, NEW v \in Workers, Filled(v), OnGpu(v), Judged(v),
           pc'[v] = pc[v], job'[v] = job[v], pending'[v] = pending[v],
           held'[v] = held[v], entropies'[v] = entropies[v],
           pc[v] # "idle" => Batch(v)' = Batch(v) /\ command'[job[v]] = command[job[v]],
           held[v] # 0 => sets'[held[v]] = sets[held[v]]
    PROVE  (Filled(v) /\ OnGpu(v) /\ Judged(v))'
<1>1. pc[v] = "commit" \/ pending[v] = "gpu" => held[v] # 0
  BY DEF TypeInv, Progress
<1>2. Filled(v)'
  BY <1>1 DEF Filled
<1>3. OnGpu(v)'
  BY <1>1 DEF OnGpu
<1>4. Judged(v)'
  BY DEF Judged
<1> QED BY <1>2, <1>3, <1>4

LEMMA BatchKept ==
    ASSUME TypeInv, [AnalysisNext]_analysisVars, NEW v \in Workers, job[v] > 0, job'[v] = job[v]
    PROVE  Batch(v)' = Batch(v)
<1>1. job[v] \in 1..Len(jobs) /\ jobs \in Seq(Batches)
  BY BatchFacts DEF TypeInv, WorkerTypeOK
<1>2. jobs' = jobs \/ \E b \in Batches : jobs' = Append(jobs, b)
  <2>1. ASSUME NEW w \in Workers, AnalyzeBatch(w)
        PROVE  \E b \in Batches : jobs' = Append(jobs, b)
    BY <2>1 DEF AnalyzeBatch
  <2>2. ASSUME NEW w \in Workers, WorkerStep(w) PROVE jobs' = jobs
    BY <2>2 DEF WorkerStep, CpuStart, SubmitTake, SubmitFill, SubmitNoMemory,
       SubmitNoCommand, SubmitCommit, Rules, Wait, Report, Release, logVars
  <2>3. ASSUME NEW n \in 1..MaxBatches, GpuStep(n) PROVE jobs' = jobs
    BY <2>3 DEF GpuStep, GpuCompute, GpuComplete, GpuFail, logVars
  <2> QED BY <2>1, <2>2, <2>3 DEF AnalysisNext, AnalysisDone, analysisVars, logVars
<1> QED BY <1>1, <1>2, BatchStays DEF Batch

\* A worker's step changes no set that another worker holds, and no command
\* of another worker's batch.
LEMMA OtherSetsStay ==
    ASSUME TypeInv, OwnedSets, NEW w \in Workers, NEW v \in Workers \ {w},
           AnalyzeBatch(w) \/ WorkerStep(w)
    PROVE  /\ held[v] # 0 => sets'[held[v]] = sets[held[v]]
           /\ pc[v] # "idle" => command'[job[v]] = command[job[v]]
<1>1. ASSUME held[v] # 0 PROVE sets'[held[v]] = sets[held[v]]
  <2>1. held[v] \in 1..Len(sets) /\ held[v] # held[w]
    BY <1>1, LenProperties DEF TypeInv, PoolTypeOK, OwnedSets
  <2>2. CASE SubmitTake(w)
    BY <2>1, <2>2, TakeFacts DEF SubmitTake
  <2>3. CASE SubmitFill(w)
    BY <2>1, <2>3, FillFacts
  <2>4. CASE SubmitNoMemory(w)
    BY <2>1, <2>4, NoMemoryFacts
  <2>5. CASE ~ (SubmitTake(w) \/ SubmitFill(w) \/ SubmitNoMemory(w))
    BY <2>5 DEF WorkerStep, AnalyzeBatch, CpuStart, SubmitNoCommand, SubmitCommit, Rules, Wait,
       Report, Release, gpuVars
  <2> QED BY <2>2, <2>3, <2>4, <2>5
<1>2. ASSUME pc[v] # "idle" PROVE command'[job[v]] = command[job[v]]
  <2>1. job[v] # job[w]
    BY <1>2 DEF TypeInv, JobsApart, WorkerTypeOK
  <2>2. CASE SubmitCommit(w)
    <3>1. job[v] > 0
      BY <1>2 DEF TypeInv, JobsApart
    <3>2. job[v] \in 1..MaxBatches
      BY <3>1, BatchFacts
    <3> QED BY <2>1, <2>2, <3>2 DEF SubmitCommit, TypeInv, LogTypeOK
  <2>3. CASE ~ SubmitCommit(w)
    BY <2>3, CommandStays
  <2> QED BY <2>2, <2>3
<1> QED BY <1>1, <1>2

\* Reading back the results of a completed dispatch gives the verdicts.
LEMMA ReadBack ==
    ASSUME NEW p \in Seq(Packet), NEW r,
           \A i \in 1..Len(p) : r[i] = p[i].high
    PROVE  SubSeq(r, 1, Len(p)) = Highs(p) /\ Len(SubSeq(r, 1, Len(p))) = Len(p)
<1> DEFINE n == Len(p)
           q == SubSeq(r, 1, n)
<1>1. n \in Nat /\ 1 \in Int /\ n \in Int
  BY LenProperties
<1>2. /\ Highs(p) \in Seq(BOOLEAN) /\ Len(Highs(p)) = n
      /\ \A k \in 1..n : Highs(p)[k] = p[k].high /\ Highs(p)[k] \in BOOLEAN
  BY HighsFacts, ElementOfSeq
<1>3. \A i \in 1..n : r[i] = Highs(p)[i] /\ r[i] \in BOOLEAN
  BY <1>2
<1> HIDE DEF n
<1>4. /\ q \in Seq(BOOLEAN) /\ Len(q) = IF 1 <= n THEN n - 1 + 1 ELSE 0
      /\ \A i \in 1..(n - 1 + 1) : q[i] = r[1 + i - 1]
  BY <1>1, <1>3, SubSeqProperties
<1> HIDE DEF q
<1>5. Len(q) = n
  BY <1>1, <1>4
<1>6. \A i \in 1..n : q[i] = r[i]
  BY <1>1, <1>4
<1>7. \A i \in 1..Len(q) : q[i] = Highs(p)[i]
  BY <1>3, <1>5, <1>6, Zenon
<1>8. q = Highs(p)
  BY <1>2, <1>4, <1>5, <1>7, SeqEqual
<1> QED BY <1>5, <1>8 DEF q, n

LEMMA OwnWork ==
    ASSUME TypeInv, WorkInv, NEW w \in Workers, AnalyzeBatch(w) \/ WorkerStep(w)
    PROVE  (Filled(w) /\ OnGpu(w) /\ Judged(w))'
<1> USE DEF TypeInv
<1>1. [AnalysisNext]_analysisVars
  BY DEF AnalysisNext
<1>2. ~ AnalyzeBatch(w) => pc[w] # "idle" /\ job[w] > 0 /\ job'[w] = job[w]
  <2>1. ~ AnalyzeBatch(w) => job' = job
    BY DEF WorkerStep, CpuStart, SubmitTake, SubmitFill, SubmitNoMemory, SubmitNoCommand,
       SubmitCommit, Rules, Wait, Report, Release
  <2>2. ~ AnalyzeBatch(w) => pc[w] # "idle"
    BY DEF WorkerStep, CpuStart, SubmitTake, SubmitFill, SubmitNoMemory, SubmitNoCommand,
       SubmitCommit, Rules, Wait, Report, Release, Step
  <2> QED BY <2>1, <2>2 DEF JobsApart
<1>3. ~ AnalyzeBatch(w) => Batch(w)' = Batch(w) /\ Eligible(Batch(w)) \in Seq(Packet)
  BY <1>1, <1>2, BatchKept, BatchFacts
<1>4. Filled(w) /\ OnGpu(w) /\ Judged(w)
  BY DEF WorkInv
<1>5. CASE AnalyzeBatch(w)
  <2>1. pc'[w] \in {"rules", "start"} /\ pending'[w] = "none"
    BY <1>5 DEF AnalyzeBatch, Step, WorkerTypeOK
  <2> QED BY <2>1 DEF Filled, OnGpu, Judged
<1>6. CASE CpuStart(w)
  <2>1. /\ pc'[w] = "rules" /\ pending'[w] = "ready"
        /\ entropies'[w] = Highs(Eligible(Batch(w)))
    BY <1>6 DEF CpuStart, Step, WorkerTypeOK
  <2>2. ~ AnalyzeBatch(w)
    BY <1>6 DEF CpuStart, AnalyzeBatch, Step
  <2> QED BY <1>3, <2>1, <2>2 DEF Filled, OnGpu, Judged
<1>7. CASE SubmitTake(w)
  <2>1. pc'[w] = "fit"
    BY <1>7 DEF SubmitTake, Step, WorkerTypeOK
  <2> QED BY <2>1 DEF Filled, OnGpu, Judged
<1>8. CASE SubmitFill(w)
  <2>1. pc[w] = "fit" /\ pc'[w] = "commit" /\ held'[w] = held[w]
    BY <1>8 DEF SubmitFill, Step, WorkerTypeOK
  <2>2. ~ AnalyzeBatch(w)
    BY <2>1 DEF AnalyzeBatch, Step
  <2>3. Filled(w)'
    BY <1>3, <1>8, <2>1, <2>2, FillFacts DEF Filled
  <2> QED BY <2>1, <2>3 DEF OnGpu, Judged
<1>9. CASE SubmitNoMemory(w) \/ SubmitNoCommand(w)
  <2>1. pc'[w] = "rules" /\ pending'[w] = "null"
    BY <1>9 DEF SubmitNoMemory, SubmitNoCommand, Step, GpuStartReturns, WorkerTypeOK
  <2> QED BY <2>1 DEF Filled, OnGpu, Judged
<1>10. CASE SubmitCommit(w)
  <2>1. /\ pc[w] = "commit" /\ pc'[w] = "rules" /\ pending'[w] = "gpu" /\ held'[w] = held[w]
        /\ sets' = sets
    BY <1>10 DEF SubmitCommit, Step, GpuStartReturns, WorkerTypeOK
  <2>2. ~ AnalyzeBatch(w)
    BY <2>1 DEF AnalyzeBatch, Step
  <2>3. job[w] \in 1..MaxBatches
    BY <1>2, <2>2, BatchFacts
  <2>4. /\ command'[job[w]].count = Len(Eligible(Batch(w)))
        /\ command'[job[w]].computed = {} /\ command'[job[w]].state = "running"
    BY <1>10, <2>3 DEF SubmitCommit, LogTypeOK
  <2>5. OnGpu(w)'
    BY <1>2, <1>3, <1>4, <2>1, <2>2, <2>4 DEF OnGpu, Filled
  <2> QED BY <2>1, <2>5 DEF Filled, Judged
<1>11. CASE Rules(w)
  <2>1. /\ pc[w] = "rules" /\ pc'[w] \in {"rules", "idle", "wait"}
        /\ UNCHANGED <<pending, held, entropies, sets, command>>
    BY <1>11 DEF Rules, WorkerTypeOK, gpuVars
  <2>2. ~ AnalyzeBatch(w)
    BY <2>1 DEF AnalyzeBatch, Step
  <2> QED BY <1>2, <1>3, <1>4, <2>1, <2>2 DEF Filled, OnGpu, Judged
<1>12. CASE Wait(w)
  <2>1. pc[w] = "wait" /\ pc'[w] = "report"
    BY <1>12 DEF Wait, Step, WorkerTypeOK
  <2>2. ~ AnalyzeBatch(w)
    BY <2>1 DEF AnalyzeBatch, Step
  <2> DEFINE p == Eligible(Batch(w))
  <2>3. ASSUME FallBack(w) PROVE entropies'[w] = Highs(p)
    BY <2>3 DEF FallBack, WorkerTypeOK
  <2>4. ASSUME pending[w] = "ready", Collect(w, entropies[w])
        PROVE  entropies'[w] = Highs(p)
    BY <1>4, <2>1, <2>4 DEF Collect, Judged, WorkerTypeOK
  <2>5. ASSUME pending[w] = "gpu", command[job[w]].state = "completed"
        PROVE  LET values == SubSeq(sets[held[w]].results, 1, command[job[w]].count)
               IN  values = Highs(p) /\ Len(values) = Len(p)
    <3>1. /\ command[job[w]].count = Len(p)
          /\ \A i \in 1..Len(p) : sets[held[w]].results[i] = p[i].high
      BY <1>4, <2>1, <2>5 DEF OnGpu
    <3> HIDE DEF p
    <3> QED BY <1>3, <2>2, <3>1, ReadBack DEF p
  <2>6. entropies'[w] = Highs(p)
    <3>1. CASE WaitGpu(w)
      <4>1. CASE command[job[w]].state = "failed"
        BY <2>3, <3>1, <4>1 DEF WaitGpu
      <4>2. CASE command[job[w]].state = "completed"
        <5>1. Collect(w, Highs(p)) \/ FallBack(w)
          BY <2>5, <3>1, <4>2 DEF WaitGpu
        <5> QED BY <2>3, <5>1 DEF Collect, WorkerTypeOK
      <4> QED BY <3>1, <4>1, <4>2 DEF WaitGpu
    <3> QED BY <1>12, <2>3, <2>4, <3>1 DEF Wait
  <2> HIDE DEF p
  <2> QED BY <1>3, <2>1, <2>2, <2>6 DEF Filled, OnGpu, Judged, p
<1>13. CASE Report(w) \/ Release(w)
  <2>1. pc'[w] \in {"release", "idle"}
    BY <1>13 DEF Report, Release, Step, WorkerTypeOK
  <2> QED BY <2>1 DEF Filled, OnGpu, Judged
<1> QED BY <1>5, <1>6, <1>7, <1>8, <1>9, <1>10, <1>11, <1>12, <1>13 DEF WorkerStep

\* The GPU writes a right result into the set of the dispatch's owner, and
\* touches nothing else of a worker's.
LEMMA GpuWork ==
    ASSUME TypeInv, OwnedSets, Dispatched, WorkInv, NEW n \in 1..MaxBatches, GpuStep(n),
           NEW v \in Workers
    PROVE  (Filled(v) /\ OnGpu(v) /\ Judged(v))'
<1>1. /\ pc' = pc /\ job' = job /\ pending' = pending /\ held' = held /\ entropies' = entropies
      /\ jobs' = jobs /\ Batch(v)' = Batch(v)
  BY DEF GpuStep, GpuCompute, GpuComplete, GpuFail, workerVars, logVars, Batch
<1>2. Filled(v) /\ OnGpu(v) /\ Judged(v)
  BY DEF WorkInv
<1>3. command \in [1..MaxBatches -> Command] /\ command[n] \in Command
  BY DEF TypeInv, LogTypeOK
<1>4. command[n].state = "running"
  BY DEF GpuStep, GpuCompute, GpuComplete, GpuFail
<1>5. PICK u \in Workers : Owner(n, u)
  BY <1>4 DEF Dispatched, Owner
<1>6. pc[v] # "idle" => job[v] \in 1..MaxBatches
  BY BatchFacts DEF TypeInv, JobsApart
<1>7. held[u] \in 1..Len(sets) /\ held[u] = command[n].set
  BY <1>5, LenProperties DEF TypeInv, Progress, PoolTypeOK, Owner
<1>8. CASE v # u
  <2>1. job[v] # n /\ (held[v] # 0 => held[v] # held[u] /\ held[v] \in 1..Len(sets))
    BY <1>5, <1>8, LenProperties, AnalysisAssumption
       DEF Owner, TypeInv, JobsApart, OwnedSets, PoolTypeOK
  <2>2. pc[v] # "idle" => command'[job[v]] = command[job[v]]
    BY <1>3, <1>6, <2>1 DEF GpuStep, GpuCompute, GpuComplete, GpuFail
  <2>3. held[v] # 0 => sets'[held[v]] = sets[held[v]]
    <3>1. CASE GpuCompute(n)
      BY <1>7, <2>1, <3>1, ComputeFacts DEF Computes
    <3>2. CASE GpuComplete(n) \/ GpuFail(n)
      BY <3>2 DEF GpuComplete, GpuFail
    <3> QED BY <3>1, <3>2 DEF GpuStep
  <2> QED BY <1>1, <1>2, <2>2, <2>3, Untouched
<1>9. CASE v = u
  <2> DEFINE p == Eligible(Batch(v))
  <2>1. pending[v] = "gpu" /\ pc[v] \in {"rules", "wait"} /\ job[v] = n
    BY <1>5, <1>9 DEF Owner
  <2>2. Filled(v)' /\ Judged(v)'
    BY <1>1, <1>2, <2>1 DEF Filled, Judged
  <2>3. /\ sets[held[v]].work = p /\ command[n].count = Len(p)
        /\ command[n].computed \subseteq 1..command[n].count
        /\ \A i \in command[n].computed : /\ i <= Len(sets[held[v]].results)
                                          /\ sets[held[v]].results[i] = p[i].high
    BY <1>2, <2>1 DEF OnGpu
  <2> HIDE DEF p
  <2>4. CASE GpuCompute(n)
    <3>1. PICK i : Computes(n, i)
      BY <2>4, ComputeFacts
    <3>2. /\ i \in 1..Len(p) /\ command' = [command EXCEPT ![n].computed = @ \cup {i}]
          /\ sets'[held[v]].work = p /\ sets' \in Seq(BufferSet) /\ Len(sets') = Len(sets)
          /\ i <= Len(sets'[held[v]].results)
          /\ Len(sets[held[v]].results) <= Len(sets'[held[v]].results)
          /\ sets'[held[v]].results[i] = p[i].high
          /\ \A k \in 1..Len(sets[held[v]].results) :
                 k # i => sets'[held[v]].results[k] = sets[held[v]].results[k]
      <4>1. command[n].set = held[v] /\ held[v] \in 1..Len(sets)
        BY <1>7, <1>9
      <4>2. /\ i \in 1..command[n].count
            /\ command' = [command EXCEPT ![n].computed = @ \cup {i}]
            /\ sets' \in Seq(BufferSet) /\ Len(sets') = Len(sets)
            /\ sets'[held[v]].work = sets[held[v]].work
            /\ i <= Len(sets'[held[v]].results)
            /\ Len(sets[held[v]].results) <= Len(sets'[held[v]].results)
            /\ i <= Len(p) => sets'[held[v]].results[i] = p[i].high
            /\ \A k \in 1..Len(sets[held[v]].results) :
                   k # i => sets'[held[v]].results[k] = sets[held[v]].results[k]
        BY <2>3, <3>1, <4>1, Zenon DEF Computes
      <4>3. i \in 1..Len(p) /\ i <= Len(p)
        <5>1. command[n].count \in Nat
          BY <1>3 DEF Command
        <5> QED BY <2>3, <4>2, <5>1
      <4> QED BY <2>3, <4>2, <4>3
    <3>3. /\ command'[n].count = Len(p) /\ command'[n].state = "running"
          /\ command'[n].computed = command[n].computed \cup {i}
      BY <1>3, <1>4, <2>3, <3>2 DEF Command
    <3>4. Len(sets[held[v]].results) \in Nat /\ Len(sets'[held[v]].results) \in Nat
      <4>1. sets[held[v]] \in BufferSet /\ sets'[held[v]] \in BufferSet
        BY <1>7, <1>9, <3>2, ElementOfSeq DEF TypeInv, PoolTypeOK
      <4> QED BY <4>1, LenProperties DEF BufferSet
    <3>5. ASSUME NEW j \in command[n].computed \cup {i}
          PROVE  /\ j <= Len(sets'[held[v]].results)
                 /\ sets'[held[v]].results[j] = p[j].high
      <4>1. CASE j = i
        BY <3>2, <4>1
      <4>2. CASE j # i
        <5>1. /\ j \in command[n].computed /\ j \in Nat /\ j >= 1
              /\ j <= Len(sets[held[v]].results)
              /\ sets[held[v]].results[j] = p[j].high
          BY <1>3, <2>3, <4>2 DEF Command
        <5>2. j \in 1..Len(sets[held[v]].results) /\ j <= Len(sets'[held[v]].results)
          BY <3>2, <3>4, <5>1
        <5> QED BY <3>2, <4>2, <5>1, <5>2
      <4> QED BY <4>1, <4>2
    <3>6. command'[n].computed \subseteq 1..command'[n].count
      BY <2>3, <3>2, <3>3
    <3>7. OnGpu(v)'
      BY <1>1, <2>1, <3>2, <3>3, <3>5, <3>6 DEF OnGpu, p
    <3> QED BY <2>2, <3>7
  <2>5. CASE GpuComplete(n) \/ GpuFail(n)
    <3>1. /\ sets' = sets
          /\ command'[n].count = command[n].count /\ command'[n].computed = command[n].computed
          /\ command'[n].state = "completed" => command[n].computed = 1..command[n].count
      <4>1. CASE GpuComplete(n)
        BY <1>3, <4>1 DEF GpuComplete, Command
      <4>2. CASE GpuFail(n)
        BY <1>3, <4>2 DEF GpuFail, Command
      <4> QED BY <2>5, <4>1, <4>2
    <3>2. OnGpu(v)'
      BY <1>1, <2>1, <2>3, <3>1 DEF OnGpu, p
    <3> QED BY <2>2, <3>2
  <2> QED BY <2>4, <2>5 DEF GpuStep
<1> QED BY <1>8, <1>9

LEMMA WorkStep == TypeInv /\ OwnInv /\ WorkInv /\ [AnalysisNext]_analysisVars => WorkInv'
<1> SUFFICES ASSUME TypeInv, OwnInv, WorkInv, [AnalysisNext]_analysisVars, NEW v \in Workers
             PROVE  (Filled(v) /\ OnGpu(v) /\ Judged(v))'
  BY DEF WorkInv
<1>1. Filled(v) /\ OnGpu(v) /\ Judged(v)
  BY DEF WorkInv
<1>2. ASSUME NEW w \in Workers, AnalyzeBatch(w) \/ WorkerStep(w)
      PROVE  (Filled(v) /\ OnGpu(v) /\ Judged(v))'
  <2>1. CASE v = w
    BY <1>2, <2>1, OwnWork
  <2>2. CASE v # w
    <3>1. /\ pc'[v] = pc[v] /\ job'[v] = job[v] /\ pending'[v] = pending[v]
          /\ held'[v] = held[v] /\ entropies'[v] = entropies[v]
      BY <1>2, <2>2, OthersStay
    <3>2. pc[v] # "idle" => Batch(v)' = Batch(v)
      BY <3>1, BatchKept DEF TypeInv, JobsApart
    <3>3. /\ held[v] # 0 => sets'[held[v]] = sets[held[v]]
          /\ pc[v] # "idle" => command'[job[v]] = command[job[v]]
      BY <1>2, <2>2, OtherSetsStay DEF OwnInv
    <3> QED BY <1>1, <3>1, <3>2, <3>3, Untouched
  <2> QED BY <2>1, <2>2
<1>3. ASSUME UNCHANGED analysisVars PROVE (Filled(v) /\ OnGpu(v) /\ Judged(v))'
  <2>1. UNCHANGED <<pc, job, pending, held, entropies, sets, command, jobs>>
    BY <1>3 DEF analysisVars, workerVars, gpuVars, logVars
  <2> QED BY <1>1, <2>1 DEF Filled, OnGpu, Judged, Batch
<1>4. ASSUME NEW n \in 1..MaxBatches, GpuStep(n)
      PROVE  (Filled(v) /\ OnGpu(v) /\ Judged(v))'
  BY <1>4, GpuWork DEF OwnInv
<1> QED BY <1>2, <1>3, <1>4 DEF AnalysisNext, AnalysisDone

\* What is in the buffers, in a dispatch's results and in a worker's hands is
\* right for its batch, at every step of either backend.
THEOREM WorkCorrect == AnalysisSpec => [](TypeInv /\ OwnInv /\ WorkInv)
<1>1. AnalysisInit => WorkInv
  BY DEF AnalysisInit, WorkInv, Filled, OnGpu, Judged
<1> QED BY <1>1, WorkStep, PoolOwned, PTL DEF AnalysisSpec

\* What submit_payload_entropy() writes to a set lies within what was
\* allocated for it, however often an allocation failed before.
THEOREM AnalysisWritesInBounds == AnalysisSpec => []WritesInBounds
<1>1. WorkInv => WritesInBounds
  BY DEF WorkInv, Filled, WritesInBounds
<1> QED BY <1>1, WorkCorrect, PTL

-----------------------------------------------------------------------------
(* Alerts and observe() calls                                              *)

\* What has come out for packet i of batch n, when it has been through the
\* rules or not, and when the entropy alerts of its batch are out or not.
Observed(n, i, yes) ==
    /\ Fired("observe", n, i) = Expected(yes)
    /\ Fired("signature", n, i) = Expected(yes /\ matches(jobs[n][i]))
EntropyOut(n, i, yes) ==
    Fired("entropy", n, i)
        = Expected(yes /\ jobs[n][i].size >= MinPayload /\ jobs[n][i].high)

\* The rule loop's place in the batch.
AtPacket(w) ==
    /\ pc[w] \in {"start", "fit", "commit"} => at[w] = 1
    /\ pc[w] = "rules" => at[w] \in 1..Len(Batch(w))
    /\ pc[w] \in {"wait", "report", "release"} => at[w] = Len(Batch(w)) + 1

Underway(w) ==
    pc[w] # "idle" =>
        /\ job[w] \notin finished
        /\ AtPacket(w)
        /\ \A i \in 1..Len(jobs[job[w]]) :
               /\ Observed(job[w], i, i < at[w])
               /\ EntropyOut(job[w], i, pc[w] = "release")

Complete(n) == \A i \in 1..Len(jobs[n]) : Observed(n, i, TRUE) /\ EntropyOut(n, i, TRUE)

Unheard(n) == \A rule \in {"observe", "signature", "entropy"} : \A i \in Nat : Fired(rule, n, i) = 0

AlertInv ==
    /\ \A w \in Workers : Underway(w)
    /\ \A n \in finished : n <= Len(jobs) /\ Complete(n)
    /\ \A n \in 1..Len(jobs) : n \in finished \/ \E w \in Workers : job[w] = n /\ pc[w] # "idle"
    /\ \A n \in 1..MaxBatches : n > Len(jobs) => Unheard(n)

\* How often an event is in a bag.
Copies(e, B) == IF BagIn(e, B) THEN B[e] ELSE 0

LEMMA CopiesAdd ==
    ASSUME NEW B, IsABag(B), NEW S, NEW e
    PROVE  /\ Copies(e, B) \in Nat
           /\ Copies(e, B (+) SetToBag(S)) = Copies(e, B) + (IF e \in S THEN 1 ELSE 0)
<1> DEFINE D == B (+) SetToBag(S)
<1>1. /\ DOMAIN D = DOMAIN B \cup S
      /\ \A d \in DOMAIN B \cup S :
             D[d] = (IF d \in DOMAIN B THEN B[d] ELSE 0) + (IF d \in S THEN 1 ELSE 0)
  BY BagAdd, Zenon
<1>2. \A d \in DOMAIN B : B[d] \in Nat
  BY DEF IsABag
<1> HIDE DEF D
<1>3. Copies(e, B) \in Nat
  BY <1>2 DEF Copies, BagIn, BagToSet
<1>4. Copies(e, D) = Copies(e, B) + (IF e \in S THEN 1 ELSE 0)
  BY <1>1, <1>2 DEF Copies, BagIn, BagToSet
<1> QED BY <1>3, <1>4 DEF D

LEMMA FiredIsCopies ==
    ASSUME NEW rule, NEW n, NEW i
    PROVE  /\ Fired(rule, n, i) = Copies(<<rule, <<n, i>>>>, events)
           /\ Fired(rule, n, i)' = Copies(<<rule, <<n, i>>>>, events')
BY DEF Fired, Copies

\* The events of one turn of the rule loop.
LEMMA RulesFires ==
    ASSUME TypeInv, NEW w \in Workers, Rules(w), NEW n, NEW i
    PROVE  LET here == n = job[w] /\ i = at[w] IN
           /\ Fired("observe", n, i)' = Fired("observe", n, i) + (IF here THEN 1 ELSE 0)
           /\ Fired("signature", n, i)' =
                  Fired("signature", n, i)
                      + (IF here /\ matches(Batch(w)[at[w]]) THEN 1 ELSE 0)
           /\ Fired("entropy", n, i)' = Fired("entropy", n, i)
           /\ Fired("observe", n, i) \in Nat /\ Fired("signature", n, i) \in Nat
           /\ Fired("entropy", n, i) \in Nat
<1> DEFINE id == <<job[w], at[w]>>
           sunk == IF matches(Batch(w)[at[w]]) THEN {<<"signature", id>>} ELSE {}
           seen == {<<"observe", id>>}
           mid == events (+) SetToBag(sunk)
           E(rule) == <<rule, <<n, i>>>>
<1>1. events' = mid (+) SetToBag(seen)
  BY DEF Rules, print_alert
<1>2. IsABag(events)
  BY DEF TypeInv, LogTypeOK
<1>3. IsABag(mid)
  BY <1>2, BagAdd, Zenon
<1>4. \A e : /\ Copies(e, mid) = Copies(e, events) + (IF e \in sunk THEN 1 ELSE 0)
             /\ Copies(e, events) \in Nat
  <2> HIDE DEF sunk
  <2> QED BY <1>2, CopiesAdd
<1>5. \A e : Copies(e, events') = Copies(e, mid) + (IF e \in seen THEN 1 ELSE 0)
  <2> HIDE DEF mid, seen
  <2> QED BY <1>1, <1>3, CopiesAdd
<1>6. /\ E("observe") \in seen <=> (n = job[w] /\ i = at[w])
      /\ E("observe") \notin sunk
      /\ E("signature") \notin seen
      /\ E("signature") \in sunk <=> (n = job[w] /\ i = at[w] /\ matches(Batch(w)[at[w]]))
      /\ E("entropy") \notin seen /\ E("entropy") \notin sunk
  OBVIOUS
<1> HIDE DEF sunk, seen, mid
<1>7. \A rule : /\ Copies(E(rule), events') = Copies(E(rule), events)
                       + (IF E(rule) \in sunk THEN 1 ELSE 0) + (IF E(rule) \in seen THEN 1 ELSE 0)
                /\ Copies(E(rule), events) \in Nat
  BY <1>4, <1>5
<1>8. \A rule : /\ Fired(rule, n, i) = Copies(E(rule), events)
                /\ Fired(rule, n, i)' = Copies(E(rule), events')
  BY FiredIsCopies
<1> HIDE DEF E
<1> QED BY <1>6, <1>7, <1>8

\* The events of a report: one for each eligible packet of high entropy.
LEMMA ReportFires ==
    ASSUME TypeInv, WorkInv, NEW w \in Workers, Report(w), NEW n, NEW i
    PROVE  /\ Fired("observe", n, i)' = Fired("observe", n, i)
           /\ Fired("signature", n, i)' = Fired("signature", n, i)
           /\ Fired("entropy", n, i) \in Nat
           /\ n # job[w] => Fired("entropy", n, i)' = Fired("entropy", n, i)
           /\ n = job[w] /\ i \in 1..Len(Batch(w)) =>
                  Fired("entropy", n, i)' = Fired("entropy", n, i)
                      + (IF Batch(w)[i].size >= MinPayload /\ Batch(w)[i].high THEN 1 ELSE 0)
<1> DEFINE b == Batch(w)
           pos == EligibleAt(b)
           S == {<<"entropy", <<job[w], pos[k]>>>> : k \in {j \in 1..Len(pos) : entropies[w][j]}}
           E(rule) == <<rule, <<n, i>>>>
<1>1. pc[w] = "report" /\ events' = events (+) SetToBag(S)
  BY DEF Report, Step, print_alert
<1>2. IsABag(events)
  BY DEF TypeInv, LogTypeOK
<1>3. job[w] > 0
  BY <1>1 DEF TypeInv, JobsApart
<1>4. b \in Seq(Packet) /\ Eligible(b) \in Seq(Packet)
  BY <1>3, BatchFacts
<1>5. entropies[w] = Highs(Eligible(b))
  BY <1>1 DEF WorkInv, Judged
<1>6. /\ Len(pos) \in Nat /\ Len(Eligible(b)) = Len(pos)
      /\ \A k \in 1..Len(pos) : Eligible(b)[k] = b[pos[k]]
      /\ \A k \in 1..Len(pos) : pos[k] \in 1..Len(b)
  BY <1>4, EligibleFacts
<1>7. \A k \in 1..Len(pos) : entropies[w][k] = b[pos[k]].high
  <2>1. \A k \in 1..Len(Eligible(b)) : Highs(Eligible(b))[k] = Eligible(b)[k].high
    <3>1. PICK p \in Seq(Packet) : p = Eligible(b)
      BY <1>4
    <3>2. \A k \in 1..Len(p) : Highs(p)[k] = p[k].high
      BY ONLY <3>1, HighsFacts
    <3> QED BY <3>1, <3>2, Zenon
  <2> HIDE DEF b, pos
  <2>2. ASSUME NEW k \in 1..Len(pos) PROVE entropies[w][k] = b[pos[k]].high
    <3>1. Highs(Eligible(b))[k] = Eligible(b)[k].high
      BY <1>6, <2>1, Zenon
    <3>2. Eligible(b)[k] = b[pos[k]]
      BY <1>6, Zenon
    <3> QED BY <1>5, <3>1, <3>2, Zenon
  <2> QED BY <2>2
<1>8. \A j \in 1..Len(b) : (\E k \in 1..Len(pos) : pos[k] = j) <=> b[j].size >= MinPayload
  BY <1>4, EligibleAtFacts
<1>9. \A rule : /\ Fired(rule, n, i) = Copies(E(rule), events)
                /\ Fired(rule, n, i)' = Copies(E(rule), events')
  BY FiredIsCopies
<1>10. E("observe") \notin S /\ E("signature") \notin S
  OBVIOUS
<1>11. E("entropy") \in S <=>
          (n = job[w] /\ \E k \in 1..Len(pos) : entropies[w][k] /\ pos[k] = i)
  <2> HIDE DEF pos
  <2> QED OBVIOUS
<1>12. i \in 1..Len(b) => ((\E k \in 1..Len(pos) : entropies[w][k] /\ pos[k] = i)
                              <=> (b[i].size >= MinPayload /\ b[i].high))
  <2> HIDE DEF pos, b
  <2> QED BY <1>7, <1>8, Zenon
<1> HIDE DEF S, b, pos
<1>13. \A e : /\ Copies(e, events') = Copies(e, events) + (IF e \in S THEN 1 ELSE 0)
              /\ Copies(e, events) \in Nat
  BY <1>1, <1>2, CopiesAdd
<1> HIDE DEF E
<1>14. /\ Copies(E("observe"), events') = Copies(E("observe"), events)
       /\ Copies(E("signature"), events') = Copies(E("signature"), events)
       /\ n # job[w] => Copies(E("entropy"), events') = Copies(E("entropy"), events)
  BY <1>10, <1>11, <1>13
<1>15. n = job[w] /\ i \in 1..Len(b) =>
          Copies(E("entropy"), events') = Copies(E("entropy"), events)
              + (IF b[i].size >= MinPayload /\ b[i].high THEN 1 ELSE 0)
  <2>1. n = job[w] /\ i \in 1..Len(b) =>
           (E("entropy") \in S <=> (b[i].size >= MinPayload /\ b[i].high))
    BY <1>11, <1>12, Zenon
  <2> QED BY <1>13, <2>1
<1> QED BY <1>9, <1>13, <1>14, <1>15, Zenon DEF b

\* Nothing comes out for batch n in a step.
Hushed(n) == \A rule \in {"observe", "signature", "entropy"} : \A i \in Nat :
                 Fired(rule, n, i)' = Fired(rule, n, i)

LEMMA HushedFacts ==
    ASSUME NEW n, Hushed(n), jobs'[n] = jobs[n], Len(jobs[n]) \in Nat
    PROVE  /\ Complete(n) => Complete(n)'
           /\ Unheard(n) => Unheard(n)'
           /\ \A i \in 1..Len(jobs[n]), yes \in BOOLEAN :
                  /\ Observed(n, i, yes) => Observed(n, i, yes)'
                  /\ EntropyOut(n, i, yes) => EntropyOut(n, i, yes)'
<1>1. ASSUME NEW i \in 1..Len(jobs[n])
      PROVE  /\ Fired("observe", n, i)' = Fired("observe", n, i)
             /\ Fired("signature", n, i)' = Fired("signature", n, i)
             /\ Fired("entropy", n, i)' = Fired("entropy", n, i)
  BY DEF Hushed
<1>2. ASSUME NEW i \in 1..Len(jobs[n]), NEW yes \in BOOLEAN
      PROVE  /\ Observed(n, i, yes) => Observed(n, i, yes)'
             /\ EntropyOut(n, i, yes) => EntropyOut(n, i, yes)'
  BY <1>1 DEF Observed, EntropyOut
<1>3. Complete(n) => Complete(n)'
  BY <1>2 DEF Complete
<1>4. Unheard(n) => Unheard(n)'
  BY DEF Unheard, Hushed
<1> QED BY <1>2, <1>3, <1>4

\* A worker that stays where it is, in a batch for which nothing comes out.
LEMMA UnderwayStays ==
    ASSUME TypeInv, NEW v \in Workers, NEW n, n = job[v], Underway(v), pc[v] # "idle",
           Hushed(n), jobs'[n] = jobs[n],
           pc'[v] # "idle", job'[v] = n, at'[v] = at[v],
           n \notin finished', AtPacket(v)',
           pc'[v] = "release" <=> pc[v] = "release"
    PROVE  Underway(v)'
<1>1. job[v] > 0
  BY DEF TypeInv, JobsApart
<1>2. Len(jobs[n]) \in Nat
  BY <1>1, BatchFacts, LenProperties DEF Batch
<1>3. ASSUME NEW i \in 1..Len(jobs[n])
      PROVE  /\ Observed(n, i, i < at[v])'
             /\ EntropyOut(n, i, pc[v] = "release")'
  <2>1. Observed(n, i, i < at[v]) /\ EntropyOut(n, i, pc[v] = "release")
    BY DEF Underway
  <2>2. /\ Fired("observe", n, i)' = Fired("observe", n, i)
        /\ Fired("signature", n, i)' = Fired("signature", n, i)
        /\ Fired("entropy", n, i)' = Fired("entropy", n, i)
    BY <1>2 DEF Hushed
  <2> QED BY <2>1, <2>2 DEF Observed, EntropyOut
<1> QED BY <1>3 DEF Underway, Observed, EntropyOut, Fired

\* Steps that only move one worker on, short of its report.
LEMMA SilentStep ==
    ASSUME TypeInv, AlertInv, UNCHANGED <<events, finished, jobs, job, at>>,
           \A v \in Workers :
               \/ pc'[v] = pc[v]
               \/ /\ pc[v] \notin {"idle", "release"} /\ pc'[v] \notin {"idle", "release"}
                  /\ AtPacket(v)'
    PROVE  AlertInv'
<1> USE DEF AlertInv
<1>1. \A n : Hushed(n)
  BY DEF Hushed, Fired
<1>2. \A n \in 1..Len(jobs) : Len(jobs[n]) \in Nat
  BY ElementOfSeq, LenProperties, AnalysisAssumption DEF TypeInv, WorkerTypeOK
<1>3. ASSUME NEW v \in Workers PROVE Underway(v)'
  <2>1. CASE pc[v] = "idle"
    BY <2>1 DEF Underway
  <2>2. CASE pc[v] # "idle"
    <3>1. AtPacket(v)'
      <4>1. CASE pc'[v] = pc[v]
        BY <2>2, <4>1 DEF Underway, AtPacket, Batch
      <4> QED BY <4>1
    <3>2. job[v] \notin finished'
      BY <2>2 DEF Underway
    <3>3. pc'[v] # "idle" /\ (pc'[v] = "release" <=> pc[v] = "release")
      BY <2>2
    <3>4. PICK n : n = job[v]
      OBVIOUS
    <3>5. Hushed(n)
      BY <1>1
    <3> QED BY <2>2, <3>1, <3>2, <3>3, <3>4, <3>5, UnderwayStays
  <2> QED BY <2>1, <2>2
<1>4. \A n \in finished : n <= Len(jobs') /\ Complete(n)'
  BY <1>1 DEF Complete, Observed, EntropyOut, Fired
<1>5. \A n \in 1..Len(jobs') : n \in finished' \/ \E w \in Workers : job'[w] = n /\ pc'[w] # "idle"
  OBVIOUS
<1>6. \A n \in 1..MaxBatches : n > Len(jobs') => Unheard(n)'
  BY DEF Unheard, Fired
<1> QED BY <1>3, <1>4, <1>5, <1>6

LEMMA AlertAnalyzeBatch ==
    ASSUME TypeInv, AlertInv, NEW w \in Workers, AnalyzeBatch(w)
    PROVE  AlertInv'
<1> USE AnalysisAssumption
<1>1. PICK b \in Batches :
        /\ Len(jobs) < MaxBatches
        /\ Step(w, "idle", IF Eligible(b) = <<>> THEN "rules" ELSE "start")
        /\ jobs' = Append(jobs, b)
        /\ job' = [job EXCEPT ![w] = Len(jobs')]
        /\ at' = [at EXCEPT ![w] = 1]
        /\ UNCHANGED <<events, finished>>
  BY DEF AnalyzeBatch
<1>2. /\ Len(jobs) \in Nat /\ Len(jobs') = Len(jobs) + 1 /\ jobs'[Len(jobs) + 1] = b
      /\ \A n \in 1..Len(jobs) : jobs'[n] = jobs[n] /\ Len(jobs[n]) \in Nat
  <2>1. jobs \in Seq(Batches)
    BY DEF TypeInv, WorkerTypeOK
  <2>2. \A n \in 1..Len(jobs) : jobs[n] \in Seq(Packet)
    BY <2>1, ElementOfSeq
  <2> QED BY <1>1, <2>1, <2>2, AppendProperties, LenProperties
<1>3. \A n : Hushed(n)
  BY <1>1 DEF Hushed, Fired
<1>4. /\ pc[w] = "idle" /\ pc'[w] \in {"rules", "start"} /\ job'[w] = Len(jobs) + 1 /\ at'[w] = 1
      /\ \A v \in Workers \ {w} : pc'[v] = pc[v] /\ job'[v] = job[v] /\ at'[v] = at[v]
  BY <1>1, <1>2 DEF Step, TypeInv, WorkerTypeOK
<1>5. Len(b) \in Nat /\ Len(b) >= 1
  <2>1. b \in Seq(Packet) /\ b # <<>>
    OBVIOUS
  <2> QED BY <2>1, LenProperties, EmptySeq
<1>6. PICK m : m = Len(jobs) + 1
  OBVIOUS
<1>7. m \notin finished /\ m \in 1..MaxBatches /\ Unheard(m)
  BY <1>1, <1>2, <1>6 DEF AlertInv, TypeInv, LogTypeOK
<1>8. Underway(w)'
  <2>1. AtPacket(w)'
    BY <1>2, <1>4, <1>5 DEF AtPacket, Batch
  <2>2. ASSUME NEW i \in 1..Len(b)
        PROVE  /\ Observed(m, i, FALSE)'
               /\ EntropyOut(m, i, FALSE)'
    <3>1. /\ Fired("observe", m, i)' = 0 /\ Fired("signature", m, i)' = 0
          /\ Fired("entropy", m, i)' = 0
      BY <1>3, <1>5, <1>7 DEF Unheard, Hushed
    <3> QED BY <3>1 DEF Observed, EntropyOut, Expected
  <2>4. m \notin finished'
    BY <1>1, <1>7
  <2>5. ASSUME NEW i \in 1..Len(jobs'[job'[w]])
        PROVE  /\ Observed(job[w], i, i < at[w])'
               /\ EntropyOut(job[w], i, pc[w] = "release")'
    <3>1. jobs'[job'[w]] = b /\ job'[w] = m /\ ~ (i < at'[w]) /\ pc'[w] # "release"
      BY <1>2, <1>4, <1>5, <1>6
    <3> QED BY <2>2, <3>1 DEF Observed, EntropyOut, Expected, Fired
  <2> QED BY <1>4, <1>6, <2>1, <2>4, <2>5 DEF Underway
<1>9. ASSUME NEW v \in Workers \ {w} PROVE Underway(v)'
  <2>1. CASE pc[v] = "idle"
    BY <1>4, <2>1 DEF Underway
  <2>2. CASE pc[v] # "idle"
    <3>1. job[v] \in 1..Len(jobs)
      BY <2>2, BatchFacts DEF TypeInv, JobsApart
    <3>2. Underway(v) /\ job[v] \notin finished' /\ AtPacket(v)
      BY <1>1, <2>2 DEF AlertInv, Underway
    <3>3. AtPacket(v)'
      BY <1>2, <1>4, <3>1, <3>2 DEF AtPacket, Batch
    <3>4. PICK n : n = job[v]
      OBVIOUS
    <3>5. Hushed(n) /\ jobs'[n] = jobs[n]
      BY <1>2, <1>3, <3>1, <3>4
    <3> QED BY <1>4, <2>2, <3>2, <3>3, <3>4, <3>5, UnderwayStays
  <2> QED BY <2>1, <2>2
<1>10. ASSUME NEW n \in finished' PROVE n <= Len(jobs') /\ Complete(n)'
  <2>1. n \in finished /\ n \in 1..Len(jobs) /\ Complete(n)
    BY <1>1, <1>2 DEF AlertInv, TypeInv, LogTypeOK
  <2>2. Hushed(n) /\ jobs'[n] = jobs[n] /\ Len(jobs[n]) \in Nat
    BY <1>2, <1>3, <2>1, Zenon
  <2>3. Complete(n)'
    BY ONLY <2>1, <2>2, HushedFacts
  <2> QED BY <1>2, <2>1, <2>3
<1>11. ASSUME NEW n \in 1..Len(jobs')
       PROVE  n \in finished' \/ \E v \in Workers : job'[v] = n /\ pc'[v] # "idle"
  <2>1. CASE n = m
    BY <1>4, <1>6, <2>1
  <2>2. CASE n # m
    <3>1. n \in 1..Len(jobs)
      BY <1>2, <1>6, <2>2
    <3> QED BY <1>1, <1>4, <3>1 DEF AlertInv
  <2> QED BY <2>1, <2>2
<1>12. ASSUME NEW n \in 1..MaxBatches, n > Len(jobs') PROVE Unheard(n)'
  <2>1. Unheard(n)
    BY <1>2, <1>12 DEF AlertInv
  <2> QED BY <1>3, <2>1 DEF Unheard, Hushed
<1> QED BY <1>8, <1>9, <1>10, <1>11, <1>12 DEF AlertInv

\* A worker other than the one that steps, when only that one's batch is
\* heard of and finished.
LEMMA OtherUnderway ==
    ASSUME TypeInv, AlertInv, NEW w \in Workers, WorkerStep(w), NEW v \in Workers \ {w},
           jobs' = jobs, job[w] # 0, finished' \subseteq finished \cup {job[w]},
           \A n : n # job[w] => Hushed(n)
    PROVE  Underway(v)'
<1>1. pc'[v] = pc[v] /\ job'[v] = job[v] /\ at'[v] = at[v]
  BY OthersStay
<1>2. CASE pc[v] = "idle"
  BY <1>1, <1>2 DEF Underway
<1>3. CASE pc[v] # "idle"
  <2>1. PICK n : n = job[v]
    OBVIOUS
  <2>2. n # job[w]
    BY <2>1, <1>3 DEF TypeInv, JobsApart
  <2>3. Underway(v) /\ n \notin finished /\ AtPacket(v)
    BY <1>3, <2>1 DEF AlertInv, Underway
  <2>4. AtPacket(v)'
    BY <1>1, <2>3 DEF AtPacket, Batch
  <2>5. Hushed(n) /\ n \notin finished'
    BY <2>2, <2>3
  <2> QED BY <1>1, <1>3, <2>1, <2>3, <2>4, <2>5, UnderwayStays
<1> QED BY <1>2, <1>3

\* The rest of the invariant, when one worker's batch is heard of.
LEMMA AlertRest ==
    ASSUME TypeInv, AlertInv, NEW w \in Workers, WorkerStep(w),
           jobs' = jobs, job' = job, job[w] > 0, job[w] \notin finished,
           \A n : n # job[w] => Hushed(n),
           \/ finished' = finished /\ pc'[w] # "idle"
           \/ /\ finished' = finished \cup {job[w]}
              /\ \A n : n = job[w] => Complete(n)'
    PROVE  /\ \A n \in finished' : n <= Len(jobs') /\ Complete(n)'
           /\ \A n \in 1..Len(jobs') :
                  n \in finished' \/ \E v \in Workers : job'[v] = n /\ pc'[v] # "idle"
           /\ \A n \in 1..MaxBatches : n > Len(jobs') => Unheard(n)'
<1>1. job[w] \in 1..Len(jobs) /\ Len(jobs) \in Nat /\ job[w] <= Len(jobs)
  BY BatchFacts, LenProperties DEF TypeInv, WorkerTypeOK
<1>2. \A n \in 1..Len(jobs) : Len(jobs[n]) \in Nat
  <2>1. \A n \in 1..Len(jobs) : jobs[n] \in Seq(Packet)
    BY ElementOfSeq, AnalysisAssumption DEF TypeInv, WorkerTypeOK
  <2> QED BY <2>1, LenProperties
<1>3. ASSUME NEW n \in finished' PROVE n <= Len(jobs') /\ Complete(n)'
  <2>1. CASE n \in finished
    <3>1. n # job[w] /\ n \in 1..Len(jobs) /\ Complete(n)
      BY <2>1, <1>1 DEF AlertInv, TypeInv, LogTypeOK
    <3> QED BY <1>1, <1>2, <3>1, HushedFacts
  <2>2. CASE n \notin finished
    BY <1>1, <1>3, <2>2
  <2> QED BY <2>1, <2>2
<1>4. ASSUME NEW n \in 1..Len(jobs')
      PROVE  n \in finished' \/ \E v \in Workers : job'[v] = n /\ pc'[v] # "idle"
  <2>1. CASE n \in finished
    BY <2>1
  <2>2. CASE n \notin finished
    <3>1. PICK v \in Workers : job[v] = n /\ pc[v] # "idle"
      BY <2>2 DEF AlertInv
    <3>2. CASE v = w
      BY <3>1, <3>2
    <3>3. CASE v # w
      BY <3>1, <3>3, OthersStay
    <3> QED BY <3>2, <3>3
  <2> QED BY <2>1, <2>2
<1>5. ASSUME NEW n \in 1..MaxBatches, n > Len(jobs') PROVE Unheard(n)'
  <2>1. Unheard(n) /\ n # job[w]
    BY <1>1, <1>5 DEF AlertInv
  <2> QED BY <2>1 DEF Unheard, Hushed
<1> QED BY <1>3, <1>4, <1>5

LEMMA AlertRules ==
    ASSUME TypeInv, AlertInv, NEW w \in Workers, Rules(w)
    PROVE  AlertInv'
<1> DEFINE last == LastPacket(w)
           quiet == Eligible(Batch(w)) = <<>>
<1>1. /\ pc[w] = "rules"
      /\ pc'[w] = (IF ~last THEN "rules" ELSE IF quiet THEN "idle" ELSE "wait")
      /\ at'[w] = at[w] + 1
      /\ finished' = IF last /\ quiet THEN finished \cup {job[w]} ELSE finished
      /\ job' = job /\ jobs' = jobs
  BY DEF Rules, TypeInv, WorkerTypeOK
<1>2. job[w] > 0 /\ WorkerStep(w)
  BY <1>1 DEF TypeInv, JobsApart, WorkerStep
<1>3. PICK n : n = job[w]
  OBVIOUS
<1>4. PICK b : b = Batch(w)
  OBVIOUS
<1>5. PICK a : a = at[w]
  OBVIOUS
<1>6. /\ b \in Seq(Packet) /\ Len(b) \in Nat /\ b = jobs[n] /\ jobs'[n] = b
      /\ Batch(w) = b /\ Batch(w)' = b
  BY <1>1, <1>2, <1>3, <1>4, BatchFacts, LenProperties DEF Batch
<1>7. /\ n \notin finished /\ a \in 1..Len(b)
      /\ \A i \in 1..Len(b) : Observed(n, i, i < a) /\ EntropyOut(n, i, FALSE)
  BY <1>1, <1>3, <1>5, <1>6 DEF AlertInv, Underway, AtPacket, EntropyOut, Fired
<1>8. last <=> a = Len(b)
  BY <1>5, <1>6 DEF LastPacket
<1>9. \A i : /\ Fired("observe", n, i)' =
                    Fired("observe", n, i) + (IF i = a THEN 1 ELSE 0)
             /\ Fired("signature", n, i)' =
                    Fired("signature", n, i) + (IF i = a /\ matches(b[a]) THEN 1 ELSE 0)
             /\ Fired("entropy", n, i)' = Fired("entropy", n, i)
  BY <1>3, <1>5, <1>6, RulesFires
<1>10. \A m : m # job[w] => Hushed(m)
  BY RulesFires DEF Hushed
<1>11. \A i \in 1..Len(b) : Observed(n, i, i < a + 1)' /\ EntropyOut(n, i, FALSE)'
  <2> TAKE i \in 1..Len(b)
  <2>1. /\ Fired("observe", n, i) = Expected(i < a)
        /\ Fired("signature", n, i) = Expected(i < a /\ matches(b[i]))
        /\ Fired("entropy", n, i) = 0
    BY <1>6, <1>7 DEF Observed, EntropyOut, Expected
  <2>2. /\ Fired("observe", n, i)' = Expected(i < a + 1)
        /\ Fired("signature", n, i)' = Expected(i < a + 1 /\ matches(b[i]))
        /\ Fired("entropy", n, i)' = 0
    <3>1. CASE i = a
      BY <1>7, <1>9, <2>1, <3>1 DEF Expected
    <3>2. CASE i # a
      <4>1. i < a + 1 <=> i < a
        BY <1>7, <3>2
      <4>2. Expected(i < a + 1) = Expected(i < a)
        BY <4>1 DEF Expected
      <4>3. Expected(i < a + 1 /\ matches(b[i])) = Expected(i < a /\ matches(b[i]))
        BY <4>1 DEF Expected
      <4>4. Expected(i < a) \in Nat /\ Expected(i < a /\ matches(b[i])) \in Nat
        BY DEF Expected
      <4> QED BY <1>9, <2>1, <3>2, <4>2, <4>3, <4>4
    <3> QED BY <3>1, <3>2
  <2> QED BY <1>6, <2>2 DEF Observed, EntropyOut, Expected
<1> HIDE DEF last, quiet
<1>12. Underway(w)'
  <2>1. CASE last /\ quiet
    BY <1>1, <2>1 DEF Underway
  <2>2. CASE ~ (last /\ quiet)
    <3>1. n \notin finished' /\ pc'[w] \in {"rules", "wait"}
      BY <1>1, <1>7, <2>2
    <3>2. AtPacket(w)'
      BY <1>1, <1>5, <1>6, <1>7, <1>8, <2>2 DEF AtPacket
    <3>3. ASSUME NEW i \in 1..Len(jobs'[job'[w]])
          PROVE  /\ Observed(job[w], i, i < at[w])'
                 /\ EntropyOut(job[w], i, pc[w] = "release")'
      <4>1. jobs'[job'[w]] = b /\ job'[w] = n /\ at'[w] = a + 1 /\ pc'[w] # "release"
        BY <1>1, <1>3, <1>5, <1>6, <3>1
      <4>2. Observed(n, i, i < a + 1)' /\ EntropyOut(n, i, FALSE)'
        BY <1>11, <4>1
      <4> QED BY <4>1, <4>2 DEF Observed, EntropyOut, Fired
    <3> QED BY <1>1, <1>3, <3>1, <3>2, <3>3 DEF Underway
  <2> QED BY <2>1, <2>2
<1>13. last /\ quiet => Complete(n)'
  <2> SUFFICES ASSUME last, quiet, NEW i \in 1..Len(b)
               PROVE  Observed(n, i, TRUE)' /\ EntropyOut(n, i, TRUE)'
    BY <1>6 DEF Complete
  <2>1. Observed(n, i, i < a + 1)' /\ EntropyOut(n, i, FALSE)'
    BY <1>11
  <2>2. i < a + 1
    BY <1>7, <1>8
  <2>3. ~ (b[i].size >= MinPayload)
    BY <1>6, EligibleFacts DEF quiet
  <2> QED BY <1>6, <2>1, <2>2, <2>3 DEF Observed, EntropyOut, Expected
<1>14. \A v \in Workers \ {w} : Underway(v)'
  BY <1>1, <1>2, <1>10, OtherUnderway
<1>15. \/ finished' = finished /\ pc'[w] # "idle"
       \/ /\ finished' = finished \cup {job[w]}
          /\ \A m : m = job[w] => Complete(m)'
  BY <1>1, <1>3, <1>13
<1>16. job[w] \notin finished
  BY <1>3, <1>7
<1> QED BY <1>1, <1>2, <1>10, <1>12, <1>14, <1>15, <1>16, AlertRest DEF AlertInv

LEMMA AlertReport ==
    ASSUME TypeInv, WorkInv, AlertInv, NEW w \in Workers, Report(w)
    PROVE  AlertInv'
<1>1. /\ pc[w] = "report" /\ pc'[w] = "release" /\ at' = at
      /\ finished' = finished /\ job' = job /\ jobs' = jobs
  BY DEF Report, Step, TypeInv, WorkerTypeOK
<1>2. job[w] > 0 /\ WorkerStep(w)
  BY <1>1 DEF TypeInv, JobsApart, WorkerStep
<1>3. PICK n : n = job[w]
  OBVIOUS
<1>4. PICK b : b = Batch(w)
  OBVIOUS
<1>5. PICK a : a = at[w]
  OBVIOUS
<1>6. /\ b \in Seq(Packet) /\ Len(b) \in Nat /\ b = jobs[n] /\ jobs'[n] = b
      /\ Batch(w) = b /\ Batch(w)' = b
  BY <1>1, <1>2, <1>3, <1>4, BatchFacts, LenProperties DEF Batch
<1>7. /\ n \notin finished /\ a = Len(b) + 1
      /\ \A i \in 1..Len(b) : Observed(n, i, i < a) /\ EntropyOut(n, i, FALSE)
  BY <1>1, <1>3, <1>5, <1>6 DEF AlertInv, Underway, AtPacket, EntropyOut, Fired
<1>8. \A i \in 1..Len(b) :
          /\ Fired("observe", n, i)' = Fired("observe", n, i)
          /\ Fired("signature", n, i)' = Fired("signature", n, i)
          /\ Fired("entropy", n, i)' = Fired("entropy", n, i)
                 + (IF b[i].size >= MinPayload /\ b[i].high THEN 1 ELSE 0)
  BY <1>3, <1>6, ReportFires
<1>9. \A m : m # job[w] => Hushed(m)
  BY ReportFires DEF Hushed
<1>10. \A i \in 1..Len(b) : Observed(n, i, i < a)' /\ EntropyOut(n, i, TRUE)'
  <2> TAKE i \in 1..Len(b)
  <2>1. /\ Fired("observe", n, i) = Expected(i < a)
        /\ Fired("signature", n, i) = Expected(i < a /\ matches(b[i]))
        /\ Fired("entropy", n, i) = 0
    BY <1>6, <1>7 DEF Observed, EntropyOut, Expected
  <2>2. /\ Fired("observe", n, i)' = Expected(i < a)
        /\ Fired("signature", n, i)' = Expected(i < a /\ matches(b[i]))
        /\ Fired("entropy", n, i)' = Expected(b[i].size >= MinPayload /\ b[i].high)
    BY <1>8, <2>1 DEF Expected
  <2> QED BY <1>6, <2>2 DEF Observed, EntropyOut, Expected
<1>11. Underway(w)'
  <2>1. n \notin finished' /\ AtPacket(w)'
    BY <1>1, <1>5, <1>6, <1>7 DEF AtPacket
  <2>2. ASSUME NEW i \in 1..Len(jobs'[job'[w]])
        PROVE  /\ Observed(job[w], i, i < at[w])'
               /\ EntropyOut(job[w], i, pc[w] = "release")'
    <3>1. jobs'[job'[w]] = b /\ job'[w] = n /\ at'[w] = a /\ pc'[w] = "release"
      BY <1>1, <1>3, <1>5, <1>6
    <3>2. Observed(n, i, i < a)' /\ EntropyOut(n, i, TRUE)'
      BY <1>10, <3>1
    <3> QED BY <3>1, <3>2 DEF Observed, EntropyOut, Fired
  <2> QED BY <1>1, <1>3, <2>1, <2>2 DEF Underway
<1>12. \A v \in Workers \ {w} : Underway(v)'
  BY <1>1, <1>2, <1>9, OtherUnderway
<1>13. finished' = finished /\ pc'[w] # "idle" /\ job[w] \notin finished
  BY <1>1, <1>3, <1>7
<1> QED BY <1>1, <1>2, <1>9, <1>11, <1>12, <1>13, AlertRest DEF AlertInv

LEMMA AlertRelease ==
    ASSUME TypeInv, AlertInv, NEW w \in Workers, Release(w)
    PROVE  AlertInv'
<1>1. /\ pc[w] = "release" /\ pc'[w] = "idle" /\ at' = at /\ events' = events
      /\ finished' = finished \cup {job[w]} /\ job' = job /\ jobs' = jobs
  BY DEF Release, Step, TypeInv, WorkerTypeOK
<1>2. job[w] > 0 /\ WorkerStep(w)
  BY <1>1 DEF TypeInv, JobsApart, WorkerStep
<1>3. PICK n : n = job[w]
  OBVIOUS
<1>4. Len(jobs[n]) \in Nat /\ jobs'[n] = jobs[n]
  BY <1>1, <1>2, <1>3, BatchFacts, LenProperties DEF Batch
<1>5. \A m : Hushed(m)
  BY <1>1 DEF Hushed, Fired
<1>6. n \notin finished /\ Complete(n)
  <2>1. /\ n \notin finished /\ at[w] = Len(jobs[n]) + 1
        /\ \A i \in 1..Len(jobs[n]) : Observed(n, i, i < at[w]) /\ EntropyOut(n, i, TRUE)
    BY <1>1, <1>3 DEF AlertInv, Underway, AtPacket, Batch, EntropyOut, Fired
  <2>2. ASSUME NEW i \in 1..Len(jobs[n]) PROVE Observed(n, i, TRUE)
    <3>1. i < at[w]
      BY <1>4, <2>1
    <3>2. Observed(n, i, i < at[w])
      BY <2>1
    <3> QED BY <3>1, <3>2 DEF Observed, Expected
  <2> QED BY <2>1, <2>2 DEF Complete
<1>7. Complete(n)'
  BY <1>4, <1>5, <1>6, HushedFacts
<1>8. \A v \in Workers \ {w} : Underway(v)'
  BY <1>1, <1>2, <1>5, OtherUnderway
<1>9. Underway(w)'
  BY <1>1 DEF Underway
<1>10. job[w] \notin finished /\ \A m : m = job[w] => Complete(m)'
  BY <1>3, <1>6, <1>7
<1> QED BY <1>1, <1>2, <1>5, <1>8, <1>9, <1>10, AlertRest DEF AlertInv

\* Getting ready for the rule loop and waiting for the entropies: nothing
\* comes out.
LEMMA AlertSilent ==
    ASSUME TypeInv, AlertInv, NEW w \in Workers,
           \/ CpuStart(w) \/ SubmitTake(w) \/ SubmitFill(w) \/ SubmitNoMemory(w)
           \/ SubmitNoCommand(w) \/ SubmitCommit(w) \/ Wait(w)
    PROVE  AlertInv'
<1>1. /\ UNCHANGED <<events, finished, jobs, job, at>>
      /\ \/ pc[w] \in {"start", "fit", "commit"} /\ pc'[w] \in {"fit", "commit", "rules"}
         \/ pc[w] = "wait" /\ pc'[w] = "report"
      /\ \A v \in Workers \ {w} : pc'[v] = pc[v]
  BY DEF CpuStart, SubmitTake, SubmitFill, SubmitNoMemory, SubmitNoCommand, SubmitCommit,
         Wait, Step, TypeInv, WorkerTypeOK, logVars
<1>2. job[w] > 0
  BY <1>1 DEF TypeInv, JobsApart
<1>3. Batch(w)' = Batch(w) /\ Len(Batch(w)) \in Nat /\ Len(Batch(w)) >= 1
  BY <1>1, <1>2, BatchFacts, LenProperties, EmptySeq DEF Batch
<1>4. AtPacket(w)
  BY <1>1 DEF AlertInv, Underway
<1>5. AtPacket(w)'
  BY <1>1, <1>3, <1>4 DEF AtPacket
<1> QED BY <1>1, <1>5, SilentStep

LEMMA AlertStep ==
    TypeInv /\ OwnInv /\ WorkInv /\ AlertInv /\ [AnalysisNext]_analysisVars => AlertInv'
<1> SUFFICES ASSUME TypeInv, WorkInv, AlertInv, [AnalysisNext]_analysisVars
             PROVE  AlertInv'
  OBVIOUS
<1>1. ASSUME NEW w \in Workers, AnalyzeBatch(w) PROVE AlertInv'
  BY <1>1, AlertAnalyzeBatch
<1>2. ASSUME NEW w \in Workers, WorkerStep(w) PROVE AlertInv'
  BY <1>2, AlertSilent, AlertRules, AlertReport, AlertRelease DEF WorkerStep
<1>3. ASSUME UNCHANGED <<pc, at, job, jobs, events, finished>> PROVE AlertInv'
  BY <1>3, SilentStep
<1>4. ASSUME NEW n \in 1..MaxBatches, GpuStep(n) PROVE AlertInv'
  BY <1>3, <1>4 DEF GpuStep, GpuCompute, GpuComplete, GpuFail, workerVars, logVars
<1>5. ASSUME UNCHANGED analysisVars PROVE AlertInv'
  BY <1>3, <1>5 DEF analysisVars, workerVars, logVars
<1> QED BY <1>1, <1>2, <1>4, <1>5 DEF AnalysisNext, AnalysisDone

\* At every step the alerts and observe() calls of a batch are the ones its
\* worker's place in analyze_batch() stands for, and each batch is with one
\* worker until its call has returned.
THEOREM AlertsCorrect == AnalysisSpec => [](TypeInv /\ OwnInv /\ WorkInv /\ AlertInv)
<1>1. AnalysisInit => AlertInv
  <2> SUFFICES ASSUME AnalysisInit PROVE AlertInv
    OBVIOUS
  <2>1. \A rule, n, i : Fired(rule, n, i) = 0
    BY DEF AnalysisInit, Fired, BagIn, BagToSet, EmptyBag, SetToBag
  <2>2. \A w \in Workers : pc[w] = "idle"
    BY DEF AnalysisInit
  <2>3. Len(jobs) = 0 /\ finished = {}
    BY DEF AnalysisInit
  <2> QED BY <2>1, <2>2, <2>3 DEF AlertInv, Underway, Unheard
<1> QED BY <1>1, AlertStep, WorkCorrect, PTL DEF AnalysisSpec

\* Every packet of a batch whose analyze_batch() returned was observed once
\* and raised exactly the alerts its payload deserves, with either backend,
\* any number of workers, and whatever allocations and dispatches failed.
THEOREM AnalysisAlertsExact == AnalysisSpec => []AlertsExact
<1>1. AlertInv => AlertsExact
  BY DEF AlertInv, Complete, Observed, EntropyOut, AlertsExact, matches, Expected
<1> QED BY <1>1, AlertsCorrect, PTL

\* No entropy alert of a batch is out while a packet of it is still to be
\* observed.
THEOREM AnalysisEntropyAfterRules == AnalysisSpec => []EntropyAfterRules
<1>1. TypeInv /\ AlertInv => EntropyAfterRules
  <2> SUFFICES ASSUME TypeInv, AlertInv, NEW n \in 1..Len(jobs),
                      NEW i \in 1..Len(jobs[n]), NEW k \in 1..Len(jobs[n]),
                      Fired("entropy", n, i) > 0
               PROVE  Fired("observe", n, k) > 0
    BY DEF EntropyAfterRules
  <2>1. CASE n \in finished
    <3>1. Observed(n, k, TRUE)
      BY <2>1 DEF AlertInv, Complete
    <3> QED BY <3>1 DEF Observed, Expected
  <2>2. CASE n \notin finished
    <3>1. PICK w \in Workers : job[w] = n /\ pc[w] # "idle"
      BY <2>2 DEF AlertInv
    <3>2. /\ Observed(n, k, k < at[w]) /\ EntropyOut(n, i, pc[w] = "release")
          /\ AtPacket(w)
      BY <3>1 DEF AlertInv, Underway
    <3>3. pc[w] = "release"
      BY <3>2 DEF EntropyOut, Expected
    <3>4. k < at[w]
      <4>1. jobs[n] \in Seq(Packet)
        BY ElementOfSeq, AnalysisAssumption DEF TypeInv, WorkerTypeOK
      <4>2. at[w] = Len(jobs[n]) + 1 /\ Len(jobs[n]) \in Nat
        BY <3>1, <3>2, <3>3, <4>1, LenProperties DEF AtPacket, Batch
      <4> QED BY <4>2
    <3> QED BY <3>2, <3>4 DEF Observed, Expected
  <2> QED BY <2>1, <2>2
<1> QED BY <1>1, AlertsCorrect, PTL
=============================================================================
