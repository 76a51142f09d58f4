------------------------- MODULE EntropyKernelProofs -------------------------
(***************************************************************************)
(* Theorems about EntropyKernel, for any number of bins, any group size    *)
(* that is a power of two, any limit of the device and any batches.        *)
(***************************************************************************)
EXTENDS EntropyKernel, DataInduction, SequenceTheorems, FiniteSetTheorems, TLAPS

(* Remainders                                                              *)

LEMMA DivMod ==
    ASSUME NEW a \in Nat, NEW d \in Nat \ {0}
    PROVE  a \div d \in Nat /\ a % d \in 0..(d - 1) /\ a = d * (a \div d) + (a % d)
OBVIOUS

LEMMA MultipleGap ==
    ASSUME NEW d \in Nat \ {0}, NEW q \in Nat, NEW p \in Nat, p < q
    PROVE  d * p + d <= d * q
<1>1. q - p - 1 \in Nat
  OBVIOUS
<1>2. d * (q - p - 1) >= 0
  BY <1>1
<1> QED BY <1>2

LEMMA ModUnique ==
    ASSUME NEW a \in Nat, NEW d \in Nat \ {0}, NEW q \in Nat, NEW r \in 0..(d - 1),
           a = d * q + r
    PROVE  a % d = r
<1>1. PICK p \in Nat, m \in 0..(d - 1) : p = a \div d /\ m = a % d /\ a = d * p + m
  BY DivMod
<1>2. CASE p < q
  BY <1>1, <1>2, MultipleGap
<1>3. CASE q < p
  BY <1>1, <1>3, MultipleGap
<1>4. CASE p = q
  BY <1>1, <1>4
<1> QED BY <1>2, <1>3, <1>4

LEMMA ModFacts ==
    ASSUME NEW a \in Nat, NEW d \in Nat \ {0}
    PROVE  /\ a % d \in 0..(d - 1) /\ a % d <= a
           /\ a < d => a % d = a
           /\ (a + d) % d = a % d
           /\ a % 1 = 0
<1>1. a % d \in 0..(d - 1) /\ a \div d \in Nat /\ a = d * (a \div d) + (a % d)
  BY DivMod
<1>2. a < d => a % d = a
  <2>1. a < d => a = d * 0 + a
    OBVIOUS
  <2> QED BY <2>1, ModUnique
<1>3. (a + d) % d = a % d
  <2>1. PICK q \in Nat, r \in 0..(d - 1) : a = d * q + r /\ r = a % d
    BY <1>1
  <2>2. a + d = d * (q + 1) + r /\ a + d \in Nat /\ q + 1 \in Nat
    BY <2>1
  <2> QED BY <2>1, <2>2, ModUnique
<1>4. a % d <= a
  <2>1. PICK q \in Nat, r \in 0..(d - 1) : a = d * q + r /\ r = a % d
    BY <1>1
  <2>2. d * q >= 0
    OBVIOUS
  <2> QED BY <2>1, <2>2
<1>5. a % 1 = 0
  OBVIOUS
<1> QED BY <1>1, <1>2, <1>3, <1>4, <1>5

\* Two numbers with the same remainder are not closer than the divisor.
LEMMA ModClose ==
    ASSUME NEW d \in Nat \ {0}, NEW a \in Nat, NEW b \in Nat,
           a % d = b % d, b <= a, a < b + d
    PROVE  a = b
<1>1. PICK q \in Nat, r \in 0..(d - 1) : a = d * q + r /\ r = a % d
  BY DivMod
<1>2. PICK p \in Nat : b = d * p + r
  <2>1. PICK p \in Nat, m \in 0..(d - 1) : b = d * p + m /\ m = b % d
    BY DivMod
  <2> QED BY <1>1, <2>1
<1>3. CASE p < q
  BY <1>1, <1>2, <1>3, MultipleGap
<1>4. CASE q < p
  BY <1>1, <1>2, <1>4, MultipleGap
<1>5. CASE p = q
  BY <1>1, <1>2, <1>5
<1> QED BY <1>3, <1>4, <1>5

\* A thread's share at stride s joins two shares of twice the stride.
LEMMA ModHalf ==
    ASSUME NEW s \in Nat \ {0}, NEW b \in Nat, NEW t \in 0..(s - 1)
    PROVE  b % s = t <=> (b % (2 * s) = t \/ b % (2 * s) = t + s)
<1>1. 2 * s \in Nat \ {0}
  OBVIOUS
<1>2. PICK q \in Nat, r \in 0..(2 * s - 1) : b = (2 * s) * q + r /\ r = b % (2 * s)
  BY <1>1, DivMod
<1>3. CASE r < s
  <2>1. b = s * (2 * q) + r /\ 2 * q \in Nat /\ r \in 0..(s - 1)
    BY <1>2, <1>3
  <2>2. b % s = r
    BY <2>1, ModUnique
  <2> QED BY <1>2, <1>3, <2>2
<1>4. CASE r >= s
  <2>1. b = s * (2 * q + 1) + (r - s) /\ 2 * q + 1 \in Nat /\ r - s \in 0..(s - 1)
    BY <1>2, <1>4
  <2>2. b % s = r - s
    BY <2>1, ModUnique
  <2> QED BY <1>2, <1>4, <2>2
<1> QED BY <1>3, <1>4

-----------------------------------------------------------------------------
(* The size of the group                                                   *)

LEMMA PowerHalves ==
    ASSUME NEW n \in Nat, PowerOfTwo(n)
    PROVE  n > 0 /\ (n = 1 \/ (n = 2 * (n \div 2) /\ n \div 2 \in Nat /\ PowerOfTwo(n \div 2)))
<1>1. PICK S \in SUBSET (1..n) : n \in S /\ Doublings(S)
  BY DEF PowerOfTwo
<1>2. CASE n # 1
  <2>1. PICK h \in S : n = 2 * h
    BY <1>1, <1>2 DEF Doublings
  <2>2. h \in Nat /\ h \in 1..n /\ n \div 2 = h /\ h < n
    BY <2>1
  <2> DEFINE H == S \cap (1..h)
  <2>3. h \in H /\ H \in SUBSET (1..h)
    BY <2>2
  <2>4. ASSUME NEW m \in H, m # 1 PROVE \E k \in H : m = 2 * k
    <3>1. PICK k \in S : m = 2 * k
      BY <1>1, <2>4 DEF Doublings
    <3>2. k \in 1..h
      BY <2>2, <3>1
    <3> QED BY <3>1, <3>2
  <2>5. PowerOfTwo(h)
    <3>1. Doublings(H)
      BY <2>4 DEF Doublings
    <3> HIDE DEF H
    <3> QED BY <2>3, <3>1 DEF PowerOfTwo
  <2> QED BY <2>1, <2>2, <2>5
<1> QED BY <1>1, <1>2

\* The loop ends with a power of two that the device accepts.
LEMMA GroupSizeFacts ==
    ASSUME NEW max \in Nat \ {0}
    PROVE  GroupSize(max) \in 1..MaxGroup /\ PowerOfTwo(GroupSize(max))
<1> DEFINE n == MaxGroup
           Fit(f, m) == f = [k \in 0..m |-> IF k > max THEN f[k \div 2] ELSE k]
           fit == CHOOSE f : Fit(f, n)
           T == {m \in 0..n : \E f : Fit(f, m)}
           G == {m \in 0..n : (PowerOfTwo(m) => fit[m] \in 1..n /\ PowerOfTwo(fit[m]))}
<1>1. n \in Nat /\ PowerOfTwo(n)
  BY KernelAssumption
<1>2. GroupSize(max) = fit[n]
  BY DEF GroupSize
<1> HIDE DEF n
<1>3. 0 \in T
  <2>1. Fit([k \in 0..0 |-> 0], 0)
    OBVIOUS
  <2> HIDE DEF Fit
  <2> QED BY <1>1, <2>1
<1>4. ASSUME NEW m \in 1..n, m - 1 \in T PROVE m \in T
  <2>1. PICK f : Fit(f, m - 1)
    BY <1>4
  <2> DEFINE g == [k \in 0..m |-> IF k < m THEN f[k] ELSE IF m > max THEN f[m \div 2] ELSE m]
  <2>2. ASSUME NEW k \in 0..m PROVE g[k] = IF k > max THEN g[k \div 2] ELSE k
    <3>1. CASE k = m
      <4>1. m \div 2 \in 0..m /\ m \div 2 < m
        OBVIOUS
      <4> QED BY <3>1, <4>1
    <3>2. CASE k # m
      <4>1. k \in 0..(m - 1) /\ k \div 2 \in 0..m /\ k \div 2 < m
        BY <3>2
      <4> QED BY <4>1, <2>1
    <3> QED BY <3>1, <3>2
  <2>3. Fit(g, m)
    <3>1. g = [k \in 0..m |-> g[k]]
      OBVIOUS
    <3> HIDE DEF g
    <3> QED BY <2>2, <3>1
  <2> HIDE DEF Fit, g
  <2> QED BY <1>1, <2>3
<1>5. 0..n \subseteq T
  <2> HIDE DEF T
  <2> QED BY <1>1, <1>3, <1>4, StepInduction, Zenon
<1>6. Fit(fit, n)
  <2>1. \E f : Fit(f, n)
    BY <1>1, <1>5
  <2> HIDE DEF Fit
  <2> QED BY <2>1, Zenon
<1>7. \A m \in 0..n : fit[m] = IF m > max THEN fit[m \div 2] ELSE m
  BY <1>6
<1> HIDE DEF fit
<1>8. ASSUME NEW m \in 0..n, \A j \in 0..(m - 1) : j \in G
      PROVE  m \in G
  <2>1. CASE m > max
    <3>1. PowerOfTwo(m) => PowerOfTwo(m \div 2)
      BY <2>1, PowerHalves
    <3>2. m \div 2 \in 0..(m - 1)
      BY <2>1
    <3> QED BY <1>7, <1>8, <2>1, <3>1, <3>2
  <2>2. CASE ~ (m > max)
    <3>1. PowerOfTwo(m) => m > 0
      BY PowerHalves
    <3> QED BY <1>1, <1>7, <2>2, <3>1
  <2> QED BY <2>1, <2>2
<1>9. 0..n \subseteq G
  <2> HIDE DEF G
  <2> QED BY <1>1, <1>8, SetInduction, Zenon
<1> QED BY <1>1, <1>2, <1>9 DEF n

-----------------------------------------------------------------------------
(* The threads of a group between its barriers                             *)

Phases == {{"clear", "cleared"}, {"count", "counted"}, {"add", "store", "stored"},
           {"reduce", "reduced", "done"}}

\* The buffers are laid out, and stay so.
InputOK ==
    /\ payloads \in Batches /\ payload \in 1..Len(payloads)
    /\ data = Concat(payloads)
    /\ offsets = [k \in 1..Len(payloads) |-> Offset(payloads, k)]
    /\ lengths = [k \in 1..Len(payloads) |-> Len(payloads[k]) % Span]
    /\ threads \in 1..MaxGroup /\ PowerOfTwo(threads)

ThreadsOK ==
    /\ DOMAIN pc = Group /\ DOMAIN sum = Group
    /\ idx \in [Group -> Nat] /\ stride \in [Group -> Nat]
    /\ DOMAIN partial = 0..(MaxGroup - 1)

\* All threads are between the same two barriers, with the same stride.
Lockstep ==
    /\ \E P \in Phases : \A t \in Group : pc[t] \in P
    /\ \A t, u \in Group : stride[t] = stride[u]
    /\ \A t \in Group : pc[t] = "reduced" => stride[t] > 0
    /\ \A t \in Group : pc[t] = "done" => stride[t] = 0

GroupInv == InputOK /\ ThreadsOK /\ Lockstep

LEMMA GroupInit == KernelInit => GroupInv
<1> SUFFICES ASSUME KernelInit PROVE GroupInv
  OBVIOUS
<1>1. threads \in 1..MaxGroup /\ PowerOfTwo(threads)
  BY GroupSizeFacts, KernelAssumption DEF KernelInit
<1>2. InputOK
  BY <1>1 DEF KernelInit, InputOK
<1>3. ThreadsOK
  BY <1>1, KernelAssumption DEF KernelInit, ThreadsOK, Group
<1>4. Lockstep
  <2>1. {"clear", "cleared"} \in Phases
    BY DEF Phases
  <2>2. \A t \in Group : pc[t] = "clear" /\ stride[t] = threads \div 2
    BY DEF KernelInit
  <2> QED BY <2>1, <2>2 DEF Lockstep
<1> QED BY <1>2, <1>3, <1>4 DEF GroupInv

LEMMA InputStays ==
    ASSUME InputOK, UNCHANGED inputVars
    PROVE  InputOK' /\ Group' = Group
BY DEF InputOK, inputVars, Group

\* What one step of a thread changes of its own and of the others' state.
LEMMA ThreadMoves ==
    ASSUME GroupInv, NEW t \in Group, ThreadStep(t)
    PROVE  /\ UNCHANGED inputVars /\ stride' = stride /\ ThreadsOK'
           /\ \A u \in Group \ {t} : pc'[u] = pc[u] /\ idx'[u] = idx[u] /\ sum'[u] = sum[u]
           /\ \A P \in Phases : pc[t] \in P => pc'[t] \in P
           /\ pc'[t] = "reduced" => pc[t] = "reduced" \/ stride[t] > 0
           /\ pc'[t] = "done" => pc[t] = "done" \/ stride[t] = 0
<1> USE DEF GroupInv, ThreadsOK, Phases, Group, groupVars
<1>0. threads \in Nat /\ t \in Nat
  BY DEF InputOK
<1>1. CASE Clear(t)
  BY <1>0, <1>1 DEF Clear, Turn, inputVars
<1>2. CASE LoopEnd(t, "clear", Bins, "cleared")
  BY <1>0, <1>2 DEF LoopEnd, Goto, inputVars
<1>3. CASE Count(t)
  BY <1>0, <1>3 DEF Count, Turn, inputVars
<1>4. CASE LoopEnd(t, "count", lengths[payload], "counted")
  BY <1>0, <1>4 DEF LoopEnd, Goto, inputVars
<1>5. CASE Add(t)
  BY <1>0, <1>5 DEF Add, Turn, inputVars
<1>6. CASE LoopEnd(t, "add", IF lengths[payload] > 0 THEN Bins ELSE 0, "store")
  BY <1>0, <1>6 DEF LoopEnd, Goto, inputVars
<1>7. CASE Store(t)
  BY <1>0, <1>7 DEF Store, Goto, inputVars
<1>8. CASE Reduce(t)
  BY <1>0, <1>8 DEF Reduce, Halved, Goto, inputVars
<1>9. CASE Write(t)
  BY <1>0, <1>9 DEF Write, Goto, inputVars
<1> QED BY <1>1, <1>2, <1>3, <1>4, <1>5, <1>6, <1>7, <1>8, <1>9 DEF ThreadStep

LEMMA GroupStep == GroupInv /\ [KernelNext]_kernelVars => GroupInv'
<1> SUFFICES ASSUME GroupInv, [KernelNext]_kernelVars PROVE GroupInv'
  OBVIOUS
<1> USE DEF GroupInv
<1>1. ASSUME NEW t \in Group, ThreadStep(t) PROVE GroupInv'
  <2>1. /\ UNCHANGED inputVars /\ stride' = stride /\ ThreadsOK'
        /\ \A u \in Group \ {t} : pc'[u] = pc[u]
        /\ \A P \in Phases : pc[t] \in P => pc'[t] \in P
        /\ pc'[t] = "reduced" => pc[t] = "reduced" \/ stride[t] > 0
        /\ pc'[t] = "done" => pc[t] = "done" \/ stride[t] = 0
    BY <1>1, ThreadMoves
  <2>2. InputOK' /\ Group' = Group
    BY <2>1, InputStays
  <2>3. Lockstep'
    BY <2>1, <2>2 DEF Lockstep
  <2> QED BY <2>1, <2>2, <2>3
<1>2. ASSUME NEW here, NEW next, Barrier(here, next), \E P \in Phases : next \in P,
             next \notin {"reduced", "done"}
      PROVE  GroupInv'
  <2>1. InputOK' /\ Group' = Group
    BY <1>2, InputStays DEF Barrier
  <2>2. threads \in Nat
    BY DEF InputOK
  <2>3. ThreadsOK'
    <3>1. stride' \in [Group -> Nat] /\ idx' \in [Group -> Nat]
      BY <1>2, <2>2 DEF Barrier, ThreadsOK, Group
    <3> QED BY <1>2, <2>1, <3>1 DEF Barrier, ThreadsOK, groupVars
  <2>4. Lockstep'
    <3>1. /\ \A t \in Group : pc'[t] = next
          /\ stride' = stride \/ stride' = [t \in Group |-> stride[t] \div 2]
      BY <1>2 DEF Barrier
    <3>2. \A t, u \in Group : stride'[t] = stride'[u]
      <4>1. \A t, u \in Group : stride[t] = stride[u]
        BY DEF Lockstep
      <4> QED BY <3>1, <4>1
    <3> QED BY <1>2, <2>1, <3>1, <3>2 DEF Lockstep
  <2> QED BY <2>1, <2>3, <2>4
<1>3. CASE Barriers
  <2>1. \A next \in {"count", "add", "reduce"} : \E P \in Phases : next \in P
    BY DEF Phases
  <2> QED BY <1>2, <1>3, <2>1 DEF Barriers
<1>4. CASE UNCHANGED kernelVars
  <2>1. InputOK' /\ Group' = Group
    BY <1>4, InputStays DEF kernelVars
  <2>2. UNCHANGED <<pc, idx, sum, stride, partial>>
    BY <1>4 DEF kernelVars, localVars, groupVars
  <2> QED BY <2>1, <2>2 DEF ThreadsOK, Lockstep
<1> QED BY <1>1, <1>3, <1>4 DEF KernelNext

\* All threads of the group are between the same two barriers, with the same
\* stride, in a group whose size is a power of two.
THEOREM KernelLockstep == KernelSpec => []GroupInv
BY GroupInit, GroupStep, PTL DEF KernelSpec

\* The reduction has no data race, for any group size the host chooses: a
\* partial sum a thread may write next is read and written by no other before
\* the next barrier.
THEOREM KernelNoDataRace == KernelSpec => []NoDataRace
<1>1. GroupInv => NoDataRace
  <2> SUFFICES ASSUME GroupInv, NEW t \in Group, NEW u \in Group, t # u
               PROVE  Writes(t) \cap (Reads(u) \cup Writes(u)) = {}
    BY DEF NoDataRace
  <2>1. t \in Nat /\ u \in Nat /\ stride[t] \in Nat /\ stride[t] = stride[u]
    BY DEF GroupInv, InputOK, ThreadsOK, Lockstep, Group
  <2>2. PICK P \in Phases : pc[t] \in P /\ pc[u] \in P
    BY DEF GroupInv, Lockstep
  <2>3. ~ (pc[t] = "store" /\ pc[u] = "reduce") /\ ~ (pc[t] = "reduce" /\ pc[u] = "store")
    BY <2>2 DEF Phases
  <2> QED BY <2>1, <2>3 DEF Writes, Reads
<1> QED BY <1>1, KernelLockstep, PTL

-----------------------------------------------------------------------------
(* The layout of the data buffer                                           *)

\* The recursive function behind Concat: the first k payloads end to end.
Glue(b) == CHOOSE f : f = [k \in 0..Len(b) |-> IF k = 0 THEN <<>> ELSE f[k - 1] \o b[k]]

IsBatch(b) == b \in Seq(Seq(Byte))

LEMMA GlueFacts ==
    ASSUME NEW b, IsBatch(b)
    PROVE  /\ Concat(b) = Glue(b)[Len(b)]
           /\ Glue(b)[0] = <<>>
           /\ \A k \in 1..Len(b) : Glue(b)[k] = Glue(b)[k - 1] \o b[k]
           /\ \A k \in 0..Len(b) : Glue(b)[k] \in Seq(Byte)
<1> DEFINE n == Len(b)
           V == Seq(Byte)
           none == <<>>
           next(q, k) == q \o b[k]
           step == [kv \in (1..n) \X V |-> next(kv[2], kv[1])]
           upTo == Glue(b)
           T == {k \in 0..n : upTo[k] \in V}
<1>1. n \in Nat /\ \A k \in 1..n : b[k] \in V
  BY LenProperties, ElementOfSeq DEF IsBatch
<1>2. none \in V /\ \A k \in 1..n, q \in V : next(q, k) \in V
  BY <1>1, ConcatProperties
<1>3. Concat(b) = upTo[n]
  BY DEF Concat, Glue
<1>4. upTo = CHOOSE f : f = [k \in 0..n |-> IF k = 0 THEN none ELSE next(f[k - 1], k)]
  BY DEF Glue
<1> HIDE DEF n, V, none, next, upTo
<1>5. step \in [(1..n) \X V -> V]
  BY <1>2
<1>6. PICK f : IsRecursive(f, n, V, none, step)
  <2> HIDE DEF step, T
  <2> QED BY <1>1, <1>2, <1>5, RecursionExists, Zenon
<1>7. \A k \in 1..n : f[k] = next(f[k - 1], k)
  <2> TAKE k \in 1..n
  <2>1. k - 1 \in 0..n /\ f[k - 1] \in V
    BY <1>1, <1>6 DEF IsRecursive
  <2>2. step[<<k, f[k - 1]>>] = next(f[k - 1], k)
    BY <2>1
  <2> QED BY <1>6, <2>2 DEF IsRecursive
<1>8. f = [k \in 0..n |-> IF k = 0 THEN none ELSE next(f[k - 1], k)]
  <2> HIDE DEF T, step
  <2> QED BY <1>1, <1>6, <1>7 DEF IsRecursive
<1>9. /\ upTo[0] = none
      /\ \A k \in 1..n : upTo[k] = next(upTo[k - 1], k)
  <2>1. upTo = [k \in 0..n |-> IF k = 0 THEN none ELSE next(upTo[k - 1], k)]
    BY <1>4, <1>8, Zenon
  <2> QED BY <1>1, <2>1
<1>10. 0 \in T /\ \A k \in 1..n : k - 1 \in T => k \in T
  BY <1>1, <1>2, <1>9
<1>11. 0..n \subseteq T
  <2> HIDE DEF T
  <2> QED BY <1>1, <1>10, StepInduction, Zenon
<1>12. \A k \in 0..n : upTo[k] \in V
  BY <1>11
<1> QED BY <1>3, <1>9, <1>12 DEF n, V, none, next, upTo

\* The first payloads of a batch are laid out the same without the rest.
LEMMA GluePrefix ==
    ASSUME NEW b, IsBatch(b), NEW m \in 0..Len(b)
    PROVE  Concat(SubSeq(b, 1, m)) = Glue(b)[m]
<1>1. Len(b) \in Nat /\ \A k \in 1..Len(b) : b[k] \in Seq(Byte)
  BY LenProperties, ElementOfSeq DEF IsBatch
<1>2. PICK c : c = SubSeq(b, 1, m)
  OBVIOUS
<1>3. IsBatch(c) /\ Len(c) = m /\ \A k \in 1..m : c[k] = b[k]
  <2>1. \A k \in 1..m : b[k] \in Seq(Byte)
    BY <1>1
  <2> QED BY <1>1, <1>2, <2>1, SubSeqProperties DEF IsBatch
<1> DEFINE B == Glue(b)
           C == Glue(c)
           none == <<>>
           next(q, k) == q \o b[k]
           T == {k \in 0..m : C[k] = B[k]}
<1>4. m \in Nat /\ \A k \in 1..m : k \in 1..Len(b)
  BY <1>1
<1>5. /\ B[0] = none /\ C[0] = none /\ Concat(c) = C[m]
      /\ \A k \in 1..m : B[k] = next(B[k - 1], k) /\ C[k] = next(C[k - 1], k)
  <2>1. B[0] = <<>> /\ \A k \in 1..m : B[k] = B[k - 1] \o b[k]
    BY <1>4, GlueFacts
  <2>2. C[0] = <<>> /\ Concat(c) = C[m] /\ \A k \in 1..m : C[k] = C[k - 1] \o c[k]
    <3>1. /\ Concat(c) = Glue(c)[Len(c)] /\ Glue(c)[0] = <<>>
          /\ \A k \in 1..Len(c) : Glue(c)[k] = Glue(c)[k - 1] \o c[k]
      BY <1>3, GlueFacts, Zenon
    <3> QED BY <1>3, <3>1
  <2> QED BY <1>3, <2>1, <2>2
<1> HIDE DEF B, C, none, next
<1>6. 0 \in T
  BY <1>4, <1>5
<1>7. ASSUME NEW k \in 1..m, k - 1 \in T PROVE k \in T
  BY <1>4, <1>5, <1>7
<1>8. 0..m \subseteq T
  <2> HIDE DEF T
  <2> QED BY <1>4, <1>6, <1>7, StepInduction, Zenon
<1> QED BY <1>2, <1>4, <1>5, <1>8 DEF B

\* Sequence x is part of sequence q, from position off + 1 on.
HoldsAt(q, off, x) == off + Len(x) <= Len(q) /\ \A i \in 1..Len(x) : q[off + i] = x[i]

LEMMA HoldsJoin ==
    ASSUME NEW V, NEW q \in Seq(V), NEW r \in Seq(V)
    PROVE  /\ HoldsAt(q \o r, Len(q), r)
           /\ \A off \in Nat, x \in Seq(V) : HoldsAt(q, off, x) => HoldsAt(q \o r, off, x)
<1>1. PICK j : j = q \o r
  OBVIOUS
<1>2. PICK m, n, k : m = Len(q) /\ n = Len(r) /\ k = Len(j)
  OBVIOUS
<1>3. m \in Nat /\ n \in Nat
  BY <1>2, LenProperties
<1>4. k = m + n /\ \A i \in 1..(m + n) : j[i] = IF i <= m THEN q[i] ELSE r[i - m]
  BY <1>1, <1>2, ConcatProperties, Zenon
<1>5. \A i \in 1..n : j[m + i] = r[i]
  BY ONLY <1>3, <1>4
<1>6. m + n <= k
  BY ONLY <1>3, <1>4
<1>7. HoldsAt(j, m, r)
  BY <1>2, <1>5, <1>6, Zenon DEF HoldsAt
<1>8. ASSUME NEW off \in Nat, NEW x \in Seq(V), HoldsAt(q, off, x)
      PROVE  HoldsAt(j, off, x)
  <2>1. PICK l : l = Len(x)
    OBVIOUS
  <2>2. l \in Nat
    BY <2>1, LenProperties
  <2>3. off + l <= m /\ \A i \in 1..l : q[off + i] = x[i]
    BY <1>2, <1>8, <2>1, Zenon DEF HoldsAt
  <2>4. off + l <= k /\ \A i \in 1..l : j[off + i] = x[i]
    BY ONLY <1>3, <1>4, <2>2, <2>3, off \in Nat
  <2> QED BY <1>2, <2>1, <2>4, Zenon DEF HoldsAt
<1> QED BY <1>1, <1>2, <1>7, <1>8, Zenon

\* A payload's bytes are in the data buffer from its offset on.
Start(b, k) == Len(Concat(SubSeq(b, 1, k - 1)))

LEMMA ConcatPlace ==
    ASSUME NEW b, IsBatch(b), NEW k \in 1..Len(b)
    PROVE  Start(b, k) \in Nat /\ Concat(b) \in Seq(Byte) /\ HoldsAt(Concat(b), Start(b, k), b[k])
<1> DEFINE n == Len(b)
           g(j) == Glue(b)[j]
           off == Start(b, k)
           T == {m \in 0..n : m >= k => HoldsAt(g(m), off, b[k])}
<1>1. n \in Nat /\ \A j \in 1..n : b[j] \in Seq(Byte)
  BY LenProperties, ElementOfSeq DEF IsBatch
<1>2. /\ Concat(b) = g(n)
      /\ \A j \in 1..n : g(j) = g(j - 1) \o b[j]
      /\ \A j \in 0..n : g(j) \in Seq(Byte)
  BY GlueFacts
<1>3. k \in 1..n /\ k \in Nat /\ k > 0 /\ k - 1 \in 0..n
  BY <1>1
<1>4. off = Len(g(k - 1)) /\ off \in Nat
  <2>1. off = Len(g(k - 1))
    BY <1>3, GluePrefix, Zenon DEF Start
  <2> QED BY <1>2, <1>3, <2>1, LenProperties
<1> HIDE DEF n, g, off
<1>5. 0 \in T
  BY <1>1, <1>3
<1>6. ASSUME NEW m \in 1..n, m - 1 \in T PROVE m \in T
  <2>1. m - 1 \in 0..n /\ m \in 0..n /\ m \in Nat
    BY <1>1
  <2>2. CASE m = k
    <3>1. HoldsAt(g(m), off, b[k])
      BY <1>1, <1>2, <1>4, <2>1, <2>2, HoldsJoin, Zenon
    <3> QED BY <2>1, <3>1
  <2>3. CASE m > k
    <3>1. m - 1 >= k
      BY <1>3, <2>1, <2>3
    <3>2. HoldsAt(g(m - 1), off, b[k])
      BY <1>6, <3>1
    <3>3. b[k] \in Seq(Byte) /\ b[m] \in Seq(Byte) /\ g(m - 1) \in Seq(Byte)
      BY <1>1, <1>2, <1>3, <2>1, Zenon
    <3>4. HoldsAt(g(m - 1) \o b[m], off, b[k])
      BY <1>4, <3>2, <3>3, HoldsJoin, Zenon
    <3>5. HoldsAt(g(m), off, b[k])
      BY <1>2, <3>4, Zenon
    <3> QED BY <2>1, <3>5
  <2>4. CASE ~ (m >= k)
    BY <2>1, <2>4
  <2> QED BY <1>3, <2>1, <2>2, <2>3, <2>4
<1>7. 0..n \subseteq T
  <2> HIDE DEF T
  <2> QED BY <1>1, <1>5, <1>6, StepInduction, Zenon
<1>8. n \in 0..n /\ n >= k
  BY <1>1, <1>3
<1>9. HoldsAt(g(n), off, b[k])
  BY <1>7, <1>8
<1> QED BY <1>2, <1>4, <1>8, <1>9, Zenon DEF off

Payload == payloads[payload]

\* What the kernel reads, when the bytes of the batch can be numbered.
LEMMA InputFacts ==
    ASSUME InputOK, Len(data) <= Span
    PROVE  /\ threads \in Nat \ {0} /\ threads <= MaxGroup /\ 0 \in Group
           /\ Payload \in Seq(Byte) /\ Len(Payload) \in Nat /\ lengths[payload] = Len(Payload)
           /\ \A i \in Nat : i < Len(Payload) =>
                  data[((offsets[payload] + i) % Span) + 1] = Payload[i + 1]
<1> USE DEF InputOK
<1>1. threads \in Nat \ {0} /\ threads <= MaxGroup /\ 0 \in Group
  BY KernelAssumption DEF Group
<1>2. PICK b, k : b = payloads /\ k = payload
  OBVIOUS
<1>3. IsBatch(b) /\ k \in 1..Len(b) /\ Len(b[k]) + MaxGroup <= Span
  BY <1>2, KernelAssumption DEF IsBatch
<1>4. PICK x : x = b[k]
  OBVIOUS
<1>5. x \in Seq(Byte)
  BY <1>3, <1>4, ElementOfSeq DEF IsBatch
<1>6. PICK l, off, n : l = Len(x) /\ off = Start(b, k) /\ n = Len(data)
  OBVIOUS
<1>7. off \in Nat /\ HoldsAt(data, off, x) /\ data \in Seq(Byte)
  BY <1>2, <1>3, <1>4, <1>6, ConcatPlace
<1>8. l \in Nat /\ n \in Nat
  BY <1>5, <1>6, <1>7, LenProperties
<1>9. off + l <= n /\ \A i \in 1..l : data[off + i] = x[i]
  BY <1>6, <1>7, Zenon DEF HoldsAt
<1>10. Span \in Nat \ {0} /\ MaxGroup \in Nat \ {0} /\ l + MaxGroup <= Span /\ n <= Span
  BY <1>3, <1>4, <1>6, KernelAssumption
<1>11. lengths[payload] = l % Span /\ offsets[payload] = off % Span
  BY <1>2, <1>3, <1>4, <1>6, Zenon DEF Offset, Start
<1>12. l % Span = l
  BY ONLY <1>8, <1>10, ModFacts
<1>13. ASSUME NEW i \in Nat, i < l
       PROVE  data[(((off % Span) + i) % Span) + 1] = x[i + 1]
  <2>1. off < Span /\ off + i < Span /\ off + i \in Nat /\ i + 1 \in 1..l
    BY ONLY <1>7, <1>8, <1>9, <1>10, <1>13, i \in Nat
  <2>2. off % Span = off /\ (off + i) % Span = off + i
    BY ONLY <1>7, <1>10, <2>1, ModFacts
  <2>3. data[off + (i + 1)] = x[i + 1]
    BY <1>9, <2>1, Zenon
  <2>4. off + (i + 1) = (off + i) + 1
    BY ONLY <1>7, i \in Nat
  <2> QED BY <2>2, <2>3, <2>4, Zenon
<1>14. Payload = x
  BY <1>2, <1>4 DEF Payload
<1> QED BY <1>1, <1>5, <1>6, <1>8, <1>11, <1>12, <1>13, <1>14, Zenon

-----------------------------------------------------------------------------
(* Loops shared out between the threads                                    *)

\* Index i is behind the one of n threads that takes it, the threads being
\* at the indices f.
Passed(f, n, i) == i < f[i % n]

\* Thread t of n takes a turn of its loop, which brings f to g.
TakesTurn(n, f, t, g) ==
    /\ n \in Nat \ {0} /\ f \in [0..(n - 1) -> Nat] /\ t \in 0..(n - 1)
    /\ f[t] % n = t /\ g = [f EXCEPT ![t] = @ + n]

LEMMA PassedTurn ==
    ASSUME NEW n, NEW f, NEW t, NEW g, TakesTurn(n, f, t, g)
    PROVE  /\ g \in [0..(n - 1) -> Nat] /\ g[t] % n = t
           /\ ~ Passed(f, n, f[t])
           /\ \A i \in Nat : Passed(g, n, i) <=> (Passed(f, n, i) \/ i = f[t])
<1>0. /\ n \in Nat \ {0} /\ f \in [0..(n - 1) -> Nat] /\ t \in 0..(n - 1)
      /\ f[t] % n = t /\ g = [f EXCEPT ![t] = @ + n]
  BY DEF TakesTurn
<1>1. f[t] \in Nat /\ g[t] = f[t] + n /\ \A u \in (0..(n - 1)) \ {t} : g[u] = f[u]
  BY <1>0
<1>2. g \in [0..(n - 1) -> Nat]
  BY <1>0
<1>3. g[t] % n = t
  <2>1. n \in Nat \ {0} /\ f[t] \in Nat
    BY <1>0, <1>1
  <2>2. (f[t] + n) % n = f[t] % n
    BY <2>1, ModFacts, Zenon
  <2>3. g[t] = f[t] + n /\ f[t] % n = t
    BY <1>0, <1>1
  <2> QED BY <2>2, <2>3, Zenon
<1>4. ~ Passed(f, n, f[t])
  BY <1>0, <1>1 DEF Passed
<1>5. ASSUME NEW i \in Nat
      PROVE  Passed(g, n, i) <=> (Passed(f, n, i) \/ i = f[t])
  <2>1. PICK r \in 0..(n - 1) : r = i % n
    BY <1>0, ModFacts
  <2>2. CASE r = t
    <3>1. PICK a \in Nat : a = f[t]
      BY <1>1
    <3>2. i % n = a % n
      BY <1>0, <2>1, <2>2, <3>1
    <3>3. ASSUME i < a + n, ~ (i < a) PROVE i = a
      <4>1. a <= i
        BY <3>3
      <4> QED BY <1>0, <3>2, <3>3, <4>1, ModClose
    <3>4. Passed(g, n, i) <=> i < a + n
      BY <1>1, <2>1, <2>2, <3>1, Zenon DEF Passed
    <3>5. Passed(f, n, i) <=> i < a
      BY <2>1, <2>2, <3>1, Zenon DEF Passed
    <3>6. i < a + n <=> (i < a \/ i = a)
      BY ONLY <1>0, <3>3, a \in Nat, i \in Nat
    <3> QED BY <3>1, <3>4, <3>5, <3>6
  <2>3. CASE r # t
    <3>1. i # f[t]
      BY <1>0, <2>1, <2>3
    <3> QED BY <1>1, <2>1, <2>3, <3>1 DEF Passed
  <2> QED BY <2>2, <2>3
<1> QED BY <1>2, <1>3, <1>4, <1>5

LEMMA PassedEnds ==
    ASSUME NEW n \in Nat \ {0}, NEW f \in [0..(n - 1) -> Nat]
    PROVE  /\ f = [t \in 0..(n - 1) |-> t] =>
                  (\A t \in 0..(n - 1) : f[t] % n = t) /\ \A i \in Nat : ~ Passed(f, n, i)
           /\ \A m \in Nat : (\A t \in 0..(n - 1) : f[t] >= m) =>
                  \A i \in Nat : i < m => Passed(f, n, i)
<1>1. \A i \in Nat : i % n \in 0..(n - 1) /\ i % n <= i
  BY ModFacts
<1>2. ASSUME NEW t \in 0..(n - 1) PROVE t % n = t
  <2>1. t \in Nat /\ t < n
    OBVIOUS
  <2> QED BY <2>1, ModFacts
<1>3. ASSUME f = [t \in 0..(n - 1) |-> t], NEW i \in Nat
      PROVE  ~ Passed(f, n, i)
  <2>1. PICK r \in 0..(n - 1) : r = i % n /\ r <= i /\ r % n = r
    BY <1>1, <1>2
  <2>2. f[r] = r
    BY <1>3
  <2>3. ~ (i < r)
    BY <2>1
  <2> QED BY <2>1, <2>2, <2>3, Zenon DEF Passed
<1>4. ASSUME NEW m \in Nat, \A t \in 0..(n - 1) : f[t] >= m, NEW i \in Nat, i < m
      PROVE  Passed(f, n, i)
  <2>1. PICK r \in 0..(n - 1) : r = i % n
    BY <1>1
  <2>2. f[r] >= m /\ f[r] \in Nat
    BY <1>4
  <2>3. i < f[r]
    BY <1>4, <2>2
  <2> QED BY <2>1, <2>3 DEF Passed
<1>5. f = [t \in 0..(n - 1) |-> t] => \A t \in 0..(n - 1) : f[t] % n = t
  BY <1>2
<1> QED BY <1>3, <1>4, <1>5

-----------------------------------------------------------------------------
(* Counts and terms                                                        *)

\* The positions of byte b that the threads have passed.
Seen(p, f, n, b) == {i \in DOMAIN p : p[i] = b /\ Passed(f, n, i - 1)}

LEMMA CountNat ==
    ASSUME NEW p \in Seq(Byte), NEW b, NEW f, NEW n
    PROVE  /\ IsFiniteSet(Seen(p, f, n, b)) /\ Cardinality(Seen(p, f, n, b)) \in Nat
           /\ CountOf(p, b) \in Nat
           /\ CountOf(p, b) > 0 <=> \E i \in DOMAIN p : p[i] = b
<1>1. IsFiniteSet(DOMAIN p)
  <2>1. PICK l \in Nat : DOMAIN p = 1..l
    BY LenProperties
  <2> QED BY <2>1, FS_Interval
<1> DEFINE A == {i \in DOMAIN p : p[i] = b}
<1>2. IsFiniteSet(A) /\ IsFiniteSet(Seen(p, f, n, b))
  <2>1. A \in SUBSET DOMAIN p /\ Seen(p, f, n, b) \in SUBSET DOMAIN p
    BY DEF Seen
  <2> HIDE DEF A
  <2> QED BY <1>1, <2>1, FS_Subset, Zenon
<1>3. Cardinality(A) \in Nat /\ Cardinality(Seen(p, f, n, b)) \in Nat
  <2> HIDE DEF A
  <2> QED BY <1>2, FS_CardinalityType
<1>4. Cardinality(A) = 0 <=> A = {}
  <2> HIDE DEF A
  <2> QED BY <1>2, FS_EmptySet, Zenon
<1>5. A = {} <=> ~ \E i \in DOMAIN p : p[i] = b
  BY Zenon
<1>6. CountOf(p, b) = Cardinality(A)
  BY DEF CountOf
<1> HIDE DEF A
<1>7. Cardinality(A) > 0 <=> A # {}
  BY ONLY <1>3, <1>4
<1> QED BY <1>2, <1>3, <1>5, <1>6, <1>7, Zenon

\* A thread counts the byte it is at.
LEMMA SeenTurn ==
    ASSUME NEW p \in Seq(Byte), NEW n, NEW f, NEW t, NEW g, TakesTurn(n, f, t, g),
           f[t] < Len(p), NEW b
    PROVE  Cardinality(Seen(p, g, n, b)) =
               Cardinality(Seen(p, f, n, b)) + (IF p[f[t] + 1] = b THEN 1 ELSE 0)
<1>1. PICK a \in Nat : a = f[t]
  BY DEF TakesTurn
<1>2. PICK l \in Nat : l = Len(p) /\ DOMAIN p = 1..l
  BY LenProperties
<1>3. ~ Passed(f, n, a) /\ \A i \in Nat : Passed(g, n, i) <=> (Passed(f, n, i) \/ i = a)
  <2>1. /\ ~ Passed(f, n, f[t])
        /\ \A i \in Nat : Passed(g, n, i) <=> (Passed(f, n, i) \/ i = f[t])
    BY PassedTurn, Zenon
  <2> QED BY <1>1, <2>1, Zenon
<1>4. /\ a + 1 \in DOMAIN p /\ (a + 1) - 1 = a
      /\ \A i \in DOMAIN p : i - 1 \in Nat /\ (i - 1 = a <=> i = a + 1)
  <2>1. a < l
    BY <1>1, <1>2
  <2>2. /\ a + 1 \in 1..l /\ (a + 1) - 1 = a
        /\ \A i \in 1..l : i - 1 \in Nat /\ (i - 1 = a <=> i = a + 1)
    BY ONLY <2>1, a \in Nat, l \in Nat
  <2> QED BY <1>2, <2>2, Zenon
<1> DEFINE A == Seen(p, f, n, b)
           B == Seen(p, g, n, b)
<1>5. IsFiniteSet(A) /\ Cardinality(A) \in Nat
  BY CountNat
<1>6. a + 1 \notin A
  BY <1>3, <1>4, Zenon DEF Seen
<1>7. CASE p[a + 1] = b
  <2>1. B = A \cup {a + 1}
    BY <1>3, <1>4, <1>7, Zenon DEF Seen
  <2>2. Cardinality(B) = Cardinality(A) + 1
    <3> HIDE DEF A, B
    <3> QED BY <1>5, <1>6, <2>1, FS_AddElement, Zenon
  <2> QED BY <1>1, <1>7, <2>2
<1>8. CASE p[a + 1] # b
  <2>1. B = A
    BY <1>3, <1>4, <1>8, Zenon DEF Seen
  <2> QED BY <1>1, <1>5, <1>8, <2>1
<1> QED BY <1>7, <1>8

\* Bags of different things join into the bag of them all.
LEMMA BagsJoin ==
    ASSUME NEW A, NEW B, A \cap B = {}
    PROVE  SetToBag(A) (+) SetToBag(B) = SetToBag(A \cup B)
BY DEF SetToBag, (+)

\* The terms of the bins in S, and of those with remainder t.
Terms(p, S) == {<<b, CountOf(p, b)>> : b \in {x \in S : CountOf(p, x) > 0}}
Share(p, t, width) == Terms(p, {b \in Byte : b % width = t})

LEMMA TermsJoin ==
    ASSUME NEW p, NEW S, NEW R, S \cap R = {}
    PROVE  SetToBag(Terms(p, S)) (+) SetToBag(Terms(p, R)) = SetToBag(Terms(p, S \cup R))
<1>1. Terms(p, S) \cap Terms(p, R) = {}
  BY DEF Terms
<1>2. Terms(p, S) \cup Terms(p, R) = Terms(p, S \cup R)
  BY DEF Terms
<1> QED BY <1>1, <1>2, BagsJoin

\* The bins behind thread t in the adding loop.
Behind(f, n, t) == {b \in Byte : b % n = t /\ Passed(f, n, b)}

\* A thread adds the term of the bin it is at, if there is one.
LEMMA TermsTurn ==
    ASSUME NEW p \in Seq(Byte), NEW n, NEW f, NEW t, NEW g, TakesTurn(n, f, t, g),
           f[t] \in Byte
    PROVE  /\ SetToBag(Terms(p, Behind(f, n, t))) (+) Term(f[t], CountOf(p, f[t]))
                  = SetToBag(Terms(p, Behind(g, n, t)))
           /\ \A u \in (0..(n - 1)) \ {t} : Behind(g, n, u) = Behind(f, n, u)
<1>1. PICK a \in Nat : a = f[t] /\ a \in Byte
  <2>1. f[t] \in Nat
    BY DEF TakesTurn
  <2> QED BY <2>1, Zenon
<1>2. Byte \subseteq Nat
  BY KernelAssumption DEF Byte
<1>3. ~ Passed(f, n, a) /\ \A i \in Nat : Passed(g, n, i) <=> (Passed(f, n, i) \/ i = a)
  <2>1. /\ ~ Passed(f, n, f[t])
        /\ \A i \in Nat : Passed(g, n, i) <=> (Passed(f, n, i) \/ i = f[t])
    BY PassedTurn, Zenon
  <2> QED BY <1>1, <2>1, Zenon
<1>4. Term(a, CountOf(p, a)) = SetToBag(Terms(p, {a}))
  <2>1. CASE CountOf(p, a) > 0
    <3>1. Terms(p, {a}) = {<<a, CountOf(p, a)>>}
      BY <2>1 DEF Terms
    <3> QED BY <2>1, <3>1 DEF Term
  <2>2. CASE ~ (CountOf(p, a) > 0)
    <3>1. Terms(p, {a}) = {}
      BY <2>2 DEF Terms
    <3> QED BY <2>2, <3>1 DEF Term, EmptyBag
  <2> QED BY <2>1, <2>2
<1>5. Behind(f, n, t) \cap {a} = {} /\ Behind(f, n, t) \cup {a} = Behind(g, n, t)
  <2>1. a % n = t
    BY <1>1 DEF TakesTurn
  <2> QED BY <1>1, <1>2, <1>3, <2>1, Zenon DEF Behind
<1>6. ASSUME NEW u \in (0..(n - 1)) \ {t} PROVE Behind(g, n, u) = Behind(f, n, u)
  <2>1. a % n = t
    BY <1>1 DEF TakesTurn
  <2> QED BY <1>2, <1>3, <2>1, Zenon DEF Behind
<1>7. SetToBag(Terms(p, Behind(f, n, t))) (+) SetToBag(Terms(p, {a}))
          = SetToBag(Terms(p, Behind(f, n, t) \cup {a}))
  BY <1>5, TermsJoin, Zenon
<1>8. SetToBag(Terms(p, Behind(f, n, t))) (+) Term(a, CountOf(p, a))
          = SetToBag(Terms(p, Behind(g, n, t)))
  BY <1>4, <1>5, <1>7, Zenon
<1> QED BY <1>1, <1>6, <1>8, Zenon

\* A reduction step joins two shares.
LEMMA ShareJoin ==
    ASSUME NEW p, NEW s \in Nat \ {0}, NEW t \in 0..(s - 1)
    PROVE  SetToBag(Share(p, t, 2 * s)) (+) SetToBag(Share(p, t + s, 2 * s))
               = SetToBag(Share(p, t, s))
<1> DEFINE S == {b \in Byte : b % (2 * s) = t}
           R == {b \in Byte : b % (2 * s) = t + s}
<1>1. Byte \subseteq Nat
  BY KernelAssumption DEF Byte
<1>2. S \cap R = {}
  <2>1. t # t + s
    OBVIOUS
  <2> QED BY <2>1, Zenon
<1>3. \A b \in Nat : b % s = t <=> (b % (2 * s) = t \/ b % (2 * s) = t + s)
  BY ModHalf
<1>4. S \cup R = {b \in Byte : b % s = t}
  BY <1>1, <1>3, Zenon
<1> HIDE DEF S, R
<1>5. SetToBag(Terms(p, S)) (+) SetToBag(Terms(p, R)) = SetToBag(Terms(p, S \cup R))
  BY <1>2, TermsJoin
<1> QED BY <1>4, <1>5, Zenon DEF S, R, Share

\* All bins together are what shannon_entropy() adds up.
LEMMA ShareAll ==
    ASSUME NEW p \in Seq(Byte)
    PROVE  SetToBag(Share(p, 0, 1)) = shannon_entropy(p)
<1>1. {b \in Byte : b % 1 = 0} = Byte
  <2>1. \A b \in Nat : b % 1 = 0
    OBVIOUS
  <2>2. Byte \subseteq Nat
    BY KernelAssumption DEF Byte
  <2> QED BY <2>1, <2>2, Zenon
<1>2. {p[i] : i \in DOMAIN p} = {b \in Byte : CountOf(p, b) > 0}
  <2>1. \A i \in DOMAIN p : p[i] \in Byte
    BY LenProperties
  <2>2. \A b \in Byte : CountOf(p, b) > 0 <=> \E i \in DOMAIN p : p[i] = b
    BY CountNat
  <2> QED BY <2>1, <2>2, Zenon
<1> QED BY <1>1, <1>2, Zenon DEF Share, Terms, shannon_entropy

-----------------------------------------------------------------------------
(* What the group has computed                                             *)

Columns == \A t \in Group : idx[t] % threads = t

InPhase(P) == \A t \in Group : pc[t] \in P
FirstStride == \A t \in Group : stride[t] = threads \div 2
NothingSummed == \A t \in Group : sum[t] = EmptyBag

\* The bins the threads passed are clear.
ClearPhase ==
    /\ InPhase({"clear", "cleared"}) /\ FirstStride /\ NothingSummed
    /\ histogram \in [Byte -> Nat]
    /\ \A b \in Byte : Passed(idx, threads, b) => histogram[b] = 0
    /\ \A t \in Group : pc[t] = "cleared" => idx[t] >= Bins

\* The bytes the threads passed are counted.
CountPhase ==
    /\ InPhase({"count", "counted"}) /\ FirstStride /\ NothingSummed
    /\ histogram = [b \in Byte |-> Cardinality(Seen(Payload, idx, threads, b))]
    /\ \A t \in Group : pc[t] = "counted" => idx[t] >= Len(Payload)

\* Each thread sums the terms of its bins.
Summed(t, p) ==
    /\ pc[t] = "add" => sum[t] = SetToBag(Terms(p, Behind(idx, threads, t)))
    /\ pc[t] # "add" => sum[t] = SetToBag(Share(p, t, threads))
    /\ pc[t] = "stored" => partial[t] = sum[t]
AddPhase ==
    /\ InPhase({"add", "store", "stored"}) /\ FirstStride
    /\ histogram = [b \in Byte |-> CountOf(Payload, b)]
    /\ \A t \in Group : Summed(t, Payload)

\* The partial sums below the width hold all terms between them: at the
\* width before a thread's turn of the reduction, at the stride after it.
Width(s) == IF s = 0 THEN 1 ELSE 2 * s
Reduced(t, p) ==
    /\ Width(stride[t]) <= threads /\ (stride[t] = 0 \/ PowerOfTwo(stride[t]))
    /\ t < Width(stride[t]) =>
           partial[t] = SetToBag(Share(p, t, IF pc[t] = "reduced" /\ t < stride[t]
                                             THEN stride[t] ELSE Width(stride[t])))
ReducePhase ==
    /\ InPhase({"reduce", "reduced", "done"})
    /\ \A t \in Group : Reduced(t, Payload)
    /\ pc[0] = "done" => entropy = SetToBag(Share(Payload, 0, 1))

Computed == Columns /\ (ClearPhase \/ CountPhase \/ AddPhase \/ ReducePhase)
ResultInv == Len(data) <= Span => Computed

\* What every step of a thread leaves alone.
LEMMA Frame ==
    ASSUME GroupInv, NEW t \in Group, ThreadStep(t)
    PROVE  /\ threads' = threads /\ Group' = Group /\ Payload' = Payload /\ stride' = stride
           /\ FirstStride => FirstStride'
           /\ \A u \in Group \ {t} : pc'[u] = pc[u] /\ idx'[u] = idx[u] /\ sum'[u] = sum[u]
           /\ \A P \in Phases : InPhase(P) => InPhase(P)'
<1>1. /\ UNCHANGED inputVars /\ stride' = stride
      /\ \A u \in Group \ {t} : pc'[u] = pc[u] /\ idx'[u] = idx[u] /\ sum'[u] = sum[u]
      /\ \A P \in Phases : pc[t] \in P => pc'[t] \in P
  BY ThreadMoves
<1>2. threads' = threads /\ Group' = Group /\ Payload' = Payload
  BY <1>1 DEF inputVars, Group, Payload
<1>3. FirstStride => FirstStride'
  BY <1>1, <1>2 DEF FirstStride
<1>4. ASSUME NEW P \in Phases, InPhase(P) PROVE InPhase(P)'
  BY <1>1, <1>2, <1>4 DEF InPhase
<1> QED BY <1>1, <1>2, <1>3, <1>4

\* The phase a thread's label tells.
LEMMA PhaseTold ==
    ASSUME Computed, NEW t \in Group
    PROVE  /\ pc[t] \in {"clear", "cleared"} => ClearPhase
           /\ pc[t] \in {"count", "counted"} => CountPhase
           /\ pc[t] \in {"add", "store", "stored"} => AddPhase
           /\ pc[t] \in {"reduce", "reduced", "done"} => ReducePhase
<1>1. /\ ClearPhase => pc[t] \in {"clear", "cleared"}
      /\ CountPhase => pc[t] \in {"count", "counted"}
      /\ AddPhase => pc[t] \in {"add", "store", "stored"}
      /\ ReducePhase => pc[t] \in {"reduce", "reduced", "done"}
  BY DEF ClearPhase, CountPhase, AddPhase, ReducePhase, InPhase
<1> QED BY <1>1 DEF Computed

\* A turn of a loop.
LEMMA LoopTurn ==
    ASSUME GroupInv, Columns, NEW t \in Group, ThreadStep(t), NEW label, NEW bound,
           Turn(t, label, bound)
    PROVE  /\ TakesTurn(threads, idx, t, idx') /\ Columns'
           /\ idx[t] \in Nat /\ idx'[t] >= idx[t] /\ idx[t] < bound /\ pc[t] = label
<1>1. threads \in Nat \ {0} /\ idx \in [Group -> Nat]
  BY DEF GroupInv, InputOK, ThreadsOK
<1>2. TakesTurn(threads, idx, t, idx')
  BY <1>1 DEF TakesTurn, Turn, Columns, Group
<1>3. idx'[t] % threads = t
  BY <1>2, PassedTurn
<1>4. Columns'
  BY <1>3, Frame DEF Columns
<1>5. idx[t] \in Nat /\ idx'[t] >= idx[t]
  BY <1>1 DEF Turn
<1> QED BY <1>2, <1>4, <1>5 DEF Turn

\* The end of a loop.
LEMMA LoopEnded ==
    ASSUME GroupInv, Columns, NEW t \in Group, ThreadStep(t),
           NEW label, NEW bound, NEW next, LoopEnd(t, label, bound, next)
    PROVE  /\ pc[t] = label /\ pc'[t] = next /\ idx[t] >= bound /\ Columns'
           /\ UNCHANGED <<idx, sum, stride, histogram, partial, entropy>>
<1>1. pc[t] = label /\ pc'[t] = next /\ idx[t] >= bound
  BY DEF LoopEnd, Goto, GroupInv, ThreadsOK
<1>2. UNCHANGED <<idx, sum, stride, histogram, partial, entropy>>
  BY DEF LoopEnd, groupVars
<1>3. Columns'
  BY <1>2, Frame DEF Columns
<1> QED BY <1>1, <1>2, <1>3

LEMMA ClearStep ==
    ASSUME GroupInv, Computed, NEW t \in Group, ThreadStep(t),
           Clear(t) \/ LoopEnd(t, "clear", Bins, "cleared")
    PROVE  Computed'
<1>0. Columns
  BY DEF Computed
<1>1. CASE Clear(t)
  <2>1. /\ TakesTurn(threads, idx, t, idx') /\ Columns'
        /\ idx[t] \in Nat /\ idx'[t] >= idx[t] /\ idx[t] < Bins /\ pc[t] = "clear"
    BY <1>0, <1>1, LoopTurn DEF Clear
  <2>2. /\ InPhase({"clear", "cleared"}) /\ FirstStride /\ NothingSummed
        /\ histogram \in [Byte -> Nat]
        /\ \A b \in Byte : Passed(idx, threads, b) => histogram[b] = 0
        /\ \A u \in Group : pc[u] = "cleared" => idx[u] >= Bins
    BY <2>1, PhaseTold DEF ClearPhase
  <2>3. pc' = pc /\ sum' = sum /\ histogram' = [histogram EXCEPT ![idx[t]] = 0]
    BY <1>1 DEF Clear
  <2>4. InPhase({"clear", "cleared"})' /\ FirstStride' /\ NothingSummed'
    <3>1. {"clear", "cleared"} \in Phases
      BY DEF Phases
    <3> QED BY <2>2, <2>3, <3>1, Frame DEF NothingSummed
  <2>5. idx[t] \in Byte
    BY <2>1, KernelAssumption DEF Byte
  <2>6. ASSUME NEW b \in Byte, Passed(idx', threads, b) PROVE histogram'[b] = 0
    <3>1. b \in Nat
      BY KernelAssumption DEF Byte
    <3>2. Passed(idx, threads, b) \/ b = idx[t]
      BY <2>1, <2>6, <3>1, PassedTurn, Zenon
    <3> QED BY <2>2, <2>3, <3>2
  <2>7. \A u \in Group : pc'[u] = "cleared" => idx'[u] >= Bins
    BY <2>1, <2>2, <2>3, Frame
  <2>8. histogram' \in [Byte -> Nat]
    BY <2>2, <2>3
  <2>9. ClearPhase'
    BY <2>4, <2>6, <2>7, <2>8, Frame DEF ClearPhase
  <2> QED BY <2>1, <2>9 DEF Computed
<1>2. CASE LoopEnd(t, "clear", Bins, "cleared")
  <2>1. /\ pc[t] = "clear" /\ pc'[t] = "cleared" /\ idx[t] >= Bins /\ Columns'
        /\ UNCHANGED <<idx, sum, stride, histogram>>
    BY <1>0, <1>2, LoopEnded
  <2>2. ClearPhase
    BY <2>1, PhaseTold
  <2>3. InPhase({"clear", "cleared"})' /\ FirstStride'
    <3>1. {"clear", "cleared"} \in Phases
      BY DEF Phases
    <3> QED BY <2>2, <3>1, Frame DEF ClearPhase
  <2>4. ClearPhase'
    BY <2>1, <2>2, <2>3, Frame DEF ClearPhase, NothingSummed
  <2> QED BY <2>1, <2>4 DEF Computed
<1> QED BY <1>1, <1>2

LEMMA CountStep ==
    ASSUME GroupInv, Len(data) <= Span, Computed, NEW t \in Group, ThreadStep(t),
           Count(t) \/ LoopEnd(t, "count", lengths[payload], "counted")
    PROVE  Computed'
<1>0. Columns /\ InputOK
  BY DEF Computed, GroupInv
<1>1. PICK p : p = Payload /\ p = Payload'
  BY Frame
<1>2. /\ p \in Seq(Byte) /\ Len(p) \in Nat /\ lengths[payload] = Len(p)
      /\ \A i \in Nat : i < Len(p) =>
             data[((offsets[payload] + i) % Span) + 1] = p[i + 1]
  <2>1. p = Payload
    BY <1>1
  <2>2. /\ Payload \in Seq(Byte) /\ Len(Payload) \in Nat /\ lengths[payload] = Len(Payload)
        /\ \A i \in Nat : i < Len(Payload) =>
               data[((offsets[payload] + i) % Span) + 1] = Payload[i + 1]
    BY <1>0, InputFacts
  <2> QED BY ONLY <2>1, <2>2, Zenon
<1>3. {"count", "counted"} \in Phases
  BY DEF Phases
<1>4. CASE Count(t)
  <2>1. /\ TakesTurn(threads, idx, t, idx') /\ Columns'
        /\ idx[t] \in Nat /\ idx'[t] >= idx[t] /\ idx[t] < lengths[payload] /\ pc[t] = "count"
    BY <1>0, <1>4, LoopTurn DEF Count
  <2>2. CountPhase
    BY <2>1, PhaseTold
  <2>3. PICK a : a = p[idx[t] + 1]
    OBVIOUS
  <2>4. idx[t] < Len(p) /\ a \in Byte
    <3>1. idx[t] < Len(p)
      BY <1>2, <2>1
    <3>2. idx[t] + 1 \in 1..Len(p)
      BY <1>2, <2>1, <3>1
    <3> QED BY <1>2, <2>3, <3>1, <3>2, ElementOfSeq
  <2>5. pc' = pc /\ sum' = sum /\ histogram' = [histogram EXCEPT ![a] = @ + 1]
    <3>1. data[((offsets[payload] + idx[t]) % Span) + 1] = a
      BY <1>2, <2>1, <2>3, <2>4, Zenon
    <3> QED BY <1>4, <3>1, Zenon DEF Count
  <2>6. InPhase({"count", "counted"})' /\ FirstStride' /\ NothingSummed'
    BY <1>3, <2>2, <2>5, Frame DEF CountPhase, NothingSummed
  <2>7. \A u \in Group : pc'[u] = "counted" => idx'[u] >= Len(p)
    BY <1>1, <2>1, <2>2, <2>5, Frame DEF CountPhase
  <2>8. ASSUME NEW b \in Byte
        PROVE  histogram'[b] = Cardinality(Seen(p, idx', threads, b))
    <3>1. PICK c : c = Cardinality(Seen(p, idx, threads, b))
      OBVIOUS
    <3>2. c \in Nat /\ histogram[b] = c
      BY <1>1, <1>2, <2>2, <3>1, CountNat DEF CountPhase
    <3>3. Cardinality(Seen(p, idx', threads, b)) = c + (IF a = b THEN 1 ELSE 0)
      <4>1. PICK n, f, g : n = threads /\ f = idx /\ g = idx'
        OBVIOUS
      <4>2. TakesTurn(n, f, t, g) /\ f[t] < Len(p) /\ a = p[f[t] + 1]
        BY <2>1, <2>3, <2>4, <4>1, Zenon
      <4>3. Cardinality(Seen(p, g, n, b)) =
                Cardinality(Seen(p, f, n, b)) + (IF p[f[t] + 1] = b THEN 1 ELSE 0)
        BY <1>2, <4>2, SeenTurn
      <4> QED BY <3>1, <4>1, <4>2, <4>3, Zenon
    <3>4. histogram'[b] = IF a = b THEN c + 1 ELSE c
      BY <2>2, <2>4, <2>5, <3>2 DEF CountPhase
    <3> QED BY <3>2, <3>3, <3>4
  <2>9. histogram' = [b \in Byte |-> Cardinality(Seen(p, idx', threads, b))]
    <3>1. histogram' = [b \in Byte |-> histogram'[b]]
      BY <2>2, <2>5 DEF CountPhase
    <3> QED BY <2>8, <3>1, Zenon
  <2>10. CountPhase'
    BY <1>1, <2>6, <2>7, <2>9, Frame DEF CountPhase
  <2> QED BY <2>1, <2>10 DEF Computed
<1>5. CASE LoopEnd(t, "count", lengths[payload], "counted")
  <2>1. /\ pc[t] = "count" /\ pc'[t] = "counted" /\ idx[t] >= Len(p) /\ Columns'
        /\ UNCHANGED <<idx, sum, stride, histogram>>
    BY <1>0, <1>2, <1>5, LoopEnded
  <2>2. CountPhase
    BY <2>1, PhaseTold
  <2>3. InPhase({"count", "counted"})' /\ FirstStride' /\ NothingSummed'
    BY <1>3, <2>1, <2>2, Frame DEF CountPhase, NothingSummed
  <2>4. \A u \in Group : pc'[u] = "counted" => idx'[u] >= Len(p)
    BY <1>1, <2>1, <2>2, Frame DEF CountPhase
  <2>5. histogram' = [b \in Byte |-> Cardinality(Seen(Payload', idx', threads', b))]
    BY <2>1, <2>2, Frame DEF CountPhase
  <2>6. CountPhase'
    BY <1>1, <2>3, <2>4, <2>5, Frame DEF CountPhase
  <2> QED BY <2>1, <2>6 DEF Computed
<1> QED BY <1>4, <1>5

\* The terms behind a thread at the end of its loop are all of its share.
LEMMA ShareComplete ==
    ASSUME NEW p \in Seq(Byte), NEW n, NEW f, NEW t,
           f[t] >= (IF Len(p) > 0 THEN Bins ELSE 0), f[t] \in Nat
    PROVE  Terms(p, Behind(f, n, t)) = Share(p, t, n)
<1>1. CASE Len(p) > 0
  <2>1. \A b \in Byte : b < f[t]
    BY <1>1, KernelAssumption DEF Byte
  <2>2. Behind(f, n, t) = {b \in Byte : b % n = t}
    BY <2>1, Zenon DEF Behind, Passed
  <2> QED BY <2>2 DEF Share
<1>2. CASE ~ (Len(p) > 0)
  <2>1. DOMAIN p = {}
    BY <1>2, LenProperties
  <2>2. \A b : ~ (CountOf(p, b) > 0)
    BY <2>1, CountNat, Zenon
  <2> QED BY <2>2, Zenon DEF Share, Terms
<1> QED BY <1>1, <1>2

LEMMA AddStep ==
    ASSUME GroupInv, Len(data) <= Span, Computed, NEW t \in Group, ThreadStep(t),
           \/ Add(t) \/ LoopEnd(t, "add", IF lengths[payload] > 0 THEN Bins ELSE 0, "store")
           \/ Store(t)
    PROVE  Computed'
<1>0. Columns /\ InputOK
  BY DEF Computed, GroupInv
<1>1. PICK p : p = Payload /\ p = Payload'
  BY Frame
<1>2. p \in Seq(Byte) /\ Len(p) \in Nat /\ lengths[payload] = Len(p)
  BY <1>0, <1>1, InputFacts, Zenon
<1>3. {"add", "store", "stored"} \in Phases
  BY DEF Phases
<1>4. pc[t] \in {"add", "store"}
  BY DEF Add, LoopEnd, Store, Turn
<1>5. /\ InPhase({"add", "store", "stored"}) /\ FirstStride
      /\ histogram = [b \in Byte |-> CountOf(p, b)]
      /\ \A u \in Group : Summed(u, p)
  BY <1>1, <1>4, PhaseTold DEF AddPhase
<1>6. InPhase({"add", "store", "stored"})' /\ FirstStride'
  BY <1>3, <1>5, Frame
<1>7. histogram' = histogram
  BY DEF Add, LoopEnd, Store, groupVars
<1>8. SUFFICES Columns' /\ \A u \in Group : Summed(u, p)'
  BY <1>1, <1>5, <1>6, <1>7, Frame DEF Computed, AddPhase, Summed
<1>9. CASE Add(t)
  <2>1. /\ TakesTurn(threads, idx, t, idx') /\ Columns'
        /\ idx[t] \in Nat /\ pc[t] = "add"
        /\ idx[t] < (IF lengths[payload] > 0 THEN Bins ELSE 0)
    BY <1>0, <1>9, LoopTurn DEF Add
  <2>2. idx[t] \in Byte
    BY <2>1, KernelAssumption DEF Byte
  <2>3. pc' = pc /\ partial' = partial /\ sum'[t] = sum[t] (+) Term(idx[t], histogram[idx[t]])
    BY <1>9 DEF Add, groupVars, GroupInv, ThreadsOK
  <2>4. /\ SetToBag(Terms(p, Behind(idx, threads, t))) (+) Term(idx[t], CountOf(p, idx[t]))
               = SetToBag(Terms(p, Behind(idx', threads, t)))
        /\ \A u \in (0..(threads - 1)) \ {t} :
               Behind(idx', threads, u) = Behind(idx, threads, u)
    <3>1. PICK n, f, g : n = threads /\ f = idx /\ g = idx'
      OBVIOUS
    <3>2. TakesTurn(n, f, t, g) /\ f[t] \in Byte
      BY <2>1, <2>2, <3>1, Zenon
    <3>3. /\ SetToBag(Terms(p, Behind(f, n, t))) (+) Term(f[t], CountOf(p, f[t]))
                 = SetToBag(Terms(p, Behind(g, n, t)))
          /\ \A u \in (0..(n - 1)) \ {t} : Behind(g, n, u) = Behind(f, n, u)
      BY <1>2, <3>2, TermsTurn
    <3> QED BY <3>1, <3>3, Zenon
  <2>5. sum'[t] = SetToBag(Terms(p, Behind(idx', threads, t)))
    <3>1. histogram[idx[t]] = CountOf(p, idx[t])
      BY <1>5, <2>2
    <3>2. sum[t] = SetToBag(Terms(p, Behind(idx, threads, t)))
      BY <1>5, <2>1 DEF Summed
    <3> QED BY <2>3, <2>4, <3>1, <3>2, Zenon
  <2>6. Summed(t, p)'
    BY <2>1, <2>3, <2>5, Frame DEF Summed
  <2>7. ASSUME NEW u \in Group \ {t} PROVE Summed(u, p)'
    <3>1. Behind(idx', threads, u) = Behind(idx, threads, u)
      BY <2>4 DEF Group
    <3>2. Summed(u, p) /\ sum'[u] = sum[u] /\ pc'[u] = pc[u] /\ threads' = threads
      BY <1>5, Frame
    <3> QED BY <2>3, <3>1, <3>2 DEF Summed
  <2> QED BY <2>1, <2>6, <2>7
<1>10. CASE LoopEnd(t, "add", IF lengths[payload] > 0 THEN Bins ELSE 0, "store")
  <2>1. /\ pc[t] = "add" /\ pc'[t] = "store" /\ Columns'
        /\ idx[t] >= (IF Len(p) > 0 THEN Bins ELSE 0)
        /\ UNCHANGED <<idx, sum, partial>>
    BY <1>0, <1>2, <1>10, LoopEnded
  <2>2. sum[t] = SetToBag(Terms(p, Behind(idx, threads, t)))
    BY <1>5, <2>1 DEF Summed
  <2>3. idx[t] \in Nat
    BY DEF GroupInv, ThreadsOK
  <2>4. Terms(p, Behind(idx, threads, t)) = Share(p, t, threads)
    BY <1>2, <2>1, <2>3, ShareComplete
  <2>5. Summed(t, p)'
    BY <2>1, <2>2, <2>4, Frame DEF Summed
  <2>6. ASSUME NEW u \in Group \ {t} PROVE Summed(u, p)'
    BY <1>5, <2>1, Frame DEF Summed
  <2> QED BY <2>1, <2>5, <2>6
<1>11. CASE Store(t)
  <2>1. /\ pc[t] = "store" /\ pc'[t] = "stored" /\ idx' = idx /\ sum' = sum
        /\ partial' = [partial EXCEPT ![t] = sum[t]]
    BY <1>11 DEF Store, Goto, GroupInv, ThreadsOK
  <2>2. t \in DOMAIN partial
    BY KernelAssumption DEF GroupInv, ThreadsOK, InputOK, Group
  <2>3. Columns'
    BY <1>0, <2>1, Frame DEF Columns
  <2>4. Summed(t, p)'
    BY <1>5, <2>1, <2>2, Frame DEF Summed
  <2>5. ASSUME NEW u \in Group \ {t} PROVE Summed(u, p)'
    <3>1. partial'[u] = partial[u]
      BY <2>1, KernelAssumption DEF GroupInv, ThreadsOK, InputOK, Group
    <3> QED BY <1>5, <2>1, <3>1, Frame DEF Summed
  <2> QED BY <2>3, <2>4, <2>5
<1> QED BY <1>9, <1>10, <1>11

LEMMA ReduceStep ==
    ASSUME GroupInv, Len(data) <= Span, Computed, NEW t \in Group, ThreadStep(t),
           Reduce(t) \/ Write(t)
    PROVE  Computed'
<1>0. Columns /\ InputOK
  BY DEF Computed, GroupInv
<1>1. PICK p : p = Payload /\ p = Payload'
  BY Frame
<1>2. {"reduce", "reduced", "done"} \in Phases
  BY DEF Phases
<1>3. pc[t] = "reduce" /\ idx' = idx /\ stride' = stride
  BY DEF Reduce, Write
<1>4. /\ InPhase({"reduce", "reduced", "done"})
      /\ \A u \in Group : Reduced(u, p)
      /\ pc[0] = "done" => entropy = SetToBag(Share(p, 0, 1))
  BY <1>1, <1>3, PhaseTold DEF ReducePhase
<1>5. InPhase({"reduce", "reduced", "done"})' /\ Columns'
  BY <1>0, <1>2, <1>3, <1>4, Frame DEF Columns
<1>6. SUFFICES /\ \A u \in Group : Reduced(u, p)'
               /\ pc'[0] = "done" => entropy' = SetToBag(Share(p, 0, 1))
  BY <1>1, <1>5, Frame DEF Computed, ReducePhase, Reduced
<1>7. PICK s \in Nat : s = stride[t] /\ \A u \in Group : stride[u] = s
  BY DEF GroupInv, ThreadsOK, Lockstep
<1>8. /\ threads \in Nat /\ threads <= MaxGroup /\ MaxGroup \in Nat /\ 0 \in Group
      /\ Group = 0..(threads - 1) /\ DOMAIN partial = 0..(MaxGroup - 1)
  BY KernelAssumption DEF GroupInv, InputOK, ThreadsOK, Group
<1>9. CASE Reduce(t)
  <2>1. /\ s > 0 /\ pc'[t] = "reduced" /\ entropy' = entropy
        /\ partial' = IF t < s THEN [partial EXCEPT ![t] = @ (+) partial[t + s]] ELSE partial
    BY <1>7, <1>9 DEF Reduce, Goto, Halved, GroupInv, ThreadsOK
  <2>2. \A u \in Group \ {t} : partial'[u] = partial[u] /\ pc'[u] = pc[u]
    BY <1>8, <2>1, Frame
  <2>3. ASSUME NEW u \in Group \ {t} PROVE Reduced(u, p)'
    BY <1>3, <1>4, <2>2, Frame DEF Reduced
  <2>4. Reduced(t, p)'
    <3>1. Width(s) = 2 * s /\ 2 * s <= threads /\ PowerOfTwo(s)
      BY <1>4, <1>7, <2>1 DEF Reduced, Width
    <3>2. CASE t < s
      <4>1. /\ t \in 0..(s - 1) /\ t + s \in Group /\ t + s # t /\ t + s < 2 * s /\ ~ (t + s < s)
            /\ t < 2 * s
        BY <1>8, <3>1, <3>2
      <4>2. /\ partial[t] = SetToBag(Share(p, t, 2 * s))
            /\ partial[t + s] = SetToBag(Share(p, t + s, 2 * s))
        BY <1>3, <1>4, <1>7, <3>1, <4>1 DEF Reduced
      <4>3. partial'[t] = partial[t] (+) partial[t + s]
        BY <1>8, <2>1, <3>2
      <4>4. partial'[t] = SetToBag(Share(p, t, s))
        BY <2>1, <4>1, <4>2, <4>3, ShareJoin
      <4> QED BY <1>3, <1>7, <2>1, <3>1, <3>2, <4>4, Frame DEF Reduced
    <3>3. CASE ~ (t < s)
      <4>1. partial'[t] = partial[t]
        BY <2>1, <3>3
      <4>2. Reduced(t, p)
        BY <1>4
      <4> QED BY <1>3, <1>7, <2>1, <3>3, <4>1, <4>2, Frame DEF Reduced
    <3> QED BY <3>2, <3>3
  <2>5. pc'[0] = "done" => entropy' = SetToBag(Share(p, 0, 1))
    BY <1>4, <1>8, <2>1, <2>2
  <2> QED BY <2>3, <2>4, <2>5
<1>10. CASE Write(t)
  <2>1. /\ s = 0 /\ pc'[t] = "done" /\ partial' = partial
        /\ entropy' = IF t = 0 THEN partial[0] ELSE entropy
    BY <1>7, <1>10 DEF Write, Goto, GroupInv, ThreadsOK
  <2>2. ASSUME NEW u \in Group PROVE Reduced(u, p)'
    <3>1. Reduced(u, p) /\ (u # t => pc'[u] = pc[u])
      BY <1>4, Frame
    <3> QED BY <1>3, <2>1, <3>1, Frame DEF Reduced
  <2>3. pc'[0] = "done" => entropy' = SetToBag(Share(p, 0, 1))
    <3>1. CASE t = 0
      <4>1. partial[0] = SetToBag(Share(p, 0, 1))
        BY <1>3, <1>4, <1>7, <1>8, <2>1, <3>1 DEF Reduced, Width
      <4> QED BY <2>1, <3>1, <4>1
    <3>2. CASE t # 0
      BY <1>4, <1>8, <2>1, <3>2, Frame
    <3> QED BY <3>1, <3>2
  <2> QED BY <2>2, <2>3
<1> QED BY <1>9, <1>10

\* What every barrier does.
LEMMA BarrierFacts ==
    ASSUME GroupInv, NEW here, NEW next, Barrier(here, next)
    PROVE  /\ threads' = threads /\ Group' = Group /\ Payload' = Payload /\ Columns'
           /\ threads \in Nat \ {0} /\ Group = 0..(threads - 1) /\ 0 \in Group
           /\ \A t \in Group : pc[t] = here /\ pc'[t] = next
           /\ idx' \in [Group -> Nat] /\ \A i \in Nat : ~ Passed(idx', threads, i)
           /\ here # "reduced" => stride' = stride
           /\ here = "reduced" => stride' = [t \in Group |-> stride[t] \div 2]
           /\ UNCHANGED <<sum, histogram, partial, entropy>>
<1>1. UNCHANGED inputVars /\ idx' = [t \in Group |-> t]
  BY DEF Barrier
<1>2. threads' = threads /\ Group' = Group /\ Payload' = Payload
  BY <1>1 DEF inputVars, Group, Payload
<1>3. threads \in Nat \ {0} /\ Group = 0..(threads - 1) /\ 0 \in Group
  BY KernelAssumption DEF GroupInv, InputOK, Group
<1>4. idx' \in [Group -> Nat]
  BY <1>1, <1>3
<1>5. (\A t \in Group : idx'[t] % threads = t) /\ \A i \in Nat : ~ Passed(idx', threads, i)
  <2>1. PICK n, f : n = threads /\ f = idx'
    OBVIOUS
  <2>2. n \in Nat \ {0} /\ f \in [0..(n - 1) -> Nat] /\ f = [t \in 0..(n - 1) |-> t]
    BY <1>1, <1>3, <1>4, <2>1, Zenon
  <2>3. (\A t \in 0..(n - 1) : f[t] % n = t) /\ \A i \in Nat : ~ Passed(f, n, i)
    BY <2>2, PassedEnds
  <2> QED BY <1>3, <2>1, <2>3, Zenon
<1>6. Columns'
  BY <1>2, <1>5 DEF Columns
<1> QED BY <1>2, <1>3, <1>4, <1>5, <1>6 DEF Barrier, groupVars

LEMMA BarrierCleared ==
    ASSUME GroupInv, Len(data) <= Span, Computed, Barrier("cleared", "count")
    PROVE  Computed'
<1>1. /\ threads' = threads /\ Group' = Group /\ Payload' = Payload /\ Columns'
      /\ threads \in Nat \ {0} /\ Group = 0..(threads - 1) /\ 0 \in Group
      /\ \A t \in Group : pc[t] = "cleared" /\ pc'[t] = "count"
      /\ \A i \in Nat : ~ Passed(idx', threads, i)
      /\ stride' = stride /\ UNCHANGED <<sum, histogram>>
  BY BarrierFacts
<1>2. ClearPhase
  BY <1>1, PhaseTold
<1>3. PICK p : p = Payload /\ p = Payload'
  BY <1>1
<1>4. p \in Seq(Byte)
  <2>1. Payload \in Seq(Byte)
    BY InputFacts DEF GroupInv
  <2> QED BY <1>3, <2>1
<1>5. InPhase({"count", "counted"})' /\ FirstStride' /\ NothingSummed'
  BY <1>1, <1>2 DEF InPhase, ClearPhase, FirstStride, NothingSummed
<1>6. Byte \subseteq Nat /\ Bins \in Nat /\ \A b \in Byte : b < Bins
  BY KernelAssumption DEF Byte
<1>7. \A b \in Byte : Passed(idx, threads, b)
  <2>1. PICK n, f : n = threads /\ f = idx
    OBVIOUS
  <2>2. /\ n \in Nat \ {0} /\ f \in [0..(n - 1) -> Nat]
        /\ \A t \in 0..(n - 1) : f[t] >= Bins
    BY <1>1, <1>2, <2>1 DEF ClearPhase, GroupInv, ThreadsOK
  <2>3. \A b \in Byte : Passed(f, n, b)
    BY <1>6, <2>2, PassedEnds
  <2> QED BY <2>1, <2>3
<1>8. ASSUME NEW b \in Byte PROVE histogram'[b] = Cardinality(Seen(p, idx', threads, b))
  <2>1. \A i \in DOMAIN p : i - 1 \in Nat
    BY <1>4, LenProperties
  <2>2. Seen(p, idx', threads, b) = {}
    BY <1>1, <2>1, Zenon DEF Seen
  <2>3. histogram'[b] = 0
    BY <1>1, <1>2, <1>7 DEF ClearPhase
  <2> QED BY <2>2, <2>3, FS_EmptySet
<1>9. histogram' = [b \in Byte |-> Cardinality(Seen(p, idx', threads, b))]
  <2>1. histogram' = [b \in Byte |-> histogram'[b]]
    BY <1>1, <1>2 DEF ClearPhase
  <2> QED BY <1>8, <2>1, Zenon
<1>10. CountPhase'
  BY <1>1, <1>3, <1>5, <1>9 DEF CountPhase
<1> QED BY <1>1, <1>10 DEF Computed

LEMMA BarrierCounted ==
    ASSUME GroupInv, Len(data) <= Span, Computed, Barrier("counted", "add")
    PROVE  Computed'
<1>1. /\ threads' = threads /\ Group' = Group /\ Payload' = Payload /\ Columns'
      /\ threads \in Nat \ {0} /\ Group = 0..(threads - 1) /\ 0 \in Group
      /\ \A t \in Group : pc[t] = "counted" /\ pc'[t] = "add"
      /\ \A i \in Nat : ~ Passed(idx', threads, i)
      /\ stride' = stride /\ UNCHANGED <<sum, histogram>>
  BY BarrierFacts
<1>2. CountPhase
  BY <1>1, PhaseTold
<1>3. PICK p : p = Payload /\ p = Payload'
  BY <1>1
<1>4. p \in Seq(Byte)
  <2>1. Payload \in Seq(Byte)
    BY InputFacts DEF GroupInv
  <2> QED BY <1>3, <2>1
<1>5. InPhase({"add", "store", "stored"})' /\ FirstStride'
  BY <1>1, <1>2 DEF InPhase, CountPhase, FirstStride
<1>6. \A i \in DOMAIN p : Passed(idx, threads, i - 1)
  <2>1. PICK n, f, l : n = threads /\ f = idx /\ l = Len(p)
    OBVIOUS
  <2>2. l \in Nat /\ DOMAIN p = 1..l
    BY <1>4, <2>1, LenProperties
  <2>3. /\ n \in Nat \ {0} /\ f \in [0..(n - 1) -> Nat]
        /\ \A t \in 0..(n - 1) : f[t] >= l
    BY <1>1, <1>2, <1>3, <2>1 DEF CountPhase, GroupInv, ThreadsOK
  <2>4. \A i \in Nat : i < l => Passed(f, n, i)
    BY <2>2, <2>3, PassedEnds
  <2>5. \A i \in 1..l : i - 1 \in Nat /\ i - 1 < l
    BY <2>2
  <2> QED BY <2>1, <2>2, <2>4, <2>5, Zenon
<1>7. \A b : Cardinality(Seen(p, idx, threads, b)) = CountOf(p, b)
  BY <1>6, Zenon DEF Seen, CountOf
<1>8. histogram' = [b \in Byte |-> CountOf(p, b)]
  BY <1>1, <1>2, <1>3, <1>7 DEF CountPhase
<1>9. ASSUME NEW t \in Group PROVE Summed(t, p)'
  <2>1. Byte \subseteq Nat
    BY KernelAssumption DEF Byte
  <2>2. Behind(idx', threads, t) = {}
    BY <1>1, <2>1, Zenon DEF Behind
  <2>3. Terms(p, {}) = {}
    BY DEF Terms
  <2>4. sum'[t] = SetToBag({})
    BY <1>1, <1>2 DEF CountPhase, NothingSummed, EmptyBag
  <2> QED BY <1>1, <2>2, <2>3, <2>4 DEF Summed
<1>10. AddPhase'
  BY <1>1, <1>3, <1>5, <1>8, <1>9 DEF AddPhase, Summed
<1> QED BY <1>1, <1>10 DEF Computed

\* A power of two is the width of its half.
LEMMA WidthOfHalf ==
    ASSUME NEW n \in Nat, PowerOfTwo(n)
    PROVE  /\ n \div 2 \in Nat /\ Width(n \div 2) = n
           /\ n \div 2 = 0 \/ PowerOfTwo(n \div 2)
<1>1. CASE n = 1
  <2>1. n \div 2 = 0
    BY <1>1
  <2> QED BY <1>1, <2>1 DEF Width
<1>2. CASE n # 1
  <2>1. n > 0 /\ n = 2 * (n \div 2) /\ n \div 2 \in Nat /\ PowerOfTwo(n \div 2)
    BY <1>2, PowerHalves
  <2> QED BY <2>1 DEF Width
<1> QED BY <1>1, <1>2

LEMMA BarrierStored ==
    ASSUME GroupInv, Computed, Barrier("stored", "reduce")
    PROVE  Computed'
<1>1. /\ threads' = threads /\ Group' = Group /\ Payload' = Payload /\ Columns'
      /\ threads \in Nat \ {0} /\ Group = 0..(threads - 1) /\ 0 \in Group
      /\ \A t \in Group : pc[t] = "stored" /\ pc'[t] = "reduce"
      /\ stride' = stride /\ partial' = partial
  BY BarrierFacts
<1>2. AddPhase
  BY <1>1, PhaseTold
<1>3. PICK p : p = Payload /\ p = Payload'
  BY <1>1
<1>4. InPhase({"reduce", "reduced", "done"})'
  BY <1>1 DEF InPhase
<1>5. PICK n, s : n = threads /\ s = n \div 2
  OBVIOUS
<1>6. n \in Nat /\ s \in Nat /\ Width(s) = n /\ (s = 0 \/ PowerOfTwo(s))
  <2>1. n \in Nat /\ PowerOfTwo(n)
    BY <1>1, <1>5 DEF GroupInv, InputOK
  <2> QED BY <1>5, <2>1, WidthOfHalf
<1>7. ASSUME NEW t \in Group PROVE Reduced(t, p)'
  <2>1. stride'[t] = s /\ partial'[t] = SetToBag(Share(p, t, n)) /\ threads' = n
        /\ pc'[t] = "reduce"
    BY <1>1, <1>2, <1>3, <1>5 DEF AddPhase, FirstStride, Summed
  <2>2. Width(stride'[t]) = n /\ n <= n
    BY <1>6, <2>1
  <2> QED BY <1>6, <2>1, <2>2 DEF Reduced
<1>8. ReducePhase'
  BY <1>1, <1>3, <1>4, <1>7 DEF ReducePhase, Reduced
<1> QED BY <1>1, <1>8 DEF Computed

LEMMA BarrierReduced ==
    ASSUME GroupInv, Computed, Barrier("reduced", "reduce")
    PROVE  Computed'
<1>1. /\ threads' = threads /\ Group' = Group /\ Payload' = Payload /\ Columns'
      /\ threads \in Nat \ {0} /\ Group = 0..(threads - 1) /\ 0 \in Group
      /\ \A t \in Group : pc[t] = "reduced" /\ pc'[t] = "reduce"
      /\ stride' = [t \in Group |-> stride[t] \div 2] /\ partial' = partial
  BY BarrierFacts
<1>2. ReducePhase
  BY <1>1, PhaseTold
<1>3. PICK p : p = Payload /\ p = Payload'
  BY <1>1
<1>4. InPhase({"reduce", "reduced", "done"})'
  BY <1>1 DEF InPhase
<1>5. ASSUME NEW t \in Group PROVE Reduced(t, p)'
  <2>1. PICK s, h : s = stride[t] /\ h = s \div 2
    OBVIOUS
  <2>2. s \in Nat /\ s > 0 /\ Reduced(t, p)
    BY <1>1, <1>2, <1>3, <2>1 DEF GroupInv, ThreadsOK, Lockstep, ReducePhase
  <2>3. /\ 2 * s <= threads /\ PowerOfTwo(s)
        /\ t < s => partial[t] = SetToBag(Share(p, t, s))
    BY <1>1, <2>1, <2>2 DEF Reduced, Width
  <2>4. h \in Nat /\ Width(h) = s /\ (h = 0 \/ PowerOfTwo(h))
    BY <2>1, <2>2, <2>3, WidthOfHalf
  <2>5. stride'[t] = h /\ pc'[t] = "reduce" /\ partial'[t] = partial[t]
    BY <1>1, <2>1
  <2>6. s <= threads
    BY <1>1, <2>2, <2>3
  <2> QED BY <1>1, <2>3, <2>4, <2>5, <2>6 DEF Reduced
<1>6. ReducePhase'
  BY <1>1, <1>3, <1>4, <1>5 DEF ReducePhase, Reduced
<1> QED BY <1>1, <1>6 DEF Computed

LEMMA ResultStep == GroupInv /\ ResultInv /\ [KernelNext]_kernelVars => ResultInv'
<1> SUFFICES ASSUME GroupInv, ResultInv, [KernelNext]_kernelVars, (Len(data) <= Span)'
             PROVE  Computed'
  BY DEF ResultInv
<1>1. data' = data
  <2>1. \A t \in Group : ThreadStep(t) => data' = data
    BY ThreadMoves DEF inputVars
  <2> QED BY <2>1 DEF KernelNext, Barriers, Barrier, kernelVars, inputVars
<1>2. Len(data) <= Span /\ Computed
  BY <1>1 DEF ResultInv
<1>3. ASSUME NEW t \in Group, ThreadStep(t) PROVE Computed'
  BY <1>2, <1>3, ClearStep, CountStep, AddStep, ReduceStep DEF ThreadStep
<1>4. CASE Barriers
  BY <1>2, <1>4, BarrierCleared, BarrierCounted, BarrierStored, BarrierReduced DEF Barriers
<1>5. CASE UNCHANGED kernelVars
  <2>1. UNCHANGED <<payloads, payload, threads, pc, idx, sum, stride, histogram, partial, entropy>>
    BY <1>5 DEF kernelVars, inputVars, localVars, groupVars
  <2> QED BY <1>2, <2>1
       DEF Computed, Columns, ClearPhase, CountPhase, AddPhase, ReducePhase, InPhase,
           FirstStride, NothingSummed, Summed, Reduced, Payload, Group
<1> QED BY <1>3, <1>4, <1>5 DEF KernelNext

LEMMA ResultInit == KernelInit => ResultInv
<1> SUFFICES ASSUME KernelInit PROVE Computed
  BY DEF ResultInv
<1>1. threads \in Nat \ {0} /\ Group = 0..(threads - 1)
  BY GroupInit DEF GroupInv, InputOK, Group
<1>2. /\ pc = [t \in Group |-> "clear"] /\ idx = [t \in Group |-> t]
      /\ sum = [t \in Group |-> EmptyBag] /\ stride = [t \in Group |-> threads \div 2]
      /\ histogram \in [Byte -> Nat]
  BY DEF KernelInit
<1>3. (\A t \in Group : idx[t] % threads = t) /\ \A i \in Nat : ~ Passed(idx, threads, i)
  <2>1. PICK n, f : n = threads /\ f = idx
    OBVIOUS
  <2>2. n \in Nat \ {0} /\ f \in [0..(n - 1) -> Nat] /\ f = [t \in 0..(n - 1) |-> t]
    BY <1>1, <1>2, <2>1
  <2>3. (\A t \in 0..(n - 1) : f[t] % n = t) /\ \A i \in Nat : ~ Passed(f, n, i)
    BY <2>2, PassedEnds
  <2> QED BY <1>1, <2>1, <2>3, Zenon
<1>4. \A b \in Byte : ~ Passed(idx, threads, b)
  BY <1>3, KernelAssumption DEF Byte
<1>5. ClearPhase
  BY <1>2, <1>4 DEF ClearPhase, InPhase, FirstStride, NothingSummed
<1> QED BY <1>3, <1>5 DEF Computed, Columns

\* The kernel's result is shannon_entropy() of its payload, for every payload
\* of a batch whose bytes a uint can number: any number of bins, any device
\* limit, any schedule of the threads, and any old content of the memory.
THEOREM KernelResultExact == KernelSpec => []KernelExact
<1>1. GroupInv /\ ResultInv => KernelExact
  <2> SUFFICES ASSUME GroupInv, ResultInv, pc[0] = "done", Len(data) <= Span
               PROVE  entropy = shannon_entropy(Payload)
    BY DEF KernelExact, Payload
  <2>1. 0 \in Group /\ Payload \in Seq(Byte)
    BY InputFacts DEF GroupInv
  <2>2. ReducePhase
    BY <2>1, PhaseTold DEF ResultInv
  <2> QED BY <2>1, <2>2, ShareAll DEF ReducePhase
<1>2. KernelSpec => []ResultInv
  BY ResultInit, ResultStep, KernelLockstep, PTL DEF KernelSpec
<1> QED BY <1>1, <1>2, KernelLockstep, PTL
=============================================================================
