---------------------------- MODULE EntropyKernel ----------------------------
(***************************************************************************)
(* One threadgroup of the kernel in src/shaders/payload_entropy.metal, and *)
(* the part of submit_payload_entropy() (src/src/gpu/metal_context.cpp)    *)
(* that lays out its input and chooses the size of the group.  The groups  *)
(* of a dispatch share only buffers they read, so one group, for any       *)
(* payload of the batch, stands for all.                                   *)
(*                                                                         *)
(* A sum of p * log2(p) terms is the bag of the terms added, a term being  *)
(* <<bin, count>>: every term must be added exactly once.  The order of    *)
(* the additions, which only changes the rounding, is left out.            *)
(***************************************************************************)
EXTENDS Naturals, Sequences, FiniteSets, Bags

CONSTANTS
    Bins,       \* number of byte values, 256 in the code
    MaxGroup,   \* the largest group, 256 in the code
    Limits,     \* what maxTotalThreadsPerThreadgroup() may answer
    Batches,    \* batches of payloads, a payload being a sequence of bytes
    Span        \* the range of a uint, 2^32 in the code

Byte == 0..(Bins - 1)

\* Every number in S but 1 is the double of another one.
Doublings(S) == \A n \in S : n = 1 \/ \E h \in S : n = 2 * h
PowerOfTwo(n) == \E S \in SUBSET (1..n) : n \in S /\ Doublings(S)

\* A payload is a part of one captured packet: its length, and the index of
\* a loop over it, fit in a uint.  The offsets of a large batch may not.
ASSUME KernelAssumption ==
    /\ Bins \in Nat \ {0} /\ MaxGroup \in Nat \ {0} /\ PowerOfTwo(MaxGroup)
    /\ Span \in Nat /\ Bins + MaxGroup <= Span
    /\ Limits \subseteq Nat \ {0}
    /\ Batches \subseteq Seq(Seq(Byte))
    /\ \A b \in Batches : \A k \in 1..Len(b) : Len(b[k]) + MaxGroup <= Span

VARIABLES
    payloads,   \* what submit_payload_entropy() was given
    data, offsets, lengths,   \* the buffers the kernel reads
    limit,      \* the device's limit
    threads,    \* threads_per_threadgroup
    payload,    \* threadgroup_position_in_grid
    pc, idx, sum, stride,     \* each thread's place and locals
    histogram, partial,       \* threadgroup memory
    entropy     \* entropies[payload]

inputVars == <<payloads, data, offsets, lengths, limit, threads, payload>>
localVars == <<pc, idx, sum, stride>>
groupVars == <<histogram, partial, entropy>>
kernelVars == <<inputVars, localVars, groupVars>>

Group == 0..(threads - 1)

-----------------------------------------------------------------------------
(* The host                                                                *)

Concat(b) ==
    LET upTo[k \in 0..Len(b)] == IF k = 0 THEN <<>> ELSE upTo[k - 1] \o b[k]
    IN  upTo[Len(b)]

\* A payload's place in the data buffer, as a uint32_t.
Offset(b, k) == Len(Concat(SubSeq(b, 1, k - 1))) % Span

\* MaxGroup halved until the device accepts it.
GroupSize(max) ==
    LET fit[n \in 0..MaxGroup] == IF n > max THEN fit[n \div 2] ELSE n
    IN  fit[MaxGroup]

\* A batch is laid out and dispatched.  Threadgroup memory and the result
\* buffer start with whatever was left in them.
KernelInit ==
    \E junk \in {0, 1} :
        LET old == IF junk = 0 THEN EmptyBag ELSE SetToBag({<<Bins, junk>>}) IN
        /\ payloads \in Batches
        /\ data = Concat(payloads)
        /\ offsets = [k \in 1..Len(payloads) |-> Offset(payloads, k)]
        /\ lengths = [k \in 1..Len(payloads) |-> Len(payloads[k]) % Span]
        /\ limit \in Limits
        /\ threads = GroupSize(limit)
        /\ payload \in 1..Len(payloads)
        /\ pc = [t \in Group |-> "clear"]
        /\ idx = [t \in Group |-> t]
        /\ sum = [t \in Group |-> EmptyBag]
        /\ stride = [t \in Group |-> threads \div 2]
        /\ histogram = [b \in Byte |-> junk]
        /\ partial = [t \in 0..(MaxGroup - 1) |-> old]
        /\ entropy = old

-----------------------------------------------------------------------------
(* The kernel                                                              *)

Goto(t, label) == pc' = [pc EXCEPT ![t] = label]
\* for (i = tid; i < bound; i += threads)
Turn(t, label, bound) ==
    pc[t] = label /\ idx[t] < bound /\ idx' = [idx EXCEPT ![t] = @ + threads]
LoopEnd(t, label, bound, next) ==
    /\ pc[t] = label /\ idx[t] >= bound /\ Goto(t, next)
    /\ UNCHANGED <<idx, sum, stride, groupVars, inputVars>>

\* Mutant: a thread clears only the first of its bins.
ClearFirst(t) ==
    /\ Turn(t, "clear", Bins)
    /\ histogram' = IF idx[t] = t THEN [histogram EXCEPT ![t] = 0] ELSE histogram
    /\ UNCHANGED <<pc, sum, stride, partial, entropy, inputVars>>

Clear(t) ==
    /\ Turn(t, "clear", Bins)
    /\ histogram' = [histogram EXCEPT ![idx[t]] = 0]
    /\ UNCHANGED <<pc, sum, stride, partial, entropy, inputVars>>

\* atomic_fetch_add on the byte's bin; offset + i is a uint.
Count(t) ==
    LET byte == data[((offsets[payload] + idx[t]) % Span) + 1] IN
    /\ Turn(t, "count", lengths[payload])
    /\ histogram' = [histogram EXCEPT ![byte] = @ + 1]
    /\ UNCHANGED <<pc, sum, stride, partial, entropy, inputVars>>

Term(bin, count) == IF count > 0 THEN SetToBag({<<bin, count>>}) ELSE EmptyBag
Add(t) ==
    /\ Turn(t, "add", IF lengths[payload] > 0 THEN Bins ELSE 0)
    /\ sum' = [sum EXCEPT ![t] = @ (+) Term(idx[t], histogram[idx[t]])]
    /\ UNCHANGED <<pc, stride, groupVars, inputVars>>

Store(t) ==
    /\ pc[t] = "store" /\ Goto(t, "stored")
    /\ partial' = [partial EXCEPT ![t] = sum[t]]
    /\ UNCHANGED <<idx, sum, stride, histogram, entropy, inputVars>>

Halved(t) ==
    IF t < stride[t]
    THEN partial' = [partial EXCEPT ![t] = @ (+) partial[t + stride[t]]]
    ELSE UNCHANGED partial

\* Mutants: no barrier between two turns, and a barrier only for the threads
\* that add.
ReduceUnsynced(t) ==
    /\ pc[t] = "reduce" /\ stride[t] > 0
    /\ Halved(t)
    /\ stride' = [stride EXCEPT ![t] = @ \div 2]
    /\ UNCHANGED <<pc, idx, sum, histogram, entropy, inputVars>>
ReduceDiverging(t) ==
    /\ pc[t] = "reduce" /\ stride[t] > 0
    /\ Halved(t)
    /\ IF t < stride[t] THEN Goto(t, "reduced") /\ UNCHANGED stride
       ELSE stride' = [stride EXCEPT ![t] = @ \div 2] /\ UNCHANGED pc
    /\ UNCHANGED <<idx, sum, histogram, entropy, inputVars>>

\* One turn of the reduction, up to its barrier.
Reduce(t) ==
    /\ pc[t] = "reduce" /\ stride[t] > 0
    /\ Halved(t)
    /\ Goto(t, "reduced")
    /\ UNCHANGED <<idx, sum, stride, histogram, entropy, inputVars>>

\* Thread 0 writes the result.
Write(t) ==
    /\ pc[t] = "reduce" /\ stride[t] = 0 /\ Goto(t, "done")
    /\ entropy' = IF t = 0 THEN partial[0] ELSE entropy
    /\ UNCHANGED <<idx, sum, stride, histogram, partial, inputVars>>

ThreadStep(t) ==
    \/ Clear(t) \/ LoopEnd(t, "clear", Bins, "cleared")
    \/ Count(t) \/ LoopEnd(t, "count", lengths[payload], "counted")
    \/ Add(t) \/ LoopEnd(t, "add", IF lengths[payload] > 0 THEN Bins ELSE 0, "store")
    \/ Store(t) \/ Reduce(t) \/ Write(t)

\* threadgroup_barrier(): every thread of the group has to reach it.
Barrier(here, next) ==
    /\ \A t \in Group : pc[t] = here
    /\ pc' = [t \in Group |-> next]
    /\ idx' = [t \in Group |-> t]
    /\ stride' = IF here = "reduced" THEN [t \in Group |-> stride[t] \div 2] ELSE stride
    /\ UNCHANGED <<sum, groupVars, inputVars>>

Barriers ==
    \/ Barrier("cleared", "count") \/ Barrier("counted", "add")
    \/ Barrier("stored", "reduce") \/ Barrier("reduced", "reduce")

KernelNext == (\E t \in Group : ThreadStep(t)) \/ Barriers

\* The threads of a group are scheduled.
KernelSpec ==
    /\ KernelInit /\ [][KernelNext]_kernelVars
    /\ \A t \in 0..(MaxGroup - 1) : WF_kernelVars(t \in Group /\ ThreadStep(t))
    /\ WF_kernelVars(Barriers)

-----------------------------------------------------------------------------
(* Properties                                                              *)

\* shannon_entropy() of a payload: one term for each byte value in it.
CountOf(p, b) == Cardinality({i \in DOMAIN p : p[i] = b})
shannon_entropy(p) ==
    SetToBag({<<b, CountOf(p, b)>> : b \in {p[i] : i \in DOMAIN p}})

\* The kernel's result is the reference's ("Mirrors shannon_entropy()"), for
\* every payload of a batch whose bytes a uint can number, whatever the
\* device's limit on a group ("Host contract: threads per threadgroup is a
\* power of two"), its schedule and what its memory held before.
KernelExact ==
    (pc[0] = "done" /\ Len(data) <= Span) => entropy = shannon_entropy(payloads[payload])

\* What a thread's next step reads and writes of the non-atomic memory.
Writes(t) ==
    IF pc[t] = "store" \/ (pc[t] = "reduce" /\ t < stride[t]) THEN {t} ELSE {}
Reads(t) ==
    IF pc[t] # "reduce" THEN {}
    ELSE IF stride[t] = 0 THEN {0} \cap {t}
    ELSE IF t < stride[t] THEN {t, t + stride[t]} ELSE {}

\* No thread can write a partial sum another one can read or write before
\* the next barrier.
NoDataRace ==
    \A t, u \in Group : t # u => Writes(t) \cap (Reads(u) \cup Writes(u)) = {}

\* Every thread passes all barriers and ends: they are reached by all
\* threads of the group or by none.
KernelEnds == <>(\A t \in Group : pc[t] = "done")
=============================================================================
