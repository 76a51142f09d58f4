------------------------------ MODULE Analysis ------------------------------
(***************************************************************************)
(* AnalysisEngine::analyze_batch() (src/src/analysis/analysis_engine.cpp)  *)
(* with its entropy backends: the CPU one (entropy_backend.cpp) and the    *)
(* GPU one (src/src/gpu/gpu_entropy_backend.cpp, metal_context.cpp), whose *)
(* dispatches run asynchronously on buffer sets taken from a shared pool.  *)
(*                                                                         *)
(* A packet is [size, high, bad]: its payload's size, whether its entropy  *)
(* reaches the threshold, and whether its hash is a known signature.  The  *)
(* flow rules behind FlowTracker::observe() are module FlowTracker; here   *)
(* observe() is an event.  The device and its queue are external.          *)
(*                                                                         *)
(* Every payload has a place of its own in the bytes of its buffer set:    *)
(* the bytes of a batch are taken to fit the uint32_t offsets of           *)
(* metal_context.cpp:312.  Module EntropyKernel has the offsets and what   *)
(* becomes of them in a batch that does not fit.                           *)
(***************************************************************************)
EXTENDS Naturals, Sequences, FiniteSets, Bags

CONSTANTS Workers,      \* the threads calling analyze_batch()
          Batches,      \* the batches a worker may be handed
          MinPayload,   \* config_.entropy_min_payload_bytes
          MinGrow,      \* the smallest GPU buffer, 4096 in the code
          MaxBatches    \* bound: batches analysed in a behaviour

Packet == [size : Nat, high : BOOLEAN, bad : BOOLEAN]

\* WorkerPool runs a fixed number of threads and hands on no empty batch.
ASSUME AnalysisAssumption ==
    /\ IsFiniteSet(Workers)
    /\ Batches \subseteq Seq(Packet) \ {<<>>}
    /\ MinPayload \in Nat \ {0} /\ MinGrow \in Nat \ {0}
    /\ MaxBatches \in Nat

VARIABLES
    use_gpu,    \* backend_: GpuEntropyBackend (-g) or CpuEntropyBackend
    pc,         \* per worker: where in analyze_batch() it is
    job,        \* per worker: the number of its batch, 0 when it has none
    at,         \* per worker: the packet its rule loop is at
    pending,    \* per worker: "none", "null", "ready" or "gpu"
    held,       \* per worker: its buffer set, 0 when it has none
    entropies,  \* per worker: the results it collected
    free,       \* free_buffers, a stack of set numbers
    sets,       \* every buffer set made so far
    command,    \* per batch number: its command buffer
    jobs,       \* history: the batches handed out
    events,     \* history: bag of alerts and observe() calls
    finished,   \* history: batch numbers whose call returned
    fallbacks   \* fallbacks_

workerVars == <<pc, job, at, pending, held, entropies>>
gpuVars == <<use_gpu, free, sets, command>>
logVars == <<jobs, events, finished, fallbacks>>
analysisVars == <<workerVars, gpuVars, logVars>>

\* The buffers of a set, in the order submit_payload_entropy() sizes them.
Parts == <<"data", "offsets", "lengths", "results">>
Word == 4   \* sizeof(uint32_t) and sizeof(float)

NoCommand == [state |-> "none", set |-> 0, count |-> 0, computed |-> {}]

\* A set starts with null buffers and zero capacities.  size is what was
\* really allocated (0: null), capacity what the code believes.  work is
\* what data, offsets and lengths describe.
EmptySet == [buffer |-> [k \in 1..4 |-> [size |-> 0, capacity |-> 0]],
             work |-> <<>>, results |-> <<>>]

AnalysisInit ==
    /\ use_gpu \in BOOLEAN
    /\ pc = [w \in Workers |-> "idle"]
    /\ job = [w \in Workers |-> 0]
    /\ at = [w \in Workers |-> 1]
    /\ pending = [w \in Workers |-> "none"]
    /\ held = [w \in Workers |-> 0]
    /\ entropies = [w \in Workers |-> <<>>]
    /\ free = <<>> /\ sets = <<>> /\ jobs = <<>>
    /\ command = [n \in 1..MaxBatches |-> NoCommand]
    /\ events = EmptyBag /\ finished = {} /\ fallbacks = 0

-----------------------------------------------------------------------------
Step(w, here, there) == pc[w] = here /\ pc' = [pc EXCEPT ![w] = there]

\* The positions of the packets of batch b that are long enough, in order.
EligibleAt(b) ==
    LET upTo[i \in 0..Len(b)] ==
            IF i = 0 THEN <<>>
            ELSE IF b[i].size >= MinPayload THEN Append(upTo[i - 1], i) ELSE upTo[i - 1]
    IN  upTo[Len(b)]
Eligible(b) == [k \in 1..Len(EligibleAt(b)) |-> b[EligibleAt(b)[k]]]
Batch(w) == jobs[job[w]]

\* shannon_entropy() >= entropy_threshold, packet by packet.
Highs(packets) == [k \in 1..Len(packets) |-> packets[k].high]

\* The batch reaches analyze_batch(), which collects the eligible packets.
AnalyzeBatch(w) ==
    \E b \in Batches :
        /\ Len(jobs) < MaxBatches
        /\ Step(w, "idle", IF Eligible(b) = <<>> THEN "rules" ELSE "start")
        /\ jobs' = Append(jobs, b)
        /\ job' = [job EXCEPT ![w] = Len(jobs')]
        /\ at' = [at EXCEPT ![w] = 1]
        /\ pending' = [pending EXCEPT ![w] = "none"]
        /\ entropies' = [entropies EXCEPT ![w] = <<>>]
        /\ UNCHANGED <<held, gpuVars, events, finished, fallbacks>>

\* CpuEntropyBackend::start() computes everything before it returns.
CpuStart(w) ==
    /\ ~use_gpu
    /\ Step(w, "start", "rules")
    /\ pending' = [pending EXCEPT ![w] = "ready"]
    /\ entropies' = [entropies EXCEPT ![w] = Highs(Eligible(Batch(w)))]
    /\ UNCHANGED <<job, at, held, gpuVars, logVars>>

\* Mutant: the set stays in the pool.
take_buffers_shared(w) ==
    IF free = <<>>
    THEN /\ sets' = Append(sets, EmptySet)
         /\ held' = [held EXCEPT ![w] = Len(sets')]
         /\ UNCHANGED free
    ELSE /\ held' = [held EXCEPT ![w] = free[Len(free)]]
         /\ UNCHANGED <<sets, free>>

take_buffers(w) ==
    IF free = <<>>
    THEN /\ sets' = Append(sets, EmptySet)
         /\ held' = [held EXCEPT ![w] = Len(sets')]
         /\ UNCHANGED free
    ELSE /\ held' = [held EXCEPT ![w] = free[Len(free)]]
         /\ free' = SubSeq(free, 1, Len(free) - 1)
         /\ UNCHANGED sets

return_buffers(w) ==
    /\ held' = [held EXCEPT ![w] = 0]
    /\ free' = IF held[w] = 0 THEN free ELSE Append(free, held[w])

\* GpuEntropyBackend::start() returns a GpuPending, or null when nothing was
\* submitted.  main() makes no engine with a backend that is not ok().
GpuStartReturns(w, result) == pending' = [pending EXCEPT ![w] = result]

\* submit_payload_entropy(): take a set from the pool.
SubmitTake(w) ==
    /\ use_gpu
    /\ Step(w, "start", "fit")
    /\ take_buffers(w)
    /\ UNCHANGED <<job, at, pending, entropies, command, use_gpu, logVars>>

TotalBytes(packets) ==
    LET sum[k \in 0..Len(packets)] == IF k = 0 THEN 0 ELSE sum[k - 1] + packets[k].size
    IN sum[Len(packets)]
Needed(packets, k) ==
    IF Parts[k] = "data" THEN TotalBytes(packets) ELSE Word * Len(packets)

Largest(S) == CHOOSE x \in S : \A y \in S : y <= x

Fits(buffer, needed) == buffer.size > 0 /\ buffer.capacity >= needed
Grown(buffer, needed) == Largest({needed, buffer.capacity * 2, MinGrow})

\* Mutant: a failed allocation leaves the new capacity behind, and only the
\* capacity is asked about.
ensure_capacity_lax(buffer, needed, granted) ==
    IF buffer.capacity >= needed THEN buffer
    ELSE [size |-> IF granted THEN Grown(buffer, needed) ELSE 0,
          capacity |-> Grown(buffer, needed)]

\* The buffer as it is, grown, or null when the device grants no memory.
ensure_capacity(buffer, needed, granted) ==
    IF Fits(buffer, needed) THEN buffer
    ELSE [size |-> IF granted THEN Grown(buffer, needed) ELSE 0,
          capacity |-> IF granted THEN Grown(buffer, needed) ELSE 0]

\* The first n buffers of a set made to fit the packets.
FitFirst(set, packets, n) ==
    [set EXCEPT !.buffer =
        [k \in 1..4 |-> IF k <= n THEN ensure_capacity(@[k], Needed(packets, k), TRUE)
                                 ELSE @[k]]]

\* Every buffer fits; payloads, offsets and lengths are written to the set.
SubmitFill(w) ==
    LET packets == Eligible(Batch(w)) IN
    /\ Step(w, "fit", "commit")
    /\ sets' = [sets EXCEPT ![held[w]] =
                   [FitFirst(@, packets, 4) EXCEPT !.work = packets]]
    /\ UNCHANGED <<job, at, pending, held, entropies, free, command, use_gpu, logVars>>

\* The k-th buffer has to grow and the device has no memory for it: the set
\* goes back as it is and start() returns null.
SubmitNoMemory(w) ==
    /\ Step(w, "fit", "rules")
    /\ \E k \in 1..4 :
           LET packets == Eligible(Batch(w))
               set == FitFirst(sets[held[w]], packets, k - 1)
               needed == Needed(packets, k)
           IN /\ ~Fits(set.buffer[k], needed)
              /\ sets' = [sets EXCEPT ![held[w]] =
                     [set EXCEPT !.buffer[k] = ensure_capacity(@, needed, FALSE)]]
    /\ GpuStartReturns(w, "null")
    /\ return_buffers(w)
    /\ UNCHANGED <<job, at, entropies, command, use_gpu, logVars>>

\* Mutant: the set is dropped with the dispatch instead of being returned.
SubmitNoCommandDropping(w) ==
    /\ Step(w, "commit", "rules")
    /\ GpuStartReturns(w, "null")
    /\ held' = [held EXCEPT ![w] = 0]
    /\ UNCHANGED <<free, job, at, entropies, sets, command, use_gpu, logVars>>

\* queue->commandBuffer() returned null.
SubmitNoCommand(w) ==
    /\ Step(w, "commit", "rules")
    /\ GpuStartReturns(w, "null")
    /\ return_buffers(w)
    /\ UNCHANGED <<job, at, entropies, sets, command, use_gpu, logVars>>

SubmitCommit(w) ==
    /\ Step(w, "commit", "rules")
    /\ GpuStartReturns(w, "gpu")
    /\ command' = [command EXCEPT ![job[w]] =
                      [state |-> "running", set |-> held[w],
                       count |-> Len(Eligible(Batch(w))), computed |-> {}]]
    /\ UNCHANGED <<job, at, held, entropies, free, sets, use_gpu, logVars>>

\* Mutant: the loop ends one packet early.
LastPacketEarly(w) == at[w] + 1 >= Len(Batch(w))

LastPacket(w) == at[w] = Len(Batch(w))

\* SignatureDatabase::matches(): the hash of a non-empty payload is known.
matches(p) == p.size > 0 /\ p.bad

\* The engine's sink, once per alert; g_alerts_by_type counts each one.
print_alert(alerts) == events (+) SetToBag(alerts)

\* One turn of the loop over the batch: the signature rule, then observe().
Rules(w) ==
    LET p == Batch(w)[at[w]]
        id == <<job[w], at[w]>>
        sunk == IF matches(p) THEN {<<"signature", id>>} ELSE {}
        last == LastPacket(w)
        quiet == Eligible(Batch(w)) = <<>>
    IN /\ pc[w] = "rules"
       /\ pc' = [pc EXCEPT ![w] = IF ~last THEN "rules" ELSE IF quiet THEN "idle" ELSE "wait"]
       /\ at' = [at EXCEPT ![w] = @ + 1]
       /\ events' = print_alert(sunk) (+) SetToBag({<<"observe", id>>})
       /\ finished' = IF last /\ quiet THEN finished \cup {job[w]} ELSE finished
       /\ UNCHANGED <<job, pending, held, entropies, gpuVars, jobs, fallbacks>>

Collect(w, values) ==
    /\ entropies' = [entropies EXCEPT ![w] = values]
    /\ UNCHANGED fallbacks

\* cpu_fallback_.compute() over the same packets.
FallBack(w) ==
    /\ fallbacks' = fallbacks + 1
    /\ entropies' = [entropies EXCEPT ![w] = Highs(Eligible(Batch(w)))]

\* Mutant: the results are read without waiting for the dispatch.
WaitGpuHasty(w) ==
    /\ pending[w] = "gpu"
    /\ LET values == sets[held[w]].results
           n == Len(Eligible(Batch(w)))
       IN Collect(w, [k \in 1..n |-> k \in DOMAIN values /\ values[k]])

\* Mutant: only a completed command ends the wait.
WaitGpuCompleted(w) ==
    /\ pending[w] = "gpu" /\ command[job[w]].state = "completed"
    /\ Collect(w, SubSeq(sets[held[w]].results, 1, command[job[w]].count))

\* waitUntilCompleted() and the status of the command buffer.
WaitGpu(w) ==
    /\ pending[w] = "gpu"
    /\ \/ /\ command[job[w]].state = "failed"
          /\ FallBack(w)
       \/ /\ command[job[w]].state = "completed"
          /\ LET values == SubSeq(sets[held[w]].results, 1, command[job[w]].count)
             IN IF Len(values) = Len(Eligible(Batch(w)))
                THEN Collect(w, values) ELSE FallBack(w)

Wait(w) ==
    /\ Step(w, "wait", "report")
    /\ \/ pending[w] = "null" /\ FallBack(w)
       \/ pending[w] = "ready" /\ Collect(w, entropies[w])
       \/ WaitGpu(w)
    /\ UNCHANGED <<job, at, pending, held, gpuVars, jobs, events, finished>>

\* Entropy alerts go out.
Report(w) ==
    LET positions == EligibleAt(Batch(w)) IN
    /\ Step(w, "report", "release")
    /\ events' = print_alert({<<"entropy", <<job[w], positions[k]>>>> :
                                k \in {j \in 1..Len(positions) : entropies[w][j]}})
    /\ UNCHANGED <<job, at, pending, held, entropies, gpuVars, jobs, finished, fallbacks>>

\* The pending object dies with the call: ~PendingGpuEntropy() returns the
\* set.  wait() has been called, so the destructor does not wait again.
Release(w) ==
    /\ Step(w, "release", "idle")
    /\ return_buffers(w)
    /\ pending' = [pending EXCEPT ![w] = "none"]
    /\ finished' = finished \cup {job[w]}
    /\ UNCHANGED <<job, at, entropies, sets, command, use_gpu, jobs, events, fallbacks>>

WorkerStep(w) ==
    \/ CpuStart(w) \/ SubmitTake(w) \/ SubmitFill(w) \/ SubmitNoMemory(w)
    \/ SubmitNoCommand(w) \/ SubmitCommit(w)
    \/ Rules(w) \/ Wait(w) \/ Report(w) \/ Release(w)

-----------------------------------------------------------------------------
(* The GPU: one threadgroup per payload, in any order.                     *)

\* The kernel reads payload i as the set holds it now, from its own place
\* (a batch that fits 32-bit offsets), and writes result i.
GpuCompute(n) ==
    \E i \in 1..command[n].count \ command[n].computed :
        LET s == command[n].set
            r == sets[s].results
            work == sets[s].work
            value == i <= Len(work) /\ work[i].high
            width == IF i > Len(r) THEN i ELSE Len(r)
        IN /\ command[n].state = "running"
           /\ command' = [command EXCEPT ![n].computed = @ \cup {i}]
           /\ sets' = [sets EXCEPT ![s].results =
                  [k \in 1..width |->
                      IF k = i THEN value ELSE k <= Len(r) /\ r[k]]]
           /\ UNCHANGED <<workerVars, free, use_gpu, logVars>>

GpuComplete(n) ==
    /\ command[n].state = "running"
    /\ command[n].computed = 1..command[n].count
    /\ command' = [command EXCEPT ![n].state = "completed"]
    /\ UNCHANGED <<workerVars, free, sets, use_gpu, logVars>>

\* The command buffer ends in an error, whatever has been written.
GpuFail(n) ==
    /\ command[n].state = "running"
    /\ command' = [command EXCEPT ![n].state = "failed"]
    /\ UNCHANGED <<workerVars, free, sets, use_gpu, logVars>>

GpuStep(n) == GpuCompute(n) \/ GpuComplete(n) \/ GpuFail(n)

\* Every batch of the bound has been analysed.
AnalysisDone ==
    /\ Len(jobs) = MaxBatches /\ \A w \in Workers : pc[w] = "idle"
    /\ UNCHANGED analysisVars

AnalysisNext ==
    \/ \E w \in Workers : AnalyzeBatch(w) \/ WorkerStep(w)
    \/ \E n \in 1..MaxBatches : GpuStep(n)
    \/ AnalysisDone

AnalysisSpec == AnalysisInit /\ [][AnalysisNext]_analysisVars

\* Threads are scheduled, and a committed command buffer ends in one of
\* its two ways.
AnalysisFairSpec ==
    /\ AnalysisSpec
    /\ \A w \in Workers : WF_analysisVars(WorkerStep(w))
    /\ \A n \in 1..MaxBatches : WF_analysisVars(GpuStep(n))

-----------------------------------------------------------------------------
(* Properties                                                              *)

\* A buffer set belongs to one worker or to the pool, and the pool holds it
\* once: a set the GPU may still write to is nobody else's
\* (PendingGpuEntropy: "the GPU may still be writing to them").
BuffersExclusive ==
    /\ \A v, w \in Workers : v # w /\ held[v] # 0 => held[v] # held[w]
    /\ \A i, j \in 1..Len(free) : i # j => free[i] # free[j]
    /\ \A w \in Workers, i \in 1..Len(free) : held[w] # free[i]
    /\ \A n \in 1..MaxBatches :
           command[n].state = "running" =>
               \E w \in Workers : job[w] = n /\ held[w] = command[n].set

\* What submit_payload_entropy() wrote to a set lies within the memory the
\* device gave for it, however often allocation failed before.
WritesInBounds ==
    \A w \in Workers :
        pc[w] = "commit" =>
            \A k \in 1..4 :
                sets[held[w]].buffer[k].size >= Needed(Eligible(Batch(w)), k)

\* The pool makes at most one set per worker: no failure path loses one.
PoolBounded == Len(sets) <= Cardinality(Workers)

\* One outcome of a rule for a packet.
Fired(rule, n, i) ==
    LET event == <<rule, <<n, i>>>> IN IF BagIn(event, events) THEN events[event] ELSE 0
Expected(cond) == IF cond THEN 1 ELSE 0

\* main.cpp: "entropy and signature counts are per-packet".  An analysed
\* packet was observed once and raised exactly the alerts its payload
\* deserves, whichever backend, failure or interleaving there was.  Offsets
\* that wrap and rounding at the threshold are outside it.
AlertsExact ==
    \A n \in finished : \A i \in 1..Len(jobs[n]) :
        LET p == jobs[n][i] IN
        /\ Fired("observe", n, i) = 1
        /\ Fired("signature", n, i) = Expected(p.size > 0 /\ p.bad)
        /\ Fired("entropy", n, i) = Expected(p.size >= MinPayload /\ p.high)

\* analysis_engine.hpp: "within a batch, entropy alerts come out after the
\* others": none is out while a packet of its batch is still to be observed.
EntropyAfterRules ==
    \A n \in 1..Len(jobs) : \A i, k \in 1..Len(jobs[n]) :
        Fired("entropy", n, i) > 0 => Fired("observe", n, k) > 0

\* analyze_batch() returns: a worker waits for the GPU only while a
\* dispatch that will end is out.
BatchesFinish == \A n \in 1..MaxBatches : Len(jobs) >= n ~> n \in finished
=============================================================================
