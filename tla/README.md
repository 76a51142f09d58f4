# A TLA+ model of NetSentinel

NetSentinel captures packets on one thread, hands them through a bounded queue
to a pool of workers, and runs four detection rules on them. These modules
model that pipeline from the C++ source, TLC checks it on small instances, and
TLAPS proves every safety property those runs pass, for all sizes.

## 1. Inventory

| Part (source) | State | Operations | Hard behaviour |
|---|---|---|---|
| `PacketQueue` (`src/queue/packet_queue.cpp`) | `items_`, `wanted_`, `shutdown_`, two condition variables | `push`, `pop_batch`, `shutdown`, `is_finished` | untimed wait in `push`; notifications sent after the unlock; `notify_one` only at two sizes; two waits on one condition variable |
| `WorkerPool` (`src/queue/worker_pool.cpp`) | threads, `processed_`, `batches_` | `start`, `worker_loop`, `join` | empty batch and `is_finished()` are two critical sections |
| Capture loop (`src/capture/capture.cpp`) | `handle_`, `live_`, the descriptor to poll, the global stop flag | `open_*`, `run`, `request_stop` | flag set from a signal handler, cleared by `run()`; nested loops with four ways out; sources that can only be waited for inside libpcap; a frame buffer that is reused |
| Program (`src/main.cpp`) | life cycle of all threads | `main`, `handle_sigint` | order of join, shutdown, join; SIGINT at any time |
| `FlowTracker` (`src/analysis/flow_tracker.cpp`) | per shard: map of per-IP windows, sweep counter | `observe`, `evict_stale` | packets of one IP observed out of timestamp order by two workers; incremental windows kept twice; eviction |
| Parser (`src/capture/parser.cpp`) | none | `parse_packet`, `make_queued_packet` | lengths claimed by the packet against the captured length |
| `AnalysisEngine` and backends (`src/analysis/analysis_engine.cpp`, `entropy_backend.cpp`, `src/gpu/*.cpp`) | fallback counter, GPU buffer pool, in-flight dispatches | `analyze_batch`, `start`/`wait`, `submit_payload_entropy`, destructor | asynchronous GPU work on pooled buffers; five places that can fail |
| Entropy kernel (`shaders/payload_entropy.metal`) | histogram, partial sums, the batch's layout | one kernel | threads of a group between barriers; a reduction that needs a power of two; 32-bit offsets |
| Signature database, entropy function, formatting, benchmarks, scripts | | | pure functions or tools |

Interactions: the capture thread calls `parse_packet` and then `push`; workers
call `pop_batch`, then `analyze_batch`, which calls the backend, the signature
database and `FlowTracker::observe`; the main thread joins the capture thread,
calls `shutdown`, joins the pool and prints a summary; SIGINT sets the stop flag.

What makes each part correct, in one line: the queue loses, duplicates and
reorders nothing and leaves nobody asleep who should be awake; the pool analyses
everything once and ends; the program ends when asked and its summary is
complete; the windows hold what their definition says and stay bounded; the
parser stays inside the captured bytes; a packet's alerts do not depend on what
the GPU does. `PROJECT.json` lists the hazards line by line with the properties
that guard them.

## 2. Modules

| Module | Models |
|---|---|
| `BoundedChannel` | abstract bounded FIFO: send, receive a batch, close |
| `PacketQueue` | the queue with arbitrary callers |
| `WorkerPool` (extends `PacketQueue`) | the pool's threads over that queue |
| `Capture` | the capture loop |
| `Pipeline` (extends `WorkerPool`, `Capture`) | `main()`: the composition |
| `Detector` | abstract: both per-IP rules decided over the whole history |
| `FlowTracker` | the two per-IP rules as implemented |
| `Parser` | the length arithmetic of parsing and copying |
| `Analysis` | `analyze_batch()`, both backends, the buffer pool, the GPU |
| `EntropyKernel` | the threads of one threadgroup of the kernel, and its host side |
| `PacketQueueProofs`, `WorkerPoolProofs`, `PipelineProofs`, `ParserProofs`, `FlowTrackerProofs`, `AnalysisProofs`, `EntropyKernelProofs` | theorems about the module each is named after |
| `DataInduction` | induction and recursion over the naturals, for those proofs |
| `MC*` with their `.cfg` files | instances for TLC |

Operators whose comment starts with "Mutant" are plausible bugs of the
definition that follows. No specification uses them; substituted for that
definition, each makes the property it belongs to fail, which shows that the
property is sensitive to the code.

### PacketQueue

One action is one critical section under `mutex_`. `not_full` and `not_empty`
are the sets of threads asleep; a thread in `push_wait`, `pop_wait` or
`linger_wait` that is not in its set has been woken and is on its way to the
mutex. `push()` is `PushCall`, `PushResume` after a wakeup and `PushNotify` after
the unlock; `pop_batch()` is `PopCall`, `PopResume`, `LingerResume`, the two
timeouts (`PopExpire`, `LingerExpire`: the deadline passes; `PopExpired`,
`LingerExpired`: the mutex is back) and its two notifications. A timeout may come
with or without a notification, and any sleeper may wake spuriously. Packets are
numbered in the order they are handed to `push()`. `pushed`, `popped` and
`rejected` are history variables. The wait-time counters are left out.

### WorkerPool, Capture, Pipeline

`worker[w]` is the place in `worker_loop()`; a worker inside `pop_batch()` takes
the queue's steps. `cap` is the place in `run()`; the local `done` is folded into
the steps that set it. `RunEnter` decides what a live source offers: a descriptor
to poll (`fd`) and whether `pcap_setnonblock()`, whose result the code ignores, took
effect (`nonblock`). `late` counts the frames read after a stop was requested.
`Pipeline` adds `phase`, the place in `main()`, and the SIGINT handler, which can run
in any phase after it is installed. Opening and the GPU check may fail and end the
program. `make_queued_packet()` copies the payload out of libpcap's one buffer before
`push()` is called and before the next frame is read; no other thread sees the packet
until then, so the program's model leaves the bytes out, and `Parser` has which bytes
the copy takes.

### FlowTracker

`observe()` holds its shard's lock throughout, so it is one action, sweep and
eviction included. Concurrency shows in the order: `Take` gives a worker the next
packet (timestamps do not decrease in capture order) and `Observe` comes some
time later. A worker holds one packet; a batch of *n* in one worker's hands is *n*
workers holding one each. That the packets in other workers' hands are the only ones
that can be overtaken is not assumed: it is `OvertakenInHand` of the pool, and that the
queue holds the packets in capture order is `ProgramCaptureOrder`. Which records the cap removes depends on a hash map's
order and is left open. `log` is a history of every packet observed, which
eviction does not touch.

`Detector` is what `flow_tracker.hpp` promises: remember everything, and on each
packet look back over the history for distinct ports, half-open connections and
earlier alerts. `ImplementsDetector` maps its history to `log`. It holds for packets
observed in capture order, an idle limit no shorter than the windows and the
debounce, and no more sources than the cap; `flow_window` and `flow_debounce` show
what goes wrong without the first and the last of these.

### Parser

A frame is the fields the parser branches on. `parse_packet(f)` is the result's
transport, payload offset and length; `Reads(f)` are the byte ranges of the
headers, each once its guard has held. `HeadersEnd(f)`, `PayloadEnd(f)` and
`Decodable(f)` say the same of the wire format, without the parser's tests and
clamps; the properties compare the two. The widths of the header's length fields
do not matter to the proofs and are left out of the frame type. The copied
addresses, ports and flags are left out.

### Analysis

`analyze_batch()` step by step for each worker, with the GPU as a third party: a
committed command computes its payloads in any order, reading the buffer set as
it is at that moment, and completes, or fails at any point. `sets[s].buffer[k]`
keeps the memory really allocated (`size`) apart from what the code believes
(`capacity`). A packet is `[size, high, bad]`: entropy values are reduced to "at or
above the threshold". The GPU computes in `float` and the CPU in `double`, so a
payload whose entropy lies within rounding of the threshold may differ in the
program; the model has no such payload. Each payload is read from its own place in the
buffer, so a batch is taken to fit the 32-bit offsets of `metal_context.cpp:312`;
`AlertsExact` says nothing of a batch beyond 4 GiB (see `EntropyKernel`). Device set-up, `last_error` and the
autorelease pools are left out. `PendingGpuEntropy`'s destructor waits only for a
dispatch nobody waited for, and `analyze_batch()` always waits for one it started.

### EntropyKernel

The host lays out a batch (`Concat`, `Offset`, with offsets and lengths as `uint`,
`Span` values wide; one payload, part of one captured packet, is far shorter than
that, but a batch of them may be longer) and halves the group size until the device accepts it
(`GroupSize`). Then each thread of one group runs the kernel: one action is one turn
of a loop or one statement on shared memory, and `Barrier` lets the group pass when
all its threads are there. The groups of a dispatch share only memory they read, so
one group, for any payload of the batch, is enough. A sum of `p * log2(p)` terms is
the bag of the terms added, `<<bin, count>>`; rounding, which depends on the order, is
left out. Threadgroup memory starts with zeros or with leftovers.

## 3. What TLC checks

| Run | Instance | Shows |
|---|---|---|
| `queue_safety` | 2 producers, 2 consumers, capacity 3, batch 2, 5 packets, linger | types, capacity, FIFO, one fate per packet, four wakeup invariants, implementation of `BoundedChannel` |
| `pool` | 2 producers that can both block, 2 workers, capacity 2 < batch 3, 4 packets | analysed once, overtaken only while held by a worker, exit only when drained, counters agree; without the poll timeout every packet is taken, every blocked `push` returns and `shutdown` leads to `join` |
| `program` | file, pollable or blocking interface, 2 workers, queue of 1, limit 2 of 3 frames | types, no overrun (packet limit, at most one frame after a stop), nothing refused, complete summary; a stop during the capture, and the end of a file, end the program |
| `program_early_sigint` | 1 worker, 1 frame | **violated**: an early Ctrl-C is forgotten |
| `flow_inorder` | 1 worker, 2 IPs, 3 flows on 2 ports, 5 packets, times 0..4 | windows equal their definition; implementation of `Detector` |
| `flow_concurrent` | 2 workers, 3 IPs, 2 shards, all packet kinds, 4 packets | both representations agree; memory bounded |
| `flow_window` | 2 workers, SYNs of 1 IP | **violated**: an expired entry counts |
| `flow_debounce` | 1 worker, 2 IPs, cap 1 | **violated**: a second alert too early |
| `parser_bounds` | 68,001 frames at every boundary | reads and copies in bounds; a copy lies behind all headers, options included; a payload that is there is copied whole |
| `analysis_safety` | either backend, 2 workers, 3 batches, GPU failures | buffers exclusive and large enough, pool bounded, exact alerts, order of alerts |
| `analysis_live` | either backend, 2 batches, GPU failures | every batch ends |
| `kernel` | 4 bins, groups of 1, 2 and 4 threads, empty, short and long payloads, one batch too large for its offsets | exact result, no race, every thread ends |

**Bounds.** Two threads of each kind suffice for the pairwise races of the queue
(one acts between another's unlock and its notification); capacities are taken
both below and above the batch size, and there are more packets than the queue
holds, so that producers block and batches are left over. Frames and packets are
capped by `MaxPackets`, `MaxFrames`, `MaxObserved`, `MaxTime` and `MaxBatches`. The
flow runs have enough time for entries to leave a window and for an alert to
leave its debounce interval; their windows are no longer than the idle limit, as in
the default configuration. The batches of `analysis_safety` have payloads that are
empty, too short, just long enough and large enough to make a pooled buffer
grow. The kernel's groups have one thread for all bins, two bins per thread, and one
thread per bin; a device limit that is no power of two is among them. Symmetry (of the workers) is used in `analysis_safety` only.

**Fairness.** Threads are scheduled (weak fairness of each thread's next step) and a
linger's deadline passes. The pool's and the program's liveness deliberately do not
count on the first wait's poll timeout: if only that timeout rescued a packet, the
run would fail. Of the environment, the program's liveness counts on `poll()` and
on reads of a non-blocking descriptor or of a file returning; it counts on no
signal, error, spurious wakeup or end of a live source, and not on
`pcap_next_ex()` returning for a live source in blocking mode (`Blocking`), which is
the one excuse `StopHonoured` allows. A committed GPU command eventually completes or
fails. The threads of a group are scheduled independently, as the barriers of the
kernel assume. `kernel` does not check for deadlock, because a kernel ends;
`KernelEnds` says that it ends nowhere else.

### Where code and documents disagree

1. `program_early_sigint`: the SIGINT handler is installed (`main.cpp:225`) before
   `run()` clears the stop flag (`capture.cpp:74`); a Ctrl-C in between is lost.
2. `flow_window`: expiry looks only at the front of the queue
   (`flow_tracker.cpp:105`); with packets observed out of order an expired entry
   behind a younger one still counts. README and DESIGN say the state is
   "always correct". `CountsMirrorWindow` and `NoOrphanSyn` show what does survive.
3. `flow_debounce`: eviction by the cap forgets the last alert
   (`flow_tracker.cpp:71`), against "at most once every 2 seconds per rule".

Three smaller ones have no run of their own. The cap on tracked IPs holds after
sweeps, not always (DESIGN: "each shard holds at most 1024 IPs");
`TrackedBounded` is the bound that holds, the cap plus the observations since the
last sweep. And a non-IPv4 frame yields a packet (`parser.cpp:28`), not
`std::nullopt` as `parser.hpp` says; the parser's test agrees with the code. And the
layout `metal_context.hpp` describes ("payload i is bytes[offsets[i] .. offsets[i] +
lengths[i])") holds while a batch's bytes fit 32 bits; `-b` allows batches that do not
(2^20 packets of 64 KiB), whose later offsets wrap (`metal_context.cpp:312`).
`KernelExact` states the result with that condition, so no property covers the wrap.

## 4. What is proved

Each theorem holds for every value of the constants that satisfies the named
assumptions of the module that declares them. The bounds on packets, frames and
batches (`MaxPackets`, `MaxFrames`, ...) may be any natural number.

**Queue** (`PacketQueueProofs`; any producers and consumers, positive capacity and
batch size, with and without linger).

* `QueueTypeCorrect`: `QueueTypeOK` is inductive by itself. That only threads in
  the matching wait state sleep on a condition variable is part of it, because
  every later argument about sleepers needs it.
* `QueueWakeInv` and its corollaries `QueueWithinCapacity`,
  `QueueNoLostPushWakeup`, `QueueNoStrandedPackets`, `QueueFullBatchHandoff` and
  `QueueShutdownWakesAll`. None of these is inductive alone. `FullBatchHandoff`
  needs that `push()` crosses exactly `wanted_` on the way up, hence
  `WantedKnown`: while a consumer is inside `pop_batch()`, `wanted_` is the batch
  size. `ShutdownWakesAll` needs `ShutdownByMain`: the flag is set exactly when the
  main thread has left its first section. `NoStrandedPackets` needs
  `FullBatchHandoff` when a lingerer takes its batch. `WakeInv` is their
  conjunction; the step lemma goes action by action.
* `QueueFifo`: `pushed = popped \o items`, by how each section cuts or extends
  `items`. `QueueDropsNothing` and `QueueOneFate` follow from `OrderInv`, which adds
  to it that the numbers handed to `push()` are exactly those accepted, refused or
  held by a blocked producer, and that these are disjoint: each half is what
  preserves the other when a blocked `push()` goes on.
* `QueueImplementsChannel`: initial states map to initial states, and each step is
  a `Send`, a `Receive`, a `Close` or a stutter of `BoundedChannel` (`StepKinds`).

**Pool and program** (`WorkerPoolProofs`, `PipelineProofs`). `PoolUsesQueue` is
`PoolSpec => QueueSpec` and `ProgramUsesPool` is `Spec => PoolSpec`: every step of the
program is a step of the pool, and so of the queue, or leaves it alone. All
theorems about the queue and the pool therefore hold in the program.

* `PoolAnalysesOnce`, `PoolExitsDrained` and `PoolJoinedProcessed` from `PoolInv`.
  `AnalysedOnce` alone does not survive the moment between analysing and counting
  a batch, so `BatchesApart` says that no packet is in two batches or twice in one;
  `CountersExact` gives `processed_` a meaning in between (the analysed packets that
  are in no batch still to be counted), and `Finished` that a queue one worker saw
  finished stays so. `JoinedMeansProcessed` then follows without induction.
  `PoolOvertakes` adds `BatchIsRun` (a batch is a run of consecutive packets in the
  order they were popped): a packet popped after another was queued after it, so the
  earlier one is analysed or, by `AnalysedOnce`, in a worker's hands, and inside one
  batch the order is the queue's.
* `ProgramTypeCorrect`, `ProgramNeverRefuses`, `CaptureNeverOverruns`,
  `ProgramCaptureOrder` and `ProgramSummary` from `ProgramInv`: `PhaseOrder` (the capture
  thread has returned before `shutdown()`, and the pool before the summary),
  `PushFromHandler` (it is inside `push()` only while it handles a frame), `Tally`
  (calls of `push()` against `delivered`), `Limit` and `StopSeen`. `NeverRefused` needs the
  first two together. `ProgramCaptureOrder` needs `NeverRefused` and one producer: the
  *k*-th packet queued is the *k*-th captured, and only the newest can be missing, in a
  blocked `push()`.

**Flow tracker** (`FlowTrackerProofs`), in two parts.

* In any order of observation, for any workers: `FlowCountsMirror` and
  `FlowNoOrphanSyn` from `FlowInv` (every record is well formed, its counts are those of
  its queue, its pending SYNs have their entries), and `FlowTrackedBounded`.
* Under `InOrder` (one worker; windows and debounce no longer than the idle limit;
  no more sources than the cap), which the constants of `flow_inorder` satisfy:
  `FlowWindowsExact`, `FlowImplementsDetector` and `FlowDebounced`. The invariant is
  `HistoryInv`. A record's queues are ordered (so expiry from the front removes
  exactly what is too old), cover every attempt and every open SYN of the window
  that ended with its last packet, and hold nothing the history does not; a source
  without a record was last seen longer ago than the idle limit; and the record's
  last alert is the last one ever, or all alerts are that old. The last two are why
  idle eviction cannot be noticed. Each of the three conditions is used, and without
  the first or the third `flow_window` and `flow_debounce` have counterexamples.

**Parser** (`ParserProofs`; any set of frames, `FramesTyped`): `ParserReadsInBounds`,
`ParserCopyInBounds` and `ParserPayloadComplete`. `ParserInv` ties the packet and the
copy to the frame. `PayloadPlaced` shows for each transport that a payload given
begins at `HeadersEnd` and ends at `PayloadEnd`; `PayloadGiven` shows the converse, that
a frame with bytes between the two gets past every early return.

**Analysis engine and buffer pool** (`AnalysisProofs`; a finite set of workers, any
non-empty batches, as `pop_batch()` delivers them), in four layers, each relative to
the ones before.

* `TypeInv`: types, that two workers never have the same batch, and which fields mean
  something in which place of `analyze_batch()`.
* `OwnInv`: every set is in the free stack or held by exactly one worker, and a
  running command's set is held by the worker that waits for it. Gives
  `AnalysisBuffersExclusive` and `AnalysisPoolBounded`.
* `WorkInv`: before the commit the set describes the worker's eligible packets and is
  large enough for them; while the command runs its results so far are right; what is
  about to be reported is what the packets deserve. Gives `AnalysisWritesInBounds`.
* `AlertInv`: which alerts are out at each place of `analyze_batch()`. Gives
  `AnalysisAlertsExact` and `AnalysisEntropyAfterRules`.

**Kernel** (`EntropyKernelProofs`; any number of bins, any payloads, any device
limit; the largest group is a power of two, and a payload's length plus one group fits
a `uint`).

* `KernelLockstep` (`GroupInv`): all threads are between the same two barriers with
  the same stride. `KernelNoDataRace` follows.
* `KernelResultExact` from `ResultInv`, which says phase by phase what threadgroup
  memory holds: bins cleared so far, bytes counted so far, terms added so far, and in
  the reduction that partial sum *t* is the bag of the terms of the bins congruent to
  *t* modulo twice the stride. It needs the power of two (`GroupSizeFacts`) and that one
  payload's indices do not wrap. A payload of exactly `Span` bytes would have length 0:
  that is why the assumption on lengths is there.

**Induction over data.** The library's induction theorems take an operator
parameter, which the installed provers cannot instantiate. `DataInduction` states
induction for membership in a set, and the existence of a function defined by
recursion, as first-order lemmas (from the well-foundedness of `<` on the naturals);
the recursive functions of `Analysis` and `EntropyKernel` are reasoned about with them.

**Only model-checked**: liveness (`PoolTerminates`, `Delivered`, `PushReturns`,
`StopHonoured`, `OfflineTerminates`, `BatchesFinish`, `KernelEnds`), which needs fairness
and `ENABLED` and is out of the prover's reach; and the three violated properties,
whose counterexamples TLC shows.

## 5. Not modelled

* Formatting of packets and alerts, the text of the options (`MainOptions` only
  refuses, lists or accepts them), what `list_devices()` prints, statistics (wait
  times, rates, `tracked_ip_count()`): no state that a decision depends on.
* Floating point (the value and the rounding of an entropy) and FNV-1a over 64 bits:
  beyond TLC's integers; the models keep which terms are added, and whether a
  payload's hash is known.
* `vector_add` with its smoke test, the benchmarks and the scripts: they drive the
  modelled components one client at a time, or not at all.
* `delivered` is an unbounded number in the model and an `int` in the code.
* Objective-C object lifetimes and the autorelease pools, which belong to metal-cpp.

## 6. Plan

Modelled: queue, pool, capture, program, flow tracker, detector, parser, analysis
engine, kernel. Proved: every safety property of the passing runs. What is left:

1. A weaker `InOrder`: several workers, as long as the packets of each source are
   observed in order.
2. The safety half of the liveness properties: that no reachable state of the pool or
   of the kernel is stuck, from `WakeInv` and `GroupInv`.
