--------------------------- MODULE PipelineProofs ---------------------------
(***************************************************************************)
(* Theorems about the whole program, for any number of workers and frames, *)
(* any capacity, batch size and packet limit.  The program inherits the    *)
(* theorems about the queue and the pool: each of its steps is a step of   *)
(* the pool or leaves the pool and its queue alone.                        *)
(***************************************************************************)
EXTENDS Pipeline, WorkerPoolProofs

\* The types of the capture loop's and the main thread's own variables.
OwnTypeOK ==
    /\ CaptureTypeOK
    /\ phase \in Phases /\ interrupted \in BOOLEAN

\* main() starts the capture thread before it joins it, joins it before it
\* shuts the queue down, and returns after the workers did.
PhaseOrder ==
    /\ cap # "ready" => phase \in {"join_capture", "shutdown", "join_pool", "done"}
    /\ phase \in {"shutdown", "join_pool", "done"} => cap = "returned"
    /\ shutdown => phase \in {"join_pool", "done"}
    /\ phase = "done" => Joined

\* The capture thread is inside push() only from its handler.
PushFromHandler == pc[CaptureThread] # "idle" => cap = "handling"

\* Every packet given to push() came from a frame of its own, and was
\* delivered unless its handler has not returned.
Tally ==
    /\ calls = IF cap = "handling" THEN delivered + 1 ELSE delivered
    /\ calls <= frames
    /\ cap = "ready" => frames = 0

\* run() returns as soon as max_packets are delivered.
Limit ==
    MaxDelivered > 0 =>
        /\ delivered <= MaxDelivered
        /\ cap # "returned" => delivered < MaxDelivered

\* After the one late frame the loops find the flag set before they read.
StopSeen == late > 0 => late = 1 /\ stop_requested /\ cap # "read"

\* The program's inductive invariant, relative to the queue's and the pool's.
ProgramInv == PhaseOrder /\ PushFromHandler /\ Tally /\ Limit /\ StopSeen

-----------------------------------------------------------------------------
(* The program's steps are the pool's                                      *)

LEMMA MainStepsPool ==
    ASSUME MainStep \/ Sigint PROVE [PoolNext]_allPoolVars
<1> USE DEF allPoolVars
<1>1. CASE MainStart
  BY <1>1 DEF MainStart, PoolNext
<1>2. CASE MainShutdown
  BY <1>2 DEF MainShutdown, PoolNext
<1>3. CASE MainShutdownStep
  BY <1>3 DEF MainShutdownStep, PoolNext
<1>4. ASSUME NEW from, NEW to, MainGoto(from, to) PROVE UNCHANGED allPoolVars
  BY <1>4 DEF MainGoto
<1>5. CASE MainOptions \/ MainInstall \/ MainBackend \/ MainLaunch \/ MainJoinCapture
           \/ MainJoinPool
  BY <1>4, <1>5 DEF MainOptions, MainInstall, MainBackend, MainLaunch, MainJoinCapture,
     MainJoinPool
<1>6. CASE MainOpen \/ Sigint
  BY <1>6 DEF MainOpen, Sigint
<1> QED BY <1>1, <1>2, <1>3, <1>5, <1>6 DEF MainStep

LEMMA ProgramStepsPool == [Next]_vars => [PoolNext]_allPoolVars
<1> SUFFICES ASSUME [Next]_vars PROVE [PoolNext]_allPoolVars
  OBVIOUS
<1> USE DEF allPoolVars
<1>1. CaptureThread \in Producers
  BY OneProducer
<1>2. CASE CaptureStep
  <2>1. CASE CapturePush
    BY <1>1, <2>1 DEF CapturePush, PoolNext
  <2>2. CASE CaptureInPush
    BY <1>1, <2>2 DEF CaptureInPush, PoolNext
  <2>3. CASE CaptureEnter \/ CaptureLoop \/ CaptureDeliver
    BY <2>3 DEF CaptureEnter, CaptureLoop, CaptureDeliver
  <2> QED BY <1>2, <2>1, <2>2, <2>3 DEF CaptureStep
<1>3. ASSUME NEW w \in Consumers, PoolStep(w) \/ PoolInPop(w) \/ PoolExpiry(w)
      PROVE  PoolNext
  BY <1>3 DEF PoolStep, PoolInPop, PoolExpiry, PoolNext, WorkerInPop
<1>4. ASSUME NEW t \in Threads, Wakeup(t) PROVE PoolNext
  BY <1>4 DEF Wakeup, PoolNext
<1>5. CASE Ended \/ UNCHANGED vars
  BY <1>5 DEF Ended, vars
<1> QED BY MainStepsPool, <1>2, <1>3, <1>4, <1>5 DEF Next

\* Every behaviour of the program is a behaviour of the pool, and so of the
\* queue: main() and the capture thread use both only as their clients may.
THEOREM ProgramUsesPool == Spec => PoolSpec
BY ProgramStepsPool, PTL DEF Spec, Init, PoolSpec

-----------------------------------------------------------------------------
(* The program's own invariant                                             *)

ProgramOK == OwnTypeOK /\ ProgramInv

\* A step of the queue that is not the capture thread's, nor shutdown().
Elsewhere ==
    /\ UNCHANGED <<calls, rejected, shutdown>>
    /\ pc'[CaptureThread] = pc[CaptureThread]

LEMMA QueueElsewhere ==
    ASSUME QueueTypeOK,
           \/ \E w \in Consumers : PopCall(w) \/ PopStep(w) \/ Expiry(w)
           \/ ShutdownStep
           \/ \E t \in Threads : Spurious(t)
           \/ UNCHANGED queueVars
    PROVE  Elsewhere
<1> USE ThreadsDistinct, OneProducer DEF Threads, Elsewhere
<1>1. ASSUME NEW w \in Consumers, NEW label, Goto(w, label), UNCHANGED popUnchanged
      PROVE  Elsewhere
  BY <1>1, GotoFacts DEF popUnchanged
<1>2. ASSUME NEW w \in Consumers, PopCall(w) \/ PopResume(w) \/ PopExpired(w)
                \/ LingerResume(w) \/ LingerExpired(w) \/ Expiry(w)
      PROVE  Elsewhere
  BY <1>1, <1>2 DEF PopCall, PopResume, PopExpired, LingerResume, LingerExpired, Expiry,
     PopExpire, LingerExpire, PopSection, AfterFirstWait, TakeBatch, Sleep
<1>3. ASSUME NEW w \in Consumers, PopNotifyFull(w) \/ PopNotifyEmpty(w)
      PROVE  Elsewhere
  BY <1>3, GotoFacts DEF PopNotifyFull, PopNotifyEmpty
<1>4. CASE ShutdownStep
  BY <1>4, GotoFacts DEF ShutdownStep, ShutdownNotifyFull, ShutdownNotifyEmpty
<1>5. ASSUME NEW t \in Threads, Spurious(t) PROVE Elsewhere
  BY <1>5 DEF Spurious
<1>6. CASE UNCHANGED queueVars
  BY <1>6 DEF queueVars
<1> QED BY <1>2, <1>3, <1>4, <1>5, <1>6 DEF PopStep

\* Workers that have exited stay so.
LEMMA JoinedStable ==
    ASSUME PoolTypeOK, Joined, NEW w \in Consumers
    PROVE  ~WorkerStep(w) /\ ~StartWorker(w)
BY DEF Joined, WorkerStep, WorkerPop, WorkerAnalyze, WorkerCount, WorkerCheck, StartWorker

\* Steps that touch neither the capture loop nor main().
LEMMA ElsewhereKeeps ==
    ASSUME ProgramOK, Elsewhere, UNCHANGED <<captureVars, programVars>>,
           phase = "done" => Joined'
    PROVE  ProgramOK' /\ (rejected = {} => rejected' = {})
<1>1. OwnTypeOK'
  BY DEF ProgramOK, OwnTypeOK, CaptureTypeOK, captureVars, handleVars, modeVars, programVars
<1>2. ProgramInv'
  BY DEF ProgramOK, ProgramInv, PhaseOrder, PushFromHandler, Tally, Limit, StopSeen,
     Elsewhere, captureVars, handleVars, modeVars, programVars
<1> QED BY <1>1, <1>2 DEF ProgramOK, Elsewhere

LEMMA MainKeeps ==
    ASSUME QueueTypeOK, PoolTypeOK, ProgramOK, MainStep
    PROVE  ProgramOK' /\ (rejected = {} => rejected' = {})
<1> USE ThreadsDistinct, OneProducer DEF Threads
<1>1. ASSUME NEW from, NEW to \in Phases, MainGoto(from, to), to # "done",
             from \in {"join_capture", "shutdown"} => cap = "returned",
             to \in {"shutdown", "join_pool"} => cap = "returned",
             from \in {"shutdown", "join_capture"} => to \in {"join_capture", "shutdown"},
             from \notin {"join_pool", "done"}
      PROVE  ProgramOK' /\ (rejected = {} => rejected' = {})
  <2>1. OwnTypeOK'
    BY <1>1 DEF MainGoto, ProgramOK, OwnTypeOK, CaptureTypeOK, captureVars, handleVars,
       modeVars
  <2>2. PhaseOrder'
    BY <1>1 DEF MainGoto, ProgramOK, ProgramInv, PhaseOrder, queueVars, captureVars
  <2>3. (PushFromHandler /\ Tally /\ Limit /\ StopSeen)'
    BY <1>1 DEF MainGoto, ProgramOK, ProgramInv, PushFromHandler, Tally, Limit, StopSeen,
       queueVars, captureVars
  <2> QED BY <1>1, <2>1, <2>2, <2>3 DEF ProgramOK, ProgramInv, MainGoto, queueVars
<1>2. CASE MainOptions \/ MainInstall \/ MainBackend \/ MainLaunch \/ MainJoinCapture
  BY <1>1, <1>2 DEF MainOptions, MainInstall, MainBackend, MainLaunch, MainJoinCapture,
     Phases
<1>3. CASE MainOpen
  <2>1. OwnTypeOK'
    BY <1>3 DEF MainOpen, Open, ProgramOK, OwnTypeOK, CaptureTypeOK, Phases, modeVars,
       Running
  <2>2. ProgramInv'
    BY <1>3 DEF MainOpen, Open, ProgramOK, ProgramInv, PhaseOrder, PushFromHandler, Tally,
       Limit, StopSeen, queueVars
  <2> QED BY <1>3, <2>1, <2>2 DEF ProgramOK, MainOpen, queueVars
<1>4. CASE MainStart
  <2>1. OwnTypeOK'
    BY <1>4 DEF MainStart, ProgramOK, OwnTypeOK, CaptureTypeOK, Phases, captureVars,
       handleVars, modeVars
  <2>2. ProgramInv'
    BY <1>4 DEF MainStart, StartWorker, ProgramOK, ProgramInv, PhaseOrder,
       PushFromHandler, Tally, Limit, StopSeen, queueVars, captureVars
  <2> QED BY <1>4, <2>1, <2>2 DEF ProgramOK, MainStart, StartWorker, queueVars
<1>5. CASE MainShutdown
  <2>1. /\ UNCHANGED <<calls, rejected, captureVars, interrupted>>
        /\ pc'[CaptureThread] = pc[CaptureThread]
        /\ phase = "shutdown" /\ phase' = "join_pool"
    BY <1>5, GotoFacts DEF MainShutdown, ShutdownCall
  <2>2. OwnTypeOK'
    BY <2>1 DEF ProgramOK, OwnTypeOK, CaptureTypeOK, Phases, captureVars, handleVars,
       modeVars
  <2>3. ProgramInv'
    BY <2>1 DEF ProgramOK, ProgramInv, PhaseOrder, PushFromHandler, Tally, Limit,
       StopSeen, captureVars
  <2> QED BY <2>1, <2>2, <2>3 DEF ProgramOK
<1>6. CASE MainShutdownStep
  <2>1. phase = "done" => Joined'
    BY <1>6 DEF MainShutdownStep, ProgramOK, ProgramInv, PhaseOrder, Joined, poolVars
  <2> QED BY <1>6, <2>1, QueueElsewhere, ElsewhereKeeps DEF MainShutdownStep
<1>7. CASE MainJoinPool
  <2>1. OwnTypeOK'
    BY <1>7 DEF MainJoinPool, MainGoto, ProgramOK, OwnTypeOK, CaptureTypeOK, Phases,
       captureVars, handleVars, modeVars
  <2>2. ProgramInv'
    BY <1>7 DEF MainJoinPool, MainGoto, ProgramOK, ProgramInv, PhaseOrder,
       PushFromHandler, Tally, Limit, StopSeen, queueVars, poolVars, captureVars, Joined
  <2> QED BY <1>7, <2>1, <2>2 DEF ProgramOK, MainJoinPool, MainGoto, queueVars
<1> QED BY <1>2, <1>3, <1>4, <1>5, <1>6, <1>7 DEF MainStep

LEMMA SigintKeeps ==
    ASSUME ProgramOK, Sigint
    PROVE  ProgramOK' /\ (rejected = {} => rejected' = {})
<1>1. OwnTypeOK'
  BY DEF Sigint, request_stop, ProgramOK, OwnTypeOK, CaptureTypeOK, handleVars, modeVars
<1>2. ProgramInv'
  BY DEF Sigint, request_stop, ProgramOK, ProgramInv, PhaseOrder, PushFromHandler, Tally,
     Limit, StopSeen, queueVars, poolVars, Joined
<1> QED BY <1>1, <1>2 DEF ProgramOK, Sigint, queueVars

\* A step of run() that leaves the queue alone keeps the invariant if it
\* keeps the loop's part of it; main() is waiting in join().
LEMMA LoopKeeps ==
    ASSUME ProgramOK, cap \in Running \/ phase = "join_capture",
           UNCHANGED <<queueVars, poolVars, programVars>>, CaptureTypeOK',
           pc[CaptureThread] = "idle",
           Tally', Limit', StopSeen'
    PROVE  ProgramOK' /\ (rejected = {} => rejected' = {})
<1>1. phase = "join_capture" /\ ~shutdown
  BY DEF ProgramOK, ProgramInv, PhaseOrder, Running
<1>2. OwnTypeOK'
  BY DEF ProgramOK, OwnTypeOK, programVars
<1>3. PhaseOrder' /\ PushFromHandler'
  BY <1>1 DEF PhaseOrder, PushFromHandler, queueVars, programVars
<1> QED BY <1>2, <1>3 DEF ProgramOK, ProgramInv, queueVars

\* delivered counts what the handler returned from.
LEMMA LimitTest ==
    ASSUME NEW d \in Nat, MaxDelivered > 0 => d <= MaxDelivered
    PROVE  /\ AfterFrame(d) \in {"inner", "returned"}
           /\ (MaxDelivered > 0 /\ AfterFrame(d) # "returned") => d < MaxDelivered
BY CaptureConstants DEF AfterFrame

LEMMA CaptureLoopKeeps ==
    ASSUME ProgramOK, CaptureLoop
    PROVE  ProgramOK' /\ (rejected = {} => rejected' = {})
<1>1. /\ cap \in Running \ {"handling"} /\ pc[CaptureThread] = "idle"
      /\ UNCHANGED <<queueVars, poolVars, programVars>> /\ LoopStep
  BY DEF CaptureLoop, LoopStep, OuterTest, PollReady, PollAgain, PollError, InnerTest,
     ReadOther, ReadNothing, ReadEnd, Running, ProgramOK, ProgramInv, PushFromHandler
<1>2. ASSUME NEW label \in {"outer", "poll", "inner", "read", "returned"}, CapGoto(label),
             label = "read" => ~stop_requested
      PROVE  CaptureTypeOK' /\ Tally' /\ Limit' /\ StopSeen'
  <2>1. cap' = label /\ label # "handling" /\ cap # "handling" /\ cap # "ready"
        /\ UNCHANGED <<stop_requested, delivered, frames, opened, live, fd, nonblock,
                       late, calls>>
    BY <1>1, <1>2 DEF CapGoto, Running, handleVars, modeVars, queueVars
  <2>2. CaptureTypeOK'
    BY <1>1, <1>2, <2>1 DEF ProgramOK, OwnTypeOK, CaptureTypeOK, CapturePC, Running
  <2>3. Tally'
    BY <2>1 DEF ProgramOK, ProgramInv, Tally
  <2>4. StopSeen'
    BY <1>2, <2>1 DEF ProgramOK, ProgramInv, StopSeen
  <2>5. Limit'
    BY <1>1, <2>1 DEF ProgramOK, ProgramInv, Limit, Running
  <2> QED BY <2>2, <2>3, <2>4, <2>5
<1>3. CASE ReadOther
  <2>1. late = 0 /\ late' \in 0..1 /\ (late' > 0 => stop_requested)
    BY <1>3 DEF ReadOther, ProgramOK, OwnTypeOK, CaptureTypeOK, ProgramInv, StopSeen
  <2>2. /\ cap' \in {"inner", "returned"}
        /\ (MaxDelivered > 0 /\ cap' # "returned") => delivered < MaxDelivered
    BY <1>3, LimitTest DEF ReadOther, ProgramOK, OwnTypeOK, CaptureTypeOK, ProgramInv, Limit
  <2>3. CaptureTypeOK'
    BY <1>3, <2>1, <2>2, CaptureConstants DEF ReadOther, ProgramOK, OwnTypeOK,
       CaptureTypeOK, CapturePC, Running, handleVars, modeVars
  <2>4. Tally'
    BY <1>1, <1>3, <2>2 DEF ReadOther, ProgramOK, OwnTypeOK, CaptureTypeOK, ProgramInv,
       Tally, queueVars, Running
  <2>5. Limit' /\ StopSeen'
    BY <1>3, <2>1, <2>2 DEF ReadOther, ProgramOK, ProgramInv, Limit, StopSeen
  <2> QED BY <1>1, <2>3, <2>4, <2>5, LoopKeeps
<1>4. CASE OuterTest \/ PollReady \/ PollAgain \/ PollError \/ InnerTest
           \/ ReadNothing \/ ReadEnd
  BY <1>1, <1>2, <1>4, LoopKeeps DEF OuterTest, PollReady, PollAgain, PollError,
     InnerTest, ReadNothing, ReadEnd
<1> QED BY <1>1, <1>3, <1>4 DEF LoopStep

LEMMA EnterKeeps ==
    ASSUME ProgramOK, CaptureEnter
    PROVE  ProgramOK' /\ (rejected = {} => rejected' = {})
<1>1. /\ phase = "join_capture" /\ cap = "ready" /\ pc[CaptureThread] = "idle"
      /\ UNCHANGED <<queueVars, poolVars, programVars>>
      /\ calls = 0 /\ frames = 0
  BY DEF CaptureEnter, RunEnter, ProgramOK, ProgramInv, PushFromHandler, Tally,
     OwnTypeOK, CaptureTypeOK
<1>2. CaptureTypeOK'
  <2>1. /\ fd' \in BOOLEAN /\ (fd' => live)
        /\ nonblock' \in BOOLEAN /\ (nonblock' => fd')
        /\ stop_requested' \in BOOLEAN
    BY DEF CaptureEnter, RunEnter, ProgramOK, OwnTypeOK, CaptureTypeOK
  <2>2. cap' \in {"outer", "returned"} /\ (cap' = "outer" => opened)
    BY DEF CaptureEnter, RunEnter
  <2>3. UNCHANGED <<frames, opened, live>> /\ delivered' = 0 /\ late' = 0
    BY DEF CaptureEnter, RunEnter, handleVars
  <2> QED BY <2>1, <2>2, <2>3, CaptureConstants
          DEF ProgramOK, OwnTypeOK, CaptureTypeOK, CapturePC, Running
<1>3. Tally' /\ Limit' /\ StopSeen'
  BY <1>1, CaptureConstants DEF CaptureEnter, RunEnter, Tally, Limit, StopSeen, queueVars
<1> QED BY <1>1, <1>2, <1>3, LoopKeeps

LEMMA DeliverKeeps ==
    ASSUME ProgramOK, CaptureDeliver
    PROVE  ProgramOK' /\ (rejected = {} => rejected' = {})
<1>1. /\ cap = "handling" /\ pc[CaptureThread] = "idle"
      /\ delivered' = delivered + 1 /\ cap' = AfterFrame(delivered + 1)
      /\ UNCHANGED <<queueVars, poolVars, programVars, stop_requested, frames,
                     handleVars, modeVars, late>>
      /\ delivered \in Nat /\ calls = delivered + 1
  BY DEF CaptureDeliver, Deliver, ProgramOK, ProgramInv, Tally, OwnTypeOK, CaptureTypeOK
<1>2. MaxDelivered > 0 => delivered + 1 <= MaxDelivered
  BY <1>1, CaptureConstants DEF ProgramOK, ProgramInv, Limit
<1>3. /\ cap' \in {"inner", "returned"}
      /\ (MaxDelivered > 0 /\ cap' # "returned") => delivered' < MaxDelivered
  BY <1>1, <1>2, LimitTest
<1>4. CaptureTypeOK'
  BY <1>1, <1>3 DEF ProgramOK, OwnTypeOK, CaptureTypeOK, CapturePC, Running, handleVars,
     modeVars
<1>5. Tally' /\ Limit' /\ StopSeen'
  BY <1>1, <1>2, <1>3 DEF ProgramOK, ProgramInv, Tally, Limit, StopSeen, queueVars
<1> QED BY <1>1, <1>4, <1>5, LoopKeeps DEF Running

\* The capture thread's own push(): the queue is still open.
LEMMA PushKeeps ==
    ASSUME QueueTypeOK, ProgramOK, CapturePush \/ CaptureInPush
    PROVE  ProgramOK' /\ (rejected = {} => rejected' = {})
<1> USE ThreadsDistinct, OneProducer DEF Threads
<1>1. /\ cap \in {"read", "handling"} /\ phase = "join_capture" /\ shutdown = FALSE
  <2>1. cap \in {"read", "handling"}
    BY DEF CapturePush, ReadPacket, CaptureInPush, PushStep, PushResume, PushNotify,
       ProgramOK, ProgramInv, PushFromHandler
  <2> QED BY <2>1 DEF ProgramOK, ProgramInv, PhaseOrder, QueueTypeOK, DataTypeOK
<1>2. ASSUME NEW x, PushSection(CaptureThread, x)
      PROVE  rejected' = rejected /\ shutdown' = FALSE
  BY <1>1, <1>2 DEF PushSection, PushSleep, PushRefuse, PushAppend
<1>3. CASE CapturePush
  <2>1. /\ cap = "read" /\ cap' = "handling" /\ frames < MaxFrames /\ frames' = frames + 1
        /\ calls' = calls + 1 /\ rejected' = rejected /\ shutdown' = FALSE
        /\ late' = late + IF stop_requested THEN 1 ELSE 0
        /\ UNCHANGED <<poolVars, phase, interrupted, stop_requested, delivered,
                       handleVars, modeVars>>
    BY <1>2, <1>3 DEF CapturePush, ReadPacket, PushCall
  <2>2. late = 0 /\ late' \in 0..1 /\ (late' > 0 => stop_requested)
    BY <2>1 DEF ProgramOK, OwnTypeOK, CaptureTypeOK, ProgramInv, StopSeen
  <2>3. CaptureTypeOK'
    BY <2>1, <2>2, CaptureConstants DEF ProgramOK, OwnTypeOK, CaptureTypeOK, CapturePC,
       Running, handleVars, modeVars
  <2>5. OwnTypeOK'
    BY <2>1, <2>3 DEF ProgramOK, OwnTypeOK
  <2>6. Tally'
    BY <2>1 DEF ProgramOK, OwnTypeOK, CaptureTypeOK, ProgramInv, Tally
  <2>7. Limit' /\ StopSeen' /\ PushFromHandler'
    BY <2>1, <2>2 DEF ProgramOK, ProgramInv, Limit, StopSeen, PushFromHandler
  <2>8. PhaseOrder'
    BY <1>1, <2>1 DEF PhaseOrder
  <2> QED BY <2>1, <2>5, <2>6, <2>7, <2>8 DEF ProgramOK, ProgramInv
<1>4. CASE CaptureInPush
  <2>1. /\ cap = "handling" /\ UNCHANGED <<calls, rejected, shutdown>>
        /\ UNCHANGED <<poolVars, captureVars, programVars>>
    BY <1>1, <1>2, <1>4 DEF CaptureInPush, PushStep, PushResume, PushNotify, ProgramOK,
       ProgramInv, PushFromHandler
  <2>2. OwnTypeOK'
    BY <2>1 DEF ProgramOK, OwnTypeOK, CaptureTypeOK, captureVars, handleVars, modeVars,
       programVars
  <2>3. ProgramInv'
    BY <1>1, <2>1 DEF ProgramOK, ProgramInv, PhaseOrder, PushFromHandler, Tally, Limit,
       StopSeen, captureVars, programVars
  <2> QED BY <2>1, <2>2, <2>3 DEF ProgramOK
<1> QED BY <1>3, <1>4

LEMMA ProgramKeeps ==
    ASSUME QueueTypeOK, PoolTypeOK, ProgramOK, [Next]_vars
    PROVE  ProgramOK' /\ (rejected = {} => rejected' = {})
<1>1. CASE CaptureStep
  BY <1>1, CaptureLoopKeeps, EnterKeeps, DeliverKeeps, PushKeeps DEF CaptureStep
<1>2. ASSUME UNCHANGED <<captureVars, programVars>>, Elsewhere, UNCHANGED worker
      PROVE  ProgramOK' /\ (rejected = {} => rejected' = {})
  BY <1>2, ElsewhereKeeps DEF Joined, ProgramOK, ProgramInv, PhaseOrder
<1>3. ASSUME NEW w \in Consumers, PoolStep(w)
      PROVE  ProgramOK' /\ (rejected = {} => rejected' = {})
  <2>1. ~Joined
    BY <1>3, JoinedStable DEF PoolStep
  <2>2. phase # "done"
    BY <2>1 DEF ProgramOK, ProgramInv, PhaseOrder
  <2>3. Elsewhere
    BY <1>3, QueueElsewhere DEF PoolStep, WorkerStep, WorkerPop, WorkerAnalyze,
       WorkerCount, WorkerCheck
  <2> QED BY <1>3, <2>2, <2>3, ElsewhereKeeps DEF PoolStep
<1>4. ASSUME NEW w \in Consumers, PoolInPop(w) \/ PoolExpiry(w)
      PROVE  ProgramOK' /\ (rejected = {} => rejected' = {})
  BY <1>2, <1>4, QueueElsewhere DEF PoolInPop, PoolExpiry, poolVars
<1>5. ASSUME NEW t \in Threads, Wakeup(t)
      PROVE  ProgramOK' /\ (rejected = {} => rejected' = {})
  BY <1>2, <1>5, QueueElsewhere DEF Wakeup, poolVars
<1>6. CASE UNCHANGED vars
  BY <1>2, <1>6, QueueElsewhere DEF vars, poolVars
<1> QED BY MainKeeps, SigintKeeps, <1>1, <1>3, <1>4, <1>5, <1>6 DEF Next, Ended

LEMMA InitProgram == Init => ProgramOK
<1> SUFFICES ASSUME Init PROVE ProgramOK
  OBVIOUS
<1>1. OwnTypeOK
  <2>1. CaptureTypeOK
    <3>1. delivered \in Nat /\ frames \in 0..MaxFrames /\ late \in 0..MaxFrames
      BY CaptureConstants DEF Init, CaptureInit
    <3>2. /\ cap = "ready" /\ cap \in CapturePC /\ cap \notin Running
          /\ stop_requested \in BOOLEAN /\ opened \in BOOLEAN /\ live \in BOOLEAN
          /\ fd \in BOOLEAN /\ nonblock \in BOOLEAN /\ ~live /\ ~fd /\ ~nonblock
      BY DEF Init, CaptureInit, CapturePC, Running
    <3> QED BY <3>1, <3>2 DEF CaptureTypeOK
  <2> QED BY <2>1 DEF Init, OwnTypeOK, Phases
<1>2. ProgramInv
  BY CaptureConstants, OneProducer
  DEF Init, CaptureInit, QueueInit, Threads, ProgramInv, PhaseOrder, PushFromHandler,
      Tally, Limit, StopSeen
<1> QED BY <1>1, <1>2 DEF ProgramOK

\* The program's inductive invariant holds in every reachable state.
THEOREM ProgramInvariant == Spec => [](ProgramOK /\ NeverRefused)
<1>1. Init => ProgramOK /\ NeverRefused
  BY InitProgram DEF Init, QueueInit, NeverRefused
<1>2. QueueTypeOK /\ PoolTypeOK /\ ProgramOK /\ NeverRefused /\ [Next]_vars
         => ProgramOK' /\ NeverRefused'
  BY ProgramKeeps DEF NeverRefused
<1> QED BY <1>1, <1>2, ProgramUsesPool, PoolInvariant, PTL DEF Spec

\* Every variable of the program has its type, whatever the threads do.
THEOREM ProgramTypeCorrect == Spec => []TypeOK
<1>1. QueueTypeOK /\ PoolTypeOK /\ ProgramOK => TypeOK
  BY DEF ProgramOK, OwnTypeOK, TypeOK
<1> QED BY <1>1, ProgramUsesPool, PoolInvariant, ProgramInvariant, PTL

\* push() never returns false here: main() shuts the queue down only after
\* it has joined the one thread that pushes.
THEOREM ProgramNeverRefuses == Spec => []NeverRefused
BY ProgramInvariant, PTL

\* run() delivers no more than max_packets and reads at most one frame once
\* it has been asked to stop, wherever in its two loops the signal hits it.
THEOREM CaptureNeverOverruns == Spec => []NoOverrun
<1>1. ProgramOK => NoOverrun
  <2> SUFFICES ASSUME ProgramOK PROVE NoOverrun
    OBVIOUS
  <2>1. /\ delivered \in Nat /\ calls <= frames /\ late \in Nat /\ frames \in Nat
        /\ calls \in {delivered, delivered + 1}
    BY DEF ProgramOK, OwnTypeOK, CaptureTypeOK, ProgramInv, Tally
  <2>2. delivered <= frames /\ late <= 1
    BY <2>1 DEF ProgramOK, ProgramInv, StopSeen
  <2>3. /\ MaxDelivered > 0 => delivered <= MaxDelivered
        /\ (MaxDelivered > 0 /\ delivered = MaxDelivered) => cap = "returned"
    BY <2>1, CaptureConstants DEF ProgramOK, ProgramInv, Limit
  <2> QED BY <2>2, <2>3 DEF NoOverrun
<1> QED BY <1>1, ProgramInvariant, PTL

-----------------------------------------------------------------------------
(* The order of the packets and the summary                                *)

\* The packets are queued in the order in which they were captured: only the
\* one in a blocked push() is missing, and it is the newest.
CapturedInOrder ==
    /\ \A i \in DOMAIN pushed : pushed[i] = i
    /\ Len(pushed) = IF pc[CaptureThread] = "push_wait" THEN calls - 1 ELSE calls
    /\ pc[CaptureThread] = "push_wait" => arg[CaptureThread] = calls

\* push() appends the packet that is next in the order of capture, or sleeps.
LEMMA AppendInOrder ==
    ASSUME QueueTypeOK, \A i \in DOMAIN pushed : pushed[i] = i, Len(pushed) + 1 = calls',
           PushSection(CaptureThread, calls'), rejected' = {}, calls' \in PacketIds
    PROVE  CapturedInOrder'
<1> USE ThreadsDistinct, OneProducer DEF Threads
<1>1. /\ pushed \in Seq(PacketIds) /\ Len(pushed) \in Nat /\ DOMAIN pushed = 1..Len(pushed)
      /\ calls' \in Nat
  BY LenProperties DEF QueueTypeOK, DataTypeOK, PacketIds
<1>2. CaptureThread \in Producers /\ CaptureThread \in Threads
  OBVIOUS
<1>3. CASE PushSleep(CaptureThread, calls')
  <2>1. /\ pushed' = pushed /\ pc'[CaptureThread] = "push_wait"
        /\ arg'[CaptureThread] = calls'
    BY <1>2, <1>3, GotoFacts DEF PushSleep, QueueTypeOK, DataTypeOK
  <2>2. \A m, n \in Nat : m + 1 = n => m = n - 1
    OBVIOUS
  <2>3. Len(pushed') = calls' - 1
    BY <1>1, <2>1, <2>2, Zenon
  <2>4. \A i \in DOMAIN pushed' : pushed'[i] = i
    BY <2>1, Zenon
  <2> QED BY <2>1, <2>3, <2>4, Zenon DEF CapturedInOrder
<1>4. CASE PushAppend(CaptureThread, calls')
  <2>1. pushed' = Append(pushed, calls') /\ pc'[CaptureThread] # "push_wait"
    BY <1>2, <1>4, GotoFacts DEF PushAppend
  <2>2. /\ Len(pushed') = Len(pushed) + 1 /\ DOMAIN pushed' = 1..(Len(pushed) + 1)
        /\ \A i \in 1..Len(pushed) : pushed'[i] = pushed[i]
        /\ pushed'[Len(pushed) + 1] = calls'
    BY <1>1, <2>1, AppendProperties, LenProperties
  <2>3. \A i \in DOMAIN pushed' : pushed'[i] = i
    BY <1>1, <2>2
  <2> QED BY <2>1, <2>2, <2>3 DEF CapturedInOrder
<1>5. CASE PushRefuse(CaptureThread, calls')
  BY <1>5 DEF PushRefuse
<1> QED BY <1>3, <1>4, <1>5 DEF PushSection

LEMMA StepInOrder ==
    ASSUME QueueTypeOK, CapturedInOrder, [QueueNext]_queueVars, rejected' = {}
    PROVE  CapturedInOrder'
<1> USE ThreadsDistinct, OneProducer DEF Threads
<1>1. /\ calls \in Nat /\ Len(pushed) \in Nat
  BY LenProperties, BoundNatural DEF QueueTypeOK, DataTypeOK
<1>2. CASE \E p \in Producers :
              /\ PushSection(p, calls + 1) /\ calls + 1 \in PacketIds
              /\ calls' = calls + 1 /\ pc[p] = "idle"
  BY <1>1, <1>2, AppendInOrder DEF CapturedInOrder
<1>3. CASE \E p \in Producers :
              /\ PushSection(p, arg[p]) /\ arg[p] \in PacketIds
              /\ calls' = calls /\ pc[p] = "push_wait"
  BY <1>1, <1>3, AppendInOrder DEF CapturedInOrder
<1>4. ASSUME UNCHANGED <<arg, calls, pushed>>,
             pc'[CaptureThread] = "push_wait" <=> pc[CaptureThread] = "push_wait"
      PROVE  CapturedInOrder'
  BY <1>4 DEF CapturedInOrder
<1>5. ASSUME NEW c \in Consumers, TakeBatch(c), UNCHANGED popUnchanged
      PROVE  CapturedInOrder'
  BY <1>4, <1>5, TakeFacts DEF popUnchanged
<1>6. CASE /\ UNCHANGED <<items, arg, calls, pushed, popped, rejected, shutdown>>
           /\ Blocked' = Blocked
  BY <1>4, <1>6 DEF Blocked
<1>7. CASE ShutdownCall
  BY <1>4, <1>7, GotoFacts DEF ShutdownCall
<1> QED BY StepKinds, <1>2, <1>3, <1>5, <1>6, <1>7

\* The k-th packet queued is the k-th captured, however often the capture
\* thread is blocked and woken in push().  With PoolOvertakes: a packet is
\* analysed before one captured earlier only while a worker holds that one.
THEOREM ProgramCaptureOrder == Spec => []CapturedInOrder
<1>1. Init => CapturedInOrder
  <2> SUFFICES ASSUME Init PROVE CapturedInOrder
    OBVIOUS
  <2>1. pushed = <<>> /\ calls = 0 /\ pc[CaptureThread] = "idle"
    BY OneProducer DEF Init, QueueInit, Threads
  <2>2. Len(pushed) = 0 /\ DOMAIN pushed = {}
    BY <2>1, EmptySeq, LenProperties
  <2> QED BY <2>1, <2>2 DEF CapturedInOrder
<1>2. QueueTypeOK /\ CapturedInOrder /\ NeverRefused' /\ [Next]_vars => CapturedInOrder'
  BY ProgramStepsPool, PoolStepsQueue, StepInOrder DEF NeverRefused
<1> QED BY <1>1, <1>2, ProgramUsesPool, PoolInvariant, ProgramInvariant, PTL DEF Spec

LEMMA DoneMeansComplete ==
    ASSUME QueueTypeOK, OrderInv, PoolTypeOK, PoolInv, ProgramOK, NeverRefused
    PROVE  SummaryComplete
<1> SUFFICES ASSUME phase = "done"
             PROVE  /\ processed = delivered /\ delivered = calls
                    /\ \A k \in 1..calls : analysed[k] = 1
                    /\ items = <<>>
  BY DEF SummaryComplete
<1>1. Joined /\ cap = "returned" /\ delivered = calls /\ pc[CaptureThread] = "idle"
  BY DEF ProgramOK, ProgramInv, PhaseOrder, Tally, PushFromHandler
<1>2. Blocked = {}
  BY <1>1, OneProducer DEF Blocked
<1>3. 1..calls = Accepted /\ Accepted = Members(pushed)
  BY <1>2 DEF OrderInv, NothingDropped, NeverRefused, Accepted, Members
<1>4. /\ processed = Len(pushed)
      /\ \A i \in DOMAIN pushed : analysed[pushed[i]] = 1
  BY <1>1, JoinedCounts DEF JoinedMeansProcessed
<1>5. Len(pushed) = calls
  <2>1. Cardinality(Members(pushed)) = Len(pushed)
    BY MembersCount DEF QueueTypeOK, DataTypeOK, OrderInv, OneFate, Injective
  <2>2. calls \in Nat /\ Cardinality(1..calls) = calls
    BY BoundNatural, FS_Interval DEF QueueTypeOK, DataTypeOK
  <2> QED BY <1>3, <2>1, <2>2
<1>6. items = <<>>
  BY <1>1, PoolNotEmpty DEF Joined, PoolInv, Finished, is_finished
<1>7. \A k \in 1..calls : analysed[k] = 1
  BY <1>3, <1>4 DEF Accepted
<1> QED BY <1>1, <1>4, <1>5, <1>6, <1>7

\* The summary main() prints is exact: as many packets processed as
\* captured, each analysed once, and nothing left in the queue.
THEOREM ProgramSummary == Spec => []SummaryComplete
<1>1. QueueTypeOK /\ OrderInv /\ PoolTypeOK /\ PoolInv /\ ProgramOK /\ NeverRefused
         => SummaryComplete
  BY DoneMeansComplete
<1> QED BY <1>1, ProgramUsesPool, PoolInvariant, ProgramInvariant, PTL
=============================================================================
