------------------------------- MODULE Pipeline -------------------------------
(***************************************************************************)
(* The program of src/src/main.cpp: one capture thread pushes into the     *)
(* queue, the worker pool drains it, and the main thread starts them,      *)
(* joins the capture thread, shuts the queue down and joins the pool.      *)
(* SIGINT may arrive at any time once its handler is installed.            *)
(***************************************************************************)
EXTENDS WorkerPool, Capture

CONSTANT CaptureThread

ASSUME OneProducer == Producers = {CaptureThread}
ASSUME EveryFrameFits == MaxFrames <= MaxPackets

VARIABLES
    phase,        \* where main() is
    interrupted   \* history: SIGINT's handler has run

programVars == <<phase, interrupted>>
vars == <<queueVars, poolVars, captureVars, programVars>>

Phases == {"options", "listed", "open", "install", "backend", "start", "launch", "join_capture",
           "shutdown", "join_pool", "done", "failed"}

Init ==
    /\ QueueInit /\ PoolInit /\ CaptureInit
    /\ phase = "options"
    /\ interrupted = FALSE

MainOpen ==
    /\ phase = "open"
    /\ \E device, ok \in BOOLEAN :
          Open(device, ok) /\ phase' = IF ok THEN "install" ELSE "failed"
    /\ UNCHANGED <<queueVars, poolVars, interrupted>>

MainGoto(from, to) ==
    /\ phase = from /\ phase' = to
    /\ UNCHANGED <<queueVars, poolVars, captureVars, interrupted>>

\* The options are refused, ask for the list of devices, or are accepted:
\* then they satisfy the assumptions on the constants.
MainOptions ==
    \/ MainGoto("options", "failed")
    \/ MainGoto("options", "listed")
    \/ MainGoto("options", "open")

MainInstall == MainGoto("install", "backend")

\* What GpuEntropyBackend() asks Metal for; any of it may come back null.
GpuParts == {"device", "queue", "library", "function", "pipeline"}

\* MetalContext() and load_kernel() make the backend ok().
load_kernel(granted) == granted = GpuParts

\* -g without a usable GPU ends the program here.
MainBackend ==
    \E use_gpu \in BOOLEAN, granted \in SUBSET GpuParts :
        MainGoto("backend", IF use_gpu /\ ~load_kernel(granted) THEN "failed" ELSE "start")

\* pool.start(), one thread at a time.
MainStart ==
    /\ phase = "start"
    /\ \E w \in Consumers : StartWorker(w)
    /\ phase' = IF Cardinality({w \in Consumers : worker[w] = "new"}) = 1
                THEN "launch" ELSE "start"
    /\ UNCHANGED <<captureVars, interrupted>>

MainLaunch == MainGoto("launch", "join_capture")

\* Mutant: main() does not join the capture thread.
MainNoJoinCapture == MainGoto("join_capture", "shutdown")

MainJoinCapture == cap = "returned" /\ MainGoto("join_capture", "shutdown")

MainShutdown ==
    /\ phase = "shutdown"
    /\ ShutdownCall
    /\ phase' = "join_pool"
    /\ UNCHANGED <<poolVars, captureVars, interrupted>>

MainShutdownStep == ShutdownStep /\ UNCHANGED <<poolVars, captureVars, programVars>>

\* Mutant: main() does not join the pool.
MainNoJoinPool == pc[Main] = "done" /\ MainGoto("join_pool", "done")

MainJoinPool == Joined /\ pc[Main] = "done" /\ MainGoto("join_pool", "done")

MainStep ==
    \/ MainOptions \/ MainOpen \/ MainInstall \/ MainBackend \/ MainStart
    \/ MainLaunch \/ MainJoinCapture \/ MainShutdown \/ MainShutdownStep \/ MainJoinPool

\* handle_sigint()
Sigint ==
    /\ phase \notin {"options", "listed", "open", "install", "done", "failed"}
    /\ request_stop
    /\ interrupted' = TRUE
    /\ UNCHANGED <<queueVars, poolVars, cap, delivered, frames, handleVars, modeVars,
                   late, phase>>

-----------------------------------------------------------------------------
(* The capture thread                                                      *)

CaptureEnter ==
    /\ phase = "join_capture"
    /\ RunEnter
    /\ UNCHANGED <<queueVars, poolVars, programVars>>

CaptureLoop == LoopStep /\ UNCHANGED <<queueVars, poolVars, programVars>>

\* The handler is queue.push(make_queued_packet(parsed)); its result is ignored.
CapturePush ==
    /\ ReadPacket
    /\ PushCall(CaptureThread)
    /\ UNCHANGED <<poolVars, phase, interrupted>>

CaptureInPush == PushStep(CaptureThread) /\ UNCHANGED <<poolVars, captureVars, programVars>>

CaptureDeliver ==
    /\ pc[CaptureThread] = "idle"
    /\ Deliver
    /\ UNCHANGED <<queueVars, poolVars, programVars>>

CaptureStep ==
    CaptureEnter \/ CaptureLoop \/ CapturePush \/ CaptureInPush \/ CaptureDeliver

-----------------------------------------------------------------------------
(* The workers, and the whole program                                      *)

PoolStep(w) == WorkerStep(w) /\ UNCHANGED <<captureVars, programVars>>
PoolInPop(w) == PopStep(w) /\ UNCHANGED <<poolVars, captureVars, programVars>>
PoolExpiry(w) == Expiry(w) /\ UNCHANGED <<poolVars, captureVars, programVars>>
LingerEnds(w) == LingerExpire(w) /\ UNCHANGED <<poolVars, captureVars, programVars>>
Wakeup(t) == Spurious(t) /\ UNCHANGED <<poolVars, captureVars, programVars>>

Ended == phase \in {"done", "failed", "listed"} /\ UNCHANGED vars

Next ==
    \/ MainStep \/ Sigint \/ CaptureStep
    \/ \E w \in Consumers : PoolStep(w) \/ PoolInPop(w) \/ PoolExpiry(w)
    \/ \E t \in Threads : Wakeup(t)
    \/ Ended

Spec == Init /\ [][Next]_vars

\* Threads run, poll() and pcap_next_ex() on a non-blocking source return,
\* and a linger ends.  Nothing obliges a SIGINT, an error, the end of a live
\* source, a spurious wakeup or the workers' poll timeout.
Fairness ==
    /\ WF_vars(MainStep)
    /\ WF_vars(~Blocking /\ CaptureStep)
    /\ \A w \in Consumers :
          WF_vars(PoolStep(w)) /\ WF_vars(PoolInPop(w)) /\ WF_vars(LingerEnds(w))

FairSpec == Spec /\ Fairness

-----------------------------------------------------------------------------
(* Properties                                                              *)

\* Types of the whole program's state.
TypeOK ==
    /\ QueueTypeOK /\ PoolTypeOK /\ CaptureTypeOK
    /\ phase \in Phases /\ interrupted \in BOOLEAN

\* push() never returns false in this program: the queue is shut down only
\* after the capture thread has been joined (packet_queue.hpp: "that should
\* never happen while the capture thread is still running").
NeverRefused == rejected = {}

\* When the program prints its summary, every packet it says it captured
\* has been analysed exactly once, and the printed counts agree.
SummaryComplete ==
    phase = "done" =>
        /\ processed = delivered
        /\ delivered = calls
        /\ \A k \in 1..calls : analysed[k] = 1
        /\ items = <<>>

\* A stop requested while run() is capturing ends the program, also when
\* the capture thread is blocked in poll() or in push() on a full queue; the
\* one excuse is a source that only waits inside libpcap.
StopHonoured == (cap \in Running /\ stop_requested) ~> (phase = "done" \/ Blocking)

\* Replaying a file ends the program: both of run()'s loops are left and
\* main() gets through its joins.
OfflineTerminates == (opened /\ ~live) ~> (phase \in {"done", "failed"})

\* Ctrl-C ends the program whenever it comes (README.md: "live capture
\* (Ctrl-C to stop)"), a source that waits inside libpcap aside.
CtrlCStops == interrupted ~> (phase \in {"done", "failed"} \/ Blocking)
=============================================================================
