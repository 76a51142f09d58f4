------------------------------- MODULE Capture -------------------------------
(***************************************************************************)
(* The capture loop of src/src/capture/capture.cpp: open a source, run()   *)
(* until it is exhausted, fails, has delivered max_packets or is asked to  *)
(* stop.  request_stop() may come at any instant from a signal handler.    *)
(*                                                                         *)
(* Frames are only told apart by whether parse_packet() makes something of *)
(* them.  What poll() and libpcap answer is the environment's choice.      *)
(***************************************************************************)
EXTENDS Naturals

CONSTANTS
    MaxDelivered,  \* max_packets, 0 for unlimited
    MaxFrames      \* bound: frames a file holds, or an interface ever sees

ASSUME CaptureConstants == MaxDelivered \in Nat /\ MaxFrames \in Nat

VARIABLES
    cap,             \* where the capturing thread is
    stop_requested,  \* g_stop_requested
    delivered,       \* delivered, also run()'s result
    frames,          \* frames read from the source so far
    opened,          \* handle_ # nullptr
    live,            \* live_: a network interface, not a file
    fd,              \* selectable_fd >= 0
    nonblock,        \* pcap_setnonblock() was called and took effect
    late             \* history: frames read after run() was asked to stop

handleVars == <<opened, live>>
modeVars == <<fd, nonblock>>
captureVars == <<cap, stop_requested, delivered, frames, handleVars, modeVars, late>>

CapturePC == {"ready", "outer", "poll", "inner", "read", "handling", "returned"}
Running == {"outer", "poll", "inner", "read", "handling"}

CaptureInit ==
    /\ cap = "ready"
    /\ stop_requested = FALSE
    /\ delivered = 0
    /\ frames = 0
    /\ opened = FALSE
    /\ live = FALSE
    /\ fd = FALSE /\ nonblock = FALSE
    /\ late = 0

\* Mutant: live_ is set before the link type is checked.
OpenLiveEarly(device, ok) ==
    /\ cap = "ready" /\ ~opened
    /\ opened' = ok
    /\ live' = device
    /\ UNCHANGED <<cap, stop_requested, delivered, frames, modeVars, late>>

\* open_live() (device is TRUE) or open_offline(): the source and its link
\* type are accepted or not; handle_ stays null when they are not.
Open(device, ok) ==
    /\ cap = "ready" /\ ~opened
    /\ opened' = ok
    /\ live' = (device /\ ok)
    /\ UNCHANGED <<cap, stop_requested, delivered, frames, modeVars, late>>

request_stop == stop_requested' = TRUE

-----------------------------------------------------------------------------
(* run()                                                                   *)

\* Without a handle run() returns 0; with one it forgets an earlier stop and
\* asks for a descriptor to poll if the source is live.  The result of
\* pcap_setnonblock() is not looked at, so it may have failed.
RunEnter ==
    /\ cap = "ready"
    /\ cap' = IF opened THEN "outer" ELSE "returned"
    /\ stop_requested' = IF opened THEN FALSE ELSE stop_requested
    /\ delivered' = 0 /\ late' = 0
    /\ fd' \in IF live THEN BOOLEAN ELSE {FALSE}
    /\ nonblock' \in IF fd' THEN BOOLEAN ELSE {FALSE}
    /\ UNCHANGED <<frames, handleVars>>

CapGoto(label) ==
    /\ cap' = label
    /\ UNCHANGED <<stop_requested, delivered, frames, handleVars, modeVars, late>>

\* Mutant: the outer loop does not look at the flag.
OuterTestBlind ==
    /\ cap = "outer"
    /\ CapGoto(IF fd THEN "poll" ELSE "inner")

\* The outer loop's test of the flag.  done is only ever set on the way to
\* this test, so it is folded into the steps that set it.
OuterTest ==
    /\ cap = "outer"
    /\ CapGoto(IF stop_requested THEN "returned"
               ELSE IF fd THEN "poll" ELSE "inner")

PollReady == cap = "poll" /\ CapGoto("inner")
PollAgain == cap = "poll" /\ CapGoto("outer")    \* timeout or EINTR
PollError == cap = "poll" /\ CapGoto("returned")

\* Mutant: the inner loop drains the source without looking at the flag.
InnerTestBlind == cap = "inner" /\ CapGoto("read")

InnerTest ==
    /\ cap = "inner"
    /\ CapGoto(IF stop_requested THEN "outer" ELSE "read")

\* The limit test that follows every frame, with d packets delivered.
AfterFrame(d) == IF MaxDelivered > 0 /\ d >= MaxDelivered THEN "returned" ELSE "inner"

\* pcap_next_ex() = 1 and parse_packet() has a value: the handler is called.
ReadPacket ==
    /\ cap = "read" /\ frames < MaxFrames
    /\ frames' = frames + 1
    /\ late' = late + IF stop_requested THEN 1 ELSE 0
    /\ cap' = "handling"
    /\ UNCHANGED <<stop_requested, delivered, handleVars, modeVars>>

\* ... or nothing the parser understands.
ReadOther ==
    /\ cap = "read" /\ frames < MaxFrames
    /\ frames' = frames + 1
    /\ late' = late + IF stop_requested THEN 1 ELSE 0
    /\ cap' = AfterFrame(delivered)
    /\ UNCHANGED <<stop_requested, delivered, handleVars, modeVars>>

\* pcap_next_ex() = 0: a live source has nothing ready.
ReadNothing == cap = "read" /\ live /\ CapGoto("outer")

\* Mutant: the end of the source is taken for "nothing ready".
ReadEndRetries == cap = "read" /\ CapGoto("outer")

\* pcap_next_ex() < 0: an error, or the end of a file.
ReadEnd ==
    /\ cap = "read"
    /\ CapGoto("returned")

\* The handler returned.
Deliver ==
    /\ cap = "handling"
    /\ delivered' = delivered + 1
    /\ cap' = AfterFrame(delivered + 1)
    /\ UNCHANGED <<stop_requested, frames, handleVars, modeVars, late>>

\* With a live source in blocking mode pcap_next_ex() may wait for ever.
Blocking == cap = "read" /\ live /\ ~nonblock

\* The steps the loop takes by itself, the handler aside.
LoopStep ==
    \/ OuterTest \/ PollReady \/ PollAgain \/ PollError \/ InnerTest
    \/ ReadOther \/ ReadNothing \/ ReadEnd

-----------------------------------------------------------------------------
(* Properties                                                              *)

CaptureTypeOK ==
    /\ cap \in CapturePC
    /\ stop_requested \in BOOLEAN
    /\ delivered \in Nat
    /\ frames \in 0..MaxFrames
    /\ opened \in BOOLEAN /\ live \in BOOLEAN
    /\ late \in 0..MaxFrames
    /\ live => opened
    /\ fd \in BOOLEAN /\ (fd => live)
    /\ nonblock \in BOOLEAN /\ (nonblock => fd)
    /\ cap \in Running => opened

\* run() never overruns: it delivers no more than max_packets, returns with
\* the last of them, and once asked to stop reads at most the one frame it
\* was already waiting for, in a burst as well and on every kind of source
\* (capture.hpp: "stop at the next opportunity").
NoOverrun ==
    /\ MaxDelivered > 0 => delivered <= MaxDelivered
    /\ (MaxDelivered > 0 /\ delivered = MaxDelivered) => cap = "returned"
    /\ delivered <= frames
    /\ late <= 1
=============================================================================
