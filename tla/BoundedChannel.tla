---------------------------- MODULE BoundedChannel ----------------------------
(***************************************************************************)
(* What the header of the packet queue promises its clients: a FIFO        *)
(* channel with a fixed capacity that hands packets over in batches and,   *)
(* once closed, accepts nothing more but still gives up what it holds.     *)
(* There are no threads, no mutex and no wakeups here.                     *)
(***************************************************************************)
EXTENDS Naturals, Sequences

CONSTANTS Packets,    \* what may be sent
          Capacity,   \* packets the channel holds at most
          MaxBatch    \* packets one Receive takes at most

VARIABLES chan,       \* accepted and not yet received, oldest first
          received,   \* everything received, in order
          closed

channelVars == <<chan, received, closed>>

ChannelInit == chan = <<>> /\ received = <<>> /\ closed = FALSE

Send(x) ==
    /\ ~closed
    /\ Len(chan) < Capacity
    /\ chan' = Append(chan, x)
    /\ UNCHANGED <<received, closed>>

\* A batch is never empty, never longer than asked for, and never shorter
\* than what could be given without leaving packets behind: either it is
\* full or it empties the channel.
Receive(n) ==
    /\ n \in 1..MaxBatch /\ n <= Len(chan)
    /\ n = MaxBatch \/ n = Len(chan)
    /\ received' = received \o SubSeq(chan, 1, n)
    /\ chan' = SubSeq(chan, n + 1, Len(chan))
    /\ UNCHANGED closed

Close ==
    /\ ~closed
    /\ closed' = TRUE
    /\ UNCHANGED <<chan, received>>

ChannelNext ==
    \/ \E x \in Packets : Send(x)
    \/ \E n \in 1..MaxBatch : Receive(n)
    \/ Close

ChannelSpec == ChannelInit /\ [][ChannelNext]_channelVars
=============================================================================
