---------------------------- MODULE MCPacketQueue ----------------------------
\* Model values for the runs of PacketQueue.
EXTENDS PacketQueue

CONSTANTS p1, p2, c1, c2, m

TwoProducers == {p1, p2}
TwoConsumers == {c1, c2}
=============================================================================
