------------------------------ MODULE MCParser ------------------------------
\* Frames around every boundary parse_packet() tests.
EXTENDS Parser

BoundaryFrames ==
    [null : {FALSE}, caplen : {0, 13, 14, 33, 34, 35, 37, 38, 41, 42, 53, 54, 57, 58, 60, 75, 95},
     ipv4 : BOOLEAN, version : {4, 6}, ihl : {0, 4, 5, 6, 15},
     total : {0, 20, 27, 28, 40, 41, 44, 46, 61, 1500},
     proto : {"tcp", "udp", "icmp", "other"}, doff : {0, 4, 5, 6, 15}]
    \cup [null : {TRUE}, caplen : {60}, ipv4 : {TRUE}, version : {4}, ihl : {5},
          total : {40}, proto : {"tcp"}, doff : {5}]
=============================================================================
