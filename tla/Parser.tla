------------------------------- MODULE Parser -------------------------------
(***************************************************************************)
(* parse_packet() of src/src/capture/parser.cpp and the payload copy of    *)
(* make_queued_packet() in src/src/queue/packet_queue.cpp.  A frame is the *)
(* fields the parser branches on; what it stores in the packet besides     *)
(* (addresses, ports, flags, TTL) is left out.  Positions are byte offsets *)
(* into the captured frame.                                                *)
(***************************************************************************)
EXTENDS Naturals

CONSTANT Frames   \* the frames of the run

FrameType ==
    [null : BOOLEAN,           \* data == nullptr
     caplen : Nat,             \* bytes captured
     ipv4 : BOOLEAN,           \* ethertype == ETHERTYPE_IPV4
     version : Nat, ihl : Nat, \* four bits each in the header
     total : Nat,              \* total_length, 16 bits
     proto : {"tcp", "udp", "icmp", "other"},
     doff : Nat]               \* TCP data offset, in words, four bits

ASSUME FramesTyped == Frames \subseteq FrameType

VARIABLES frame, stage, packet, copied

parserVars == <<frame, stage, packet, copied>>

\* sizeof the packed headers.
EthBytes == 14
IpBytes == 20
TcpBytes == 20
UdpBytes == 8

Lesser(x, y) == IF x <= y THEN x ELSE y
Monus(x, y) == IF x > y THEN x - y ELSE 0

\* The three results: nullopt, a packet decoded as far as has_ip says, and
\* one with a transport and a payload.
NullPacket == [value |-> FALSE]
Bare(has_ip) == [value |-> TRUE, has_ip |-> has_ip, transport |-> "unknown",
                 payload |-> 0, length |-> 0]
Full(transport, at, len) ==
    [value |-> TRUE, has_ip |-> TRUE, transport |-> transport,
     payload |-> at, length |-> len]

HasEth(f) == ~f.null /\ f.caplen >= EthBytes
HasIpFixed(f) == HasEth(f) /\ f.ipv4 /\ f.caplen >= EthBytes + IpBytes

HasIp(f) ==
    /\ HasIpFixed(f)
    /\ f.version = 4
    /\ f.ihl * 4 >= IpBytes
    /\ f.caplen >= EthBytes + f.ihl * 4

\* Mutant: the options of the IP header are not skipped.
TransportAtFixed(f) == EthBytes + IpBytes

TransportAt(f) == EthBytes + f.ihl * 4

\* Captured part of the datagram's payload, clamped to what it claims.
IpPayload(f) ==
    Lesser(Monus(f.caplen, TransportAt(f)), Monus(f.total, f.ihl * 4))

\* The payload behind a transport header of n bytes.
Behind(f, n) ==
    Lesser(f.caplen - (TransportAt(f) + n), Monus(IpPayload(f), n))

\* Mutant: the TCP header is read before its length is checked.
HasTcpFixedUnchecked(f) == HasIp(f) /\ f.proto = "tcp"

HasTcpFixed(f) ==
    HasIp(f) /\ f.proto = "tcp" /\ f.caplen >= TransportAt(f) + TcpBytes

\* Mutant: off by one, a TCP header without options is taken for malformed.
HasTcpOptions(f) ==
    /\ HasTcpFixed(f)
    /\ f.doff * 4 > TcpBytes
    /\ f.caplen >= TransportAt(f) + f.doff * 4

HasTcp(f) ==
    /\ HasTcpFixed(f)
    /\ f.doff * 4 >= TcpBytes
    /\ f.caplen >= TransportAt(f) + f.doff * 4
HasUdp(f) ==
    HasIp(f) /\ f.proto = "udp" /\ f.caplen >= TransportAt(f) + UdpBytes
HasIcmp(f) == HasIp(f) /\ f.proto = "icmp"

parse_packet(f) ==
    IF ~HasEth(f) THEN NullPacket
    ELSE IF HasTcp(f) THEN Full("tcp", TransportAt(f) + f.doff * 4, Behind(f, f.doff * 4))
    ELSE IF HasUdp(f) THEN Full("udp", TransportAt(f) + UdpBytes, Behind(f, UdpBytes))
    ELSE IF HasIcmp(f) THEN Full("icmp", TransportAt(f), IpPayload(f))
    ELSE Bare(HasIp(f))

\* The byte ranges parse_packet() reads, each as soon as its guard has held.
Span(lo, n) == [lo |-> lo, hi |-> lo + n]
Reads(f) ==
    {Span(0, EthBytes) : x \in {y \in {f} : HasEth(y)}}
    \cup {Span(EthBytes, IpBytes) : x \in {y \in {f} : HasIpFixed(y)}}
    \cup {Span(TransportAt(f), TcpBytes) : x \in {y \in {f} : HasTcpFixed(y)}}
    \cup {Span(TransportAt(f), UdpBytes) : x \in {y \in {f} : HasUdp(y)}}

-----------------------------------------------------------------------------
ParserInit ==
    /\ frame \in Frames
    /\ stage = "captured"
    /\ packet = NullPacket
    /\ copied = Span(0, 0)

Parse ==
    /\ stage = "captured"
    /\ packet' = parse_packet(frame)
    /\ stage' = IF packet'.value THEN "parsed" ELSE "skipped"
    /\ UNCHANGED <<frame, copied>>

\* make_queued_packet(): the payload is copied out of the capture buffer.
make_queued_packet ==
    /\ stage = "parsed"
    /\ copied' = IF packet.length > 0 THEN Span(packet.payload, packet.length) ELSE copied
    /\ stage' = "queued"
    /\ UNCHANGED <<frame, packet>>

ParserDone == stage \in {"skipped", "queued"} /\ UNCHANGED parserVars

ParserNext == Parse \/ make_queued_packet \/ ParserDone

ParserSpec == ParserInit /\ [][ParserNext]_parserVars

-----------------------------------------------------------------------------
(* Properties                                                              *)

\* Where each value of stage comes from; the facts the bounds below follow
\* from.
ParserInv ==
    /\ frame \in Frames
    /\ stage \in {"captured", "skipped", "parsed", "queued"}
    /\ stage \in {"captured", "skipped", "parsed"} => copied = Span(0, 0)
    /\ stage = "skipped" => ~HasEth(frame)
    /\ stage \in {"parsed", "queued"} => HasEth(frame) /\ packet = parse_packet(frame)
    /\ stage = "queued" =>
          copied = IF packet.length > 0 THEN Span(packet.payload, packet.length)
                                        ELSE Span(0, 0)

\* parser.hpp: "every field access is bounds-checked against" caplen.
ReadsInBounds == \A r \in Reads(frame) : r.hi <= frame.caplen

\* The wire format's own account of a frame, apart from the parser's tests:
\* where the last header ends, where the payload ends (in the datagram, as
\* far as it was captured), and whether the headers make sense.
HeadersEnd(f) ==
    EthBytes + 4 * f.ihl + CASE f.proto = "tcp" -> 4 * f.doff
                             [] f.proto = "udp" -> UdpBytes
                             [] OTHER -> 0
PayloadEnd(f) == Lesser(f.caplen, EthBytes + f.total)
Decodable(f) ==
    /\ ~f.null /\ f.ipv4 /\ f.version = 4 /\ f.ihl >= 5
    /\ f.proto # "other"
    /\ f.proto = "tcp" => f.doff >= 5

\* The bytes copied into the queue were captured, belong to the IP datagram
\* and lie behind the IP header with its options and behind the whole
\* transport header, whatever lengths the headers claim.
CopyInBounds ==
    copied.hi > 0 =>
        /\ copied.lo >= HeadersEnd(frame)
        /\ copied.lo < copied.hi
        /\ copied.hi <= frame.caplen
        /\ copied.hi <= EthBytes + frame.total

\* Nothing that could be given is withheld: if the headers make sense and
\* the capture and the datagram both go on behind them, then all of those
\* bytes are copied, from the first to where the capture or the datagram ends.
PayloadComplete ==
    (/\ stage \in {"skipped", "queued"}
     /\ Decodable(frame)
     /\ HeadersEnd(frame) < PayloadEnd(frame)) =>
        copied.lo = HeadersEnd(frame) /\ copied.hi = PayloadEnd(frame)
=============================================================================
