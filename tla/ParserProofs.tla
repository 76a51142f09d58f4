---------------------------- MODULE ParserProofs ----------------------------
(* Proofs about module Parser, for every set of frames: any captured        *)
(* length and any value of the length fields.                               *)
EXTENDS Parser, TLAPS

\* What parse_packet() returns begins where the headers end and ends where
\* the capture or the datagram ends, in each of its branches.
LEMMA PayloadPlaced ==
    ASSUME NEW f \in FrameType, HasEth(f),
           parse_packet(f).length > 0
    PROVE  /\ parse_packet(f).payload = HeadersEnd(f)
           /\ parse_packet(f).payload + parse_packet(f).length = PayloadEnd(f)
           /\ HeadersEnd(f) \in Nat /\ PayloadEnd(f) \in Nat
  <1> f.caplen \in Nat /\ f.ihl \in Nat /\ f.total \in Nat /\ f.doff \in Nat
    BY DEF FrameType
  <1>1. CASE HasTcp(f)
    <2>1. parse_packet(f) = Full("tcp", TransportAt(f) + f.doff * 4, Behind(f, f.doff * 4))
      BY <1>1 DEF parse_packet
    <2>2. HeadersEnd(f) = EthBytes + 4 * f.ihl + 4 * f.doff
      BY <1>1 DEF HeadersEnd, HasTcp, HasTcpFixed
    <2> QED
      BY <1>1, <2>1, <2>2 DEF Full, HasTcp, HasTcpFixed, HasIp, HasIpFixed, Behind,
         IpPayload, TransportAt, PayloadEnd, Lesser, Monus, EthBytes, IpBytes, TcpBytes
  <1>2. CASE ~HasTcp(f) /\ HasUdp(f)
    <2>1. parse_packet(f) = Full("udp", TransportAt(f) + UdpBytes, Behind(f, UdpBytes))
      BY <1>2 DEF parse_packet
    <2>2. HeadersEnd(f) = EthBytes + 4 * f.ihl + UdpBytes
      BY <1>2 DEF HeadersEnd, HasUdp
    <2> QED
      BY <1>2, <2>1, <2>2 DEF Full, HasUdp, HasIp, HasIpFixed, Behind, IpPayload,
         TransportAt, PayloadEnd, Lesser, Monus, EthBytes, IpBytes, UdpBytes
  <1>3. CASE ~HasTcp(f) /\ ~HasUdp(f) /\ HasIcmp(f)
    <2>1. parse_packet(f) = Full("icmp", TransportAt(f), IpPayload(f))
      BY <1>3 DEF parse_packet
    <2>2. HeadersEnd(f) = EthBytes + 4 * f.ihl
      BY <1>3 DEF HeadersEnd, HasIcmp, EthBytes
    <2> QED
      BY <1>3, <2>1, <2>2 DEF Full, HasIcmp, HasIp, HasIpFixed, IpPayload,
         TransportAt, PayloadEnd, Lesser, Monus, EthBytes, IpBytes
  <1>4. CASE ~HasTcp(f) /\ ~HasUdp(f) /\ ~HasIcmp(f)
    <2>1. parse_packet(f) = Bare(HasIp(f))
      BY <1>4 DEF parse_packet
    <2> QED
      BY <2>1 DEF Bare
  <1> QED
    BY <1>1, <1>2, <1>3, <1>4

\* Conversely, a frame with bytes behind sensible headers gets past every
\* early return of parse_packet() and is given a payload.
LEMMA PayloadGiven ==
    ASSUME NEW f \in FrameType, Decodable(f), HeadersEnd(f) < PayloadEnd(f)
    PROVE  HasEth(f) /\ parse_packet(f).length > 0
  <1> f.caplen \in Nat /\ f.ihl \in Nat /\ f.total \in Nat /\ f.doff \in Nat
      /\ f.proto \in {"tcp", "udp", "icmp"}
    BY DEF FrameType, Decodable
  <1>1. CASE f.proto = "tcp"
    <2>1. HeadersEnd(f) = EthBytes + 4 * f.ihl + 4 * f.doff
      BY <1>1 DEF HeadersEnd
    <2>2. HasEth(f) /\ HasTcp(f)
      BY <1>1, <2>1 DEF Decodable, PayloadEnd, Lesser, HasEth, HasTcp, HasTcpFixed, HasIp,
         HasIpFixed, TransportAt, EthBytes, IpBytes, TcpBytes
    <2>3. parse_packet(f) = Full("tcp", TransportAt(f) + f.doff * 4, Behind(f, f.doff * 4))
      BY <2>2 DEF parse_packet
    <2> QED
      BY <2>1, <2>2, <2>3 DEF Full, Behind, IpPayload, TransportAt, PayloadEnd, Lesser,
         Monus, EthBytes
  <1>2. CASE f.proto = "udp"
    <2>1. HeadersEnd(f) = EthBytes + 4 * f.ihl + UdpBytes
      BY <1>2 DEF HeadersEnd
    <2>2. HasEth(f) /\ ~HasTcp(f) /\ HasUdp(f)
      BY <1>2, <2>1 DEF Decodable, PayloadEnd, Lesser, HasEth, HasTcp, HasTcpFixed, HasUdp,
         HasIp, HasIpFixed, TransportAt, EthBytes, IpBytes, UdpBytes
    <2>3. parse_packet(f) = Full("udp", TransportAt(f) + UdpBytes, Behind(f, UdpBytes))
      BY <2>2 DEF parse_packet
    <2> QED
      BY <2>1, <2>2, <2>3 DEF Full, Behind, IpPayload, TransportAt, PayloadEnd, Lesser,
         Monus, EthBytes, UdpBytes
  <1>3. CASE f.proto = "icmp"
    <2>1. HeadersEnd(f) = EthBytes + 4 * f.ihl
      BY <1>3 DEF HeadersEnd, EthBytes
    <2>2. HasEth(f) /\ ~HasTcp(f) /\ ~HasUdp(f) /\ HasIcmp(f)
      BY <1>3, <2>1 DEF Decodable, PayloadEnd, Lesser, HasEth, HasTcp, HasTcpFixed, HasUdp,
         HasIcmp, HasIp, HasIpFixed, EthBytes, IpBytes
    <2>3. parse_packet(f) = Full("icmp", TransportAt(f), IpPayload(f))
      BY <2>2 DEF parse_packet
    <2> QED
      BY <2>1, <2>2, <2>3 DEF Full, IpPayload, TransportAt, PayloadEnd, Lesser, Monus,
         EthBytes
  <1> QED
    BY <1>1, <1>2, <1>3

\* A result without a value comes from a frame too short for Ethernet, and
\* from no other.
LEMMA ValueMeansEth ==
    ASSUME NEW f
    PROVE  parse_packet(f).value <=> HasEth(f)
  BY DEF parse_packet, NullPacket, Full, Bare

\* ParserInv is an invariant.
THEOREM ParserInductive == ParserSpec => []ParserInv
  <1>1. ParserInit => ParserInv
    BY DEF ParserInit, ParserInv
  <1>2. ParserInv /\ [ParserNext]_parserVars => ParserInv'
    <2> SUFFICES ASSUME ParserInv, [ParserNext]_parserVars PROVE ParserInv'
      OBVIOUS
    <2>1. CASE Parse
      <3>1. frame' = frame /\ copied' = copied /\ packet' = parse_packet(frame)
        BY <2>1 DEF Parse
      <3>2. stage' = IF packet'.value THEN "parsed" ELSE "skipped"
        BY <2>1 DEF Parse
      <3>3. copied = Span(0, 0)
        BY <2>1 DEF Parse, ParserInv
      <3>4. /\ stage' = "parsed" => HasEth(frame')
            /\ stage' = "skipped" => ~HasEth(frame')
        BY <3>1, <3>2, ValueMeansEth
      <3> QED
        BY <3>1, <3>2, <3>3, <3>4 DEF ParserInv
    <2>2. CASE make_queued_packet
      BY <2>2 DEF make_queued_packet, ParserInv
    <2>3. CASE UNCHANGED parserVars
      BY <2>3 DEF parserVars, ParserInv
    <2> QED
      BY <2>1, <2>2, <2>3 DEF ParserNext, ParserDone
  <1> QED
    BY <1>1, <1>2, PTL DEF ParserSpec

\* Every header parse_packet() reads lies within the captured bytes.
THEOREM ParserReadsInBounds == ParserSpec => []ReadsInBounds
  <1>1. ParserInv => ReadsInBounds
    <2> SUFFICES ASSUME ParserInv, NEW r \in Reads(frame) PROVE r.hi <= frame.caplen
      BY DEF ReadsInBounds
    <2>1. frame \in FrameType
      BY FramesTyped DEF ParserInv
    <2>2. frame.caplen \in Nat /\ frame.ihl \in Nat
      BY <2>1 DEF FrameType
    <2> QED
      BY <2>2 DEF Reads, Span, HasEth, HasIpFixed, HasTcpFixed, HasUdp, TransportAt,
         EthBytes, IpBytes, TcpBytes, UdpBytes
  <1> QED
    BY <1>1, ParserInductive, PTL

\* The copy make_queued_packet() makes, in terms of the wire format.
LEMMA CopyPlaced ==
    ASSUME ParserInv, stage = "queued", packet.length > 0
    PROVE  /\ copied.lo = HeadersEnd(frame) /\ copied.hi = PayloadEnd(frame)
           /\ copied.lo < copied.hi
  <1>1. frame \in FrameType
    BY FramesTyped DEF ParserInv
  <1>2. HasEth(frame) /\ packet = parse_packet(frame)
        /\ copied = Span(packet.payload, packet.length)
    BY DEF ParserInv
  <1>3. /\ packet.payload = HeadersEnd(frame)
        /\ packet.payload + packet.length = PayloadEnd(frame)
        /\ HeadersEnd(frame) \in Nat /\ PayloadEnd(frame) \in Nat
    BY <1>1, <1>2, PayloadPlaced
  <1>4. copied.lo = packet.payload /\ copied.hi = packet.payload + packet.length
    BY <1>2 DEF Span
  <1>5. packet.length \in Nat
    <2>1. frame.caplen \in Nat /\ frame.ihl \in Nat /\ frame.total \in Nat
          /\ frame.doff \in Nat
      BY <1>1 DEF FrameType
    <2> QED
      BY <1>2, <2>1 DEF parse_packet, NullPacket, Full, Bare, Behind, IpPayload, Lesser,
         Monus, TransportAt, HasTcp, HasUdp, EthBytes, UdpBytes
  <1> QED
    BY <1>3, <1>4, <1>5

\* The payload copied into the queue was captured, belongs to the datagram
\* and begins behind the IP header with its options and the whole transport
\* header, whatever the headers' length fields say.
THEOREM ParserCopyInBounds == ParserSpec => []CopyInBounds
  <1>1. ParserInv => CopyInBounds
    <2> SUFFICES ASSUME ParserInv, copied.hi > 0
                 PROVE  /\ copied.lo >= HeadersEnd(frame)
                        /\ copied.lo < copied.hi
                        /\ copied.hi <= frame.caplen
                        /\ copied.hi <= EthBytes + frame.total
      BY DEF CopyInBounds
    <2>1. frame.caplen \in Nat /\ frame.total \in Nat /\ frame.ihl \in Nat
          /\ frame.doff \in Nat
      BY FramesTyped DEF ParserInv, FrameType
    <2>2. Span(0, 0).hi = 0
      BY DEF Span
    <2>3. stage = "queued" /\ packet.length > 0
      BY <2>2 DEF ParserInv
    <2>4. /\ copied.lo = HeadersEnd(frame) /\ copied.hi = PayloadEnd(frame)
          /\ copied.lo < copied.hi
      BY <2>3, CopyPlaced
    <2>5. HeadersEnd(frame) \in Nat
      BY <2>1 DEF HeadersEnd, EthBytes, UdpBytes
    <2> QED
      BY <2>1, <2>4, <2>5 DEF PayloadEnd, Lesser, EthBytes
  <1> QED
    BY <1>1, ParserInductive, PTL

\* Every byte behind sensible headers that was captured and belongs to the
\* datagram reaches the queue: no early return withholds a payload and no
\* clamp cuts one short.
THEOREM ParserPayloadComplete == ParserSpec => []PayloadComplete
  <1>1. ParserInv => PayloadComplete
    <2> SUFFICES ASSUME ParserInv, stage \in {"skipped", "queued"}, Decodable(frame),
                        HeadersEnd(frame) < PayloadEnd(frame)
                 PROVE  copied.lo = HeadersEnd(frame) /\ copied.hi = PayloadEnd(frame)
      BY DEF PayloadComplete
    <2>1. frame \in FrameType
      BY FramesTyped DEF ParserInv
    <2>2. HasEth(frame) /\ parse_packet(frame).length > 0
      BY <2>1, PayloadGiven
    <2>3. stage = "queued" /\ packet = parse_packet(frame)
      BY <2>2 DEF ParserInv
    <2> QED
      BY <2>2, <2>3, CopyPlaced
  <1> QED
    BY <1>1, ParserInductive, PTL
=============================================================================
