-------------------------- MODULE FlowTrackerProofs --------------------------
(***************************************************************************)
(* Theorems about the per-source records of FlowTracker, for any traffic,  *)
(* any windows, thresholds and limits: what holds under any interleaving   *)
(* of workers, and what holds when packets are observed in capture order.  *)
(***************************************************************************)
EXTENDS FlowTracker, DataInduction, SequenceTheorems, FiniteSetTheorems, FunctionTheorems,
        TLAPS

Times == 0..MaxTime
PortEntry == [at : Times, port : Ports]
SynEntry == [at : Times, flow : Flows]

\* What a PerIpState holds.
Records ==
    [recent : Seq(PortEntry), counts : [Ports -> Nat],
     pending : [Flows -> Times \cup {Never}], order : Seq(SynEntry),
     seen : Times, scan_alert : Times \cup {Never}, flood_alert : Times \cup {Never}]

\* The two facts that tie a record's indexes to its queues.
PortEntries(q, p) == {k \in DOMAIN q : q[k].port = p}
Mirrors(st) == \A p \in Ports : st.counts[p] = Cardinality(PortEntries(st.recent, p))
HasEntry(q, f, t) == \E k \in DOMAIN q : q[k] = [at |-> t, flow |-> f]
Expirable(st) ==
    \A f \in Flows : st.pending[f] # Never => HasEntry(st.order, f, st.pending[f])
GoodRecord(st) == st \in Records /\ Mirrors(st) /\ Expirable(st)

\* The inductive invariant: the maps hold good records of known sources.
FlowInv ==
    /\ DOMAIN per_ip \subseteq Ips
    /\ per_ip = [i \in DOMAIN per_ip |-> per_ip[i]]
    /\ \A i \in DOMAIN per_ip : GoodRecord(per_ip[i])
    /\ sweep \in [Shards -> Nat]
    /\ \A w \in Workers : held[w] \in Packets \cup {NoPacket}
    /\ DOMAIN held = Workers

-----------------------------------------------------------------------------
(* Expiry from the front of a queue                                        *)

LEMMA ExpiredBounds ==
    ASSUME NEW T, NEW q \in Seq(T), NEW cutoff
    PROVE  ExpiredCount(q, cutoff) \in 0..Len(q)
<1> DEFINE old == {i \in DOMAIN q : \A j \in 1..i : q[j].at < cutoff}
<1>1. Len(q) \in Nat /\ DOMAIN q = 1..Len(q)
  BY LenProperties
<1>2. IsFiniteSet(1..Len(q)) /\ Cardinality(1..Len(q)) = Len(q)
  BY <1>1, FS_Interval
<1>3. old \in SUBSET (1..Len(q))
  BY <1>1
<1>4. IsFiniteSet(old) /\ Cardinality(old) <= Len(q)
  BY <1>2, <1>3, FS_Subset
<1>5. Cardinality(old) \in Nat
  BY <1>4, FS_CardinalityType
<1> QED BY <1>1, <1>4, <1>5 DEF ExpiredCount

LEMMA DropFacts ==
    ASSUME NEW T, NEW q \in Seq(T), NEW n \in 0..Len(q)
    PROVE  /\ Drop(q, n) \in Seq(T)
           /\ DOMAIN Drop(q, n) = 1..(Len(q) - n)
           /\ \A k \in 1..(Len(q) - n) : Drop(q, n)[k] = q[n + k]
<1>1. Len(q) \in Nat /\ \A i \in 1..Len(q) : q[i] \in T
  BY LenProperties, ElementOfSeq
<1>2. /\ n + 1 \in Int /\ Len(q) \in Int
      /\ \A i \in (n + 1)..Len(q) : q[i] \in T
  BY <1>1
<1>3. /\ SubSeq(q, n + 1, Len(q)) \in Seq(T)
      /\ Len(SubSeq(q, n + 1, Len(q))) =
            IF n + 1 <= Len(q) THEN Len(q) - (n + 1) + 1 ELSE 0
      /\ \A k \in 1..(Len(q) - (n + 1) + 1) :
            SubSeq(q, n + 1, Len(q))[k] = q[n + 1 + k - 1]
  BY <1>2, SubSeqProperties
<1>4. Len(SubSeq(q, n + 1, Len(q))) = Len(q) - n
  BY <1>1, <1>3
<1>5. \A k \in 1..(Len(q) - n) : SubSeq(q, n + 1, Len(q))[k] = q[n + k]
  BY <1>1, <1>3
<1> QED BY <1>3, <1>4, <1>5, LenProperties DEF Drop

\* The entries of a port are those that were expired and those still queued.
LEMMA PortEntriesSplit ==
    ASSUME NEW q \in Seq(PortEntry), NEW n \in 0..Len(q), NEW p
    PROVE  LET gone == {i \in 1..n : q[i].port = p} IN
           /\ Cardinality(gone) \in Nat
           /\ Cardinality(gone) <= Cardinality(PortEntries(q, p))
           /\ Cardinality(PortEntries(q, p)) \in Nat
           /\ Cardinality(PortEntries(Drop(q, n), p))
                 = Cardinality(PortEntries(q, p)) - Cardinality(gone)
<1> DEFINE all  == PortEntries(q, p)
           gone == {i \in 1..n : q[i].port = p}
           left == PortEntries(Drop(q, n), p)
           move == [k \in left |-> n + k]
<1>1. Len(q) \in Nat /\ DOMAIN q = 1..Len(q) /\ n \in Nat
  BY LenProperties
<1>2. IsFiniteSet(all)
  <2>1. all \in SUBSET (1..Len(q))
    BY <1>1 DEF PortEntries
  <2>2. IsFiniteSet(1..Len(q))
    BY <1>1, FS_Interval
  <2> QED BY <2>1, <2>2, FS_Subset
<1>3. gone \in SUBSET all /\ all \cap gone = gone
  BY <1>1 DEF PortEntries
<1>4. /\ IsFiniteSet(gone) /\ Cardinality(gone) <= Cardinality(all)
      /\ Cardinality(gone) \in Nat /\ Cardinality(all) \in Nat
  BY <1>2, <1>3, FS_Subset, FS_CardinalityType
<1>5. IsFiniteSet(all \ gone) /\ Cardinality(all \ gone) = Cardinality(all) - Cardinality(gone)
  BY <1>2, <1>3, FS_Difference
<1>6. move \in Bijection(left, all \ gone)
  <2>1. \A k \in left : k \in 1..(Len(q) - n) /\ q[n + k].port = p
    BY DropFacts DEF PortEntries
  <2>2. \A k \in left : n + k \in all \ gone
    BY <1>1, <2>1 DEF PortEntries
  <2>3. \A k, l \in left : n + k = n + l => k = l
    BY <1>1, <2>1
  <2>4. \A m \in all \ gone : m - n \in left /\ n + (m - n) = m
    <3> SUFFICES ASSUME NEW m \in all \ gone PROVE m - n \in left /\ n + (m - n) = m
      OBVIOUS
    <3>1. m \in 1..Len(q) /\ q[m].port = p /\ m \notin 1..n
      BY <1>1 DEF PortEntries
    <3>2. m - n \in 1..(Len(q) - n) /\ n + (m - n) = m
      BY <1>1, <3>1
    <3> QED BY <3>1, <3>2, DropFacts DEF PortEntries
  <2>5. \A k \in left : move[k] = n + k
    OBVIOUS
  <2> HIDE DEF left, all, gone
  <2>6. move \in [left -> all \ gone]
    BY <2>2
  <2> HIDE DEF move
  <2>7. move \in Injection(left, all \ gone)
    BY <2>3, <2>5, <2>6 DEF Injection, IsInjective
  <2>8. move \in Surjection(left, all \ gone)
    BY <2>4, <2>5, <2>6 DEF Surjection
  <2> QED BY <2>7, <2>8 DEF Bijection
<1>7. Cardinality(left) = Cardinality(all \ gone)
  <2> HIDE DEF left, all, gone, move
  <2>1. ExistsBijection(left, all \ gone)
    BY <1>6 DEF ExistsBijection
  <2>2. ExistsBijection(all \ gone, left)
    BY <2>1, Fun_ExistsBijSymmetric
  <2> QED BY <1>5, <2>2, FS_Bijection
<1> QED BY <1>4, <1>5, <1>7

LEMMA PortEntriesAppend ==
    ASSUME NEW q \in Seq(PortEntry), NEW e \in PortEntry, NEW p
    PROVE  /\ Append(q, e) \in Seq(PortEntry)
           /\ Cardinality(PortEntries(q, p)) \in Nat
           /\ Cardinality(PortEntries(Append(q, e), p))
                 = Cardinality(PortEntries(q, p)) + (IF e.port = p THEN 1 ELSE 0)
<1> DEFINE all == PortEntries(q, p)
           n == Len(q) + 1
<1>1. /\ Len(q) \in Nat /\ DOMAIN q = 1..Len(q)
      /\ Append(q, e) \in Seq(PortEntry) /\ DOMAIN Append(q, e) = 1..n
      /\ \A i \in 1..Len(q) : Append(q, e)[i] = q[i]
      /\ Append(q, e)[n] = e
  BY AppendProperties, LenProperties
<1>2. IsFiniteSet(all) /\ n \notin all
  <2>1. all \in SUBSET (1..Len(q)) /\ n \notin 1..Len(q)
    BY <1>1 DEF PortEntries
  <2>2. IsFiniteSet(1..Len(q))
    BY <1>1, FS_Interval
  <2> QED BY <2>1, <2>2, FS_Subset
<1>3. 1..n = 1..Len(q) \cup {n} /\ n \notin 1..Len(q)
  BY <1>1
<1> HIDE DEF n
<1>4. PortEntries(Append(q, e), p) = IF e.port = p THEN all \cup {n} ELSE all
  BY <1>1, <1>3 DEF PortEntries
<1> HIDE DEF all
<1>5. Cardinality(all \cup {n}) = Cardinality(all) + 1
  BY <1>2, FS_AddElement
<1>6. Cardinality(all) \in Nat
  BY <1>2, FS_CardinalityType
<1> QED BY <1>1, <1>4, <1>5, <1>6 DEF all

-----------------------------------------------------------------------------
(* What each rule does to a record                                         *)

\* A packet of the traffic that reaches the rules.
RulePacket(pkt) == pkt.ip \in Ips /\ pkt.flow \in Flows /\ pkt.at \in Times

LEMMA CountPortGood ==
    ASSUME NEW st, GoodRecord(st), NEW pkt, RulePacket(pkt)
    PROVE  GoodRecord(CountPort(st, pkt))
<1> DEFINE port == DstPort[pkt.flow]
           e == [at |-> pkt.at, port |-> port]
           q == Append(st.recent, e)
           n == ExpiredCount(q, pkt.at - PortWindow)
           more == [st.counts EXCEPT ![port] = @ + 1]
           left == Uncount(more, q, n)
<1>1. /\ st \in Records /\ st.recent \in Seq(PortEntry) /\ st.counts \in [Ports -> Nat]
      /\ port \in Ports
  BY DEF GoodRecord, Records, RulePacket, Ports
<1>2. e \in PortEntry
  BY <1>1 DEF RulePacket, PortEntry
<1> HIDE DEF port, e
<1>3. /\ q \in Seq(PortEntry)
      /\ \A p \in Ports : Cardinality(PortEntries(q, p))
            = Cardinality(PortEntries(st.recent, p)) + (IF e.port = p THEN 1 ELSE 0)
  BY <1>1, <1>2, PortEntriesAppend
<1>4. e.port = port
  BY DEF e
<1>5. \A p \in Ports : more[p] = Cardinality(PortEntries(q, p)) /\ more[p] \in Nat
  BY <1>1, <1>3, <1>4 DEF GoodRecord, Mirrors
<1> HIDE DEF q, more
<1>6. n \in 0..Len(q)
  BY <1>3, ExpiredBounds
<1> HIDE DEF n
<1>7. Drop(q, n) \in Seq(PortEntry)
  BY <1>3, <1>6, DropFacts
<1>8. ASSUME NEW p \in Ports
      PROVE  left[p] = Cardinality(PortEntries(Drop(q, n), p)) /\ left[p] \in Nat
  <2> DEFINE gone == {i \in 1..n : q[i].port = p}
  <2>1. /\ Cardinality(gone) \in Nat
        /\ Cardinality(gone) <= Cardinality(PortEntries(q, p))
        /\ Cardinality(PortEntries(Drop(q, n), p))
              = Cardinality(PortEntries(q, p)) - Cardinality(gone)
    BY <1>3, <1>6, PortEntriesSplit
  <2>2. left[p] = IF Cardinality(gone) < more[p] THEN more[p] - Cardinality(gone) ELSE 0
    BY DEF Uncount
  <2> HIDE DEF gone, left
  <2> QED BY <1>5, <2>1, <2>2
<1>9. left = [p \in Ports |-> left[p]]
  BY DEF Uncount
<1> HIDE DEF left
<1>10. left \in [Ports -> Nat]
  BY <1>8, <1>9
<1>11. CountPort(st, pkt) = [st EXCEPT !.recent = Drop(q, n), !.counts = left]
  BY DEF CountPort, q, n, more, left, port, e
<1> DEFINE new == [st EXCEPT !.recent = Drop(q, n), !.counts = left]
<1>12. /\ new \in Records
       /\ new.recent = Drop(q, n) /\ new.counts = left
       /\ new.pending = st.pending /\ new.order = st.order
  BY <1>1, <1>7, <1>10 DEF Records
<1> HIDE DEF new
<1>13. Mirrors(new)
  BY <1>8, <1>12 DEF Mirrors
<1>14. Expirable(new)
  BY <1>12 DEF GoodRecord, Expirable
<1> QED BY <1>11, <1>12, <1>13, <1>14 DEF GoodRecord, new

LEMMA TrackSynGood ==
    ASSUME NEW st, GoodRecord(st), NEW pkt, RulePacket(pkt)
    PROVE  GoodRecord(TrackSyn(st, pkt))
<1> DEFINE f == pkt.flow
           e == [at |-> pkt.at, flow |-> f]
           pend == IF pkt.kind = "syn" THEN [st.pending EXCEPT ![f] = pkt.at]
                   ELSE IF is_ack(pkt) THEN [st.pending EXCEPT ![f] = Never]
                   ELSE st.pending
           q == IF pkt.kind = "syn" THEN Append(st.order, e) ELSE st.order
           n == ExpiredCount(q, pkt.at - SynWindow)
           left == Unpend(pend, q, n)
<1>1. /\ st \in Records /\ st.order \in Seq(SynEntry)
      /\ st.pending \in [Flows -> Times \cup {Never}]
      /\ f \in Flows /\ e \in SynEntry
  BY DEF GoodRecord, Records, RulePacket, SynEntry
<1>2. pend \in [Flows -> Times \cup {Never}]
  BY <1>1 DEF RulePacket
<1>3. q \in Seq(SynEntry)
  BY <1>1, AppendProperties
<1>4. \A g \in Flows : pend[g] # Never => HasEntry(q, g, pend[g])
  <2> SUFFICES ASSUME NEW g \in Flows, pend[g] # Never PROVE HasEntry(q, g, pend[g])
    OBVIOUS
  <2>1. CASE pkt.kind = "syn"
    <3>1. /\ DOMAIN st.order = 1..Len(st.order) /\ Len(st.order) \in Nat
          /\ DOMAIN q = 1..(Len(st.order) + 1)
          /\ q[Len(st.order) + 1] = e
          /\ \A k \in 1..Len(st.order) : q[k] = st.order[k]
      BY <1>1, <2>1, AppendProperties, LenProperties
    <3>2. CASE g = f
      <4>1. pend[g] = pkt.at
        BY <1>1, <2>1, <3>2
      <4>2. Len(st.order) + 1 \in DOMAIN q
        BY <3>1
      <4> QED BY <3>1, <3>2, <4>1, <4>2 DEF HasEntry
    <3>3. CASE g # f
      <4>1. pend[g] = st.pending[g]
        BY <1>1, <2>1, <3>3
      <4>2. HasEntry(st.order, g, pend[g])
        BY <4>1 DEF GoodRecord, Expirable
      <4>3. \A k \in DOMAIN st.order : k \in DOMAIN q
        BY <3>1
      <4> QED BY <3>1, <4>2, <4>3 DEF HasEntry
    <3> QED BY <3>2, <3>3
  <2>2. CASE pkt.kind # "syn"
    <3>1. pend[g] = st.pending[g] /\ q = st.order
      BY <1>1, <2>2
    <3> QED BY <3>1 DEF GoodRecord, Expirable
  <2> QED BY <2>1, <2>2
<1> HIDE DEF e, pend, q
<1>5. n \in 0..Len(q)
  BY <1>3, ExpiredBounds
<1> HIDE DEF n
<1>6. left \in [Flows -> Times \cup {Never}]
  BY <1>2 DEF Unpend
<1>7. \A g \in Flows : left[g] # Never => HasEntry(Drop(q, n), g, left[g])
  <2> SUFFICES ASSUME NEW g \in Flows, left[g] # Never
               PROVE  HasEntry(Drop(q, n), g, left[g])
    OBVIOUS
  <2>1. left[g] = pend[g] /\ \A i \in 1..n : ~(q[i].flow = g /\ q[i].at = pend[g])
    BY DEF Unpend
  <2>2. PICK k \in DOMAIN q : q[k] = [at |-> pend[g], flow |-> g]
    BY <1>4, <2>1 DEF HasEntry
  <2>3. DOMAIN q = 1..Len(q) /\ Len(q) \in Nat
    BY <1>3, LenProperties
  <2>4. k \notin 1..n
    BY <2>1, <2>2
  <2>5. k - n \in 1..(Len(q) - n) /\ n + (k - n) = k
    BY <1>5, <2>3, <2>4
  <2>6. /\ DOMAIN Drop(q, n) = 1..(Len(q) - n)
        /\ \A m \in 1..(Len(q) - n) : Drop(q, n)[m] = q[n + m]
    BY <1>3, <1>5, DropFacts
  <2> QED BY <2>1, <2>2, <2>5, <2>6 DEF HasEntry
<1>8. Drop(q, n) \in Seq(SynEntry)
  BY <1>3, <1>5, DropFacts
<1>9. TrackSyn(st, pkt) = [st EXCEPT !.pending = left, !.order = Drop(q, n)]
  BY DEF TrackSyn, q, n, pend, e
<1> HIDE DEF left
<1> DEFINE new == [st EXCEPT !.pending = left, !.order = Drop(q, n)]
<1>10. /\ new \in Records
       /\ new.recent = st.recent /\ new.counts = st.counts
       /\ new.pending = left /\ new.order = Drop(q, n)
  BY <1>1, <1>6, <1>8 DEF Records
<1> HIDE DEF new
<1>11. Mirrors(new) /\ Expirable(new)
  BY <1>7, <1>10 DEF GoodRecord, Mirrors, Expirable
<1> QED BY <1>9, <1>10, <1>11 DEF GoodRecord, new

\* Timestamps of the record itself do not concern its queues.
LEMMA StampGood ==
    ASSUME NEW st, GoodRecord(st), NEW now \in Times
    PROVE  /\ GoodRecord([st EXCEPT !.seen = now])
           /\ GoodRecord([st EXCEPT !.scan_alert = now])
           /\ GoodRecord([st EXCEPT !.flood_alert = now])
<1>1. ASSUME NEW new \in {[st EXCEPT !.seen = now], [st EXCEPT !.scan_alert = now],
                          [st EXCEPT !.flood_alert = now]}
      PROVE  GoodRecord(new)
  <2>1. /\ new \in Records
        /\ new.recent = st.recent /\ new.counts = st.counts
        /\ new.pending = st.pending /\ new.order = st.order
    BY <1>1 DEF GoodRecord, Records
  <2> QED BY <2>1 DEF GoodRecord, Mirrors, Expirable
<1> QED BY <1>1

LEMMA FreshGood == GoodRecord(Fresh)
<1>1. MaxTime \in Nat /\ 0 \in Times
  BY FlowConfig DEF Times
<1>2. /\ <<>> \in Seq(PortEntry) /\ <<>> \in Seq(SynEntry) /\ DOMAIN <<>> = {}
  BY EmptySeq, LenProperties
<1>3. Fresh \in Records
  BY <1>1, <1>2 DEF Fresh, Records
<1>4. Mirrors(Fresh)
  BY <1>2, FS_EmptySet DEF Mirrors, Fresh, PortEntries
<1>5. Expirable(Fresh)
  BY DEF Expirable, Fresh
<1> QED BY <1>3, <1>4, <1>5 DEF GoodRecord

LEMMA ObservedGood ==
    ASSUME NEW st, GoodRecord(st), NEW pkt, RulePacket(pkt)
    PROVE  GoodRecord(Observed(st, pkt))
<1>1. pkt.at \in Times
  BY DEF RulePacket
<1>2. GoodRecord(Counted(st, pkt))
  BY <1>1, StampGood, CountPortGood DEF Counted
<1>3. GoodRecord(Scanned(st, pkt))
  BY <1>1, <1>2, StampGood DEF Scanned
<1>4. GoodRecord(Synced(st, pkt))
  BY <1>3, TrackSynGood DEF Synced
<1> QED BY <1>1, <1>4, StampGood DEF Observed

-----------------------------------------------------------------------------
(* The invariant of the tracker                                            *)

LEMMA PacketFacts ==
    ASSUME NEW p \in Packets PROVE RulePacket(p) /\ p.kind \in Kinds
BY FlowConfig DEF Packets, RulePacket, Times

\* What evict_stale() leaves is part of what it was given, includes the
\* source just observed, and is within the cap.
LEMMA EvictFacts ==
    ASSUME NEW ips, IsFiniteSet(ips), NEW records, NEW now, NEW keep \in ips,
           NEW left \in evict_stale(ips, records, now, keep)
    PROVE  left \subseteq ips /\ keep \in left /\ Cardinality(left) <= AtCap
<1> DEFINE fresh == {i \in ips : i = keep \/ records[i].seen >= now - IdleTtl}
<1>1. fresh \subseteq ips /\ keep \in fresh
  OBVIOUS
<1>2. MaxTracked \in Nat
  BY FlowConfig
<1>3. CASE Cardinality(fresh) <= MaxTracked
  <2>1. left = fresh
    BY <1>3 DEF evict_stale
  <2>2. Cardinality(fresh) \in Nat
    BY <1>1, FS_Subset, FS_CardinalityType
  <2> QED BY <1>1, <1>2, <1>3, <2>1, <2>2 DEF AtCap
<1>4. CASE ~(Cardinality(fresh) <= MaxTracked)
  <2>1. left \in SUBSET fresh /\ keep \in left /\ Cardinality(left) = AtCap
    BY <1>4 DEF evict_stale
  <2>2. AtCap \in Nat
    BY <1>2 DEF AtCap
  <2> QED BY <1>1, <2>1, <2>2
<1> QED BY <1>3, <1>4

\* The shape of one observe(): the record of the packet's source is
\* replaced, and only its shard may lose records.
LEMMA ObserveShape ==
    ASSUME FlowInv, NEW w \in Workers, Observe(w)
    PROVE  LET pkt == held[w]
               s == ShardOf[pkt.ip]
               all == DOMAIN per_ip \cup {pkt.ip}
           IN  /\ RulePacket(pkt) /\ s \in Shards
               /\ DOMAIN per_ip' \subseteq all
               /\ all \ InShard(all, s) \subseteq DOMAIN per_ip'
               /\ per_ip' = [i \in DOMAIN per_ip' |-> per_ip'[i]]
               /\ \A i \in DOMAIN per_ip' :
                     per_ip'[i] = IF i = pkt.ip THEN Observed(RecordOf(pkt.ip), pkt)
                                  ELSE per_ip[i]
               /\ \/ ~SweepDue(s) /\ sweep' = [sweep EXCEPT ![s] = @ + 1]
                  \/ /\ SweepDue(s) /\ sweep' = [sweep EXCEPT ![s] = 0]
                     /\ Cardinality(InShard(DOMAIN per_ip', s)) <= AtCap
<1> DEFINE pkt == held[w]
           s == ShardOf[pkt.ip]
           all == DOMAIN per_ip \cup {pkt.ip}
           shard == InShard(all, s)
           new == Observed(RecordOf(pkt.ip), pkt)
           records == [i \in all |-> IF i = pkt.ip THEN new ELSE per_ip[i]]
<1>1. RulePacket(pkt)
  <2>1. pkt # NoPacket
    BY DEF Observe, Kinds, NoPacket
  <2>2. pkt \in Packets
    BY <2>1 DEF FlowInv
  <2> QED BY <2>2, PacketFacts
<1>2. s \in Shards /\ all \subseteq Ips /\ pkt.ip \in shard
  BY <1>1, FlowConfig DEF RulePacket, FlowInv, InShard
<1>3. IsFiniteSet(shard) /\ shard \subseteq all
  <2>1. shard \in SUBSET Ips
    BY <1>2 DEF InShard
  <2> QED BY <2>1, FlowConfig, FS_Subset DEF InShard
<1>4. \/ ~SweepDue(s) /\ sweep' = [sweep EXCEPT ![s] = @ + 1] /\ per_ip' = records
      \/ /\ SweepDue(s) /\ sweep' = [sweep EXCEPT ![s] = 0]
         /\ \E left \in evict_stale(shard, records, pkt.at, pkt.ip) :
               per_ip' = [i \in (all \ shard) \cup left |-> records[i]]
  BY DEF Observe
<1> HIDE DEF new
<1>5. CASE ~SweepDue(s) /\ sweep' = [sweep EXCEPT ![s] = @ + 1] /\ per_ip' = records
  <2>1. DOMAIN per_ip' = all
    BY <1>5
  <2> QED BY <1>1, <1>2, <1>5, <2>1 DEF new
<1>6. ASSUME SweepDue(s), sweep' = [sweep EXCEPT ![s] = 0],
             NEW left \in evict_stale(shard, records, pkt.at, pkt.ip),
             per_ip' = [i \in (all \ shard) \cup left |-> records[i]]
      PROVE  /\ DOMAIN per_ip' \subseteq all
             /\ all \ shard \subseteq DOMAIN per_ip'
             /\ per_ip' = [i \in DOMAIN per_ip' |-> per_ip'[i]]
             /\ \A i \in DOMAIN per_ip' : per_ip'[i] = IF i = pkt.ip THEN new ELSE per_ip[i]
             /\ Cardinality(InShard(DOMAIN per_ip', s)) <= AtCap
  <2> HIDE DEF records
  <2>1. left \subseteq shard /\ Cardinality(left) <= AtCap
    BY <1>2, <1>3, <1>6, EvictFacts
  <2>2. DOMAIN per_ip' = (all \ shard) \cup left
    BY <1>6
  <2>3. InShard(DOMAIN per_ip', s) = left
    BY <2>1, <2>2 DEF InShard
  <2>4. \A i \in DOMAIN per_ip' : per_ip'[i] = records[i]
    BY <1>6
  <2>5. \A i \in all : records[i] = IF i = pkt.ip THEN new ELSE per_ip[i]
    BY DEF records
  <2>6. DOMAIN per_ip' \subseteq all
    BY <1>3, <2>1, <2>2
  <2> QED BY <1>6, <2>1, <2>2, <2>3, <2>4, <2>5, <2>6
<1> QED BY <1>1, <1>2, <1>4, <1>5, <1>6 DEF new

LEMMA RecordOfGood ==
    ASSUME FlowInv, NEW i PROVE GoodRecord(RecordOf(i))
BY FreshGood DEF FlowInv, RecordOf

LEMMA FlowStep == ASSUME FlowInv, [FlowNext]_flowVars PROVE FlowInv'
<1>1. ASSUME NEW w \in Workers, Take(w) PROVE FlowInv'
  <2>1. UNCHANGED <<per_ip, sweep>>
    BY <1>1 DEF Take
  <2>2. \E p \in Packets : held' = [held EXCEPT ![w] = p]
    BY <1>1 DEF Take
  <2>3. DOMAIN held' = Workers /\ \A v \in Workers : held'[v] \in Packets \cup {NoPacket}
    BY <2>2 DEF FlowInv
  <2> QED BY <2>1, <2>3 DEF FlowInv
<1>2. ASSUME NEW w \in Workers, held' = [held EXCEPT ![w] = NoPacket]
      PROVE  DOMAIN held' = Workers /\ \A v \in Workers : held'[v] \in Packets \cup {NoPacket}
  BY <1>2 DEF FlowInv
<1>3. ASSUME NEW w \in Workers, ObserveNoIp(w) PROVE FlowInv'
  BY <1>2, <1>3 DEF ObserveNoIp, FlowInv
<1>4. ASSUME NEW w \in Workers, Observe(w) PROVE FlowInv'
  <2> DEFINE pkt == held[w]
             s == ShardOf[pkt.ip]
             all == DOMAIN per_ip \cup {pkt.ip}
             new == Observed(RecordOf(pkt.ip), pkt)
  <2>1. /\ RulePacket(pkt) /\ s \in Shards
        /\ DOMAIN per_ip' \subseteq all
        /\ per_ip' = [i \in DOMAIN per_ip' |-> per_ip'[i]]
        /\ \A i \in DOMAIN per_ip' : per_ip'[i] = IF i = pkt.ip THEN new ELSE per_ip[i]
        /\ \/ sweep' = [sweep EXCEPT ![s] = @ + 1]
           \/ sweep' = [sweep EXCEPT ![s] = 0]
    BY <1>4, ObserveShape
  <2>2. GoodRecord(new)
    BY <2>1, RecordOfGood, ObservedGood
  <2> HIDE DEF new
  <2>3. DOMAIN per_ip' \subseteq Ips
    BY <2>1 DEF RulePacket, FlowInv
  <2>4. \A i \in DOMAIN per_ip' : GoodRecord(per_ip'[i])
    BY <2>1, <2>2 DEF FlowInv
  <2>5. sweep' \in [Shards -> Nat]
    BY <2>1 DEF FlowInv
  <2>6. held' = [held EXCEPT ![w] = NoPacket]
    BY <1>4 DEF Observe
  <2> QED BY <1>2, <2>1, <2>3, <2>4, <2>5, <2>6 DEF FlowInv
<1>5. CASE UNCHANGED flowVars
  BY <1>5 DEF flowVars, FlowInv
<1> QED BY <1>1, <1>3, <1>4, <1>5 DEF FlowNext, FlowDone

\* The maps of the shards always hold well-formed records whose counts and
\* pending SYNs agree with their queues.
THEOREM FlowInvariant == FlowSpec => []FlowInv
<1>1. FlowInit => FlowInv
  BY DEF FlowInit, FlowInv
<1>2. FlowInv /\ [FlowNext]_flowVars => FlowInv'
  BY FlowStep
<1> QED BY <1>1, <1>2, PTL DEF FlowSpec

\* port_counts has exactly the ports of recent_dst_ports, each with its
\* number of entries, also when packets are observed out of order.
THEOREM FlowCountsMirror == FlowSpec => []CountsMirrorWindow
<1>1. FlowInv => CountsMirrorWindow
  BY DEF FlowInv, GoodRecord, Mirrors, PortEntries, CountsMirrorWindow
<1> QED BY <1>1, FlowInvariant, PTL

\* Every pending SYN has the entry of syn_order that will expire it, also
\* after a repeated SYN on the same flow and after out-of-order packets.
THEOREM FlowNoOrphanSyn == FlowSpec => []NoOrphanSyn
<1>1. FlowInv => NoOrphanSyn
  BY DEF FlowInv, GoodRecord, Expirable, HasEntry, NoOrphanSyn
<1> QED BY <1>1, FlowInvariant, PTL

LEMMA StepBounded ==
    ASSUME FlowInv, TrackedBounded, [FlowNext]_flowVars PROVE TrackedBounded'
<1>1. CASE UNCHANGED <<per_ip, sweep>>
  BY <1>1 DEF TrackedBounded, InShard
<1>2. ASSUME NEW w \in Workers, Observe(w) PROVE TrackedBounded'
  <2> DEFINE pkt == held[w]
             s == ShardOf[pkt.ip]
             all == DOMAIN per_ip \cup {pkt.ip}
  <2>1. /\ RulePacket(pkt) /\ s \in Shards
        /\ DOMAIN per_ip' \subseteq all
        /\ all \ InShard(all, s) \subseteq DOMAIN per_ip'
        /\ \/ ~SweepDue(s) /\ sweep' = [sweep EXCEPT ![s] = @ + 1]
           \/ /\ SweepDue(s) /\ sweep' = [sweep EXCEPT ![s] = 0]
              /\ Cardinality(InShard(DOMAIN per_ip', s)) <= AtCap
    BY <1>2, ObserveShape
  <2>2. /\ AtCap \in Nat /\ SweepInterval \in Nat /\ sweep \in [Shards -> Nat]
        /\ IsFiniteSet(Ips) /\ DOMAIN per_ip \subseteq Ips /\ all \subseteq Ips
    BY <2>1, FlowConfig DEF AtCap, FlowInv, RulePacket
  <2> HIDE DEF s, all
  <2>3. SUFFICES ASSUME NEW r \in Shards
                 PROVE  /\ Cardinality(InShard(DOMAIN per_ip', r)) <= AtCap + sweep'[r]
                        /\ sweep'[r] = 0 \/ sweep'[r] < SweepInterval
    BY DEF TrackedBounded
  <2>4. /\ Cardinality(InShard(DOMAIN per_ip, r)) <= AtCap + sweep[r]
        /\ sweep[r] = 0 \/ sweep[r] < SweepInterval
    BY DEF TrackedBounded
  <2>5. CASE r # s
    <3>1. pkt.ip \notin InShard(all, r)
      BY <2>5 DEF InShard, s
    <3>2. InShard(DOMAIN per_ip', r) = InShard(DOMAIN per_ip, r)
      BY <2>1, <2>5, <3>1 DEF InShard, all
    <3>3. sweep'[r] = sweep[r]
      BY <2>1, <2>2, <2>5
    <3> QED BY <2>4, <3>2, <3>3
  <2>6. CASE r = s /\ ~SweepDue(s) /\ sweep' = [sweep EXCEPT ![s] = @ + 1]
    <3> DEFINE old == InShard(DOMAIN per_ip, s)
    <3>1. IsFiniteSet(old) /\ Cardinality(old) \in Nat
      <4>1. old \in SUBSET Ips
        BY <2>2 DEF InShard
      <4> QED BY <2>2, <4>1, FS_Subset, FS_CardinalityType
    <3>2. /\ IsFiniteSet(old \cup {pkt.ip})
          /\ Cardinality(old \cup {pkt.ip}) <= Cardinality(old) + 1
      <4> HIDE DEF old, pkt
      <4> QED BY <3>1, FS_AddElement
    <3>3. InShard(DOMAIN per_ip', s) \in SUBSET (old \cup {pkt.ip})
      BY <2>1 DEF InShard, all
    <3>4. /\ Cardinality(InShard(DOMAIN per_ip', s)) <= Cardinality(old \cup {pkt.ip})
          /\ IsFiniteSet(InShard(DOMAIN per_ip', s))
      BY <3>2, <3>3, FS_Subset
    <3>5. /\ Cardinality(InShard(DOMAIN per_ip', s)) \in Nat
          /\ Cardinality(old \cup {pkt.ip}) \in Nat /\ Cardinality(old) \in Nat
      BY <3>1, <3>2, <3>4, FS_CardinalityType
    <3>6. sweep'[s] = sweep[s] + 1 /\ sweep[s] \in Nat /\ ~(sweep[s] + 1 >= SweepInterval)
      BY <2>1, <2>2, <2>6 DEF SweepDue
    <3> HIDE DEF old
    <3>7. Cardinality(old) <= AtCap + sweep[s]
      BY <2>4, <2>6 DEF old
    <3> QED BY <2>2, <2>6, <3>2, <3>4, <3>5, <3>6, <3>7
  <2>7. CASE /\ r = s /\ sweep' = [sweep EXCEPT ![s] = 0]
             /\ Cardinality(InShard(DOMAIN per_ip', s)) <= AtCap
    <3>1. sweep'[s] = 0
      BY <2>1, <2>2, <2>7
    <3> QED BY <2>2, <2>7, <3>1
  <2> QED BY <2>1, <2>5, <2>6, <2>7
<1> QED BY <1>1, <1>2 DEF FlowNext, FlowDone, Take, ObserveNoIp, flowVars

\* The tracker's memory is bounded: between sweeps a shard holds at most
\* the cap and one source per packet observed since the last sweep.
THEOREM FlowTrackedBounded == FlowSpec => []TrackedBounded
<1>1. FlowInit => TrackedBounded
  <2> SUFFICES ASSUME FlowInit, NEW s \in Shards
               PROVE  /\ Cardinality(InShard(DOMAIN per_ip, s)) <= AtCap + sweep[s]
                      /\ sweep[s] = 0 \/ sweep[s] < SweepInterval
    BY DEF TrackedBounded
  <2>1. InShard(DOMAIN per_ip, s) = {} /\ sweep[s] = 0
    BY DEF FlowInit, InShard
  <2>2. AtCap \in Nat
    BY FlowConfig DEF AtCap
  <2> QED BY <2>1, <2>2, FS_EmptySet
<1>2. FlowInv /\ TrackedBounded /\ [FlowNext]_flowVars => TrackedBounded'
  BY StepBounded
<1> QED BY <1>1, <1>2, FlowInvariant, PTL DEF FlowSpec

-----------------------------------------------------------------------------
(* Packets observed in capture order: the records against the history      *)

\* When the tracker sees what the detector sees: one worker, so that packets
\* are observed in capture order; an idle limit that outlasts the windows and
\* the debounce interval; and no more sources than the cap.
InOrder ==
    /\ \A v, w \in Workers : v = w
    /\ PortWindow <= IdleTtl /\ SynWindow <= IdleTtl /\ Debounce <= IdleTtl
    /\ Cardinality(Ips) <= MaxTracked

\* The entries of a queue are in the order of their timestamps, up to now.
Ordered(q, now) ==
    /\ \A i, j \in DOMAIN q : i <= j => q[i].at <= q[j].at
    /\ \A i \in DOMAIN q : q[i].at <= now

\* A queue of ports against the packets observed: every attempt of the
\* window has its entry, and every entry is that of an attempt.
EntryOf(p) == [at |-> p.at, port |-> DstPort[p.flow]]
PortsCovered(q, l, now) ==
    \A k \in DOMAIN l :
        is_connection_attempt(l[k]) /\ l[k].at >= now - PortWindow =>
            \E e \in DOMAIN q : q[e] = EntryOf(l[k])
PortsSeen(q, l) ==
    \A e \in DOMAIN q : \E k \in DOMAIN l :
        is_connection_attempt(l[k]) /\ q[e] = EntryOf(l[k])
PortsExpired(q, now) == \A e \in DOMAIN q : q[e].at >= now - PortWindow

\* The pending SYNs against the packets observed: every SYN of the window
\* that is still open is pending, it or a later one, and what is pending is
\* open.
OpenSyn(l, k, f) ==
    /\ l[k].kind = "syn" /\ l[k].flow = f
    /\ \A j \in (k + 1)..Len(l) : ~(is_ack(l[j]) /\ l[j].flow = f)
SynsCovered(pend, l, now) ==
    \A f \in Flows : \A k \in DOMAIN l :
        OpenSyn(l, k, f) /\ l[k].at >= now - SynWindow => pend[f] >= l[k].at
SynsSeen(pend, l) ==
    \A f \in Flows : pend[f] # Never =>
        \E k \in DOMAIN l : OpenSyn(l, k, f) /\ l[k].at = pend[f]
SynsExpired(pend, now) ==
    \A f \in Flows : pend[f] # Never => pend[f] >= now - SynWindow

Remembers(st, l, now) ==
    /\ Ordered(st.recent, now) /\ PortsCovered(st.recent, l, now) /\ PortsSeen(st.recent, l)
    /\ Ordered(st.order, now) /\ SynsCovered(st.pending, l, now) /\ SynsSeen(st.pending, l)

\* What a record knows of the packets observed when the last of them was.
UpToDate(st, l) ==
    /\ Len(l) > 0 /\ st.seen = l[Len(l)].at
    /\ \A k \in DOMAIN l : l[k].at <= st.seen
    /\ Remembers(st, l, st.seen)
    /\ is_connection_attempt(l[Len(l)]) => PortsExpired(st.recent, st.seen)
    /\ is_tcp(l[Len(l)]) => SynsExpired(st.pending, st.seen)

\* What a record knows of the alerts of one rule: the last one, unless all
\* are so old that no debounce interval reaches them.
Elements(s) == {s[k] : k \in DOMAIN s}
LastAlert(st, rule) == IF rule = "scan" THEN st.scan_alert ELSE st.flood_alert
AlertsKnown(said, st, i, rule) ==
    /\ \A a \in said :
          a.rule = rule /\ a.ip = i => a.at <= LastAlert(st, rule) \/ a.at < clock - IdleTtl
    /\ LastAlert(st, rule) # Never =>
          \E a \in said : a.rule = rule /\ a.ip = i /\ a.at = LastAlert(st, rule)
    /\ LastAlert(st, rule) <= st.seen

Rules == {"scan", "flood"}
AlertSet ==
    {[rule |-> r, ip |-> i, at |-> now, count |-> Cardinality(found)] :
        r \in Rules, i \in Ips, now \in Times, found \in (SUBSET Ports) \cup (SUBSET Flows)}

\* The invariant that ties the records to the whole history.
HistoryInv ==
    /\ clock \in Times /\ log \in [Ips -> Seq(Packets)] /\ alerts \in Seq(AlertSet)
    /\ \A w \in Workers : held[w] # NoPacket => held[w].at = clock
    /\ \A i \in DOMAIN per_ip : per_ip[i].seen <= clock /\ UpToDate(per_ip[i], log[i])
    /\ \A i \in Ips \ DOMAIN per_ip : \A k \in DOMAIN log[i] : log[i][k].at < clock - IdleTtl
    /\ \A i \in Ips, rule \in Rules : AlertsKnown(Elements(alerts), RecordOf(i), i, rule)
-----------------------------------------------------------------------------
(* Expiry of an ordered queue                                              *)

\* An initial part of an interval is an interval.
LEMMA InitialPart ==
    ASSUME NEW N \in Nat, NEW D \in SUBSET (1..N),
           \A i \in D : \A j \in 1..i : j \in D
    PROVE  D = 1..Cardinality(D) /\ Cardinality(D) \in 0..N
<1>1. PICK m \in 0..N : D = 1..m
  <2> DEFINE B == (1..N) \ D
  <2>1. CASE B = {}
    <3>1. D = 1..N
      BY <2>1
    <3> QED BY <3>1
  <2>2. CASE B # {}
    <3>1. B \subseteq Nat
      OBVIOUS
    <3>2. PICK x \in B : \A y \in B : x <= y
      <4> HIDE DEF B
      <4> QED BY <2>2, <3>1, LeastNatural, Zenon
    <3>3. x \in 1..N /\ x \notin D
      OBVIOUS
    <3>4. ASSUME NEW i \in D PROVE i \in 1..(x - 1)
      <4>1. i \in 1..N /\ ~ (x \in 1..i)
        BY <3>3
      <4> QED BY <3>3, <4>1
    <3>5. ASSUME NEW i \in 1..(x - 1) PROVE i \in D
      <4>1. i \in 1..N /\ ~ (x <= i)
        BY <3>3
      <4> QED BY <3>2, <4>1
    <3>6. D = 1..(x - 1)
      BY <3>4, <3>5
    <3> QED BY <3>3, <3>6
  <2> QED BY <2>1, <2>2
<1>2. Cardinality(1..m) = m
  BY FS_Interval
<1> QED BY <1>1, <1>2

\* The expiry loop pops the old entries in front and stops at a young one.
LEMMA ExpiredFront ==
    ASSUME NEW T, NEW q \in Seq(T), NEW cutoff
    PROVE  LET n == ExpiredCount(q, cutoff) IN
           /\ n \in 0..Len(q)
           /\ \A i \in 1..n : q[i].at < cutoff
           /\ n < Len(q) => ~(q[n + 1].at < cutoff)
<1> DEFINE old == {i \in DOMAIN q : \A j \in 1..i : q[j].at < cutoff}
           n == Cardinality(old)
<1>1. Len(q) \in Nat /\ DOMAIN q = 1..Len(q)
  BY LenProperties
<1>2. old \in SUBSET (1..Len(q)) /\ \A i \in old : \A j \in 1..i : j \in old
  BY <1>1
<1>3. old = 1..n /\ n \in 0..Len(q)
  <2> HIDE DEF old
  <2> QED BY <1>1, <1>2, InitialPart
<1>4. \A i \in old : q[i].at < cutoff
  BY <1>1
<1>5. ASSUME n < Len(q), q[n + 1].at < cutoff PROVE FALSE
  <2> HIDE DEF n
  <2>1. n + 1 \in DOMAIN q /\ n + 1 \notin old
    BY <1>1, <1>3, <1>5
  <2>2. \A j \in 1..(n + 1) : j \in 1..n \/ j = n + 1
    BY <1>3
  <2>3. \A j \in 1..(n + 1) : q[j].at < cutoff
    BY <1>3, <1>4, <1>5, <2>2
  <2> QED BY <2>1, <2>3
<1> QED BY <1>3, <1>4, <1>5 DEF ExpiredCount

\* In an ordered queue exactly the old entries are popped, and what is left
\* is ordered.
LEMMA ExpiredOrdered ==
    ASSUME NEW T, NEW q \in Seq(T), NEW cutoff \in Int, NEW now \in Int,
           \A i \in DOMAIN q : q[i].at \in Int, Ordered(q, now)
    PROVE  LET n == ExpiredCount(q, cutoff) r == Drop(q, n) IN
           /\ n \in 0..Len(q)
           /\ \A i \in 1..n : q[i].at < cutoff
           /\ r \in Seq(T) /\ Ordered(r, now)
           /\ \A e \in DOMAIN r : r[e].at >= cutoff
           /\ \A e \in DOMAIN r : \E i \in DOMAIN q : r[e] = q[i]
           /\ \A i \in DOMAIN q : q[i].at >= cutoff => \E e \in DOMAIN r : r[e] = q[i]
<1> DEFINE n == ExpiredCount(q, cutoff)
           r == Drop(q, n)
<1>1. Len(q) \in Nat /\ DOMAIN q = 1..Len(q)
  BY LenProperties
<1>2. /\ n \in 0..Len(q)
      /\ \A i \in 1..n : q[i].at < cutoff
      /\ n < Len(q) => ~(q[n + 1].at < cutoff)
  BY ExpiredFront
<1> HIDE DEF n
<1>3. /\ r \in Seq(T) /\ DOMAIN r = 1..(Len(q) - n)
      /\ \A e \in 1..(Len(q) - n) : r[e] = q[n + e]
  BY <1>2, DropFacts
<1> HIDE DEF r
<1>4. \A e \in DOMAIN r : n + e \in DOMAIN q /\ n + 1 \in DOMAIN q /\ n + 1 <= n + e /\ n < Len(q)
  BY <1>1, <1>2, <1>3
<1>5. Ordered(r, now)
  <2>1. \A i, j \in DOMAIN r : i <= j => n + i <= n + j
    BY <1>2, <1>3
  <2> QED BY <1>3, <1>4, <2>1 DEF Ordered
<1>6. ASSUME NEW e \in DOMAIN r PROVE r[e].at >= cutoff
  <2>1. q[n + 1].at <= q[n + e].at
    BY <1>4 DEF Ordered
  <2>2. ~(q[n + 1].at < cutoff)
    BY <1>2, <1>4
  <2>3. r[e] = q[n + e] /\ q[n + 1].at \in Int /\ q[n + e].at \in Int
    BY <1>3, <1>4
  <2> QED BY <2>1, <2>2, <2>3
<1>7. ASSUME NEW i \in DOMAIN q, q[i].at >= cutoff PROVE \E e \in DOMAIN r : r[e] = q[i]
  <2>1. q[i].at \in Int
    OBVIOUS
  <2>2. i \notin 1..n
    BY <1>2, <1>7, <2>1
  <2>3. i - n \in DOMAIN r /\ n + (i - n) = i
    BY <1>1, <1>2, <1>3, <2>2
  <2> QED BY <1>3, <2>3
<1> QED BY <1>2, <1>3, <1>4, <1>5, <1>6, <1>7 DEF n, r

-----------------------------------------------------------------------------
(* The rules against the history                                           *)

\* A history in capture order, and the next packet.
Follows(l, pkt) ==
    /\ l \in Seq(Packets) /\ pkt \in Packets
    /\ \A k \in DOMAIN l : l[k].at <= pkt.at

LEMMA AppendFacts ==
    ASSUME NEW l, NEW T, l \in Seq(T), NEW p \in T
    PROVE  /\ Append(l, p) \in Seq(T)
           /\ Len(l) \in Nat /\ DOMAIN l = 1..Len(l)
           /\ Len(Append(l, p)) = Len(l) + 1
           /\ DOMAIN Append(l, p) = 1..(Len(l) + 1)
           /\ Append(l, p)[Len(l) + 1] = p
           /\ \A k \in DOMAIN l : k \in DOMAIN Append(l, p) /\ Append(l, p)[k] = l[k]
           /\ \A k \in DOMAIN Append(l, p) : k = Len(l) + 1 \/ k \in DOMAIN l
<1>1. /\ Append(l, p) \in Seq(T)
      /\ Len(l) \in Nat /\ DOMAIN l = 1..Len(l)
      /\ Len(Append(l, p)) = Len(l) + 1
      /\ DOMAIN Append(l, p) = 1..(Len(l) + 1)
      /\ Append(l, p)[Len(l) + 1] = p
      /\ \A k \in 1..Len(l) : Append(l, p)[k] = l[k]
  BY AppendProperties, LenProperties
<1> QED BY <1>1

LEMMA OrderedAppend ==
    ASSUME NEW T, NEW q \in Seq(T), NEW e \in T, NEW now \in Int, e.at = now, Ordered(q, now)
    PROVE  Ordered(Append(q, e), now)
<1> DEFINE r == Append(q, e)
<1>1. /\ Len(q) \in Nat /\ DOMAIN q = 1..Len(q) /\ DOMAIN r = 1..(Len(q) + 1)
      /\ r[Len(q) + 1] = e
      /\ \A k \in DOMAIN q : r[k] = q[k]
      /\ \A k \in DOMAIN r : k = Len(q) + 1 \/ k \in DOMAIN q
  BY AppendFacts
<1> HIDE DEF r
<1>2. \A i \in DOMAIN r : r[i].at <= now
  BY <1>1 DEF Ordered
<1>3. ASSUME NEW i \in DOMAIN r, NEW j \in DOMAIN r, i <= j PROVE r[i].at <= r[j].at
  <2>1. CASE j = Len(q) + 1
    BY <1>1, <1>2, <2>1
  <2>2. CASE j # Len(q) + 1
    <3>1. i \in DOMAIN q /\ j \in DOMAIN q
      BY <1>1, <1>3, <2>2
    <3> QED BY <1>1, <1>3, <3>1 DEF Ordered
  <2> QED BY <2>1, <2>2
<1> QED BY <1>2, <1>3 DEF Ordered, r

\* The port-scan rule keeps exactly the attempts of the window.
LEMMA CountPortRemembers ==
    ASSUME NEW st \in Records, NEW l, NEW pkt, Follows(l, pkt), is_connection_attempt(pkt),
           Ordered(st.recent, pkt.at), PortsCovered(st.recent, l, pkt.at),
           PortsSeen(st.recent, l)
    PROVE  LET r == CountPort(st, pkt).recent IN
           /\ Ordered(r, pkt.at) /\ PortsCovered(r, Append(l, pkt), pkt.at)
           /\ PortsSeen(r, Append(l, pkt)) /\ PortsExpired(r, pkt.at)
<1> DEFINE e == EntryOf(pkt)
           q == Append(st.recent, e)
           now == pkt.at
           cutoff == now - PortWindow
           r == Drop(q, ExpiredCount(q, cutoff))
           m == Append(l, pkt)
<1>1. /\ now \in Int /\ cutoff \in Int /\ e \in PortEntry
      /\ st.recent \in Seq(PortEntry) /\ e.at = now
  BY PacketFacts, FlowConfig DEF Follows, RulePacket, Times, EntryOf, PortEntry, Ports, Records
<1>2. /\ q \in Seq(PortEntry)
      /\ q[Len(st.recent) + 1] = e /\ Len(st.recent) + 1 \in DOMAIN q
      /\ \A k \in DOMAIN st.recent : k \in DOMAIN q /\ q[k] = st.recent[k]
      /\ \A k \in DOMAIN q : k = Len(st.recent) + 1 \/ k \in DOMAIN st.recent
  <2>1. Len(st.recent) \in Nat /\ DOMAIN q = 1..(Len(st.recent) + 1)
    BY <1>1, AppendFacts
  <2> QED BY <1>1, <2>1, AppendFacts
<1>3. Ordered(q, now)
  BY <1>1, OrderedAppend
<1>4. \A i \in DOMAIN q : q[i].at \in Int
  <2>1. \A i \in DOMAIN q : q[i] \in PortEntry
    BY <1>2, LenProperties, ElementOfSeq
  <2> QED BY <2>1 DEF PortEntry, Times
<1>5. CountPort(st, pkt).recent = r
  BY <1>1 DEF CountPort, Records, EntryOf
<1>6. /\ m[Len(l) + 1] = pkt /\ Len(l) + 1 \in DOMAIN m
      /\ \A k \in DOMAIN l : k \in DOMAIN m /\ m[k] = l[k]
      /\ \A k \in DOMAIN m : k = Len(l) + 1 \/ k \in DOMAIN l
  <2>1. Len(l) \in Nat /\ DOMAIN m = 1..(Len(l) + 1)
    BY AppendFacts DEF Follows
  <2> QED BY <2>1, AppendFacts DEF Follows
<1> HIDE DEF q, m, e, cutoff, now
<1>7. /\ Ordered(r, now)
      /\ \A x \in DOMAIN r : r[x].at >= cutoff
      /\ \A x \in DOMAIN r : \E i \in DOMAIN q : r[x] = q[i]
      /\ \A i \in DOMAIN q : q[i].at >= cutoff => \E x \in DOMAIN r : r[x] = q[i]
  BY <1>1, <1>2, <1>3, <1>4, ExpiredOrdered
<1> HIDE DEF r
<1>8. PortsCovered(r, m, now)
  <2> SUFFICES ASSUME NEW k \in DOMAIN m, is_connection_attempt(m[k]), m[k].at >= cutoff
               PROVE  \E x \in DOMAIN r : r[x] = EntryOf(m[k])
    BY DEF PortsCovered, cutoff
  <2>1. \E i \in DOMAIN q : q[i] = EntryOf(m[k])
    <3>1. CASE k = Len(l) + 1
      BY <1>2, <1>6, <3>1 DEF e
    <3>2. CASE k \in DOMAIN l
      <4>1. PICK i \in DOMAIN st.recent : st.recent[i] = EntryOf(l[k])
        BY <1>6, <3>2 DEF PortsCovered, cutoff, now
      <4> QED BY <1>2, <1>6, <3>2, <4>1
    <3> QED BY <1>6, <3>1, <3>2
  <2>2. EntryOf(m[k]).at = m[k].at
    BY DEF EntryOf
  <2> QED BY <1>7, <2>1, <2>2
<1>9. PortsSeen(r, m)
  <2> SUFFICES ASSUME NEW x \in DOMAIN r
               PROVE  \E k \in DOMAIN m : is_connection_attempt(m[k]) /\ r[x] = EntryOf(m[k])
    BY DEF PortsSeen
  <2>1. PICK i \in DOMAIN q : r[x] = q[i]
    BY <1>7
  <2>2. CASE i = Len(st.recent) + 1
    BY <1>2, <1>6, <2>1, <2>2 DEF e
  <2>3. CASE i \in DOMAIN st.recent
    <3>1. PICK k \in DOMAIN l : is_connection_attempt(l[k]) /\ st.recent[i] = EntryOf(l[k])
      BY <2>3 DEF PortsSeen
    <3> QED BY <1>2, <1>6, <2>1, <2>3, <3>1
  <2> QED BY <1>2, <2>2, <2>3
<1> QED BY <1>5, <1>7, <1>8, <1>9 DEF PortsExpired, m, now, cutoff

\* A packet that is no attempt leaves the ports as they are.
LEMMA NoAttemptRemembers ==
    ASSUME NEW q, NEW l, NEW pkt, Follows(l, pkt), ~is_connection_attempt(pkt),
           PortsCovered(q, l, pkt.at), PortsSeen(q, l)
    PROVE  PortsCovered(q, Append(l, pkt), pkt.at) /\ PortsSeen(q, Append(l, pkt))
<1> DEFINE m == Append(l, pkt)
<1>1. /\ m[Len(l) + 1] = pkt
      /\ \A k \in DOMAIN l : k \in DOMAIN m /\ m[k] = l[k]
      /\ \A k \in DOMAIN m : k = Len(l) + 1 \/ k \in DOMAIN l
  BY AppendFacts DEF Follows
<1> HIDE DEF m
<1>2. PortsCovered(q, m, pkt.at)
  BY <1>1 DEF PortsCovered
<1>3. PortsSeen(q, m)
  <2> SUFFICES ASSUME NEW x \in DOMAIN q
               PROVE  \E k \in DOMAIN m : is_connection_attempt(m[k]) /\ q[x] = EntryOf(m[k])
    BY DEF PortsSeen
  <2>1. PICK k \in DOMAIN l : is_connection_attempt(l[k]) /\ q[x] = EntryOf(l[k])
    BY DEF PortsSeen
  <2> QED BY <1>1, <2>1
<1> QED BY <1>2, <1>3 DEF m

\* A SYN stays open until an ACK on its flow.
LEMMA OpenAppend ==
    ASSUME NEW l, NEW pkt, Follows(l, pkt), NEW f
    PROVE  /\ \A k \in DOMAIN l :
                 OpenSyn(Append(l, pkt), k, f) <=> OpenSyn(l, k, f) /\ ~(is_ack(pkt) /\ pkt.flow = f)
           /\ OpenSyn(Append(l, pkt), Len(l) + 1, f) <=> pkt.kind = "syn" /\ pkt.flow = f
<1> DEFINE m == Append(l, pkt)
           N == Len(l)
<1>1. /\ N \in Nat /\ DOMAIN l = 1..N /\ Len(m) = N + 1
      /\ m[N + 1] = pkt
      /\ \A k \in DOMAIN l : m[k] = l[k]
  BY AppendFacts DEF Follows
<1> HIDE DEF m, N
<1>2. ASSUME NEW k \in DOMAIN l
      PROVE  OpenSyn(m, k, f) <=> OpenSyn(l, k, f) /\ ~(is_ack(pkt) /\ pkt.flow = f)
  <2>1. /\ m[k] = l[k] /\ N + 1 \in (k + 1)..(N + 1)
        /\ \A j \in (k + 1)..N : j \in (k + 1)..(N + 1) /\ j \in DOMAIN l
        /\ \A j \in (k + 1)..(N + 1) : j \in (k + 1)..N \/ j = N + 1
    BY <1>1
  <2> QED BY <1>1, <2>1 DEF OpenSyn, N
<1>3. OpenSyn(m, N + 1, f) <=> pkt.kind = "syn" /\ pkt.flow = f
  <2>1. \A j : ~(j \in (N + 1 + 1)..(N + 1))
    BY <1>1
  <2> QED BY <1>1, <2>1 DEF OpenSyn
<1> QED BY <1>2, <1>3 DEF m, N

\* The SYN-flood rule keeps exactly the open SYNs of the window.
LEMMA TrackSynRemembers ==
    ASSUME NEW st, GoodRecord(st), NEW l, NEW pkt, Follows(l, pkt),
           Ordered(st.order, pkt.at), SynsCovered(st.pending, l, pkt.at),
           SynsSeen(st.pending, l)
    PROVE  LET new == TrackSyn(st, pkt) IN
           /\ Ordered(new.order, pkt.at) /\ SynsCovered(new.pending, Append(l, pkt), pkt.at)
           /\ SynsSeen(new.pending, Append(l, pkt)) /\ SynsExpired(new.pending, pkt.at)
<1> DEFINE f == pkt.flow
           now == pkt.at
           cutoff == now - SynWindow
           e == [at |-> now, flow |-> f]
           pend == IF pkt.kind = "syn" THEN [st.pending EXCEPT ![f] = pkt.at]
                   ELSE IF is_ack(pkt) THEN [st.pending EXCEPT ![f] = Never]
                   ELSE st.pending
           q == IF pkt.kind = "syn" THEN Append(st.order, e) ELSE st.order
           n == ExpiredCount(q, cutoff)
           left == Unpend(pend, q, n)
           r == Drop(q, n)
           m == Append(l, pkt)
<1>1. /\ now \in Times /\ now \in Int /\ cutoff \in Int /\ f \in Flows /\ e \in SynEntry
      /\ st.order \in Seq(SynEntry) /\ st.pending \in [Flows -> Times \cup {Never}]
  BY PacketFacts, FlowConfig DEF Follows, RulePacket, Times, SynEntry, GoodRecord, Records
<1>2. q \in Seq(SynEntry) /\ Ordered(q, now)
  <2>1. e.at = now
    OBVIOUS
  <2> HIDE DEF e, now
  <2>2. Append(st.order, e) \in Seq(SynEntry)
    BY <1>1, AppendFacts
  <2>3. Ordered(Append(st.order, e), now)
    BY <1>1, <2>1, OrderedAppend DEF now
  <2> QED BY <1>1, <2>2, <2>3 DEF now
<1>3. \A i \in DOMAIN q : q[i].at \in Int
  <2>1. \A i \in DOMAIN q : q[i] \in SynEntry
    BY <1>2, LenProperties, ElementOfSeq
  <2> QED BY <2>1 DEF SynEntry, Times
<1>4. /\ DOMAIN m = 1..(Len(l) + 1) /\ Len(l) + 1 \in DOMAIN m /\ m[Len(l) + 1] = pkt
      /\ \A k \in DOMAIN l : k \in DOMAIN m /\ m[k] = l[k]
      /\ \A k \in DOMAIN m : k = Len(l) + 1 \/ k \in DOMAIN l
  <2>1. Len(l) \in Nat /\ DOMAIN m = 1..(Len(l) + 1)
    BY AppendFacts DEF Follows
  <2> QED BY <2>1, AppendFacts DEF Follows
<1>5. /\ pend \in [Flows -> Times \cup {Never}]
      /\ pkt.kind = "syn" => pend[f] = now /\ ~is_ack(pkt)
      /\ is_ack(pkt) => pend[f] = Never
      /\ \A g \in Flows : g # f => pend[g] = st.pending[g]
      /\ pkt.kind # "syn" /\ ~is_ack(pkt) => pend = st.pending
  BY <1>1 DEF is_ack
<1>6. /\ \A k \in DOMAIN l : \A g :
            OpenSyn(m, k, g) <=> OpenSyn(l, k, g) /\ ~(is_ack(pkt) /\ f = g)
      /\ \A g : OpenSyn(m, Len(l) + 1, g) <=> pkt.kind = "syn" /\ f = g
  BY OpenAppend
<1>7. TrackSyn(st, pkt).pending = left /\ TrackSyn(st, pkt).order = r
  <2>1. TrackSyn(st, pkt) = [st EXCEPT !.pending = left, !.order = r]
    BY DEF TrackSyn
  <2>2. st \in Records
    BY DEF GoodRecord
  <2> HIDE DEF left, r
  <2> QED BY <2>1, <2>2 DEF Records
<1> HIDE DEF pend, q, m, e, r
<1>8. SynsSeen(pend, m)
  <2> SUFFICES ASSUME NEW g \in Flows, pend[g] # Never
               PROVE  \E k \in DOMAIN m : OpenSyn(m, k, g) /\ m[k].at = pend[g]
    BY DEF SynsSeen
  <2>1. CASE pkt.kind = "syn" /\ g = f
    BY <1>4, <1>5, <1>6, <2>1
  <2>2. CASE ~(pkt.kind = "syn" /\ g = f)
    <3>1. pend[g] = st.pending[g] /\ ~(is_ack(pkt) /\ f = g)
      BY <1>5, <2>2
    <3>2. PICK k \in DOMAIN l : OpenSyn(l, k, g) /\ l[k].at = st.pending[g]
      BY <3>1 DEF SynsSeen
    <3> QED BY <1>4, <1>6, <3>1, <3>2
  <2> QED BY <2>1, <2>2
<1>9. SynsCovered(pend, m, now)
  <2> SUFFICES ASSUME NEW g \in Flows, NEW k \in DOMAIN m, OpenSyn(m, k, g), m[k].at >= cutoff
               PROVE  pend[g] >= m[k].at
    BY DEF SynsCovered
  <2>1. CASE k = Len(l) + 1
    BY <1>1, <1>4, <1>5, <1>6, <2>1
  <2>2. CASE k \in DOMAIN l
    <3>1. OpenSyn(l, k, g) /\ ~(is_ack(pkt) /\ f = g) /\ m[k] = l[k]
      BY <1>4, <1>6, <2>2
    <3>2. st.pending[g] >= l[k].at
      BY <2>2, <3>1 DEF SynsCovered
    <3>3. CASE pkt.kind = "syn" /\ g = f
      <4>1. l[k].at <= now
        BY <2>2 DEF Follows
      <4>2. l[k] \in Packets
        BY <2>2, LenProperties, ElementOfSeq DEF Follows
      <4>3. l[k].at \in Int
        BY <4>2, PacketFacts DEF RulePacket, Times
      <4> QED BY <1>1, <1>5, <3>1, <3>3, <4>1, <4>3
    <3>4. CASE ~(pkt.kind = "syn" /\ g = f)
      BY <1>5, <3>1, <3>2, <3>4
    <3> QED BY <3>3, <3>4
  <2> QED BY <1>4, <2>1, <2>2
<1>10. /\ n \in 0..Len(q)
       /\ \A i \in 1..n : q[i].at < cutoff
       /\ Ordered(r, now)
       /\ \A x \in DOMAIN r : r[x].at >= cutoff
  <2> HIDE DEF now, cutoff
  <2> QED BY <1>1, <1>2, <1>3, ExpiredOrdered DEF r, now
<1> HIDE DEF n
<1>11. /\ \A g \in Flows : left[g] # Never => left[g] = pend[g]
       /\ \A g \in Flows : left[g] = pend[g] \/ \E i \in 1..n : q[i].at = pend[g]
  BY DEF Unpend
<1> HIDE DEF left
<1>12. SynsSeen(left, m)
  BY <1>8, <1>11 DEF SynsSeen
<1>13. SynsCovered(left, m, now)
  <2> SUFFICES ASSUME NEW g \in Flows, NEW k \in DOMAIN m, OpenSyn(m, k, g), m[k].at >= cutoff
               PROVE  left[g] >= m[k].at
    BY DEF SynsCovered
  <2>1. pend[g] >= m[k].at
    BY <1>9 DEF SynsCovered
  <2>2. m[k].at \in Int /\ pend[g] \in Int
    <3>1. m \in Seq(Packets)
      BY AppendFacts DEF Follows, m
    <3>2. m[k] \in Packets
      BY <3>1, LenProperties, ElementOfSeq
    <3> QED BY <1>5, <3>2, PacketFacts DEF RulePacket, Times, Never
  <2>3. ~ \E i \in 1..n : q[i].at = pend[g]
    BY <1>1, <1>10, <2>1, <2>2
  <2> QED BY <1>11, <2>1, <2>3
<1>14. SynsExpired(left, now)
  <2> SUFFICES ASSUME NEW g \in Flows, left[g] # Never PROVE left[g] >= cutoff
    BY DEF SynsExpired
  <2>1. GoodRecord(TrackSyn(st, pkt))
    BY TrackSynGood, PacketFacts DEF Follows
  <2>2. HasEntry(r, g, left[g])
    BY <1>7, <2>1 DEF GoodRecord, Expirable
  <2>3. PICK k \in DOMAIN r : r[k] = [at |-> left[g], flow |-> g]
    BY <2>2 DEF HasEntry
  <2> QED BY <1>10, <2>3
<1> QED BY <1>7, <1>10, <1>12, <1>13, <1>14 DEF m

\* A packet that is not TCP leaves the SYNs as they are.
LEMMA NoTcpRemembers ==
    ASSUME NEW pend, NEW l, NEW pkt, Follows(l, pkt), ~is_tcp(pkt),
           SynsCovered(pend, l, pkt.at), SynsSeen(pend, l)
    PROVE  SynsCovered(pend, Append(l, pkt), pkt.at) /\ SynsSeen(pend, Append(l, pkt))
<1> DEFINE m == Append(l, pkt)
<1>1. /\ \A k \in DOMAIN l : k \in DOMAIN m /\ m[k] = l[k]
      /\ \A k \in DOMAIN m : k = Len(l) + 1 \/ k \in DOMAIN l
  BY AppendFacts DEF Follows
<1>2. pkt.kind # "syn" /\ ~is_ack(pkt)
  BY DEF is_tcp, is_ack
<1>3. /\ \A k \in DOMAIN l : \A g : OpenSyn(m, k, g) <=> OpenSyn(l, k, g)
      /\ \A g : ~OpenSyn(m, Len(l) + 1, g)
  BY <1>2, OpenAppend
<1> HIDE DEF m
<1>4. SynsCovered(pend, m, pkt.at)
  BY <1>1, <1>3 DEF SynsCovered
<1>5. SynsSeen(pend, m)
  <2> SUFFICES ASSUME NEW g \in Flows, pend[g] # Never
               PROVE  \E k \in DOMAIN m : OpenSyn(m, k, g) /\ m[k].at = pend[g]
    BY DEF SynsSeen
  <2>1. PICK k \in DOMAIN l : OpenSyn(l, k, g) /\ l[k].at = pend[g]
    BY DEF SynsSeen
  <2> QED BY <1>1, <1>3, <2>1
<1> QED BY <1>4, <1>5 DEF m

\* A port is counted exactly if it has an entry.
LEMMA CountedHasEntry ==
    ASSUME NEW st, GoodRecord(st), NEW p \in Ports
    PROVE  st.counts[p] > 0 <=> \E e \in DOMAIN st.recent : st.recent[e].port = p
<1> DEFINE S == PortEntries(st.recent, p)
<1>1. st.recent \in Seq(PortEntry) /\ st.counts[p] = Cardinality(S)
  BY DEF GoodRecord, Records, Mirrors
<1>2. IsFiniteSet(S)
  <2>1. Len(st.recent) \in Nat /\ DOMAIN st.recent = 1..Len(st.recent)
    BY <1>1, LenProperties
  <2>2. IsFiniteSet(1..Len(st.recent))
    BY <2>1, FS_Interval
  <2>3. S \in SUBSET (1..Len(st.recent))
    BY <2>1 DEF PortEntries
  <2> QED BY <2>2, <2>3, FS_Subset
<1>3. Cardinality(S) \in Nat /\ (Cardinality(S) = 0 <=> S = {})
  <2> HIDE DEF S
  <2> QED BY <1>2, FS_CardinalityType, FS_EmptySet
<1>4. S = {} <=> ~ \E e \in DOMAIN st.recent : st.recent[e].port = p
  BY DEF PortEntries
<1> QED BY <1>1, <1>3, <1>4

LEMMA PortsAgree ==
    ASSUME NEW st, GoodRecord(st), NEW l \in Seq(Packets), NEW now, now = l[Len(l)].at,
           PortsCovered(st.recent, l, now), PortsSeen(st.recent, l),
           PortsExpired(st.recent, now)
    PROVE  CountedPorts(st) = Reference!PortsInWindow(l)
<1> DEFINE In(k) == is_connection_attempt(l[k]) /\ l[k].at >= now - PortWindow
<1>1. Reference!PortsInWindow(l) = {DstPort[l[k].flow] : k \in {j \in DOMAIN l : In(j)}}
  BY DEF Reference!PortsInWindow, Reference!Attempt, Reference!Last, is_connection_attempt
<1>2. ASSUME NEW p \in CountedPorts(st) PROVE p \in Reference!PortsInWindow(l)
  <2>1. p \in Ports /\ st.counts[p] > 0
    BY DEF CountedPorts
  <2>2. PICK e \in DOMAIN st.recent : st.recent[e].port = p
    BY <2>1, CountedHasEntry
  <2>3. PICK k \in DOMAIN l : is_connection_attempt(l[k]) /\ st.recent[e] = EntryOf(l[k])
    BY DEF PortsSeen
  <2>4. p = DstPort[l[k].flow] /\ st.recent[e].at = l[k].at
    BY <2>2, <2>3 DEF EntryOf
  <2>5. In(k)
    BY <2>3, <2>4 DEF PortsExpired
  <2> QED BY <1>1, <2>4, <2>5
<1>3. ASSUME NEW p \in Reference!PortsInWindow(l) PROVE p \in CountedPorts(st)
  <2>1. PICK k \in DOMAIN l : In(k) /\ p = DstPort[l[k].flow]
    BY <1>1
  <2>2. PICK e \in DOMAIN st.recent : st.recent[e] = EntryOf(l[k])
    BY <2>1 DEF PortsCovered
  <2>3. st.recent[e].port = p
    BY <2>1, <2>2 DEF EntryOf
  <2>4. l[k] \in Packets
    BY LenProperties, ElementOfSeq
  <2>5. p \in Ports
    BY <2>1, <2>4, PacketFacts DEF RulePacket, Ports
  <2> QED BY <2>3, <2>5, CountedHasEntry DEF CountedPorts
<1> QED BY <1>2, <1>3

LEMMA SynsAgree ==
    ASSUME NEW st, GoodRecord(st), NEW l \in Seq(Packets), NEW now, now = l[Len(l)].at,
           SynsCovered(st.pending, l, now), SynsSeen(st.pending, l),
           SynsExpired(st.pending, now)
    PROVE  PendingFlows(st) = Reference!HalfOpen(l)
<1>1. Reference!HalfOpen(l) =
        {f \in Flows : \E k \in DOMAIN l : OpenSyn(l, k, f) /\ l[k].at >= now - SynWindow}
  BY DEF Reference!HalfOpen, Reference!Completes, Reference!Last, is_ack, OpenSyn
<1>2. ASSUME NEW f \in Flows, st.pending[f] # Never
      PROVE  \E k \in DOMAIN l : OpenSyn(l, k, f) /\ l[k].at >= now - SynWindow
  BY <1>2 DEF SynsSeen, SynsExpired
<1>3. ASSUME NEW f \in Flows, NEW k \in DOMAIN l, OpenSyn(l, k, f), l[k].at >= now - SynWindow
      PROVE  st.pending[f] # Never
  <2>1. st.pending[f] >= l[k].at
    BY <1>3 DEF SynsCovered
  <2>2. l[k] \in Packets
    BY LenProperties, ElementOfSeq
  <2>3. l[k].at \in Nat
    BY <2>2, PacketFacts, FlowConfig DEF RulePacket, Times
  <2> QED BY <2>1, <2>3 DEF Never
<1> QED BY <1>1, <1>2, <1>3 DEF PendingFlows

\* What the two rules leave of a record.
LEMMA ObservedFields ==
    ASSUME NEW st, GoodRecord(st), NEW pkt, RulePacket(pkt)
    PROVE  LET c == Counted(st, pkt) y == Synced(st, pkt) o == Observed(st, pkt) IN
           /\ GoodRecord(c) /\ GoodRecord(y) /\ GoodRecord(o)
           /\ c.scan_alert = st.scan_alert /\ y.flood_alert = st.flood_alert
           /\ o.seen = pkt.at
           /\ o.scan_alert = IF RaisesScan(c, pkt) THEN pkt.at ELSE st.scan_alert
           /\ o.flood_alert = IF RaisesFlood(y, pkt) THEN pkt.at ELSE st.flood_alert
           /\ o.recent = c.recent
           /\ o.pending = y.pending /\ o.order = y.order
           /\ is_connection_attempt(pkt) =>
                 \E x : /\ GoodRecord(x) /\ x.recent = st.recent
                        /\ c.recent = CountPort(x, pkt).recent
           /\ ~is_connection_attempt(pkt) => c.recent = st.recent
           /\ is_tcp(pkt) =>
                 \E x : /\ GoodRecord(x) /\ x.pending = st.pending /\ x.order = st.order
                        /\ y.pending = TrackSyn(x, pkt).pending
                        /\ y.order = TrackSyn(x, pkt).order
           /\ ~is_tcp(pkt) => y.pending = st.pending /\ y.order = st.order
<1> DEFINE a == [st EXCEPT !.seen = pkt.at]
           c == Counted(st, pkt)
           s == Scanned(st, pkt)
           y == Synced(st, pkt)
           o == Observed(st, pkt)
<1>1. pkt.at \in Times
  BY DEF RulePacket
<1>2. /\ GoodRecord(a) /\ a.recent = st.recent /\ a.pending = st.pending /\ a.order = st.order
      /\ a.scan_alert = st.scan_alert /\ a.flood_alert = st.flood_alert /\ a.seen = pkt.at
  <2>1. GoodRecord(a)
    BY <1>1, StampGood
  <2> QED BY <2>1 DEF GoodRecord, Records
<1>3. c = IF is_connection_attempt(pkt) THEN CountPort(a, pkt) ELSE a
  BY DEF Counted
<1> HIDE DEF a
<1>4. /\ GoodRecord(CountPort(a, pkt))
      /\ CountPort(a, pkt).pending = a.pending /\ CountPort(a, pkt).order = a.order
      /\ CountPort(a, pkt).scan_alert = a.scan_alert
      /\ CountPort(a, pkt).flood_alert = a.flood_alert /\ CountPort(a, pkt).seen = a.seen
  <2>1. GoodRecord(CountPort(a, pkt))
    BY <1>2, CountPortGood
  <2>2. a \in Records
    BY <1>2 DEF GoodRecord
  <2> QED BY <2>1, <2>2 DEF CountPort, Records
<1>5. /\ GoodRecord(c) /\ c.pending = st.pending /\ c.order = st.order
      /\ c.scan_alert = st.scan_alert /\ c.flood_alert = st.flood_alert /\ c.seen = pkt.at
  BY <1>2, <1>3, <1>4
<1>6. s = IF RaisesScan(c, pkt) THEN [c EXCEPT !.scan_alert = pkt.at] ELSE c
  BY DEF Scanned
<1> HIDE DEF c
<1>7. /\ GoodRecord(s) /\ s.pending = st.pending /\ s.order = st.order
      /\ s.recent = c.recent /\ s.flood_alert = st.flood_alert /\ s.seen = pkt.at
      /\ s.scan_alert = IF RaisesScan(c, pkt) THEN pkt.at ELSE st.scan_alert
  <2>1. GoodRecord(s)
    BY <1>1, <1>5, <1>6, StampGood
  <2> QED BY <1>5, <1>6, <2>1 DEF GoodRecord, Records
<1>8. y = IF is_tcp(pkt) THEN TrackSyn(s, pkt) ELSE s
  BY DEF Synced
<1> HIDE DEF s
<1>9. /\ GoodRecord(TrackSyn(s, pkt))
      /\ TrackSyn(s, pkt).recent = s.recent
      /\ TrackSyn(s, pkt).scan_alert = s.scan_alert
      /\ TrackSyn(s, pkt).flood_alert = s.flood_alert /\ TrackSyn(s, pkt).seen = s.seen
  <2>1. GoodRecord(TrackSyn(s, pkt))
    BY <1>7, TrackSynGood
  <2>2. s \in Records
    BY <1>7 DEF GoodRecord
  <2> QED BY <2>1, <2>2 DEF TrackSyn, Records
<1>10. /\ GoodRecord(y) /\ y.recent = s.recent /\ y.scan_alert = s.scan_alert
       /\ y.flood_alert = s.flood_alert /\ y.seen = s.seen
  BY <1>7, <1>8, <1>9
<1>11. o = IF RaisesFlood(y, pkt) THEN [y EXCEPT !.flood_alert = pkt.at] ELSE y
  BY DEF Observed
<1> HIDE DEF y
<1>12. /\ GoodRecord(o) /\ o.recent = y.recent /\ o.pending = y.pending /\ o.order = y.order
       /\ o.seen = y.seen /\ o.scan_alert = y.scan_alert
       /\ o.flood_alert = IF RaisesFlood(y, pkt) THEN pkt.at ELSE y.flood_alert
  <2>1. GoodRecord(o)
    BY <1>1, <1>10, <1>11, StampGood
  <2> QED BY <1>10, <1>11, <2>1 DEF GoodRecord, Records
<1> HIDE DEF o
<1>13. is_connection_attempt(pkt) =>
          \E x : /\ GoodRecord(x) /\ x.recent = st.recent
                 /\ c.recent = CountPort(x, pkt).recent
  BY <1>2, <1>3
<1>14. ~is_connection_attempt(pkt) => c.recent = st.recent
  BY <1>2, <1>3
<1>15. is_tcp(pkt) =>
          \E x : /\ GoodRecord(x) /\ x.pending = st.pending /\ x.order = st.order
                 /\ y.pending = TrackSyn(x, pkt).pending
                 /\ y.order = TrackSyn(x, pkt).order
  BY <1>7, <1>8
<1>16. ~is_tcp(pkt) => y.pending = st.pending /\ y.order = st.order
  BY <1>7, <1>8
<1> QED BY <1>5, <1>7, <1>10, <1>12, <1>13, <1>14, <1>15, <1>16 DEF c, y, o

-----------------------------------------------------------------------------
(* One observe() against the history                                       *)

LEMMA ObservedUpToDate ==
    ASSUME NEW st, GoodRecord(st), NEW l, NEW pkt, Follows(l, pkt), Remembers(st, l, pkt.at)
    PROVE  LET c == Counted(st, pkt) y == Synced(st, pkt) m == Append(l, pkt) IN
           /\ UpToDate(Observed(st, pkt), m)
           /\ is_connection_attempt(pkt) => CountedPorts(c) = Reference!PortsInWindow(m)
           /\ is_tcp(pkt) => PendingFlows(y) = Reference!HalfOpen(m)
<1> DEFINE c == Counted(st, pkt)
           y == Synced(st, pkt)
           o == Observed(st, pkt)
           m == Append(l, pkt)
           now == pkt.at
<1>1. RulePacket(pkt)
  BY PacketFacts DEF Follows
<1>2. /\ GoodRecord(c) /\ GoodRecord(y) /\ o.seen = now
      /\ o.recent = c.recent /\ o.pending = y.pending /\ o.order = y.order
  BY <1>1, ObservedFields
<1>3. /\ Ordered(c.recent, now) /\ PortsCovered(c.recent, m, now) /\ PortsSeen(c.recent, m)
      /\ is_connection_attempt(pkt) => PortsExpired(c.recent, now)
  <2>1. CASE is_connection_attempt(pkt)
    <3>1. PICK x : /\ GoodRecord(x) /\ x.recent = st.recent
                   /\ c.recent = CountPort(x, pkt).recent
      BY <1>1, <2>1, ObservedFields
    <3>2. x \in Records
      BY <3>1 DEF GoodRecord
    <3> HIDE DEF c
    <3> QED BY <2>1, <3>1, <3>2, CountPortRemembers DEF Remembers
  <2>2. CASE ~is_connection_attempt(pkt)
    <3>1. c.recent = st.recent
      BY <1>1, <2>2, ObservedFields
    <3> HIDE DEF c
    <3> QED BY <2>2, <3>1, NoAttemptRemembers DEF Remembers
  <2> QED BY <2>1, <2>2
<1>4. /\ Ordered(y.order, now) /\ SynsCovered(y.pending, m, now) /\ SynsSeen(y.pending, m)
      /\ is_tcp(pkt) => SynsExpired(y.pending, now)
  <2>1. CASE is_tcp(pkt)
    <3>1. PICK x : /\ GoodRecord(x) /\ x.pending = st.pending /\ x.order = st.order
                   /\ y.pending = TrackSyn(x, pkt).pending
                   /\ y.order = TrackSyn(x, pkt).order
      BY <1>1, <2>1, ObservedFields
    <3> HIDE DEF y
    <3> QED BY <2>1, <3>1, TrackSynRemembers DEF Remembers
  <2>2. CASE ~is_tcp(pkt)
    <3>1. y.pending = st.pending /\ y.order = st.order
      BY <1>1, <2>2, ObservedFields
    <3> HIDE DEF y
    <3> QED BY <2>2, <3>1, NoTcpRemembers DEF Remembers
  <2> QED BY <2>1, <2>2
<1>5. /\ m \in Seq(Packets) /\ Len(m) > 0 /\ m[Len(m)] = pkt
      /\ \A k \in DOMAIN m : m[k].at <= now
  <2>1. /\ m \in Seq(Packets) /\ Len(l) \in Nat /\ Len(m) = Len(l) + 1 /\ m[Len(l) + 1] = pkt
        /\ \A k \in DOMAIN l : m[k] = l[k]
        /\ \A k \in DOMAIN m : k = Len(l) + 1 \/ k \in DOMAIN l
    BY AppendFacts DEF Follows
  <2>2. now \in Int
    BY <1>1 DEF RulePacket, Times
  <2> HIDE DEF m
  <2> QED BY <2>1, <2>2 DEF Follows
<1> HIDE DEF c, y, o, m
<1>6. is_connection_attempt(pkt) => CountedPorts(c) = Reference!PortsInWindow(m)
  BY <1>2, <1>3, <1>5, PortsAgree
<1>7. is_tcp(pkt) => PendingFlows(y) = Reference!HalfOpen(m)
  BY <1>2, <1>4, <1>5, SynsAgree
<1>8. UpToDate(o, m)
  BY <1>2, <1>3, <1>4, <1>5 DEF UpToDate, Remembers
<1> QED BY <1>6, <1>7, <1>8 DEF c, y, o, m

\* What a record remembers is enough at any later time.
LEMMA RemembersLater ==
    ASSUME NEW st, NEW l \in Seq(Packets), NEW t \in Times, NEW now \in Times, t <= now,
           GoodRecord(st), Remembers(st, l, t)
    PROVE  Remembers(st, l, now)
<1>1. \A k \in DOMAIN l : l[k].at \in Int
  <2>1. \A k \in DOMAIN l : l[k] \in Packets
    BY LenProperties, ElementOfSeq
  <2> QED BY <2>1, PacketFacts DEF RulePacket, Times
<1>2. t \in Int /\ now \in Int /\ PortWindow \in Int /\ SynWindow \in Int
  BY FlowConfig DEF Times
<1>3. \A k \in DOMAIN l : /\ l[k].at >= now - PortWindow => l[k].at >= t - PortWindow
                          /\ l[k].at >= now - SynWindow => l[k].at >= t - SynWindow
  BY <1>1, <1>2
<1>4. /\ st.recent \in Seq(PortEntry) /\ st.order \in Seq(SynEntry)
  BY DEF GoodRecord, Records
<1>5. /\ \A i \in DOMAIN st.recent : st.recent[i].at \in Int
      /\ \A i \in DOMAIN st.order : st.order[i].at \in Int
  <2>1. /\ \A i \in DOMAIN st.recent : st.recent[i] \in PortEntry
        /\ \A i \in DOMAIN st.order : st.order[i] \in SynEntry
    BY <1>4, LenProperties, ElementOfSeq
  <2> QED BY <2>1 DEF PortEntry, SynEntry, Times
<1>6. Ordered(st.recent, now) /\ Ordered(st.order, now)
  BY <1>2, <1>5 DEF Ordered, Remembers
<1>7. PortsCovered(st.recent, l, now)
  BY <1>3 DEF Remembers, PortsCovered
<1>8. SynsCovered(st.pending, l, now)
  BY <1>3 DEF Remembers, SynsCovered
<1> QED BY <1>6, <1>7, <1>8 DEF Remembers

\* The record a packet meets remembers all it needs, also a new one made
\* after an eviction.
LEMMA RecordRemembers ==
    ASSUME InOrder, FlowInv, HistoryInv, NEW pkt \in Packets, pkt.at = clock
    PROVE  Follows(log[pkt.ip], pkt) /\ Remembers(RecordOf(pkt.ip), log[pkt.ip], pkt.at)
<1> DEFINE i == pkt.ip
           l == log[i]
<1>1. i \in Ips /\ clock \in Times /\ clock \in Int /\ l \in Seq(Packets)
  BY PacketFacts DEF RulePacket, HistoryInv, Times
<1>2. \A k \in DOMAIN l : l[k].at \in Int
  <2>1. \A k \in DOMAIN l : l[k] \in Packets
    BY <1>1, LenProperties, ElementOfSeq
  <2> QED BY <2>1, PacketFacts DEF RulePacket, Times
<1>3. CASE i \in DOMAIN per_ip
  <2>1. /\ GoodRecord(per_ip[i]) /\ RecordOf(i) = per_ip[i]
        /\ per_ip[i].seen <= clock /\ UpToDate(per_ip[i], l)
    BY <1>3 DEF FlowInv, HistoryInv, RecordOf
  <2>2. per_ip[i].seen \in Times
    BY <2>1 DEF GoodRecord, Records
  <2> HIDE DEF i, l
  <2>3. Remembers(per_ip[i], l, clock)
    BY <1>1, <2>1, <2>2, RemembersLater DEF UpToDate
  <2>4. \A k \in DOMAIN l : l[k].at <= clock
    <3>1. per_ip[i].seen \in Int
      BY <2>2 DEF Times
    <3> QED BY <1>1, <1>2, <2>1, <3>1 DEF UpToDate
  <2> QED BY <1>1, <2>1, <2>3, <2>4 DEF Follows, i, l
<1>4. CASE i \notin DOMAIN per_ip
  <2>1. RecordOf(i) = Fresh /\ \A k \in DOMAIN l : l[k].at < clock - IdleTtl
    BY <1>1, <1>4 DEF HistoryInv, RecordOf
  <2>2. {IdleTtl, PortWindow, SynWindow} \subseteq Nat /\ PortWindow <= IdleTtl /\ SynWindow <= IdleTtl
    BY FlowConfig DEF InOrder
  <2> HIDE DEF i, l
  <2>3. \A k \in DOMAIN l : /\ l[k].at <= clock
                            /\ ~(l[k].at >= clock - PortWindow)
                            /\ ~(l[k].at >= clock - SynWindow)
    BY <1>1, <1>2, <2>1, <2>2
  <2>4. /\ Fresh.recent = <<>> /\ Fresh.order = <<>> /\ DOMAIN <<>> = {}
        /\ \A f \in Flows : Fresh.pending[f] = Never
    BY DEF Fresh
  <2> HIDE DEF Fresh
  <2>5. Remembers(Fresh, l, clock)
    BY <2>3, <2>4 DEF Remembers, Ordered, PortsCovered, PortsSeen, SynsCovered, SynsSeen
  <2> QED BY <1>1, <2>1, <2>3, <2>5 DEF Follows, i, l
<1> QED BY <1>3, <1>4

-----------------------------------------------------------------------------
(* The alerts                                                              *)

LEMMA ElementsConcat ==
    ASSUME NEW S, NEW a \in Seq(S), NEW b \in Seq(S)
    PROVE  a \o b \in Seq(S) /\ Elements(a \o b) = Elements(a) \cup Elements(b)
<1> DEFINE r == a \o b
<1>1. /\ Len(a) \in Nat /\ Len(b) \in Nat /\ DOMAIN a = 1..Len(a) /\ DOMAIN b = 1..Len(b)
      /\ r \in Seq(S) /\ DOMAIN r = 1..(Len(a) + Len(b))
      /\ \A i \in 1..(Len(a) + Len(b)) : r[i] = IF i <= Len(a) THEN a[i] ELSE b[i - Len(a)]
  BY ConcatProperties, LenProperties
<1> HIDE DEF r
<1>2. PICK M \in Nat, N \in Nat : M = Len(a) /\ N = Len(b)
  BY <1>1
<1>3. ASSUME NEW k \in DOMAIN r PROVE r[k] \in Elements(a) \cup Elements(b)
  <2>1. CASE k <= M
    <3>1. k \in DOMAIN a /\ r[k] = a[k]
      BY <1>1, <1>2, <2>1
    <3> QED BY <3>1 DEF Elements
  <2>2. CASE ~(k <= M)
    <3>1. k \in 1..(M + N) /\ r[k] = IF k <= M THEN a[k] ELSE b[k - M]
      BY <1>1, <1>2, Zenon
    <3>2. k - M \in 1..N
      BY <2>2, <3>1
    <3>3. k - M \in DOMAIN b /\ r[k] = b[k - M]
      BY <1>1, <1>2, <2>2, <3>1, <3>2, Zenon
    <3> QED BY <3>3 DEF Elements
  <2> QED BY <2>1, <2>2
<1>4. ASSUME NEW k \in DOMAIN a PROVE k \in DOMAIN r /\ r[k] = a[k]
  BY <1>1, <1>2
<1>5. ASSUME NEW k \in DOMAIN b PROVE M + k \in DOMAIN r /\ r[M + k] = b[k]
  <2>1. M + k \in 1..(M + N) /\ ~(M + k <= M) /\ (M + k) - M = k
    BY <1>1, <1>2
  <2> QED BY <1>1, <1>2, <2>1
<1>6. Elements(r) = Elements(a) \cup Elements(b)
  <2>1. \A x \in Elements(r) : x \in Elements(a) \cup Elements(b)
    BY <1>3 DEF Elements
  <2>2. \A x \in Elements(a) : x \in Elements(r)
    BY <1>4 DEF Elements
  <2>3. \A x \in Elements(b) : x \in Elements(r)
    BY <1>5 DEF Elements
  <2> QED BY <2>1, <2>2, <2>3
<1> QED BY <1>1, <1>6 DEF r

LEMMA ElementsSmall ==
    /\ Elements(<<>>) = {}
    /\ \A x : Elements(<<x>>) = {x}
<1>1. Elements(<<>>) = {}
  BY DEF Elements
<1>2. ASSUME NEW x PROVE Elements(<<x>>) = {x}
  <2>1. DOMAIN <<x>> = 1..1 /\ <<x>>[1] = x /\ 1..1 = {1}
    OBVIOUS
  <2> QED BY <2>1 DEF Elements
<1> QED BY <1>1, <1>2

\* The alerts of one observe() name its packet, one for each rule that fires.
LEMMA RaisedFacts ==
    ASSUME NEW st, NEW pkt, RulePacket(pkt)
    PROVE  LET c == Counted(st, pkt) y == Synced(st, pkt) new == Elements(Raised(st, pkt)) IN
           /\ Raised(st, pkt) \in Seq(AlertSet)
           /\ \A a \in new : a.ip = pkt.ip /\ a.at = pkt.at
           /\ RaisesScan(c, pkt) <=> \E a \in new : a.rule = "scan"
           /\ RaisesFlood(y, pkt) <=> \E a \in new : a.rule = "flood"
<1> DEFINE c == Counted(st, pkt)
           y == Synced(st, pkt)
           A == Alert("scan", pkt, CountedPorts(c))
           B == Alert("flood", pkt, PendingFlows(y))
           s == IF RaisesScan(c, pkt) THEN <<A>> ELSE <<>>
           t == IF RaisesFlood(y, pkt) THEN <<B>> ELSE <<>>
<1>1. /\ A.ip = pkt.ip /\ A.at = pkt.at /\ A.rule = "scan"
      /\ B.ip = pkt.ip /\ B.at = pkt.at /\ B.rule = "flood"
  BY DEF Alert
<1>2. A \in AlertSet /\ B \in AlertSet
  <2> HIDE DEF c, y
  <2>1. CountedPorts(c) \in (SUBSET Ports) \cup (SUBSET Flows)
    BY DEF CountedPorts
  <2>2. PendingFlows(y) \in (SUBSET Ports) \cup (SUBSET Flows)
    <3>1. PendingFlows(y) \subseteq Flows
      BY DEF PendingFlows
    <3> QED BY <3>1
  <2> QED BY <2>1, <2>2 DEF RulePacket, Alert, AlertSet, Rules
<1>3. Raised(st, pkt) = s \o t
  BY DEF Raised
<1> HIDE DEF A, B, c, y
<1>4. s \in Seq(AlertSet) /\ t \in Seq(AlertSet)
  BY <1>2
<1>5. /\ Elements(s) = IF RaisesScan(c, pkt) THEN {A} ELSE {}
      /\ Elements(t) = IF RaisesFlood(y, pkt) THEN {B} ELSE {}
  BY ElementsSmall
<1> HIDE DEF s, t
<1>6. Raised(st, pkt) \in Seq(AlertSet) /\ Elements(Raised(st, pkt)) = Elements(s) \cup Elements(t)
  BY <1>3, <1>4, ElementsConcat
<1> QED BY <1>1, <1>5, <1>6 DEF c, y

\* The timestamps of a record and of the alerts are integers.
LEMMA AlertTimes ==
    ASSUME FlowInv, HistoryInv, NEW i \in Ips, NEW rule
    PROVE  /\ LastAlert(RecordOf(i), rule) \in Times \cup {Never}
           /\ RecordOf(i).seen \in Times
           /\ RecordOf(i).seen <= clock
           /\ \A a \in Elements(alerts) : a.at \in Times
<1>1. RecordOf(i) \in Records
  BY RecordOfGood DEF GoodRecord
<1>2. RecordOf(i).seen <= clock
  <2>1. Fresh.seen = 0 /\ clock \in Nat
    BY FlowConfig DEF Fresh, HistoryInv, Times
  <2> QED BY <2>1 DEF HistoryInv, RecordOf
<1>3. ASSUME NEW a \in Elements(alerts) PROVE a.at \in Times
  <2>1. PICK k \in DOMAIN alerts : a = alerts[k]
    BY DEF Elements
  <2>2. alerts[k] \in AlertSet
    BY LenProperties, ElementOfSeq DEF HistoryInv
  <2> QED BY <2>1, <2>2 DEF AlertSet
<1> QED BY <1>1, <1>2, <1>3 DEF LastAlert, Records

\* The debounce test on the record is the one on all alerts ever raised.
LEMMA QuietAgrees ==
    ASSUME InOrder, FlowInv, HistoryInv, NEW pkt \in Packets, pkt.at = clock,
           NEW rule \in Rules
    PROVE  debounce_allows(LastAlert(RecordOf(pkt.ip), rule), pkt.at) <=> Reference!Quiet(rule, pkt)
<1> DEFINE i == pkt.ip
           last == LastAlert(RecordOf(i), rule)
           now == pkt.at
           said == Elements(alerts)
<1>1. i \in Ips /\ now \in Int
  BY PacketFacts DEF RulePacket, Times
<1>2. last \in Int /\ \A a \in said : a.at \in Nat
  BY <1>1, AlertTimes, FlowConfig DEF Times, Never
<1>3. AlertsKnown(said, RecordOf(i), i, rule)
  BY <1>1 DEF HistoryInv
<1>4. /\ \A a \in said : a.rule = rule /\ a.ip = i => a.at <= last \/ a.at < now - IdleTtl
      /\ last # Never => \E a \in said : a.rule = rule /\ a.ip = i /\ a.at = last
  BY <1>3 DEF AlertsKnown
<1>5. Reference!Quiet(rule, pkt) <=>
        \A a \in said : a.rule = rule /\ a.ip = i => now - a.at >= Debounce
  BY DEF Reference!Quiet, Elements
<1>6. debounce_allows(last, now) <=> last = Never \/ now - last >= Debounce
  BY DEF debounce_allows
<1>7. IdleTtl \in Nat /\ Debounce \in Nat /\ Debounce <= IdleTtl
  BY FlowConfig DEF InOrder
<1> HIDE DEF last, now, said, i
<1>8. ASSUME debounce_allows(last, now), NEW a \in said, a.rule = rule, a.ip = i
      PROVE  now - a.at >= Debounce
  <2>1. a.at \in Nat
    BY <1>2
  <2>2. a.at <= last \/ a.at < now - IdleTtl
    BY <1>4, <1>8
  <2>3. last = Never \/ now - last >= Debounce
    BY <1>6, <1>8
  <2> QED BY <1>1, <1>2, <1>7, <2>1, <2>2, <2>3 DEF Never
<1>9. ASSUME \A a \in said : a.rule = rule /\ a.ip = i => now - a.at >= Debounce
      PROVE  debounce_allows(last, now)
  BY <1>4, <1>6, <1>9
<1> QED BY <1>5, <1>8, <1>9 DEF last, now, i

\* The detector and the tracker count alike.
LEMMA SameCardinality == ASSUME NEW S PROVE Reference!Cardinality(S) = Cardinality(S)
BY Zenon DEF Cardinality, Reference!Cardinality

\* One observe() raises what the detector says of the packet.
LEMMA RaisedAgrees ==
    ASSUME InOrder, FlowInv, HistoryInv, NEW pkt \in Packets, pkt.at = clock
    PROVE  Raised(RecordOf(pkt.ip), pkt)
              = Reference!Verdict(Append(log[pkt.ip], pkt), pkt)
<1> DEFINE st == RecordOf(pkt.ip)
           l == log[pkt.ip]
           m == Append(l, pkt)
           c == Counted(st, pkt)
           y == Synced(st, pkt)
<1>1. RulePacket(pkt) /\ GoodRecord(st) /\ Follows(l, pkt) /\ Remembers(st, l, pkt.at)
  BY PacketFacts, RecordOfGood, RecordRemembers
<1>2. c.scan_alert = LastAlert(st, "scan") /\ y.flood_alert = LastAlert(st, "flood")
  <2> HIDE DEF st
  <2> QED BY <1>1, ObservedFields DEF LastAlert
<1>3. /\ debounce_allows(c.scan_alert, pkt.at) <=> Reference!Quiet("scan", pkt)
      /\ debounce_allows(y.flood_alert, pkt.at) <=> Reference!Quiet("flood", pkt)
  <2>1. "scan" \in Rules /\ "flood" \in Rules
    BY DEF Rules
  <2> HIDE DEF c, y
  <2> QED BY <1>2, <2>1, QuietAgrees
<1>4. /\ is_connection_attempt(pkt) => CountedPorts(c) = Reference!PortsInWindow(m)
      /\ is_tcp(pkt) => PendingFlows(y) = Reference!HalfOpen(m)
  <2> HIDE DEF st, l
  <2> QED BY <1>1, ObservedUpToDate
<1>5. /\ is_connection_attempt(pkt) <=> Reference!Attempt(pkt)
      /\ is_tcp(pkt) <=> Reference!Tcp(pkt)
  BY DEF is_connection_attempt, is_tcp, Reference!Attempt, Reference!Tcp
<1>6. Raised(st, pkt) =
        (IF RaisesScan(c, pkt) THEN <<Alert("scan", pkt, CountedPorts(c))>> ELSE <<>>)
        \o (IF RaisesFlood(y, pkt) THEN <<Alert("flood", pkt, PendingFlows(y))>> ELSE <<>>)
  BY DEF Raised
<1> HIDE DEF c, y, m, st
<1>7. (IF RaisesScan(c, pkt) THEN <<Alert("scan", pkt, CountedPorts(c))>> ELSE <<>>)
        = IF Reference!Attempt(pkt)
          THEN Reference!Flag("scan", pkt, Reference!PortsInWindow(m), PortThreshold) ELSE <<>>
  <2>1. CASE is_connection_attempt(pkt)
    <3>1. PICK S : S = CountedPorts(c) /\ S = Reference!PortsInWindow(m)
      BY <1>4, <2>1
    <3>2. RaisesScan(c, pkt) <=> Cardinality(S) >= PortThreshold /\ Reference!Quiet("scan", pkt)
      BY <1>3, <2>1, <3>1, Zenon DEF RaisesScan
    <3>3. Reference!Flag("scan", pkt, S, PortThreshold) =
            IF RaisesScan(c, pkt) THEN <<Alert("scan", pkt, S)>> ELSE <<>>
      BY <3>2, SameCardinality, Zenon DEF Reference!Flag, Reference!Alert, Alert
    <3> QED BY <1>5, <2>1, <3>1, <3>3, Zenon
  <2>2. CASE ~is_connection_attempt(pkt)
    <3>1. ~RaisesScan(c, pkt) /\ ~Reference!Attempt(pkt)
      BY <1>5, <2>2, Zenon DEF RaisesScan
    <3> QED BY <3>1, Zenon
  <2> QED BY <2>1, <2>2
<1>8. (IF RaisesFlood(y, pkt) THEN <<Alert("flood", pkt, PendingFlows(y))>> ELSE <<>>)
        = IF Reference!Tcp(pkt)
          THEN Reference!Flag("flood", pkt, Reference!HalfOpen(m), SynThreshold) ELSE <<>>
  <2>1. CASE is_tcp(pkt)
    <3>1. PICK S : S = PendingFlows(y) /\ S = Reference!HalfOpen(m)
      BY <1>4, <2>1
    <3>2. RaisesFlood(y, pkt) <=> Cardinality(S) >= SynThreshold /\ Reference!Quiet("flood", pkt)
      BY <1>3, <2>1, <3>1, Zenon DEF RaisesFlood
    <3>3. Reference!Flag("flood", pkt, S, SynThreshold) =
            IF RaisesFlood(y, pkt) THEN <<Alert("flood", pkt, S)>> ELSE <<>>
      BY <3>2, SameCardinality, Zenon DEF Reference!Flag, Reference!Alert, Alert
    <3> QED BY <1>5, <2>1, <3>1, <3>3, Zenon
  <2>2. CASE ~is_tcp(pkt)
    <3>1. ~RaisesFlood(y, pkt) /\ ~Reference!Tcp(pkt)
      BY <1>5, <2>2, Zenon DEF RaisesFlood
    <3> QED BY <3>1, Zenon
  <2> QED BY <2>1, <2>2
<1> QED BY <1>6, <1>7, <1>8, Zenon DEF st, m, Reference!Verdict

-----------------------------------------------------------------------------
(* The invariant of the history                                            *)

\* With no more sources than the cap, a sweep removes only idle records.
LEMMA ObserveEvicts ==
    ASSUME InOrder, FlowInv, NEW w \in Workers, Observe(w)
    PROVE  /\ held[w].ip \in DOMAIN per_ip'
           /\ \A i \in DOMAIN per_ip :
                 i \in DOMAIN per_ip' \/ ~(per_ip[i].seen >= held[w].at - IdleTtl)
<1> DEFINE pkt == held[w]
           s == ShardOf[pkt.ip]
           all == DOMAIN per_ip \cup {pkt.ip}
           shard == InShard(all, s)
           new == Observed(RecordOf(pkt.ip), pkt)
           records == [i \in all |-> IF i = pkt.ip THEN new ELSE per_ip[i]]
           fresh == {i \in shard : i = pkt.ip \/ records[i].seen >= pkt.at - IdleTtl}
<1>1. RulePacket(pkt)
  BY ObserveShape
<1>2. all \subseteq Ips /\ pkt.ip \in shard /\ shard \subseteq all
  BY <1>1, FlowConfig DEF RulePacket, FlowInv, InShard
<1>3. Cardinality(fresh) <= MaxTracked
  <2>1. fresh \in SUBSET Ips
    BY <1>2
  <2> HIDE DEF fresh
  <2>2. /\ IsFiniteSet(fresh) /\ Cardinality(fresh) <= Cardinality(Ips)
        /\ Cardinality(fresh) \in Nat /\ Cardinality(Ips) \in Nat
    BY <2>1, FlowConfig, FS_Subset, FS_CardinalityType
  <2> QED BY <2>2, FlowConfig DEF InOrder
<1>4. evict_stale(shard, records, pkt.at, pkt.ip) = {fresh}
  BY <1>3 DEF evict_stale
<1>5. \/ per_ip' = records
      \/ per_ip' = [i \in (all \ shard) \cup fresh |-> records[i]]
  <2>1. \/ per_ip' = records
        \/ \E left \in evict_stale(shard, records, pkt.at, pkt.ip) :
               per_ip' = [i \in (all \ shard) \cup left |-> records[i]]
    BY DEF Observe
  <2> HIDE DEF all, shard, fresh, records
  <2> QED BY <1>4, <2>1
<1>6. \A i \in DOMAIN per_ip : i # pkt.ip => records[i] = per_ip[i]
  OBVIOUS
<1>7. DOMAIN records = all
  OBVIOUS
<1>8. DOMAIN per_ip' = all \/ DOMAIN per_ip' = (all \ shard) \cup fresh
  <2> HIDE DEF all, shard, fresh, records
  <2> QED BY <1>5, <1>7
<1>9. \A i \in all : i \in (all \ shard) \cup fresh \/ ~(records[i].seen >= pkt.at - IdleTtl)
  OBVIOUS
<1>10. pkt.ip \in fresh /\ pkt.ip \in all /\ DOMAIN per_ip \subseteq all
  BY <1>2
<1> HIDE DEF all, shard, fresh, records
<1> QED BY <1>6, <1>8, <1>9, <1>10

\* One observe() keeps what the records know of the alerts.
LEMMA AlertsStep ==
    ASSUME InOrder, FlowInv, HistoryInv, NEW w \in Workers, Observe(w), clock' = clock,
           held[w] \in Packets, held[w].at = clock, NEW i \in Ips, NEW rule \in Rules
    PROVE  AlertsKnown(Elements(alerts), RecordOf(i), i, rule)'
<1> DEFINE pkt == held[w]
           st == RecordOf(pkt.ip)
           o == Observed(st, pkt)
           said == Elements(alerts)
           new == Elements(Raised(st, pkt))
           last == LastAlert(RecordOf(i), rule)
<1>1. RulePacket(pkt) /\ GoodRecord(st)
  BY PacketFacts, RecordOfGood
<1>2. Elements(alerts') = said \cup new
  <2>1. alerts' = alerts \o Raised(st, pkt)
    BY DEF Observe
  <2>2. alerts \in Seq(AlertSet) /\ Raised(st, pkt) \in Seq(AlertSet)
    BY <1>1, RaisedFacts DEF HistoryInv
  <2> HIDE DEF st
  <2> QED BY <2>1, <2>2, ElementsConcat
<1>3. /\ \A a \in new : a.ip = pkt.ip /\ a.at = pkt.at
      /\ RaisesScan(Counted(st, pkt), pkt) <=> \E a \in new : a.rule = "scan"
      /\ RaisesFlood(Synced(st, pkt), pkt) <=> \E a \in new : a.rule = "flood"
  BY <1>1, RaisedFacts
<1>4. /\ o.seen = pkt.at
      /\ o.scan_alert = IF RaisesScan(Counted(st, pkt), pkt) THEN pkt.at ELSE st.scan_alert
      /\ o.flood_alert = IF RaisesFlood(Synced(st, pkt), pkt) THEN pkt.at ELSE st.flood_alert
  <2> HIDE DEF st, pkt
  <2> QED BY <1>1, ObservedFields
<1>5. LastAlert(o, rule) = IF \E a \in new : a.rule = rule THEN pkt.at ELSE LastAlert(st, rule)
  <2> HIDE DEF new, o, st
  <2> QED BY <1>3, <1>4 DEF LastAlert, Rules
<1>6. /\ last \in Times \cup {Never} /\ RecordOf(i).seen \in Times
      /\ RecordOf(i).seen <= clock
      /\ \A a \in said : a.at \in Times
  BY AlertTimes
<1>7. AlertsKnown(said, RecordOf(i), i, rule)
  BY DEF HistoryInv
<1>8. /\ \A a \in said : a.rule = rule /\ a.ip = i => a.at <= last \/ a.at < clock - IdleTtl
      /\ last # Never => \E a \in said : a.rule = rule /\ a.ip = i /\ a.at = last
      /\ last <= RecordOf(i).seen
  BY <1>7 DEF AlertsKnown
<1>9. last \in Int /\ RecordOf(i).seen \in Int /\ clock \in Int /\ IdleTtl \in Nat /\ \A a \in said : a.at \in Int
  BY <1>6, FlowConfig DEF Times, Never, HistoryInv
<1>10. /\ pkt.ip \in DOMAIN per_ip'
       /\ \A j \in DOMAIN per_ip :
             j \in DOMAIN per_ip' \/ ~(per_ip[j].seen >= clock - IdleTtl)
       /\ \A j \in DOMAIN per_ip' : per_ip'[j] = IF j = pkt.ip THEN o ELSE per_ip[j]
       /\ DOMAIN per_ip' \subseteq DOMAIN per_ip \cup {pkt.ip}
  BY ObserveEvicts, ObserveShape
<1> HIDE DEF o, new, said, pkt
<1> SUFFICES ASSUME NEW r, r = RecordOf(i)'
             PROVE  /\ \A a \in said \cup new :
                          a.rule = rule /\ a.ip = i =>
                              a.at <= LastAlert(r, rule) \/ a.at < clock - IdleTtl
                    /\ LastAlert(r, rule) # Never =>
                          \E a \in said \cup new : a.rule = rule /\ a.ip = i /\ a.at = LastAlert(r, rule)
                    /\ LastAlert(r, rule) <= r.seen
  BY <1>2 DEF AlertsKnown
<1>11. CASE i = pkt.ip
  <2>1. r = o /\ last = LastAlert(st, rule)
    BY <1>10, <1>11 DEF RecordOf
  <2> HIDE DEF last, st
  <2>2. \A a \in said : a.rule = rule /\ a.ip = i => a.at <= clock
    BY <1>6, <1>8, <1>9
  <2>3. pkt.at = clock
    BY DEF pkt
  <2>4. CASE \E a \in new : a.rule = rule
    <3>1. LastAlert(r, rule) = clock /\ r.seen = clock
      BY <1>4, <1>5, <2>1, <2>3, <2>4
    <3> QED BY <1>3, <1>9, <1>11, <2>2, <2>3, <2>4, <3>1
  <2>5. CASE ~ \E a \in new : a.rule = rule
    <3>1. LastAlert(r, rule) = last /\ r.seen = clock
      BY <1>4, <1>5, <2>1, <2>3, <2>5
    <3> QED BY <1>6, <1>8, <1>9, <2>5, <3>1
  <2> QED BY <2>4, <2>5
<1>12. CASE i # pkt.ip
  <2>1. \A a \in new : a.ip # i
    BY <1>3, <1>12
  <2>2. CASE i \in DOMAIN per_ip'
    <3>1. r = RecordOf(i)
      BY <1>10, <1>12, <2>2 DEF RecordOf
    <3> QED BY <1>8, <2>1, <3>1
  <2>3. CASE i \notin DOMAIN per_ip'
    <3>1. LastAlert(r, rule) = Never /\ r.seen = 0
      BY <2>3 DEF RecordOf, Fresh, LastAlert
    <3>2. \A a \in said : a.rule = rule /\ a.ip = i => a.at < clock - IdleTtl
      <4>1. CASE i \in DOMAIN per_ip
        <5>1. ~(RecordOf(i).seen >= clock - IdleTtl)
          BY <1>10, <2>3, <4>1 DEF RecordOf
        <5> HIDE DEF last
        <5> QED BY <1>8, <1>9, <5>1
      <4>2. CASE i \notin DOMAIN per_ip
        <5>1. last = Never
          BY <4>2 DEF RecordOf, Fresh, LastAlert
        <5>2. \A a \in said : ~(a.at <= Never)
          BY <1>6, FlowConfig DEF Times, Never
        <5> HIDE DEF last
        <5> QED BY <1>8, <5>1, <5>2
      <4> QED BY <4>1, <4>2
    <3>3. Never <= 0
      BY DEF Never
    <3> QED BY <2>1, <3>1, <3>2, <3>3
  <2> QED BY <2>2, <2>3
<1> QED BY <1>11, <1>12

LEMMA HistoryInit == ASSUME FlowInit PROVE HistoryInv
<1>1. clock \in Times /\ clock = 0
  BY FlowConfig DEF FlowInit, Times
<1>2. log \in [Ips -> Seq(Packets)] /\ \A i \in Ips : DOMAIN log[i] = {}
  BY DEF FlowInit
<1>3. alerts \in Seq(AlertSet) /\ Elements(alerts) = {}
  BY ElementsSmall DEF FlowInit
<1>4. DOMAIN per_ip = {} /\ \A w \in Workers : held[w] = NoPacket
  BY DEF FlowInit
<1>5. ASSUME NEW i \in Ips, NEW rule \in Rules
      PROVE  AlertsKnown(Elements(alerts), RecordOf(i), i, rule)
  <2>1. LastAlert(RecordOf(i), rule) = Never /\ RecordOf(i).seen = 0
    BY <1>4 DEF RecordOf, Fresh, LastAlert
  <2> QED BY <1>3, <2>1 DEF AlertsKnown, Never
<1> QED BY <1>1, <1>2, <1>3, <1>4, <1>5 DEF HistoryInv

\* Time passes: nothing a record knows gets wrong.
LEMMA HistoryTake ==
    ASSUME InOrder, FlowInv, HistoryInv, NEW w \in Workers, Take(w)
    PROVE  HistoryInv'
<1>1. PICK p \in Packets : p.at >= clock /\ held' = [held EXCEPT ![w] = p] /\ clock' = p.at
  BY DEF Take
<1>2. UNCHANGED <<per_ip, log, alerts>>
  BY DEF Take
<1>3. clock' \in Times /\ clock' \in Int /\ clock \in Int /\ clock <= clock' /\ IdleTtl \in Nat
  BY <1>1, PacketFacts, FlowConfig DEF RulePacket, Times, HistoryInv
<1>4. \A v \in Workers : held'[v] # NoPacket => held'[v].at = clock'
  <2>1. \A v \in Workers : v = w
    BY DEF InOrder
  <2>2. held'[w] = p
    BY <1>1 DEF FlowInv
  <2> QED BY <1>1, <2>1, <2>2
<1>5. ASSUME NEW i \in DOMAIN per_ip PROVE per_ip[i].seen <= clock'
  <2>1. per_ip[i].seen \in Int
    BY DEF FlowInv, GoodRecord, Records, Times
  <2> QED BY <1>3, <2>1 DEF HistoryInv
<1>6. ASSUME NEW i \in Ips \ DOMAIN per_ip, NEW k \in DOMAIN log[i]
      PROVE  log[i][k].at < clock' - IdleTtl
  <2>1. log[i][k] \in Packets
    <3>1. log[i] \in Seq(Packets)
      BY DEF HistoryInv
    <3> QED BY <3>1, LenProperties, ElementOfSeq
  <2>2. log[i][k].at \in Int /\ log[i][k].at < clock - IdleTtl
    BY <2>1, PacketFacts DEF RulePacket, Times, HistoryInv
  <2> QED BY <1>3, <2>2
<1>7. ASSUME NEW i \in Ips, NEW rule \in Rules
      PROVE  AlertsKnown(Elements(alerts), RecordOf(i), i, rule)'
  <2> DEFINE said == Elements(alerts)
             st == RecordOf(i)
  <2>1. st' = st /\ said' = said
    BY <1>2 DEF RecordOf
  <2>2. AlertsKnown(said, st, i, rule)
    BY DEF HistoryInv
  <2>3. \A a \in said : a.at \in Int
    BY AlertTimes DEF Times
  <2> HIDE DEF said, st
  <2>4. \A a \in said : a.at < clock - IdleTtl => a.at < clock' - IdleTtl
    BY <1>3, <2>3
  <2> QED BY <2>1, <2>2, <2>4 DEF AlertsKnown, said, st
<1> QED BY <1>2, <1>3, <1>4, <1>5, <1>6, <1>7 DEF HistoryInv

LEMMA HistoryObserve ==
    ASSUME InOrder, FlowInv, HistoryInv, NEW w \in Workers, Observe(w)
    PROVE  /\ held[w] \in Packets /\ held[w].at = clock
           /\ HistoryInv'
<1> DEFINE pkt == held[w]
           st == RecordOf(pkt.ip)
           o == Observed(st, pkt)
           l == log[pkt.ip]
           m == Append(l, pkt)
<1>1. pkt \in Packets /\ pkt.at = clock
  <2>1. pkt # NoPacket
    BY DEF Observe, Kinds, NoPacket
  <2> QED BY <2>1 DEF FlowInv, HistoryInv
<1>2. /\ clock' = clock /\ held' = [held EXCEPT ![w] = NoPacket]
      /\ log' = [log EXCEPT ![pkt.ip] = m] /\ alerts' = alerts \o Raised(st, pkt)
  BY DEF Observe
<1>3. /\ RulePacket(pkt) /\ pkt.ip \in Ips /\ GoodRecord(st)
      /\ Follows(l, pkt) /\ Remembers(st, l, pkt.at)
  BY <1>1, PacketFacts, RecordOfGood, RecordRemembers DEF RulePacket
<1>4. UpToDate(o, m) /\ o.seen = clock /\ m \in Seq(Packets)
  <2>1. UpToDate(o, m) /\ o.seen = pkt.at
    <3> HIDE DEF st, l, pkt
    <3> QED BY <1>3, ObservedUpToDate, ObservedFields
  <2>2. m \in Seq(Packets)
    BY <1>3, AppendFacts DEF Follows
  <2> QED BY <1>1, <2>1, <2>2
<1>5. log' \in [Ips -> Seq(Packets)] /\ log'[pkt.ip] = m /\ \A i \in Ips : i # pkt.ip => log'[i] = log[i]
  <2> HIDE DEF m
  <2> QED BY <1>2, <1>3, <1>4 DEF HistoryInv
<1>6. alerts' \in Seq(AlertSet)
  <2>1. alerts \in Seq(AlertSet) /\ Raised(st, pkt) \in Seq(AlertSet)
    BY <1>3, RaisedFacts DEF HistoryInv
  <2> HIDE DEF st
  <2> QED BY <1>2, <2>1, ElementsConcat
<1>7. /\ pkt.ip \in DOMAIN per_ip'
      /\ \A i \in DOMAIN per_ip :
            i \in DOMAIN per_ip' \/ ~(per_ip[i].seen >= clock - IdleTtl)
      /\ \A i \in DOMAIN per_ip' : per_ip'[i] = IF i = pkt.ip THEN o ELSE per_ip[i]
      /\ DOMAIN per_ip' \subseteq DOMAIN per_ip \cup {pkt.ip}
      /\ DOMAIN per_ip \subseteq Ips
  BY <1>1, ObserveEvicts, ObserveShape DEF FlowInv
<1>8. clock \in Int /\ clock \in Times /\ IdleTtl \in Nat
  BY FlowConfig DEF HistoryInv, Times
<1>9. \A v \in Workers : held'[v] # NoPacket => held'[v].at = clock'
  BY <1>2 DEF HistoryInv, FlowInv
<1>10. ASSUME NEW i \in Ips, NEW rule \in Rules
       PROVE  AlertsKnown(Elements(alerts), RecordOf(i), i, rule)'
  BY <1>1, <1>2, AlertsStep
<1> HIDE DEF o, m, pkt, st
<1>11. ASSUME NEW i \in DOMAIN per_ip'
       PROVE  per_ip'[i].seen <= clock' /\ UpToDate(per_ip'[i], log'[i])
  <2>1. CASE i = pkt.ip
    <3>1. per_ip'[i] = o /\ log'[i] = m
      BY <1>5, <1>7, <2>1
    <3> QED BY <1>2, <1>4, <1>8, <3>1
  <2>2. CASE i # pkt.ip
    <3>1. per_ip'[i] = per_ip[i] /\ i \in DOMAIN per_ip /\ log'[i] = log[i]
      BY <1>5, <1>7, <2>2
    <3> QED BY <1>2, <3>1 DEF HistoryInv
  <2> QED BY <2>1, <2>2
<1>12. ASSUME NEW i \in Ips \ DOMAIN per_ip', NEW k \in DOMAIN log'[i]
       PROVE  log'[i][k].at < clock' - IdleTtl
  <2>1. i # pkt.ip /\ log'[i] = log[i] /\ k \in DOMAIN log[i]
    BY <1>5, <1>7
  <2>2. CASE i \in DOMAIN per_ip
    <3>1. ~(per_ip[i].seen >= clock - IdleTtl)
      BY <1>7, <2>2
    <3>2. log[i][k].at <= per_ip[i].seen
      BY <2>1, <2>2 DEF HistoryInv, UpToDate
    <3>3. log[i][k] \in Packets
      <4>1. log[i] \in Seq(Packets)
        BY DEF HistoryInv
      <4> QED BY <2>1, <4>1, LenProperties, ElementOfSeq
    <3>4. log[i][k].at \in Int /\ per_ip[i].seen \in Int
      <4>1. log[i][k].at \in Int
        BY <3>3, PacketFacts DEF RulePacket, Times
      <4> QED BY <2>2, <4>1 DEF FlowInv, GoodRecord, Records, Times
    <3> QED BY <1>2, <1>8, <2>1, <3>1, <3>2, <3>4
  <2>3. CASE i \notin DOMAIN per_ip
    BY <1>2, <2>1, <2>3 DEF HistoryInv
  <2> QED BY <2>2, <2>3
<1>13. clock' \in Times
  BY <1>2, <1>8
<1>14. HistoryInv'
  BY <1>5, <1>6, <1>9, <1>10, <1>11, <1>12, <1>13 DEF HistoryInv
<1> QED BY <1>1, <1>14 DEF pkt

LEMMA HistoryStep ==
    ASSUME InOrder, FlowInv, HistoryInv, [FlowNext]_flowVars PROVE HistoryInv'
<1>1. ASSUME UNCHANGED <<per_ip, clock, log, alerts>>,
             \A v \in Workers : held'[v] = held[v] \/ held'[v] = NoPacket
      PROVE  HistoryInv'
  <2>1. \A v \in Workers : held'[v] # NoPacket => held'[v].at = clock'
    BY <1>1 DEF HistoryInv
  <2>2. ASSUME NEW i \in Ips, NEW rule \in Rules
        PROVE  AlertsKnown(Elements(alerts), RecordOf(i), i, rule)'
    BY <1>1 DEF HistoryInv, AlertsKnown, RecordOf
  <2> QED BY <1>1, <2>1, <2>2 DEF HistoryInv
<1>2. ASSUME NEW w \in Workers, ObserveNoIp(w) PROVE HistoryInv'
  BY <1>1, <1>2 DEF ObserveNoIp, FlowInv
<1>3. CASE UNCHANGED flowVars
  BY <1>1, <1>3 DEF flowVars
<1> QED BY <1>2, <1>3, HistoryTake, HistoryObserve DEF FlowNext, FlowDone

\* With packets observed in capture order, every record kept is up to date
\* with the whole history, and what was evicted is too old to matter.
THEOREM FlowHistory == InOrder /\ FlowSpec => [](InOrder /\ FlowInv /\ HistoryInv)
<1>1. InOrder /\ FlowInv /\ HistoryInv /\ [FlowNext]_flowVars => (InOrder /\ HistoryInv)'
  BY HistoryStep DEF InOrder
<1>2. FlowInit => HistoryInv
  BY HistoryInit
<1> QED BY <1>1, <1>2, FlowInvariant, PTL DEF FlowSpec

\* The windows kept incrementally are those the whole history defines, for
\* any traffic, windows and thresholds, when one worker observes in capture
\* order, the idle limit outlasts the windows and the sources fit the cap.
THEOREM FlowWindowsExact == InOrder /\ FlowSpec => []WindowsExact
<1>1. ASSUME FlowInv, HistoryInv PROVE WindowsExact
  <2> SUFFICES ASSUME NEW i \in DOMAIN per_ip
               PROVE  LET l == log[i] p == l[Len(l)] IN
                      /\ is_connection_attempt(p) => CountedPorts(per_ip[i]) = Reference!PortsInWindow(l)
                      /\ is_tcp(p) => PendingFlows(per_ip[i]) = Reference!HalfOpen(l)
    BY DEF WindowsExact
  <2>1. PICK st, l : st = per_ip[i] /\ l = log[i]
    OBVIOUS
  <2>2. GoodRecord(st) /\ l \in Seq(Packets) /\ UpToDate(st, l)
    BY <1>1, <2>1 DEF FlowInv, HistoryInv
  <2>3. is_connection_attempt(l[Len(l)]) => CountedPorts(st) = Reference!PortsInWindow(l)
    BY <2>2, PortsAgree DEF UpToDate, Remembers
  <2>4. is_tcp(l[Len(l)]) => PendingFlows(st) = Reference!HalfOpen(l)
    BY <2>2, SynsAgree DEF UpToDate, Remembers
  <2> QED BY <2>1, <2>3, <2>4
<1> QED BY <1>1, FlowHistory, PTL

\* Under the same conditions the tracker implements the detector that
\* remembers everything: each observe() raises the alerts, with the counts,
\* that the whole history deserves.
THEOREM FlowImplementsDetector == InOrder /\ FlowSpec => ImplementsDetector
<1>1. FlowInit => Reference!DetectorInit
  BY DEF FlowInit, Reference!DetectorInit
<1>2. ASSUME InOrder, FlowInv, HistoryInv, [FlowNext]_flowVars
      PROVE  [Reference!DetectorNext]_(Reference!detectorVars)
  <2>1. ASSUME UNCHANGED <<log, alerts>>
        PROVE  [Reference!DetectorNext]_(Reference!detectorVars)
    BY <2>1 DEF Reference!detectorVars
  <2>2. ASSUME NEW w \in Workers, Observe(w) PROVE Reference!DetectorNext
    <3> DEFINE pkt == held[w]
               m == Append(log[pkt.ip], pkt)
    <3>1. pkt \in Packets /\ pkt.at = clock
      BY <1>2, <2>2, HistoryObserve
    <3>2. /\ log' = [log EXCEPT ![pkt.ip] = m]
          /\ alerts' = alerts \o Raised(RecordOf(pkt.ip), pkt)
      BY <2>2 DEF Observe
    <3>3. log'[pkt.ip] = m
      BY <1>2, <3>1, <3>2, PacketFacts DEF RulePacket, HistoryInv
    <3>4. Raised(RecordOf(pkt.ip), pkt) = Reference!Verdict(m, pkt)
      BY <1>2, <3>1, RaisedAgrees
    <3>5. Reference!See(pkt)
      <4> HIDE DEF pkt
      <4> QED BY <3>2, <3>3, <3>4, Zenon DEF Reference!See
    <3> QED BY <3>1, <3>5 DEF Reference!DetectorNext
  <2> QED BY <1>2, <2>1, <2>2 DEF FlowNext, FlowDone, Take, ObserveNoIp, flowVars
<1> QED BY <1>1, <1>2, FlowHistory, PTL DEF FlowSpec, ImplementsDetector, Reference!DetectorSpec

\* The alerts of one observe() are of different rules, and each was allowed.
LEMMA RaisedApart ==
    ASSUME InOrder, FlowInv, HistoryInv, NEW pkt \in Packets, pkt.at = clock
    PROVE  LET R == Raised(RecordOf(pkt.ip), pkt) IN
           /\ R \in Seq(AlertSet)
           /\ \A x, y \in DOMAIN R : R[x].rule = R[y].rule => x = y
           /\ \A x \in DOMAIN R : /\ R[x].ip = pkt.ip /\ R[x].at = pkt.at
                                  /\ Reference!Quiet(R[x].rule, pkt)
<1> DEFINE st == RecordOf(pkt.ip)
           c == Counted(st, pkt)
           y == Synced(st, pkt)
           R == Raised(st, pkt)
<1>1. RulePacket(pkt) /\ GoodRecord(st)
  BY PacketFacts, RecordOfGood
<1>2. PICK A, B : /\ A.rule = "scan" /\ B.rule = "flood"
                  /\ A.ip = pkt.ip /\ A.at = pkt.at /\ B.ip = pkt.ip /\ B.at = pkt.at
                  /\ R = (IF RaisesScan(c, pkt) THEN <<A>> ELSE <<>>)
                         \o (IF RaisesFlood(y, pkt) THEN <<B>> ELSE <<>>)
  <2> DEFINE A == Alert("scan", pkt, CountedPorts(c))
             B == Alert("flood", pkt, PendingFlows(y))
  <2>1. /\ A.rule = "scan" /\ B.rule = "flood"
        /\ A.ip = pkt.ip /\ A.at = pkt.at /\ B.ip = pkt.ip /\ B.at = pkt.at
    BY DEF Alert
  <2>2. R = (IF RaisesScan(c, pkt) THEN <<A>> ELSE <<>>)
            \o (IF RaisesFlood(y, pkt) THEN <<B>> ELSE <<>>)
    BY DEF Raised
  <2> HIDE DEF A, B, R, c, y
  <2> QED BY <2>1, <2>2
<1>3. /\ RaisesScan(c, pkt) => Reference!Quiet("scan", pkt)
      /\ RaisesFlood(y, pkt) => Reference!Quiet("flood", pkt)
  <2>1. c.scan_alert = LastAlert(st, "scan") /\ y.flood_alert = LastAlert(st, "flood")
    <3> HIDE DEF st
    <3> QED BY <1>1, ObservedFields DEF LastAlert
  <2>2. "scan" \in Rules /\ "flood" \in Rules
    BY DEF Rules
  <2>3. /\ RaisesScan(c, pkt) => debounce_allows(c.scan_alert, pkt.at)
        /\ RaisesFlood(y, pkt) => debounce_allows(y.flood_alert, pkt.at)
    BY DEF RaisesScan, RaisesFlood
  <2> HIDE DEF c, y
  <2> QED BY <2>1, <2>2, <2>3, QuietAgrees
<1>4. R \in Seq(AlertSet)
  BY <1>1, RaisedFacts
<1> HIDE DEF R, c, y
<1>5. \/ R = <<>>
      \/ R = <<A>> /\ RaisesScan(c, pkt)
      \/ R = <<B>> /\ RaisesFlood(y, pkt)
      \/ R = <<A, B>> /\ RaisesScan(c, pkt) /\ RaisesFlood(y, pkt)
  <2>1. <<>> \o <<>> = <<>> /\ <<A>> \o <<>> = <<A>> /\ <<>> \o <<B>> = <<B>>
    <3>1. <<>> \in Seq({A, B}) /\ <<A>> \in Seq({A, B}) /\ <<B>> \in Seq({A, B})
      OBVIOUS
    <3> QED BY <3>1, ConcatEmptySeq
  <2>2. <<A>> \o <<B>> = <<A, B>>
    <3>1. PICK a \in Seq({A, B}), b \in Seq({A, B}) : a = <<A>> /\ b = <<B>>
      <4>1. <<A>> \in Seq({A, B}) /\ <<B>> \in Seq({A, B})
        OBVIOUS
      <4> QED BY <4>1
    <3>2. Len(a) = 1 /\ Len(b) = 1 /\ a[1] = A /\ b[1] = B
      BY <3>1
    <3>3. /\ a \o b \in Seq({A, B}) /\ Len(a \o b) = 2
          /\ (a \o b)[1] = A /\ (a \o b)[2] = B
      <4>1. /\ a \o b \in Seq({A, B}) /\ Len(a \o b) = Len(a) + Len(b)
            /\ \A i \in 1..(Len(a) + Len(b)) :
                   (a \o b)[i] = IF i <= Len(a) THEN a[i] ELSE b[i - Len(a)]
        BY ONLY ConcatProperties, a \in Seq({A, B}), b \in Seq({A, B})
      <4>2. PICK r : r = a \o b
        OBVIOUS
      <4>3. \A i \in 1..(1 + 1) : r[i] = IF i <= 1 THEN a[i] ELSE b[i - 1]
        BY <3>2, <4>1, <4>2, Zenon
      <4>4. r[1] = a[1] /\ r[2] = b[1]
        BY ONLY <4>3
      <4> QED BY <3>2, <4>1, <4>2, <4>4
    <3>4. <<A, B>> \in Seq({A, B}) /\ Len(<<A, B>>) = 2 /\ <<A, B>>[1] = A /\ <<A, B>>[2] = B
      OBVIOUS
    <3>5. DOMAIN (a \o b) = 1..2 /\ a \o b = [i \in 1..2 |-> (a \o b)[i]]
      BY <3>3, LenProperties
    <3>6. <<A, B>> = [i \in 1..2 |-> <<A, B>>[i]]
      OBVIOUS
    <3>7. \A i \in 1..2 : (a \o b)[i] = <<A, B>>[i]
      <4>1. \A i \in 1..2 : i = 1 \/ i = 2
        OBVIOUS
      <4> QED BY <3>3, <3>4, <4>1
    <3> QED BY <3>1, <3>5, <3>6, <3>7
  <2> QED BY <1>2, <2>1, <2>2, Zenon
<1>6. /\ \A x, z \in DOMAIN R : R[x].rule = R[z].rule => x = z
      /\ \A x \in DOMAIN R : \/ R[x] = A /\ RaisesScan(c, pkt)
                             \/ R[x] = B /\ RaisesFlood(y, pkt)
  <2>1. CASE R = <<>>
    BY <2>1
  <2>2. CASE R = <<A>> /\ RaisesScan(c, pkt)
    BY <2>2
  <2>3. CASE R = <<B>> /\ RaisesFlood(y, pkt)
    BY <2>3
  <2>4. CASE R = <<A, B>> /\ RaisesScan(c, pkt) /\ RaisesFlood(y, pkt)
    BY <1>2, <2>4
  <2> QED BY <1>5, <2>1, <2>2, <2>3, <2>4
<1>7. ASSUME NEW x \in DOMAIN R
      PROVE  R[x].ip = pkt.ip /\ R[x].at = pkt.at /\ Reference!Quiet(R[x].rule, pkt)
  BY <1>2, <1>3, <1>6
<1> QED BY <1>4, <1>6, <1>7 DEF R

LEMMA DebounceStep ==
    ASSUME InOrder, FlowInv, HistoryInv, DebounceSpaced, [FlowNext]_flowVars
    PROVE  DebounceSpaced'
<1>1. CASE UNCHANGED alerts
  BY <1>1 DEF DebounceSpaced
<1>2. ASSUME NEW w \in Workers, Observe(w) PROVE DebounceSpaced'
  <2> DEFINE pkt == held[w]
             R == Raised(RecordOf(pkt.ip), pkt)
  <2>1. pkt \in Packets /\ pkt.at = clock
    BY <1>2, HistoryObserve
  <2>2. alerts' = alerts \o R /\ alerts \in Seq(AlertSet)
    BY <1>2 DEF Observe, HistoryInv
  <2>3. /\ R \in Seq(AlertSet)
        /\ \A x, y \in DOMAIN R : R[x].rule = R[y].rule => x = y
        /\ \A x \in DOMAIN R : /\ R[x].ip = pkt.ip /\ R[x].at = pkt.at
                               /\ Reference!Quiet(R[x].rule, pkt)
    BY <2>1, RaisedApart
  <2> HIDE DEF R, pkt
  <2>4. PICK M \in Nat, N \in Nat : M = Len(alerts) /\ N = Len(R)
    BY <2>2, <2>3, LenProperties
  <2>5. /\ DOMAIN alerts = 1..M /\ DOMAIN R = 1..N /\ DOMAIN alerts' = 1..(M + N)
        /\ \A i \in 1..(M + N) : alerts'[i] = IF i <= M THEN alerts[i] ELSE R[i - M]
    BY <2>2, <2>3, <2>4, ConcatProperties, LenProperties
  <2> SUFFICES ASSUME NEW j \in 1..(M + N), NEW k \in 1..(M + N), j < k,
                      alerts'[j].ip = alerts'[k].ip, alerts'[j].rule = alerts'[k].rule
               PROVE  alerts'[k].at - alerts'[j].at >= Debounce
    BY <2>5 DEF DebounceSpaced
  <2>6. CASE k <= M
    <3>1. j \in DOMAIN alerts /\ k \in DOMAIN alerts /\ alerts'[j] = alerts[j] /\ alerts'[k] = alerts[k]
      BY <2>5, <2>6
    <3> QED BY <3>1 DEF DebounceSpaced
  <2>7. CASE ~(k <= M) /\ j <= M
    <3>1. k - M \in 1..N /\ j \in 1..M
      BY <2>7
    <3>2. alerts'[k] = R[k - M] /\ alerts'[j] = alerts[j]
      BY <2>5, <2>7, Zenon
    <3>3. /\ alerts'[k].ip = pkt.ip /\ alerts'[k].at = pkt.at
          /\ Reference!Quiet(alerts'[k].rule, pkt)
      BY <2>3, <2>5, <3>1, <3>2, Zenon
    <3> QED BY <2>5, <3>1, <3>2, <3>3, Zenon DEF Reference!Quiet
  <2>8. CASE ~(k <= M) /\ ~(j <= M)
    <3>1. k - M \in 1..N /\ j - M \in 1..N /\ k - M # j - M
      BY <2>8
    <3>2. alerts'[k] = R[k - M] /\ alerts'[j] = R[j - M]
      BY <2>5, <2>8, Zenon
    <3> QED BY <2>3, <2>5, <3>1, <3>2, Zenon
  <2> QED BY <2>6, <2>7, <2>8
<1> QED BY <1>1, <1>2 DEF FlowNext, FlowDone, Take, ObserveNoIp, flowVars

\* Under the same conditions, which no eviction by the cap meets, a source
\* is flagged at most once per debounce interval for the same rule.
THEOREM FlowDebounced == InOrder /\ FlowSpec => []DebounceSpaced
<1>1. FlowInit => DebounceSpaced
  BY DEF FlowInit, DebounceSpaced
<1>2. InOrder /\ FlowInv /\ HistoryInv /\ DebounceSpaced /\ [FlowNext]_flowVars => DebounceSpaced'
  BY DebounceStep
<1> QED BY <1>1, <1>2, FlowHistory, PTL DEF FlowSpec
=============================================================================
