----------------------------- MODULE FlowTracker -----------------------------
(***************************************************************************)
(* The per-source-IP rules of src/src/analysis/flow_tracker.cpp.           *)
(*                                                                         *)
(* observe() runs under its shard's mutex from beginning to end, so it is  *)
(* one action.  What is not protected is the order: a worker takes a       *)
(* packet from the queue and calls observe() some time later, and another  *)
(* worker may get in between with a younger packet.  A worker holds one    *)
(* packet at a time here; a batch of n held by one worker is the case of   *)
(* n workers holding one each.                                             *)
(***************************************************************************)
EXTENDS Integers, Sequences, FiniteSets

CONSTANTS
    Workers,
    Ips, Flows,        \* source IPs; a flow is the rest of the 4-tuple
    DstPort,           \* [Flows -> destination ports]
    Shards, ShardOf,   \* [Ips -> Shards], the hash of shard_for()
    Traffic,           \* the packets of the run: [ip, kind, flow]
    PortWindow, PortThreshold, SynWindow, SynThreshold, Debounce,
    IdleTtl, SweepInterval, MaxTracked,   \* FlowTrackerConfig
    MaxTime,           \* bound: last timestamp
    MaxObserved        \* bound: packets taken from the queue

\* Transport and TCP flags as the rules tell them apart.
Kinds == {"no_ip", "syn", "ack", "syn_ack", "tcp", "udp", "udp_service", "other"}

ASSUME FlowConfig ==
    /\ {PortWindow, SynWindow, Debounce, IdleTtl, PortThreshold, SynThreshold,
        SweepInterval, MaxTracked, MaxTime, MaxObserved} \subseteq Nat
    /\ ShardOf \in [Ips -> Shards]
    /\ Traffic \subseteq [ip : Ips, kind : Kinds, flow : Flows]
    /\ IsFiniteSet(Ips)

VARIABLES
    per_ip,      \* the shards' per_ip maps, by source IP
    sweep,       \* observations_since_sweep of each shard
    held,        \* the packet each worker is about to observe
    clock,       \* timestamp of the last packet taken from the queue
    taken,       \* packets taken from the queue
    log,         \* history: the packets observed of each IP
    alerts       \* history: the alerts raised

flowVars == <<per_ip, sweep, held, clock, taken, log, alerts>>

NoPacket == [kind |-> "none"]
Never == -1                          \* an empty std::optional
Ports == {DstPort[f] : f \in Flows}
Packets ==
    {[ip |-> t.ip, kind |-> t.kind, flow |-> t.flow, at |-> now] : t \in Traffic, now \in 0..MaxTime}

\* A value-initialised PerIpState.
Fresh == [recent |-> <<>>, counts |-> [p \in Ports |-> 0],
          pending |-> [f \in Flows |-> Never], order |-> <<>>,
          seen |-> 0, scan_alert |-> Never, flood_alert |-> Never]

FlowInit ==
    /\ per_ip = [i \in {} |-> Fresh]
    /\ sweep = [s \in Shards |-> 0]
    /\ held = [w \in Workers |-> NoPacket]
    /\ clock = 0
    /\ taken = 0
    /\ log = [i \in Ips |-> <<>>]
    /\ alerts = <<>>

-----------------------------------------------------------------------------
(* Pure parts of observe()                                                 *)

is_tcp(pkt) == pkt.kind \in {"syn", "ack", "syn_ack", "tcp"}
is_ack(pkt) == pkt.kind \in {"ack", "syn_ack"}
is_connection_attempt(pkt) == pkt.kind \in {"syn", "udp"}

\* How many entries the expiry loop pops: it stops at the first one, from
\* the front, that is young enough.
ExpiredCount(q, cutoff) ==
    Cardinality({i \in DOMAIN q : \A j \in 1..i : q[j].at < cutoff})

Drop(q, n) == SubSeq(q, n + 1, Len(q))

\* Mutant: an expired port is erased whatever its count.
UncountAll(counts, q, n) ==
    [p \in Ports |-> IF \E i \in 1..n : q[i].port = p THEN 0 ELSE counts[p]]

\* counts after the first n entries of q left the window.
Uncount(counts, q, n) ==
    [p \in Ports |->
        LET gone == Cardinality({i \in 1..n : q[i].port = p})
        IN  IF gone < counts[p] THEN counts[p] - gone ELSE 0]

\* Mutant: expiry does not check which SYN was queued.
UnpendAny(pending, q, n) ==
    [f \in Flows |-> IF \E i \in 1..n : q[i].flow = f THEN Never ELSE pending[f]]

\* pending after the first n entries of q were expired: only the SYN that
\* was queued is dropped, not a newer one on the same flow.
Unpend(pending, q, n) ==
    [f \in Flows |->
        IF \E i \in 1..n : q[i].flow = f /\ q[i].at = pending[f]
        THEN Never ELSE pending[f]]

debounce_allows(last, now) == last = Never \/ now - last >= Debounce

\* The port-scan window with this attempt added and old ones expired.
CountPort(st, pkt) ==
    LET p == DstPort[pkt.flow]
        q == Append(st.recent, [at |-> pkt.at, port |-> p])
        n == ExpiredCount(q, pkt.at - PortWindow)
    IN  [st EXCEPT !.recent = Drop(q, n),
                   !.counts = Uncount([st.counts EXCEPT ![p] = @ + 1], q, n)]

CountedPorts(st) == {p \in Ports : st.counts[p] > 0}
RaisesScan(st, pkt) ==
    /\ is_connection_attempt(pkt)
    /\ Cardinality(CountedPorts(st)) >= PortThreshold
    /\ debounce_allows(st.scan_alert, pkt.at)

\* Mutant: a repeated SYN refreshes the timestamp without a new entry.
TrackSynOnce(st, pkt) ==
    LET f == pkt.flow
        pend == IF pkt.kind = "syn" THEN [st.pending EXCEPT ![f] = pkt.at]
                ELSE IF is_ack(pkt) THEN [st.pending EXCEPT ![f] = Never]
                ELSE st.pending
        q == IF pkt.kind = "syn" /\ st.pending[f] = Never
             THEN Append(st.order, [at |-> pkt.at, flow |-> f]) ELSE st.order
        n == ExpiredCount(q, pkt.at - SynWindow)
    IN  [st EXCEPT !.pending = Unpend(pend, q, n), !.order = Drop(q, n)]

\* The half-open connections with this packet applied and old ones expired.
TrackSyn(st, pkt) ==
    LET f == pkt.flow
        pend == IF pkt.kind = "syn" THEN [st.pending EXCEPT ![f] = pkt.at]
                ELSE IF is_ack(pkt) THEN [st.pending EXCEPT ![f] = Never]
                ELSE st.pending
        q == IF pkt.kind = "syn"
             THEN Append(st.order, [at |-> pkt.at, flow |-> f]) ELSE st.order
        n == ExpiredCount(q, pkt.at - SynWindow)
    IN  [st EXCEPT !.pending = Unpend(pend, q, n), !.order = Drop(q, n)]

PendingFlows(st) == {f \in Flows : st.pending[f] # Never}
RaisesFlood(st, pkt) ==
    /\ is_tcp(pkt)
    /\ Cardinality(PendingFlows(st)) >= SynThreshold
    /\ debounce_allows(st.flood_alert, pkt.at)

\* The record after the port-scan rule, and after the SYN-flood rule.
Counted(st, pkt) ==
    LET seen == [st EXCEPT !.seen = pkt.at]
    IN  IF is_connection_attempt(pkt) THEN CountPort(seen, pkt) ELSE seen

\* Mutant: an alert that is held back starts the interval again.
ScannedRefresh(st, pkt) ==
    LET c == Counted(st, pkt)
    IN  IF is_connection_attempt(pkt) /\ Cardinality(CountedPorts(c)) >= PortThreshold
        THEN [c EXCEPT !.scan_alert = pkt.at] ELSE c

Scanned(st, pkt) ==
    LET c == Counted(st, pkt)
    IN  IF RaisesScan(c, pkt) THEN [c EXCEPT !.scan_alert = pkt.at] ELSE c
Synced(st, pkt) ==
    LET c == Scanned(st, pkt)
    IN  IF is_tcp(pkt) THEN TrackSyn(c, pkt) ELSE c
Observed(st, pkt) ==
    LET c == Synced(st, pkt)
    IN  IF RaisesFlood(c, pkt) THEN [c EXCEPT !.flood_alert = pkt.at] ELSE c

\* An alert names the source and, in its detail, the number found.
Alert(rule, pkt, found) ==
    [rule |-> rule, ip |-> pkt.ip, at |-> pkt.at, count |-> Cardinality(found)]
Raised(st, pkt) ==
    LET c == Counted(st, pkt) synced == Synced(st, pkt) IN
    (IF RaisesScan(c, pkt) THEN <<Alert("scan", pkt, CountedPorts(c))>> ELSE <<>>)
    \o (IF RaisesFlood(synced, pkt) THEN <<Alert("flood", pkt, PendingFlows(synced))>> ELSE <<>>)

-----------------------------------------------------------------------------
(* Eviction                                                                *)

InShard(ips, s) == {i \in ips : ShardOf[i] = s}
AtCap == IF MaxTracked = 0 THEN 1 ELSE MaxTracked   \* the kept IP always stays

\* Mutant: there is no hard ceiling.
evict_idle(ips, records, now, keep) ==
    {{i \in ips : i = keep \/ records[i].seen >= now - IdleTtl}}

\* What evict_stale() may leave of one shard's IPs: idle ones go, and if
\* that is not enough any others, in the hash map's order, down to the cap.
evict_stale(ips, records, now, keep) ==
    LET fresh == {i \in ips : i = keep \/ records[i].seen >= now - IdleTtl}
    IN  IF Cardinality(fresh) <= MaxTracked THEN {fresh}
        ELSE {k \in SUBSET fresh : keep \in k /\ Cardinality(k) = AtCap}

-----------------------------------------------------------------------------
(* Actions                                                                 *)

\* A worker takes the next packet; capture order is timestamp order.
Take(w) ==
    /\ held[w] = NoPacket
    /\ taken < MaxObserved
    /\ \E p \in Packets :
          /\ p.at >= clock
          /\ held' = [held EXCEPT ![w] = p]
          /\ clock' = p.at
    /\ taken' = taken + 1
    /\ UNCHANGED <<per_ip, sweep, log, alerts>>

\* observe() returns at once for a packet without an IP header.
ObserveNoIp(w) ==
    /\ held[w].kind = "no_ip"
    /\ held' = [held EXCEPT ![w] = NoPacket]
    /\ UNCHANGED <<per_ip, sweep, clock, taken, log, alerts>>

RecordOf(i) == IF i \in DOMAIN per_ip THEN per_ip[i] ELSE Fresh

SweepDue(s) == sweep[s] + 1 >= SweepInterval

Observe(w) ==
    /\ held[w].kind \in Kinds \ {"no_ip"}
    /\ LET pkt == held[w]
           st == RecordOf(pkt.ip)
           s == ShardOf[pkt.ip]
           all == DOMAIN per_ip \cup {pkt.ip}
           records == [i \in all |-> IF i = pkt.ip THEN Observed(st, pkt) ELSE per_ip[i]]
       IN  /\ alerts' = alerts \o Raised(st, pkt)
           /\ log' = [log EXCEPT ![pkt.ip] = Append(@, pkt)]
           /\ \/ /\ ~SweepDue(s)
                 /\ sweep' = [sweep EXCEPT ![s] = @ + 1]
                 /\ per_ip' = records
              \/ /\ SweepDue(s)
                 /\ sweep' = [sweep EXCEPT ![s] = 0]
                 /\ \E left \in evict_stale(InShard(all, s), records, pkt.at, pkt.ip) :
                       per_ip' = [i \in (all \ InShard(all, s)) \cup left |-> records[i]]
    /\ held' = [held EXCEPT ![w] = NoPacket]
    /\ UNCHANGED <<clock, taken>>

\* The input bound is reached and every packet has been observed.
Drained == taken = MaxObserved /\ \A w \in Workers : held[w] = NoPacket
FlowDone == Drained /\ UNCHANGED flowVars

FlowNext ==
    \/ \E w \in Workers : Take(w) \/ ObserveNoIp(w) \/ Observe(w)
    \/ FlowDone

FlowSpec == FlowInit /\ [][FlowNext]_flowVars

-----------------------------------------------------------------------------
(* Properties                                                              *)

\* port_counts mirrors recent_dst_ports exactly, whatever order packets are
\* observed in, so its size() is the number of distinct ports queued.
CountsMirrorWindow ==
    \A i \in DOMAIN per_ip : \A p \in Ports :
        per_ip[i].counts[p] =
            Cardinality({k \in DOMAIN per_ip[i].recent : per_ip[i].recent[k].port = p})

\* Every half-open connection still has the ordering entry that will expire
\* it: none can stay pending for ever.
NoOrphanSyn ==
    \A i \in DOMAIN per_ip : \A f \in Flows :
        per_ip[i].pending[f] # Never =>
            \E k \in DOMAIN per_ip[i].order :
                per_ip[i].order[k] = [at |-> per_ip[i].pending[f], flow |-> f]

\* A shard's map exceeds the cap by at most the packets of one sweep
\* interval (test_flow_tracker.cpp allows "one sweep interval of slack"; DESIGN.md's
\* "at most 1024 IPs" is true only right after a sweep).
TrackedBounded ==
    \A s \in Shards :
        /\ Cardinality(InShard(DOMAIN per_ip, s)) <= AtCap + sweep[s]
        /\ sweep[s] = 0 \/ sweep[s] < SweepInterval

Reference == INSTANCE Detector WITH history <- log

\* The ports counted once a connection attempt has been observed, and the
\* SYNs pending after a TCP packet, are exactly those the whole history says
\* are in the window: whatever was evicted in between had already left it.
WindowsExact ==
    \A i \in DOMAIN per_ip :
        LET l == log[i] p == l[Len(l)] IN
        /\ is_connection_attempt(p) => CountedPorts(per_ip[i]) = Reference!PortsInWindow(l)
        /\ is_tcp(p) => PendingFlows(per_ip[i]) = Reference!HalfOpen(l)

\* No port is counted and no SYN is pending that has fallen out of the
\* window (README.md: "the underlying per-IP state (which ports/SYNs fall
\* inside the time window) is always correct").
NothingExpiredCounts ==
    \A i \in DOMAIN per_ip :
        LET l == log[i] p == l[Len(l)] IN
        /\ is_connection_attempt(p) => CountedPorts(per_ip[i]) \subseteq Reference!PortsInWindow(l)
        /\ is_tcp(p) => PendingFlows(per_ip[i]) \subseteq Reference!HalfOpen(l)

\* With packets observed in capture order, an idle limit no shorter than the
\* windows and the debounce, and no more sources than the cap, the tracker
\* raises the alerts, with the counts, of the detector that never forgets:
\* expiry from the front, the skipped ordering entries and idle eviction
\* lose nothing a rule can see.
ImplementsDetector == Reference!DetectorSpec

\* An IP is flagged at most once per debounce interval for the same rule
\* (DESIGN.md: "an IP alerts at most once every 2 seconds per rule").
DebounceSpaced ==
    \A j, k \in DOMAIN alerts :
        (j < k /\ alerts[j].ip = alerts[k].ip /\ alerts[j].rule = alerts[k].rule)
            => alerts[k].at - alerts[j].at >= Debounce
=============================================================================
