------------------------------- MODULE Detector -------------------------------
(***************************************************************************)
(* What the two per-source rules of include/netsentinel/flow_tracker.hpp   *)
(* promise, without any of the bookkeeping: the detector remembers every   *)
(* packet, decides by looking back over the whole history, and forgets     *)
(* nothing.                                                                *)
(***************************************************************************)
EXTENDS Integers, Sequences, FiniteSets

CONSTANTS
    Ips, Flows, DstPort,
    Packets,       \* what can be observed: [ip, kind, flow, at]
    PortWindow, PortThreshold, SynWindow, SynThreshold, Debounce

VARIABLES
    history,       \* the packets of each source, in the order observed
    alerts         \* the alerts raised

detectorVars == <<history, alerts>>

DetectorInit == history = [i \in Ips |-> <<>>] /\ alerts = <<>>

Attempt(p) == p.kind \in {"syn", "udp"}
Tcp(p) == p.kind \in {"syn", "ack", "syn_ack", "tcp"}
Completes(p) == p.kind \in {"ack", "syn_ack"}

Last(h) == h[Len(h)]

\* The distinct destination ports of the connection attempts in the window
\* that ends with the last packet of h.
PortsInWindow(h) ==
    {DstPort[h[k].flow] : k \in {j \in DOMAIN h :
        Attempt(h[j]) /\ h[j].at >= Last(h).at - PortWindow}}

\* The flows with a SYN in that window which no later ACK has completed.
HalfOpen(h) ==
    {f \in Flows : \E k \in DOMAIN h :
        /\ h[k].kind = "syn" /\ h[k].flow = f
        /\ h[k].at >= Last(h).at - SynWindow
        /\ \A j \in (k + 1)..Len(h) : ~(Completes(h[j]) /\ h[j].flow = f)}

Alert(rule, p, n) == [rule |-> rule, ip |-> p.ip, at |-> p.at, count |-> n]

\* The same rule has not flagged this source within the debounce interval.
Quiet(rule, p) ==
    \A k \in DOMAIN alerts :
        (alerts[k].rule = rule /\ alerts[k].ip = p.ip) => p.at - alerts[k].at >= Debounce

\* What packet p, the last one of h, makes the detector say.
Flag(rule, p, found, threshold) ==
    IF Cardinality(found) >= threshold /\ Quiet(rule, p)
    THEN <<Alert(rule, p, Cardinality(found))>> ELSE <<>>
Verdict(h, p) ==
    (IF Attempt(p) THEN Flag("scan", p, PortsInWindow(h), PortThreshold) ELSE <<>>)
    \o (IF Tcp(p) THEN Flag("flood", p, HalfOpen(h), SynThreshold) ELSE <<>>)

See(p) ==
    /\ history' = [history EXCEPT ![p.ip] = Append(@, p)]
    /\ alerts' = alerts \o Verdict(history'[p.ip], p)

DetectorNext == \E p \in Packets : See(p)

DetectorSpec == DetectorInit /\ [][DetectorNext]_detectorVars
=============================================================================
