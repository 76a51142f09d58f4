---------------------------- MODULE MCFlowTracker ----------------------------
\* Traffic mixes, ports and shards for the runs of FlowTracker.
EXTENDS FlowTracker

CONSTANTS w1, w2, ipA, ipB, ipC, f1, f2, f3, x, y

\* Two flows share a destination port.
ThreeFlows == {f1, f2, f3}
SharedPort == [f \in {f1, f2, f3} |-> IF f = f3 THEN 2 ELSE 1]
TwoFlows == {f1, f2}
OwnPorts == [f \in {f1, f2} |-> IF f = f1 THEN 1 ELSE 2]
OneFlow == {f1}
OnePort == [f \in {f1} |-> 1]

OneShard == {x}
AllInOne == [i \in {ipA, ipB, ipC} |-> x]
TwoShards == {x, y}
Split == [i \in {ipA, ipB, ipC} |-> IF i = ipC THEN y ELSE x]
ThreeIps == {ipA, ipB, ipC}

OneWorker == {w1}
TwoWorkers == {w1, w2}

P(i, k, f) == [ip |-> i, kind |-> k, flow |-> f]
\* One source that scans, floods and completes, and a bystander.
ScanTraffic == {P(ipA, "syn", f1), P(ipA, "syn", f2), P(ipA, "syn", f3), P(ipA, "ack", f1),
                P(ipB, "udp", f1)}
\* Every kind of packet the rules tell apart, from three sources.
MixedTraffic == {P(ipA, "syn", f1), P(ipA, "syn", f2), P(ipA, "syn_ack", f1),
                 P(ipA, "tcp", f2), P(ipB, "udp", f2), P(ipB, "udp_service", f1),
                 P(ipC, "other", f1), P(ipC, "no_ip", f1)}
\* SYNs from one source to two ports.
SynTraffic == {P(ipA, "syn", f1), P(ipA, "syn", f2)}
\* SYNs from two sources.
TwoSources == {P(ipA, "syn", f1), P(ipB, "syn", f1)}
=============================================================================
