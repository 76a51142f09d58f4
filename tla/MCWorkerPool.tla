---------------------------- MODULE MCWorkerPool ----------------------------
\* Model values for the runs of WorkerPool.
EXTENDS WorkerPool

CONSTANTS p1, p2, w1, w2, m

TwoProducers == {p1, p2}
TwoWorkers == {w1, w2}
=============================================================================
