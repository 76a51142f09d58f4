----------------------------- MODULE MCPipeline -----------------------------
\* Model values for the runs of Pipeline.
EXTENDS Pipeline

CONSTANTS w1, w2

TheCaptureThread == {CaptureThread}
OneWorker == {w1}
TwoWorkers == {w1, w2}
=============================================================================
