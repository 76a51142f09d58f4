--------------------------- MODULE MCEntropyKernel ---------------------------
(* Batches with an empty payload, repeated bytes, payloads shorter and     *)
(* longer than the group, and one batch too large for its offsets.         *)
EXTENDS EntropyKernel

MCBatches ==
    {<< <<0, 0, 3>>, <<1>> >>,
     << <<>>, <<2, 1, 2, 2>>, <<3>> >>,
     << <<3, 2, 1, 0, 0>> >>,
     << <<0, 1, 2, 3>>, <<3, 3, 1>>, <<2, 0, 1>> >>}
=============================================================================
