--------------------------- MODULE MCWorkerClient ---------------------------
(* Instances of WorkerClient for TLC.                                       *)
EXTENDS WorkerClient

ShortHead == {3, 5, 7}
=============================================================================
