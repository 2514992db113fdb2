------------------------- MODULE MCWorkerLifecycle -------------------------
(* Small instances of WorkerLifecycle. *)
EXTENDS WorkerLifecycle
=============================================================================
