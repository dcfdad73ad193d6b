---------------------------- MODULE MCWorkerPool ----------------------------
(***************************************************************************)
(* A native worker.  Its job ring of one place lets a dispatch be refused, *)
(* its result ring of two places lets results share a doorbell and lets    *)
(* the thread spin.                                                        *)
(***************************************************************************)
EXTENDS WorkerPool
=============================================================================
