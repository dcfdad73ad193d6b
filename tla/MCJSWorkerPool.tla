--------------------------- MODULE MCJSWorkerPool ---------------------------
(***************************************************************************)
(* JavaScript workers, one of which may fail to load its script while the  *)
(* other serves its jobs.                                                  *)
(***************************************************************************)
EXTENDS JSWorkerPool
=============================================================================
