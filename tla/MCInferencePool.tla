-------------------------- MODULE MCInferencePool ---------------------------
(***************************************************************************)
(* Two workers with streams of up to two tokens: two streams overrun a     *)
(* result ring of two places, and close() may fall anywhere in them.       *)
(***************************************************************************)
EXTENDS InferencePool
=============================================================================
