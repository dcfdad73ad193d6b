-------------------------------- MODULE Ring --------------------------------
(***************************************************************************)
(* The template parameter of include/spsc_queue.h: the ring's size.  One   *)
(* slot is never used, so that N - 1 items fit.                            *)
(***************************************************************************)
EXTENDS Naturals

CONSTANT N

ASSUME RingSize == N \in Nat /\ N > 1
=============================================================================
