---------------------------- MODULE MCSPSCQueue ----------------------------
(***************************************************************************)
(* A ring of four slots and two distinct items: enough for the indices to  *)
(* wrap, for the ring to be full and empty at every position, and for a    *)
(* lost, repeated or reordered item to show.                               *)
(***************************************************************************)
EXTENDS SPSCQueue
=============================================================================
