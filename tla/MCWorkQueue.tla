---------------------------- MODULE MCWorkQueue ----------------------------
(***************************************************************************)
(* A ring of four slots and five items: the ring fills, empties and wraps, *)
(* and stop() can come with the ring in every state.                       *)
(***************************************************************************)
EXTENDS WorkQueue
=============================================================================
