--------------------------- MODULE MCConnections ----------------------------
(***************************************************************************)
(* Few slots, guards and read buffers, so that every pool runs out and     *)
(* every slot is recycled.                                                 *)
(***************************************************************************)
EXTENDS Connections
=============================================================================
