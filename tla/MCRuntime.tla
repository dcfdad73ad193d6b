----------------------------- MODULE MCRuntime -----------------------------
(***************************************************************************)
(* Two timers whose delay is negative, zero or positive and whose          *)
(* identifiers may collide, two Servers and two handlers.                  *)
(***************************************************************************)
EXTENDS Runtime

MCDelays == {-1, 0, 1}
=============================================================================
