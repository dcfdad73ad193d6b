----------------------------- MODULE MCMemPool ------------------------------
(***************************************************************************)
(* Four slots: every order of acquire and release, through exhaustion and  *)
(* back.  SIZE_MAX only has to be no slot.                                 *)
(***************************************************************************)
EXTENDS MemPool
=============================================================================
