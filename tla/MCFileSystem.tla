---------------------------- MODULE MCFileSystem ----------------------------
(***************************************************************************)
(* Two opens, two reads of two lengths and two threads: a descriptor is    *)
(* closed and given out again while callbacks are due, a buffer is         *)
(* replaced and a file closed during a read of it.                         *)
(***************************************************************************)
EXTENDS FileSystem
=============================================================================
