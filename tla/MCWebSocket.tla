---------------------------- MODULE MCWebSocket ----------------------------
(***************************************************************************)
(* Two frames from the client, empty or longer than a read buffer and with *)
(* the second form of a length, cut into reads of one byte, half a buffer  *)
(* or a whole one; the script sends at the sizes on both sides of each     *)
(* change of form.                                                         *)
(***************************************************************************)
EXTENDS WebSocket
=============================================================================
