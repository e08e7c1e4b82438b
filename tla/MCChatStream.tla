---------------------------- MODULE MCChatStream ----------------------------
(***************************************************************************)
(* A small instance of ChatStream for TLC.                                 *)
(***************************************************************************)
EXTENDS ChatStream, TLC

CONSTANTS t1, t2
=============================================================================
