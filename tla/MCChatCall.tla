----------------------------- MODULE MCChatCall -----------------------------
(***************************************************************************)
(* Small instances of ChatCall for TLC.                                    *)
(***************************************************************************)
EXTENDS ChatCall, TLC

CONSTANTS c1, c2
=============================================================================
