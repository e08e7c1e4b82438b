---------------------------- MODULE MCSpanGuard ----------------------------
(***************************************************************************)
(* A small instance of SpanGuard for TLC.                                  *)
(***************************************************************************)
EXTENDS SpanGuard, TLC
=============================================================================
