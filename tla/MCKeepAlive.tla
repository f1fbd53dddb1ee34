----------------------------- MODULE MCKeepAlive -----------------------------
(* KeepAlive with a unit of 10 s: a ping every 30 s, frames that take up to   *)
(* 10 s.                                                                      *)
EXTENDS KeepAlive

MCHorizon == 0 .. 24
=============================================================================
