----------------------------- MODULE MCStreams -----------------------------
(* Constants of Streams for TLC.                                           *)
EXTENDS Streams
=============================================================================
