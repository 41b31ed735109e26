----------------------------- MODULE MCCapture -----------------------------
(* Constants of Capture for TLC.                                           *)
EXTENDS Capture
=============================================================================
