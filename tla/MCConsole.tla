----------------------------- MODULE MCConsole -----------------------------
(* Constants of Console for TLC: two sessions, so that one may take what   *)
(* the other has lost, two streams of one of them, one request that awaits *)
(* the rig.                                                                *)
EXTENDS Console
=============================================================================
