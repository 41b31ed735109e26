---------------------------- MODULE MCRumlogSync ----------------------------
(***************************************************************************)
(* One station on one band. A time is a minute and the window two: 1 and 2 *)
(* are in one window of the pull but in two buckets of the push, 4 is in   *)
(* the window of 2 and not in that of 1. Batches of two; two failures.     *)
(***************************************************************************)
EXTENDS RumlogSync
=============================================================================
