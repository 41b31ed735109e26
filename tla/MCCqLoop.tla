----------------------------- MODULE MCCqLoop -----------------------------
(* CqLoop with one other station and two messages that concern us.         *)
EXTENDS CqLoop

MCStations == {"k1abc"}
===========================================================================
