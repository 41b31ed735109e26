------------------------------ MODULE MCRxRing ------------------------------
(* Constants of RxRing for TLC: two slots and a remainder in the ring, and  *)
(* blocks that do not divide a slot.                                       *)
EXTENDS RxRing
=============================================================================
