----------------------------- MODULE MCSlotTx -----------------------------
(* SlotTx with one other station and a waveform that is a third of a slot.       *)
EXTENDS SlotTx

MCStations == {"k1abc"}
===========================================================================
