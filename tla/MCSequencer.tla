---------------------------- MODULE MCSequencer ----------------------------
(* Sequencer among two stations, with four messages that concern us.       *)
EXTENDS Sequencer

MCStations == {"k1abc", "w9xyz"}
============================================================================
