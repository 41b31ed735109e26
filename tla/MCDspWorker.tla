---------------------------- MODULE MCDspWorker ----------------------------
(* DspWorker with the two callers of the server, and two calls of each.    *)
EXTENDS DspWorker

MCEncoders == {"encode"}
MCDecoders == {"decode"}
============================================================================
